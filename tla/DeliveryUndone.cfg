SPECIFICATION Spec
CONSTANTS
    Donors = {d1}
    Receivers = {r1}
    Volunteers = {v1}
    Donations = {f1}
    Proposals = {p1, p2}
    Pickups = {k1, k2}
    Workers = {w1, w2}
    None = None
    NotifCap = 2
SYMMETRY Symmetry
INVARIANTS
    DeliveryStands
