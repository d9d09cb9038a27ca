SPECIFICATION Spec
CONSTANTS
    Donors = {d1}
    Receivers = {r1}
    Volunteers = {v1}
    Donations = {f1, f2}
    Proposals = {p1, p2, p3}
    Pickups = {k1, k2, k3}
    Workers = {w1}
    None = None
    NotifCap = 2
SYMMETRY Symmetry
INVARIANTS
    OneLiveProposal
    StatusesAgree
    DeliveredOnce
PROPERTIES
    ImplementsLifecycle
