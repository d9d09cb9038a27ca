SPECIFICATION ReseedFairSpec
CONSTANTS
    d1 = d1
    r1 = r1
    v1 = v1
    f1 = f1
    p1 = p1
    k1 = k1
    Donors = {d1}
    Receivers = {r1}
    Volunteers = {v1}
    Donations = {f1}
    Proposals = {p1}
    Pickups = {k1, k2}
    Workers = {w1, seeder}
    Seeder = seeder
    SeedRows <- MCSeedRows
    SeedOf <- MCSeedOf
    None = None
    NotifCap = 2
INVARIANTS
    OnePickupPerProposal
PROPERTIES
    NothingWithdrawn
    NobodyWaitsForEver
