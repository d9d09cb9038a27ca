SPECIFICATION ChatSpec
CONSTANTS
    d1 = d1
    r1 = r1
    v1 = v1
    v2 = v2
    Donors = {d1}
    Receivers = {r1}
    Volunteers = {v1, v2}
    Donations = {f1}
    Proposals = {p1}
    Pickups = {k1}
    Workers = {w1}
    None = None
    NotifCap = 2
    Rank <- MCRank
    Convs = {c1, c2, c3}
    Openers = {o1, o2}
SYMMETRY Symmetry
INVARIANTS
    OneConversationPerPair
    TalkersRelated
    RelatedIffParties
