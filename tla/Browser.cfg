SPECIFICATION FairSpec
CONSTANTS
    u1 = u1
    u2 = u2
    Users = {u1, u2}
    Slots = {1, 2, 3}
    MaxCalls = 2
    MaxVisits = 3
    None = None
INVARIANTS
    TypeOK
    TabShowsItsUser
    OwnActionShown
PROPERTIES
    DraftSurvivesFailure
    LoadingEnds
