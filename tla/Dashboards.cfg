SPECIFICATION Spec
CONSTANTS
    d1 = d1
    d2 = d2
    r1 = r1
    r2 = r2
    v1 = v1
    v2 = v2
    Donors = {d1, d2}
    Receivers = {r1, r2}
    Volunteers = {v1, v2}
    PageSize = 3
    InboxPage = 1
    MaxDonations = 2
    MaxProposals = 2
    PanelRows = 1
    PanelReceivers = 1
    PhoneRows = 1
    Searches <- MCSearches
SYMMETRY Symmetry
INVARIANTS
    TypeOK
    FreshOffersAccepted
    NothingStuck
    PagesTellOneStory
PROPERTIES
    KeepsToLifecycle
CHECK_DEADLOCK FALSE
