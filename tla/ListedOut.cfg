SPECIFICATION Spec
CONSTANTS
    d1 = d1
    d2 = d2
    r1 = r1
    r2 = r2
    v1 = v1
    v2 = v2
    Donors = {d1}
    Receivers = {r1}
    Volunteers = {v1}
    PageSize = 1
    InboxPage = 1
    MaxDonations = 2
    MaxProposals = 3
    PanelRows = 1
    PanelReceivers = 1
    PhoneRows = 1
    Searches <- MCSearches
INVARIANTS
    NothingStuck
CHECK_DEADLOCK FALSE
