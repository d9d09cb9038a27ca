SPECIFICATION FairSpec
CONSTANTS
    u1 = u1
    u2 = u2
    c1 = c1
    Users = {u1, u2}
    Conversations = {c1}
    Members <- OneChat
    Senders = {w1, w2}
    Streams = {s1, s2}
    Buffer = 1
    MaxMessages = 2
    None = None
INVARIANTS
    TypeOK
    NothingMissed
    FeedInOrder
    HubExact
PROPERTIES
    EverySendEnds
    StreamsEnd
