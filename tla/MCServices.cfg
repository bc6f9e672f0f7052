CONSTANTS
    Deliveries = {d1, d2}
    Processes = {p1, p2}
    Clients = {c1}
    NoProcess = NoProcess
    Senders = {"c1", "c2"}
    Messages = 2
    TenantLimit = 2
    SessionLimit = 1
    Cases = {"k1", "k2"}
    Types = {"payment", "quality"}
    HighTypes = {}
    Sources = {"s1"}
    CaseWorkers = {"w1", "w2"}
    Requests = 3
    Contents = {"a", "b"}
    KbWorkers = {"w1", "w2"}
    Operations = 2
    Turns = {"t1", "t2"}
    Questions = {"q1", "q2", "q3"}
    Publications = 2
    MaxEntries = 2
    Blocks <- MCBlocks
    DocMax = 4
    Size = 4
    Overlap = 1
    Tiny = 5
    IntroMax = 2
    RowsMin = 1
SPECIFICATION ServicesSpec
CHECK_DEADLOCK FALSE
INVARIANT BoundedOvershoot
INVARIANT OneMessage
INVARIANT PushedIsCommitted
INVARIANT OneContent
INVARIANT Findable
PROPERTY RefusedRecovers
PROPERTY OverdueIsNoticed
PROPERTY StaleLeaves
INVARIANT NothingLost
