\* Two connections of one page, small buffers, and a stop.
CONSTANTS
    Conns = {c1, c2}
    Projects = {p1}
    NoConn = NoConn
    EventBuf = 2
    SendBuf = 1
    MaxEvents = 3
    MaxChanges = 2

SPECIFICATION FairSpec
CHECK_DEADLOCK FALSE
INVARIANTS
    NoPanic
    NoSilentGap
    SubscriptionsFollow
PROPERTY SlowClientsLeave
