\* Two tunnels with two targets, a hostname, every listing of up to two zones,
\* overlapping goroutines and a failing call.  Three requests: enough to route
\* the hostname, delete its tunnel and create it again, or to change the target
\* twice while the first goroutine is at work.
CONSTANTS
    Letters = {"a"}
    ZoneLength = 3
    NameLength = 5
    MaxZones = 2
    DnsTunnels = {t1, t2}
    CFTargets = {c1, c2}
    Hostnames <- Nested
    Nowhere = Nowhere
    Unread = Unread
    MaxSaves = 3
    MaxDnsFaults = 1

SPECIFICATION DnsSpec
SYMMETRY Interchangeable
CHECK_DEADLOCK FALSE
INVARIANTS
    DnsFollowsRoutes
    LongestSuffix
PROPERTY SiblingsKept
