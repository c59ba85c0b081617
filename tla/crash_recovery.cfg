\* The poller and one request of any kind, with a push, a failure and a crash
\* at any step.
CONSTANTS
    Services = {s1}
    Digests = {d1, d2}
    NoDigest = NoDigest
    Down = Down
    NoWorker = NoWorker
    Poller = poller
    Requests = {r1}
    Workers = {poller, r1}
    Enabled = TRUE
    Commands = {"deploy", "rollback", "stop", "start"}
    MaxRequests = 1
    MaxPushes = 1
    MaxCrashes = 1
    MaxFaults = 1

SPECIFICATION FairSpec

INVARIANTS
    TypeOK
    InProgressIsOwned
    DigestsWereDeployed

PROPERTIES
    LogRefinement
    DeploymentsEnd
