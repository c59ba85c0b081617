\* The polling loop by itself: pushes, failures and crashes, no request.
CONSTANTS
    Services = {s1, s2}
    Digests = {d1, d2, d3}
    NoDigest = NoDigest
    Down = Down
    NoWorker = NoWorker
    Poller = poller
    Requests = {}
    Workers = {poller}
    Enabled = TRUE
    Commands = {}
    MaxRequests = 0
    MaxPushes = 2
    MaxCrashes = 1
    MaxFaults = 1

SPECIFICATION FairSpec

INVARIANTS
    DeployingHasDeployer
    RecordedIsRunning

PROPERTIES
    Converges
