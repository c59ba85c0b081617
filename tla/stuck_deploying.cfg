\* One manual deploy beside the polling loop; nothing fails.
CONSTANTS
    Services = {s1}
    Digests = {d1, d2}
    NoDigest = NoDigest
    Down = Down
    NoWorker = NoWorker
    Poller = poller
    Requests = {r1}
    Workers = {poller, r1}
    Enabled = TRUE
    Commands = {"deploy"}
    MaxRequests = 1
    MaxPushes = 1
    MaxCrashes = 0
    MaxFaults = 0

SPECIFICATION FairSpec

PROPERTIES
    Converges
