\* Every interleaving of exporter and puller, failing commands and a power loss
\* on each side.
CONSTANTS
    MaxRuns = 3
    SourceKeep = 1
    KeepDaily = 2
    KeepPoints = 1
    PeriodLength <- WeekAndMonth
    MaxSourceCrashes = 1
    MaxPullCrashes = 1
    MaxFails = 1

SPECIFICATION FairSpec
CHECK_DEADLOCK FALSE
INVARIANTS
    KeptRunsAreWhole
    LatestIsWhole
PROPERTY NewestArrives
