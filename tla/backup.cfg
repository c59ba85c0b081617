\* Two runs and two restores on two goroutines, expiring contexts, a failing
\* start or command and a crash.  A tick of the clock is longer than newestMatch's
\* tolerance: files of the tick a run began in pass for its own.
CONSTANTS
    Workers = {w1, w2}
    Nobody = Nobody
    NoFile = NoFile
    NoRun = NoRun
    Skew = 0
    MaxRuns = 2
    MaxClock = 1
    MaxRestores = 2
    MaxFaults = 1

SPECIFICATION FairSpec
CHECK_DEADLOCK FALSE
INVARIANTS
    InProgressIsOwned
    OneInFlight
PROPERTIES
    LogRefinement
    RecordedFileIsOwn
    BackupsEnd
