\* Two overlapping operations of four, two projects of one id, a failing command.
CONSTANTS
    Procs = {p1, p2}
    MaxGen = 2
    MaxOps = 4
    MaxFailures = 1

SPECIFICATION Spec
CHECK_DEADLOCK FALSE
INVARIANTS
    RecordsAreOwned
    NothingLeftBehind
    StatusMatchesHost
