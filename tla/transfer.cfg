\* Every path of up to three elements, two files that change while they are
\* packed, two imports.
CONSTANTS
    Names = {".", "..", "..a", "s", "t", "a"}
    StartsDotDot = {"..", "..a"}
    MaxLength = 3
    Source <- SourceStack
    Target <- TargetStack
    NFiles = 2
    MaxSize = 1
    MaxChanges = 2
    MaxImports = 2
    Masked = TRUE
    Targets = {"absent", "old"}

SPECIFICATION TransferSpec
CHECK_DEADLOCK FALSE
INVARIANTS
    ImportIsWhole
    KeptBundlesAreWhole
    DataFollowsMount
