\* Two projects of every legacy shape, crashes, a lost or exchanged key, and
\* updates between starts.
CONSTANTS
    Projects = {p1, p2}
    Keys = {k1, k2}
    NoKey = NoKey
    ShortKey = ShortKey
    Plain = Plain
    Empty = Empty
    RowVars = {row}
    YamlVars = {yaml}
    MaxCrashes = 2
    MaxStores = 2

SPECIFICATION FairSpec
CHECK_DEADLOCK FALSE
INVARIANTS
    NoPlaintextWhenUp
    RowsCurrent
    EnvSurvives
    KeyOpensDatabase
PROPERTY KeyedStartsSucceed
