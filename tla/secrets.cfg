\* Two requests at a time, two keys and two values.
CONSTANTS
    Handlers = {h1, h2}
    EnvKeys = {k1, k2}
    Values = {v1, v2}
    Mask = Mask

SPECIFICATION Spec
SYMMETRY Symmetry
CHECK_DEADLOCK FALSE
INVARIANTS
    MaskNotStored
    NothingLeaks
    ExportImportIdentity
PROPERTIES
    UpdateKeepsSecrets
