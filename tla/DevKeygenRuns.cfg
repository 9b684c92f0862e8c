SPECIFICATION Spec
CONSTANTS
    Runs = {r1, r2}
    OldKey = k0
INVARIANT TypeOK
INVARIANT SuccessMeansPair
PROPERTY ExistingFilesKept
CHECK_DEADLOCK FALSE
