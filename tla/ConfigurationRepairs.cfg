SPECIFICATION Spec
CONSTANTS
    Values <- MCValues
    Bases <- MCBases
    MaxChanges = 2
INVARIANT TypeOK
INVARIANT SpellingIsIrrelevant
PROPERTY BlameIsComplete
PROPERTY RepairsSucceed
CHECK_DEADLOCK FALSE
