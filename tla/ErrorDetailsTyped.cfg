SPECIFICATION Spec
CONSTANTS
    Keys <- MCKeys
    Leaves <- MCLeaves
    TypedValues <- MCTypedValues
    Queries <- MCQueries
    MaxErrors = 2
    MaxCopies = 3
    MaxWrites = 2
    MaxDepth = 4
PROPERTY ErrorsAreImmutable
CHECK_DEADLOCK FALSE
