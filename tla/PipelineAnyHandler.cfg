SPECIFICATION Spec
CONSTANTS
    r1 = r1
    v = v
    bad = bad
    none = none
    Requests = {r1}
    ValidHeaders = {v}
    InvalidHeaders = {bad}
    NoHeader = none
    HandlerCodes <- AnyCode
    HandlerOps <- AllOps
    MaxOps = 4
INVARIANTS
    TypeOK
    AccessStatusIsSent
    PanicIsAnswered
    ErrorDocumentStandsAlone
PROPERTY
    EveryRequestIsRecorded
