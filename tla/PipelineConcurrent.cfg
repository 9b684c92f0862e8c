SPECIFICATION Spec
CONSTANTS
    r1 = r1
    r2 = r2
    v = v
    bad = bad
    none = none
    Requests = {r1, r2}
    ValidHeaders = {v}
    InvalidHeaders = {bad}
    NoHeader = none
    HandlerCodes <- FinalCodes
    HandlerOps <- PlainOps
    MaxOps = 2
INVARIANTS
    OneAccessRecordComesLast
    RecordsCarrySentId
    OneStatusLine
    GeneratedIdsDiffer
PROPERTY
    ImplementsContract
