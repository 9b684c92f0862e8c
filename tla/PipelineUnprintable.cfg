SPECIFICATION Spec
CONSTANTS
    r1 = r1
    v = v
    bad = bad
    none = none
    Requests = {r1}
    ValidHeaders = {v}
    InvalidHeaders = {bad}
    NoHeader = none
    HandlerCodes = {200}
    HandlerOps = {"PanicUnprintable"}
    MaxOps = 2
INVARIANT
    EveryEarlyPanicGets500
