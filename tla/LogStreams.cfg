SPECIFICATION DrainedSpec
CONSTANTS
    Writers = {w1, w2}
    Pieces = 3
    ErrorReports <- EarlyCut
    MaxRecords = 2
    None = None
INVARIANTS
    TypeOK
    NoPieceTwice
    StreamsAgree
PROPERTY
    ImplementsLogContract
