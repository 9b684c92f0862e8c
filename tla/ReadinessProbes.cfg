SPECIFICATION Spec
CONSTANTS
    Probes = {r1, r2}
    Conns = {c1, c2}
    Nobody = Nobody
INVARIANT TypeOK
INVARIANT AnswersAreTrue
PROPERTY ProbesEnd
PROPERTY CloseReturns
PROPERTY ReadyAgain
