\* Two connections (four slots), two queries, one of which may be repeated.
SPECIFICATION Spec
CONSTANTS
    Query = {q1, q2}
    Retryable = {q2}
    Conn = {c1, c2, c3, c4}
    NoQuery = NoQuery
    NoConn = NoConn
    MinConns = 2
    MaxFaults = 2
SYMMETRY Symmetric
INVARIANTS
    TypeOK NothingForgotten NotRunTwice CancelHitsItsOwn UndetachedFirst
PROPERTY
    KeepsPromise
