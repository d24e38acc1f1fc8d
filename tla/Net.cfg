SPECIFICATION Spec
CONSTANTS
    Nums = {1, 2}
    MaxRegs = 3
    MaxStops = 1
    Req = {r1}
    MaxCalls = 3
    MaxFaults = 2
    MaxPieces = 2
    Fwd = {f1}
    MaxReads = 2
    Msg = {m1, m2}
    Rcpts = 2
    Implicit = FALSE
    Login = TRUE
    MaxSessions = 2
    Xfer = {x1, x2, x3}
    Fds = {d1, d2}
    MaxLosses = 2
    MaxFrames = 3
    Size = 2
    MaxPending = 4
    PingAfter = 2
    CloseAfter = 1
    Tables <- NetTables
    Paths <- NetPaths
    Methods = {"GET", "POST", "OPTIONS"}
INVARIANTS
    TypeOK
    CalledForItsOwn
    SentIsDelivered
    OutcomesAreTrue
    ConnectionsHold
    RightRouteAnswers
PROPERTIES
    NobodyStarves
    
CHECK_DEADLOCK FALSE
