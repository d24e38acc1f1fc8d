SPECIFICATION Spec
CONSTANTS
    Chan = {a, b}
    Bad = {b}
    Stmt = {s1}
    Limited = {s1}
    MaxCalls = 3
    Name = nm
    None = none
    Row = {r1}
    Alive = 2
    MaxNumbers = 2
    MaxEvents = 2
    Conn = {c1, c2, c3}
    NoConn = noconn
    MinConns = 1
    MaxConns = 2
    MaxQueries = 2
    MaxFaults = 1
    PoolFaults = 1
    Tokens = {1, 2, 3, 4}
    Requests = {q1, q2}
    Life = 4
    Margin = 2
    RetryInitial = 1
    RetryMax = 2
    Timeout = 2
    TokenFaults = 2
    BotLife = 3
    BotRetry = 2
    BotFaults = 2
INVARIANTS
    ListenerKeeps
    SubscriberKeeps
    SizeBounded
    CredentialsKept
PROPERTIES
    ComesBack
CHECK_DEADLOCK FALSE
