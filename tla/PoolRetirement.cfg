SPECIFICATION SizeSpec
CONSTANTS
    Conn = {c1, c2, c3}
    NoConn = noconn
    MinConns = 1
    MaxConns = 2
    MaxQueries = 2
    MaxFaults = 2
PROPERTY
    LeavesOldInService
CHECK_DEADLOCK FALSE
