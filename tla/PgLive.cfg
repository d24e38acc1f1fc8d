SPECIFICATION LiveSpec
CONSTANTS
    Query = {q1, q2}
    Retryable = {q2}
    Conn = {c1, c2}
    NoQuery = NoQuery
    NoConn = NoConn
    MinConns = 1
    MaxFaults = 3
    Member = {m1, m2}
    Nobody = Nobody
    Ghost = Ghost
PROPERTIES
    Answered PoolIsRestored RoleTaken
