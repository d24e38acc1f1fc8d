SPECIFICATION Spec
CONSTANTS
    Pid = {p1, p2}
    Free = Free
    Mod = {api}
    Proc = proc
    Conn = {c}
    NoConn = NoConn
    MaxQueries = 3
    Rounds = 4
    Writer = {p, q}
    Inodes = {1, 2, 3, 4, 5, 6, 7, 8}
    MaxSize = 1
    MaxBackups = 2
    MaxLines = 3
    MaxMishaps = 1
    Unseen = FALSE
INVARIANTS
    NoModuleAfterStop 
PROPERTIES
    MasterServes
    StrandedAreAnswered
\* The master, a process, and the lines of the log, come to their end.
CHECK_DEADLOCK FALSE
