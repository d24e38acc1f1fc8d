SPECIFICATION Spec
CONSTANTS
    Pid = {p1, p2, p3, p4}
    Name = {helper, worker}
    Worker = {worker}
    Free = Free
    RapidLimit = 1
    Ceiling = 2
    MaxReloads = 1
    MaxFaults = 1
\* The master comes to its end.
CHECK_DEADLOCK FALSE
SYMMETRY Symmetric
INVARIANT
    OnePerName
