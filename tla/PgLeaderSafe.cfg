SPECIFICATION Spec
CONSTANTS
    Proc = {p1, p2}
    Nobody = Nobody
    Ghost = Ghost
    Interval = 1
    MinAnswer = 1
    Together = FALSE
    Prompt = FALSE
    MaxFaults = 2
SYMMETRY Symmetric
INVARIANTS
    TypeOK FreshHolds WorkKeepsLock
PROPERTY
    StepsDownFirst
