SPECIFICATION Spec
CONSTANTS
    Pubkeys = {p1}
    Jobs = {j1, j2}
    JOBS_THRESHOLD = 1
    MaxRetries = 3
    MaxCrashes = 0
INVARIANT NoDoubleSettlement
CHECK_DEADLOCK FALSE
