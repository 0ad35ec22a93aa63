SPECIFICATION Spec
CONSTANTS
    Processes = {p1, p2}
    WEIGHTS = 3
    MAX_RUNS = 2
INVARIANTS FontsTypeOK QuietCacheIsWhole LoneRunsHaveEveryFont
\* The processes may all have made their runs.
CHECK_DEADLOCK FALSE
