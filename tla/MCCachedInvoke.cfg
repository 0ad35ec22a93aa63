SPECIFICATION Spec
CONSTANTS
    None = None
    old = old
    new = new
    Callers = {old, new}
    Build <- MCBuild
    Models = {"m1", "m2"}
    Prompts = {"p"}
    Schemas = {"s"}
    Texts = {"t1", "t2"}
    MAX_RETRY_ATTEMPTS = 2
    MAX_CALLS = 2
    MAX_CLEARS = 1
\* The processes may all have made their calls.
CHECK_DEADLOCK FALSE
INVARIANTS
    CacheTypeOK
    RowsAnswerTheirRequest
    RetryBudget
    NextCallFindsTheAnswer
PROPERTIES
    KeepsOraclePromise
    CallsRunDown
    CallsEnd
