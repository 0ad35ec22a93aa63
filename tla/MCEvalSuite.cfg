SPECIFICATION Spec
CONSTANTS
    None = None
    Evals = {e1, e2}
    ScenarioIds <- MCScenarioIds
    Golden <- MCGolden
    Missing <- MCMissing
    MAX_EVALS = 2
    MAX_EDITS = 1
SYMMETRY Suites
INVARIANTS
    EvalTypeOK
    NoDriftIsMissed
    NoFalseAlarm
    CleanSuiteLeavesGoldenRows
CHECK_DEADLOCK FALSE
