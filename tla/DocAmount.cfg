SPECIFICATION Spec
CONSTANTS
    None = None
    MAX_DOCUMENTS = 1
INVARIANT AmountIsAPlainNumber
CHECK_DEADLOCK FALSE
