SPECIFICATION Spec
CONSTANTS
    MaxCalls = 2
    MaxSetbacks = 2
INVARIANTS OneReturnOnceBuilt OneDriver NoSecondReport EndingKept
CHECK_DEADLOCK FALSE
