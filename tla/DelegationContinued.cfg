SPECIFICATION Spec
CONSTANTS
    MaxCalls = 2
    MaxSetbacks = 0
INVARIANTS ContinuedTold
CHECK_DEADLOCK FALSE
