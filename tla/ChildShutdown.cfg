SPECIFICATION Spec
CONSTANTS
    Fore = {f1}
    Back = {b1}
    Cap = 2
    QueueCap = 1
    MaxStuck = 2
INVARIANTS TokenOrGate JoinedAll
PROPERTIES JoinEnds
CHECK_DEADLOCK FALSE
