SPECIFICATION Spec
CONSTANTS
    Fore = {f1, f2}
    Back = {b1}
    Cap = 1
    QueueCap = 1
    MaxStuck = 1
INVARIANTS SlotsAccounted FreedKeepRunning
PROPERTIES ParkedServed
CHECK_DEADLOCK FALSE
