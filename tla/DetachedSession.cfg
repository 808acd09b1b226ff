SPECIFICATION FairSpec
CONSTANTS
    Clients = {c1, c2}
    MaxCalls = 2
    MaxBatch = 2
    Kids = {101}
    MaxMessages = 1
    MaxNotes = 1
    MaxCloses = 2
    MaxEscapes = 1
INVARIANTS OneServer ParkedTurnTrue NoPoisonedResume
PROPERTIES KeepsLedger ParkedTurnSettled KidHeard
CHECK_DEADLOCK FALSE
