SPECIFICATION FairSpec
CONSTANTS
    Clients = {c1, c2}
    Agents = {a1}
    NoAgent = none
    Budget = 1
    Batch = 1
    EphemeralCap = 1
    MaxLog = 2
    MaxNotices = 1
    MaxVersions = 1
    MaxSeq = 2
    MaxChanges = 3
INVARIANTS SeqOrdered DurableDelivered MemoryDelivered
PROPERTIES EventuallyDelivered
CHECK_DEADLOCK FALSE
