SPECIFICATION FairSpec
CONSTANTS
    Blocks = {0,1}
    Shards = 2
    Sources = {1,2,3}
    Logs = {1,2}
    Lease = 3
    WriteWindow = 1
    PassMax = 1
    MaxPuts = 2
INVARIANTS NamedStored CursorBacked
PROPERTIES OrphansReclaimed
