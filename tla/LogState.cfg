\* Every interleaving of appends, folds, clears, a walk and process ends.
SPECIFICATION FairStateSpec
CONSTANTS
    Budget = 1
    Limit = 2
    MaxLog = 3
    MaxDeltas = 1
    MaxStarts = 1
INVARIANTS StateMirrorsLog WalkLosesNothing
PROPERTIES WalkCatchesUp
CHECK_DEADLOCK FALSE
