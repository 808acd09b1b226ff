SPECIFICATION FairSpec
CONSTANTS
    MaxCalls = 2
    MaxSetbacks = 2
CONSTRAINT FewTogether
PROPERTIES EndingTold BoundaryClosed
CHECK_DEADLOCK FALSE
