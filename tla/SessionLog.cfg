\* Every fault the code meets.
SPECIFICATION FairSpec
CONSTANTS
    EventIds = {e1, e2, k1, k2}
    Claims = {k1, k2}
    Torn = torn
    Faults = {"crash", "io", "dup"}
    MaxRestarts = 2
    MaxAppends = 4
INVARIANTS ChainIntegrity AckedReadable OneClaim VerifiedMeansChained
PROPERTIES AppendOnly VerifyProgresses
CHECK_DEADLOCK FALSE
