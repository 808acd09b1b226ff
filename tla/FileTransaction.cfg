SPECIFICATION Spec
CONSTANTS
    Torn = Torn
    None = None
    Reader = Reader
    a = a
    big = big
    i1 = i1
    i2 = i2
    rw = rw
    ro = ro
    Ceiling = 2
    NewMode = rw
    Ops = {1, 2}
    Contents <- MCContents
    Size <- MCSize
    Inodes = {i1, i2}
    Modes = {rw, ro}
    MaxExt = 1
    MaxCrash = 1
SYMMETRY MCSymmetry
INVARIANTS NothingLost CommitHeld VerdictSound
CHECK_DEADLOCK FALSE
