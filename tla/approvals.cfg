SPECIFICATION MCSpec
CHECK_DEADLOCK FALSE
CONSTANTS
    NoneGiven = NoneGiven
    Absent = Absent
    Torn = Torn
    Root = Root
    Issuer = {i1, i2}
    User = {u1, u2}
    Params = {a, b}
    Checkpoint = {c1, c2}
    Pinned = c1
    Contained = TRUE
    MaxClock = 2
    ValidFor = 1
    MaxCrashes = 1
    MaxFaults = 1
    MaxDrifts = 1
SYMMETRY Symmetry
INVARIANTS
    ApprovalsHold
    PolicyIsSound
