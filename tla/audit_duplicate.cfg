SPECIFICATION EvidenceSpec
CHECK_DEADLOCK FALSE
CONSTANTS
    Command = {p1, p2, p3}
    Free = Free
    Bare = Bare
    MaxDeaths = 1
    MaxFaults = 1
INVARIANTS
    EnsureIsIdempotent
