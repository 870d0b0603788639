SPECIFICATION Spec
CHECK_DEADLOCK FALSE
CONSTANTS
    Size = {1, 2}
    MaxBytes = 3
    ReadLimit = 2
    MaxChunks = 4
    Reader = {}
    Asks = {0}
    Waiter = {w1}
    ChanCap = 1
INVARIANTS
    MatchIsFound
