SPECIFICATION MCSpec
CHECK_DEADLOCK FALSE
CONSTANTS
    r1 = r1
    r2 = r2
    r3 = r3
    Recording = {r1, r2, r3}
    Reader = {q}
    Nobody = Nobody
    Owner <- Owners
    MaxFrames = 2
    Limit = 5
    Capacity = 1
    MaxCrashes = 1
    MaxFaults = 1
    HostOrder <- MCHosts
    local = local
    h1 = h1
    h2 = h2
    VM = {vm}
    Name = {n1, n2}
    Unlisted = Unlisted
    Worker = {w1, w2}
    Caller = {c1}
    MaxRounds = 1
    MaxCalls = 1
    MaxEdits = 1
    Issuer = {i1, i2}
    Executor = {e1}
    Revoker = {v1}
    Plain = {p1}
    Own = Own
    NoOne = NoOne
    MaxLabCrashes = 1
    MaxLabFaults = 1
    MaxEpoch = 1
    Attempt = {a1, a2}
    Guarded = TRUE
INVARIANTS
    InventoryHolds
    RefreshNeverStuck
    RecordingsHold
    GrantsHold
    GuestHolds
PROPERTIES
    PruneSparesActive
    RevokeIsFinal
    DispatchOnGrantedEpoch
