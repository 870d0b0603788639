SPECIFICATION GuestSpec
CHECK_DEADLOCK FALSE
CONSTANTS
    Attempt = {a1, a2}
    Nobody = Nobody
    Guarded = TRUE
    MaxFaults = 1
INVARIANTS
    RetryAgrees
