SPECIFICATION Spec
CHECK_DEADLOCK FALSE
CONSTANTS
    o1 = o1
    o2 = o2
    o3 = o3
    k1 = k1
    k2 = k2
    c1 = c1
    None = None
    Op = {o1, o2, o3}
    Key = {k1, k2}
    KeyOf <- ThreeTwoKeys
    Canceller = {c1}
    CancelOf <- CancelFirst
    Capacity = 1
    ListLimit = 3
    ScanLimit = 3
    MaxCrashes = 1
    FaultModes = {FALSE}
INVARIANTS
    RetryGetsReceipt
