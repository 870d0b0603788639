SPECIFICATION DaemonSpec
CHECK_DEADLOCK FALSE
CONSTANTS
  Proc = {p1, p2, p3}
  Req = {r1, r2}
  Capacity = 1
  MaxDeaths = 1
  MaxFaults = 1
  Free = Free
  Bare = Bare
  None = None
INVARIANTS
  SoleOwner
  RecoveryIsAlone
PROPERTIES
  StopCompletes
