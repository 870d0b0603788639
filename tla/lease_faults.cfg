SPECIFICATION LeaseSpec
CONSTANTS
  s1 = s1
  s2 = s2
  s3 = s3
  t1 = t1
  p1 = p1
  p2 = p2
  p3 = p3
  host = host
  wsl = wsl
  None = None
  Session = {s1, s2, s3}
  Scan = {t1}
  Proc = {p1, p2, p3}
  ProcOf <- Procs
  RuntimeOf <- TwoRuntimes
  Exits = {p1, p2}
  TTL = 1
  MaxTime = 1
  MaxGen = 3
  FaultModes = {TRUE, FALSE}
INVARIANTS
  HolderKeepsLease
PROPERTIES
  GenerationsIncrease
  ScanClearsDead
CHECK_DEADLOCK FALSE
