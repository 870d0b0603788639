SPECIFICATION MCSpec
CONSTANTS
  r1 = r1
  r2 = r2
  r3 = r3
  daemon = daemon
  direct = direct
  k1 = k1
  k2 = k2
  m1 = m1
  a1 = a1
  None = None
  Run = {r1, r2, r3}
  Proc = {daemon, direct}
  Key = {k1, k2}
  Target = {m1}
  Approval = {a1}
  ProcOf <- Procs
  KeyOf <- Keys
  TargetOf <- Targets
  ApprovalOf <- Approvals
  Destructive = {}
  Native = {r3}
  Callers = {TRUE, FALSE}
  Exits = {daemon}
  Command = {daemon, direct, cli}
  Free = Free
  Bare = Bare
  MaxDeaths = 1
  MaxFaults = 1
INVARIANTS
  DispatchIsBacked
  ApprovalSpentOnce
  OneReceiptPerKey
  EarlyReturnRestores
  EvidenceHolds
CHECK_DEADLOCK FALSE
