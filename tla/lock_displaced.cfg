SPECIFICATION Spec
CONSTANTS
  c1 = c1
  c2 = c2
  c3 = c3
  p1 = p1
  p2 = p2
  p3 = p3
  host = host
  NoCall = NoCall
  Call = {c1, c2, c3}
  Proc = {p1, p2, p3}
  ProcOf <- OneEach
  RuntimeOf <- OneRuntime
  Exits = {p1}
  FaultModes = {FALSE}
INVARIANTS
  Exclusive
