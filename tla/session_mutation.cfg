SPECIFICATION Spec
CONSTANTS
  c1 = c1
  c2 = c2
  c3 = c3
  write = write
  open = open
  k1 = k1
  f1 = f1
  f2 = f2
  m1 = m1
  m2 = m2
  None = None
  Call = {c1, c2, c3}
  Op = {write, open}
  Key = {k1}
  Flight = {f1, f2}
  Machine = {m1, m2}
  OpOf <- Ops
  AuthsOf <- Auths
  KindOf <- Kinds
  KeyOf <- Keys
  FlightOf <- Flights
  MachineOf <- Machines
  Impatient = {c1, c3}
  MaxCrashes = 1
  MaxFaults = 1
INVARIANTS
  OneAnswer
  EffectIsRecorded
PROPERTIES
  JournalRefined
CHECK_DEADLOCK FALSE
