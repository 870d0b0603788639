SPECIFICATION Spec
CONSTANTS
  enroll = enroll
  again = again
  clear = clear
  vm1 = vm1
  vm2 = vm2
  None = None
  Key = {enroll, again, clear}
  Machine = {vm1, vm2}
  Want <- Wants
  FaultPoints = {"reserve", "cancel", "hash", "intent", "consume", "commit", "sync", "receipt", "audit", "mark", "release"}
  MaxTries = 3
  MaxCrashes = 1
  MaxFaults = 1
INVARIANTS
  ChangeIsRecorded
PROPERTIES
  TargetJournalRefined
CHECK_DEADLOCK FALSE
