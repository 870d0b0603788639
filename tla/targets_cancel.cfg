SPECIFICATION Spec
CONSTANTS
  enroll = enroll
  again = again
  clear = clear
  vm1 = vm1
  vm2 = vm2
  None = None
  Key = {enroll, again, clear}
  Machine = {vm1, vm2}
  Want <- Wants
  FaultPoints = {"effect"}
  MaxTries = 3
  MaxCrashes = 1
  MaxFaults = 1
PROPERTIES
  CancelledHadNoEffect
CHECK_DEADLOCK FALSE
