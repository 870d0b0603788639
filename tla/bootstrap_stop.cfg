CONSTANTS
  Proc = {p1, p2}
  Req = {}
  Capacity = 1
  MaxDeaths = 1
  MaxFaults = 1
  Free = Free
  Bare = Bare
  None = None
  Cmd = {c1, c2}
  MaxRuns = 1
SPECIFICATION BootstrapSpec
PROPERTIES StopMeansReleased
CHECK_DEADLOCK FALSE
