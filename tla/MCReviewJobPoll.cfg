SPECIFICATION Spec
CONSTANTS
  Job = {j1, j2}
  HeadSHA = {h1, h2}
  FirstHead = h1
  MaxAttempts = 2
  Disturbances = {"push"}
  MaxDisturbances = 2
  MaxFaults = 0
INVARIANT UnreviewedHeadIsPolled
CHECK_DEADLOCK FALSE
