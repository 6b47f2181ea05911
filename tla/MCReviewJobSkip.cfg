SPECIFICATION Spec
CONSTANTS
  Job = {j1, j2}
  HeadSHA = {h1, h2}
  FirstHead = h1
  MaxAttempts = 2
  Disturbances = {"stop"}
  MaxDisturbances = 1
  MaxFaults = 0
INVARIANT SkippedHeadSaysSo
CHECK_DEADLOCK FALSE
