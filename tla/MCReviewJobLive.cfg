SPECIFICATION LiveSpec
CONSTANTS
  Job = {j1}
  HeadSHA = {h1, h2}
  FirstHead = h1
  MaxAttempts = 2
  Disturbances = {"cancel", "timeout", "stop", "crash", "leader"}
  MaxDisturbances = 3
  MaxFaults = 1
PROPERTIES
  ReviewsAnswered
CHECK_DEADLOCK FALSE
