SPECIFICATION LiveSpec
CONSTANTS
  Job = {j1, j2}
  HeadSHA = {h1, h2}
  FirstHead = h1
  MaxAttempts = 2
  Disturbances = {"push", "rerun", "cancel", "timeout", "stop", "crash", "leader"}
  MaxDisturbances = 2
  MaxFaults = 1
INVARIANTS
  TypeOK
  OneUnfinishedPerJob
  NoStranding
  EndedRunCannotSpend
  ReapOnlyDead
  PendingHeadHasWork
PROPERTIES
  EndedReviewsStayEnded
CHECK_DEADLOCK FALSE
