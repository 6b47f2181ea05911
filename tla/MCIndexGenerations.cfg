SPECIFICATION LiveSpec
CONSTANTS
  p1 = p1
  p2 = p2
  Path = {p1, p2}
  Model = {m1, m2}
  FirstModel = m1
  Run = {r1, r2, r3, r4, r5}
  MaxCommit = 2
  Changed <- MCChanged
  MaxAttempts = 2
  MaxFaults = 1
  MaxRebuilds = 1
  MaxChanges = 1
  MaxInAll = 1
INVARIANTS
  TypeOK
  SearchedIsCurrent
  PushesAreIndexed
PROPERTY IndexCatchesUp
CHECK_DEADLOCK FALSE
