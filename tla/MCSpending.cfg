SPECIFICATION Spec
CONSTANTS
  Review = {r1, r2}
  FollowUp = {f1}
  Index = {i1}
  Slots = 2
  ReviewsPerDay = 1
  MaxLeaseFaults = 1
  Run = {a}
  Conn = {1, 2}
  AgentMax = 5
  PerMonth = 7
  MinLeft = 1
  Cost = {1, 3}
  Estimate = 2
  MaxSteps = 3
  MaxResends = 1
  MaxSpendFaults = 1
INVARIANTS TypeOK CapOvershootBounded SpendingHeld
PROPERTIES SlotsAreASemaphore JobsAndRunsEnd
CHECK_DEADLOCK FALSE
