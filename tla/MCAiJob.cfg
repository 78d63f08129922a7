SPECIFICATION JobFairSpec
CONSTANTS
  c1 = c1
  c2 = c2
  Cancellers <- MCCancellers
  AI_MAX_MODEL_STEPS = 2
  Cost <- MCCost
  MaxCrashes = 2
INVARIANTS
  JobTypeOK
  OutcomeStands
PROPERTIES
  JobIsPaidOnce
  CancelStopsTheRun
CHECK_DEADLOCK FALSE
