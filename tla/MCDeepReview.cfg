SPECIFICATION FairSpec
CONSTANTS
  c1 = c1
  Cancellers <- MCCancellers
  NFiles = 2
  Slots = 2
  MAX_TURNS = 2
  Cost <- MCCost
  MaxFaults = 1
  MaxLateFaults = 1
INVARIANTS
  TypeOK
  CoverageIsConsistent
  UsageIsCharged
PROPERTIES
  ClosersAgree
  CancelClosesTheReview
CHECK_DEADLOCK FALSE
