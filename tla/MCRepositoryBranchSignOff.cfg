SPECIFICATION Spec
CONSTANTS
  r1 = r1
  r2 = r2
  Runs <- MCRuns
  None = None
  MAX_ATTEMPTS = 2
  MaxHeads = 2
  MaxForced = 1
  MaxFaults = 1
INVARIANT
  SignOffIsCarriedOrFollows
CHECK_DEADLOCK FALSE
