SPECIFICATION FairSpec
CONSTANTS
  c1 = c1
  c2 = c2
  r1 = r1
  r2 = r2
  r3 = r3
  Callers <- MCCallers
  Runs <- MCRuns
  NoRun = NoRun
  AI_MAX_MODEL_STEPS = 1
  MaxFaults = 2
  MaxLinkFaults = 1
INVARIANTS
  TypeOK
  LinkIsUnique
PROPERTIES
  LatecomersOnlyFail
  ImplementsOneRun
  StartsFinish
CHECK_DEADLOCK FALSE
