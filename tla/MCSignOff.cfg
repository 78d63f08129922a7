SPECIFICATION Spec
CONSTANTS
  t1 = t1
  t2 = t2
  k1 = k1
  old = old
  formatted = formatted
  new = new
  Tabs <- MCTabs
  Keys <- MCKeys
  Codes <- MCCodes
  Meaning <- MCMeaning
  Contents <- MCContents
  Gone = Gone
  None = None
  MaxSnapshots = 3
  MaxRevisions = 2
  MaxDecisions = 2
  MaxRequests = 3
INVARIANTS
  TypeOK
  ApprovalsStandWithTheCode
  TakenBackStays
SYMMETRY MCSymmetry
CHECK_DEADLOCK FALSE
