SPECIFICATION Spec
CONSTANTS
  c1 = c1
  c2 = c2
  p1 = p1
  Calls <- MCCalls
  Pruners <- MCPruners
  Kinds <- MCKinds
  None = None
  Content = Content
  MaxFaults = 2
INVARIANTS
  TypeOK
  RowsNameTheObjects
PROPERTIES
  VerifiedReferencesStay
  OrphansAreCollected
CHECK_DEADLOCK FALSE
