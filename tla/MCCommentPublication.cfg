SPECIFICATION Spec
CONSTANTS
  q1 = q1
  q2 = q2
  Requests <- MCRequests
  Kinds <- MCKinds
  None = None
  MaxRows = 2
  MaxDeletes = 1
  MaxFaults = 2
INVARIANTS
  TypeOK
  OneConversation
PROPERTIES
  PublishedIsFinal
  AskingAgainPublishes
CHECK_DEADLOCK FALSE
