SPECIFICATION IntakeFairSpec
CONSTANTS
  Modes <- MCModes
  None = None
  MaxRevisions = 2
  MaxMails = 2
  MaxUpsets = 3
INVARIANTS
  IntakeTypeOK
  AcceptedUpdateIsShown
  QueueFollowsTheOwner
PROPERTIES
  EndIsShown
CHECK_DEADLOCK FALSE
