SPECIFICATION Spec
CONSTANTS
  q1 = q1
  q2 = q2
  Readers <- MCReaders
  None = None
  MaxGrants = 3
  MaxExpiries = 2
  MaxFaults = 2
INVARIANTS
  TypeOK
  OneTimeTokensAreUsedOnce
  RowIsTheLatestGrant
  DisconnectRevokesTheGrant
SYMMETRY MCSymmetry
CHECK_DEADLOCK FALSE
