SPECIFICATION FairSpec
CONSTANTS
  MaxRevisions = 2
  MaxSyncs = 2
  MaxRequests = 1
  MaxFaults = 1
  CancelledSyncs <- MCCancelledSyncs
  MAX_ATTEMPTS = 2
  MAX_PASSES = 2
INVARIANTS
  TypeOK
  OneRunServesEveryRequest
PROPERTIES
  WhatIsShownServes
  SynchronizationEnds
CHECK_DEADLOCK FALSE
