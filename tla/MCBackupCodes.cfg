SPECIFICATION MCSpec
CONSTANTS
  r1 = r1
  r2 = r2
  r3 = r3
  user = user
  address = address
  Requests <- MCRequests
  Keys <- MCKeys
  KeysOf <- MCKeysOf
  Limit = 1
  Window = 3
  Retention = 5
  Wait = 1
  MaxTime = 7
  Faults = TRUE
  Size = 2
  MaxSets = 3
INVARIANTS
  FewInAnyInterval
  CodesInv
  CodeWorksOnce
PROPERTY
  EveryRequestEnds
CHECK_DEADLOCK FALSE
