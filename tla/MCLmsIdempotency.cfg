SPECIFICATION Spec
CONSTANTS
  Keys = {k1}
  Amounts = {a1, a2}
  Dates <- MCDates
  None = none
  MaxAttempts = 3
  MaxClock = 1
INVARIANTS
  RetryInv
  DatedRetryReplays
PROPERTIES
  PaysOnce
  EveryCallEnds
CHECK_DEADLOCK FALSE
