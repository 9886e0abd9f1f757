SPECIFICATION Spec
CONSTANTS
  Keys = {k1}
  Amounts = {a1, a2}
  Dates <- MCDates
  None = none
  MaxAttempts = 2
  MaxClock = 1
INVARIANT
  RetryReplays
CHECK_DEADLOCK FALSE
