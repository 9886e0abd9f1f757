CONSTANTS
  Staff = 1  WeekStaff = 1  Starts = {1, 3}  Ends = {}  Duration = 2  Buffer = 0  Manual = FALSE
  Keep = keep
  c1 = c1  c2 = c2  c3 = c3  k1 = k1  k2 = k2
  Creates = {c1, c2, c3}  Keys = {c1, c2, c3}  KeyOf <- MCOwnKey
  Edits = {e1}  MarksMissed = {}
  MaxActive = 2  MaxStamp = 2  Faults = FALSE
SPECIFICATION Spec
INVARIANT NeverOverbooked
CHECK_DEADLOCK FALSE
