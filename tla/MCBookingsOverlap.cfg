CONSTANTS
  Staff = 1  WeekStaff = 2  Starts = {1, 3}  Ends = {2}  Duration = 2  Buffer = 1  Manual = TRUE
  Keep = keep
  c1 = c1  c2 = c2  c3 = c3  k1 = k1  k2 = k2
  Creates = {c1, c2}  Keys = {k1}  KeyOf <- MCOneKey
  Edits = {e1}  MarksMissed = {m1}
  MaxActive = 2  MaxStamp = 1  Faults = TRUE
SPECIFICATION Spec
INVARIANTS NotOversold KeyCreatesOnce
PROPERTY EditReplacesSeen
SYMMETRY MCSymmetry
CHECK_DEADLOCK FALSE
