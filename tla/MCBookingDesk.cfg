CONSTANTS
  Staff = 1  WeekStaff = 1  Starts = {1, 2, 3}  Ends = {}  Duration = 2  Buffer = 0  Manual = FALSE
  Keep = keep
  c1 = c1  c2 = c2  c3 = c3  k1 = k1  k2 = k2
  Creates = {c1, c2, c3}  Keys = {k1, k2}  KeyOf <- MCKeyOf
  Edits = {e1}  MarksMissed = {m1}
  MaxActive = 1  MaxStamp = 4  Faults = FALSE
  j1 = j1  j2 = j2  a1 = a1  a2 = a2
  Appointments = {b1}  Jobs = {j1, j2}  Answers = {a1, a2}  Marks = {n1}
  MaxTokens = 2  Failing = TRUE
SPECIFICATION DeskSpec
INVARIANTS ExpectedHoldsSeat CancelledHoldsNoSeat NeverOverbooked
           LinksWork AnsweredOnce MissesCounted
SYMMETRY DeskSymmetry
CHECK_DEADLOCK FALSE
