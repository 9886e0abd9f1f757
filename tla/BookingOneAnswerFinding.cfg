CONSTANTS
  Appointments = {b1}  Jobs = {j1}  Answers = {a1, a2}  Marks = {}
  MaxTokens = 1  Failing = FALSE
SPECIFICATION AttendanceSpec
INVARIANT OneAnswer
CHECK_DEADLOCK FALSE
