CONSTANTS
  q1 = q1  q2 = q2  d1 = d1
  Qrs = {q1, q2}  Codes = {n1}  Devices = {d1}  Employees = {e1, e2}
  Handlers = {h1, h2}  Nobody = Nobody
  DeviceOf <- MCDeviceOf  IssuedAt <- MCIssuedAt
  Skew = 1  Lifetime = 3  Window = 1  CodeLife = 1  Interval = 3  Day = 3  Handling = 1
  MaxActive = 2  MaxMissed = 1  MaxTime = 4  Faults = TRUE
SPECIFICATION Spec
INVARIANTS TicketPunchesOnce ChainForksOnlyInOverlap ApartPunchesAlternate
SYMMETRY MCSymmetry
CHECK_DEADLOCK FALSE
