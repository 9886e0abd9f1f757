---------------------------- MODULE MCBookingDesk ----------------------------
(* Either bookings are made and changed, one handler after the other, or       *)
(* reminders are sent and answered and missed appointments marked.             *)
EXTENDS MCBookings, BookingAttendance

CONSTANTS j1, j2, a1, a2

VARIABLE scene

DeskInit == scene \in {"bookings", "reminders"} /\ Init /\ AttendanceInit
DeskNext ==
  /\ UNCHANGED scene
  /\ \/ scene = "bookings" /\ Next /\ UNCHANGED attendanceVars
     \/ scene = "reminders" /\ AttendanceNext /\ UNCHANGED vars
DeskSpec == DeskInit /\ [][DeskNext]_<<scene, vars, attendanceVars>>

DeskSymmetry == Permutations({c1, c2}) \cup Permutations({j1, j2}) \cup Permutations({a1, a2})
=============================================================================
