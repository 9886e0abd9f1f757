---------------------------- MODULE BookingSchema ----------------------------
(***************************************************************************)
(* Appointments of one branch on one day, the seats (one for each member   *)
(* of staff) that PostgreSQL reserves for them, and what a request asks    *)
(* of an appointment.  A time is an integer; the interval from a to b does *)
(* not contain b.                                                          *)
(***************************************************************************)
EXTENDS Integers, FiniteSets, FiniteSetsExt

CONSTANTS
  Staff,     \* concurrent_staff on the day: of its schedule override, or else the weekday's
  WeekStaff, \* concurrent_staff of the weekday, which the manual override goes by
  Starts,    \* the starting times offered
  Ends,      \* the ends a manual override may ask for
  Duration,  \* of the service
  Buffer,    \* time to keep free after an appointment
  Manual,    \* whether staff use the manual override
  Keep       \* stands for a field that a request leaves out

ASSUME BookingTimes ==
  /\ Staff \in Nat \ {0} /\ WeekStaff \in Nat \ {0}
  /\ Starts \subseteq Int /\ Ends \subseteq Int
  /\ Duration \in Nat \ {0} /\ Buffer \in Nat
  /\ Manual \in BOOLEAN

Status == {"pending", "confirmed", "cancelled", "completed"}

Times == Ends \cup {s + Duration : s \in Starts}

Booking == [status : Status, start : Starts, end : Times, manual : BOOLEAN, stamp : Nat]

Untils == Times \cup {t + Buffer : t \in Times}

SeatNumbers == 1..Staff \cup 1..WeekStaff

Seat == [seat : SeatNumbers, start : Starts, until : Untils, active : BOOLEAN]

\* Mistake: the time to keep free is added to the start.
BufferFromStart(s) == [start |-> s, end |-> s + Duration, until |-> s + Buffer]

\* An interval that a request wants for an appointment: its end, and until when
\* a member of staff is taken.
StandardSpan(s) == [start |-> s, end |-> s + Duration, until |-> s + Duration + Buffer]
ManualSpan(s, e) == [start |-> s, end |-> e, until |-> e]
Spans == {StandardSpan(s) : s \in Starts} \cup
         {ManualSpan(p[1], p[2]) : p \in {q \in Starts \X Ends : Manual /\ q[1] < q[2]}}

\* What a creation asks for, and the capacity it goes by.
Standard == {[span |-> StandardSpan(s), capacity |-> Staff] : s \in Starts}
Overriding == {[span |-> ManualSpan(p[1], p[2]), capacity |-> WeekStaff] :
                 p \in {q \in Starts \X Ends : Manual /\ q[1] < q[2]}}

\* What PATCH requests carry: the dashboard changes the status, or saves the notes
\* only, or drags the appointment to another start, or sends the amended form.
Requests ==
  [status : Status \cup {Keep}, start : {Keep}, manual : {Keep}, end : {Keep}]
  \cup [status : {Keep}, start : Starts, manual : {Keep}, end : {Keep}]
  \cup {q \in [status : {Keep}, start : Starts, manual : BOOLEAN, end : Ends \cup {Keep}] :
          Manual /\ (q.manual <=> q.end # Keep) /\ (q.manual => q.start < q.end)}

Given(asked, current) == IF asked = Keep THEN current ELSE asked

AllowedTransitions(status) ==
  CASE status = "pending"   -> {"pending", "confirmed", "cancelled"}
    [] status = "confirmed" -> {"confirmed", "pending", "completed", "cancelled"}
    [] status = "cancelled" -> {"cancelled", "pending", "confirmed"}
    [] status = "completed" -> {"completed", "confirmed"}

Overlap(a, b) == a.start < b.until /\ b.start < a.until

\* The constraint booking_capacity_reservations_no_overlap.
Exclusive(seats) ==
  \A a, b \in DOMAIN seats :
    a # b /\ seats[a].active /\ seats[b].active /\ seats[a].seat = seats[b].seat
      => ~Overlap(seats[a], seats[b])

\* Mistake: one seat too many is tried.
FreeSeatsAndOneMore(seats, id, span, capacity) ==
  {n \in 1..(capacity + 1) : \A b \in DOMAIN seats \ {id} :
     seats[b].active /\ seats[b].seat = n => ~Overlap(seats[b], span)}

\* The seats up to the capacity that the exclusion constraint leaves to a booking
\* for an interval.
FreeSeats(seats, id, span, capacity) ==
  {n \in 1..capacity : \A b \in DOMAIN seats \ {id} :
     seats[b].active /\ seats[b].seat = n => ~Overlap(seats[b], span)}

\* release_booking_capacity_reservation
Released(seats, id) ==
  [b \in DOMAIN seats |-> IF b = id THEN [seats[b] EXCEPT !.active = FALSE] ELSE seats[b]]

\* reserve_booking_capacity: what the booking held is given up first, and stays
\* given up when no seat is free.
Reserved(seats, id, span, capacity) ==
  LET free == FreeSeats(seats, id, span, capacity)
      row == [seat |-> Min(free), start |-> span.start, until |-> span.until, active |-> TRUE]
  IN IF free = {} THEN Released(seats, id)
     ELSE [b \in DOMAIN seats \cup {id} |-> IF b = id THEN row ELSE seats[b]]

\* deriveBookingEmailKind: whether a change is announced to the customer.
Announced(before, after, moves) ==
  \/ after.status = "cancelled"
  \/ before.status = "pending" /\ after.status = "confirmed"
  \/ moves
=============================================================================
