------------------------------- MODULE Bookings -------------------------------
(***************************************************************************)
(* The handlers that create and change appointments.  Each is a sequence   *)
(* of database calls, and a call of another handler may come between any   *)
(* two of them.  A booking is named by the request that creates it.        *)
(***************************************************************************)
EXTENDS BookingSchema

CONSTANTS
  Creates,    \* requests to create a booking, and so the bookings
  Keys,       \* idempotency keys
  KeyOf,      \* the key each creation carries
  Edits,      \* handlers of PATCH requests, each serving one after the other
  MarksMissed, \* handlers of no-show requests
  MaxActive,  \* bound: handlers at work at the same time
  MaxStamp,   \* bound: an appointment written this often is edited no more
  Faults      \* whether handlers may die and calls of functions may fail

ASSUME BookingRequests ==
  /\ KeyOf \in [Creates -> Keys] /\ Faults \in BOOLEAN
  /\ Edits \cap MarksMissed = {} /\ Creates \cap (Edits \cup MarksMissed) = {}

VARIABLES
  bookings,  \* rows of bookings
  seats,     \* rows of booking_capacity_reservations
  keys,      \* booking_idempotency_keys: key -> booking
  create,    \* what each creating handler is about to do and wants, or how it ended
  edit,      \* the same for the editing handlers, with the row they read
  beside,    \* history: handler -> the handlers that it met at work
  blind,     \* history: creations that failed to find the booking under their key
  overriding \* history: creations with the manual override

history == <<beside, blind, overriding>>
vars == <<bookings, seats, keys, create, edit, beside, blind, overriding>>

CreateSteps == {"checking", "inserting", "reserving", "undoing", "mailing", "recording"}
Outcomes == {"new", "created", "unrecorded", "replayed", "refused", "dead"}
EditSteps == {"checking", "writing", "seating", "restoring", "mailing"}

CreateRecord == [at : CreateSteps, span : Spans, capacity : {Staff, WeekStaff}]
                \cup [at : Outcomes]
Tokens == Nat \cup {Keep}
SentRecord == [at : {"sent"}, id : Creates, request : Requests, token : Tokens]
EditRecord == [at : EditSteps, id : Creates, token : Tokens, before : Booking, after : Booking,
               moves : BOOLEAN]
MissedRecord == [at : {"writing"}, id : Creates, status : Status]

Idle == [at |-> "idle"]

BookingsTyped == DOMAIN bookings \subseteq Creates /\ bookings \in [DOMAIN bookings -> Booking]
SeatsTyped == DOMAIN seats \subseteq DOMAIN bookings /\ seats \in [DOMAIN seats -> Seat]
KeysTyped == DOMAIN keys \subseteq Keys /\ keys \in [DOMAIN keys -> Creates]
CreateTyped == create \in [Creates -> CreateRecord]
EditTyped ==
  /\ edit \in [Edits \cup MarksMissed -> {Idle} \cup SentRecord \cup EditRecord \cup MissedRecord]
  /\ \A e \in Edits : edit[e] \in {Idle} \cup SentRecord \cup EditRecord
  /\ \A m \in MarksMissed : edit[m] \in {Idle} \cup MissedRecord

Handlers == Creates \cup Edits \cup MarksMissed
HistoryTyped ==
  /\ beside \in [Handlers -> SUBSET Handlers]
  /\ blind \subseteq Creates /\ overriding \subseteq Creates

TypeOK == BookingsTyped /\ SeatsTyped /\ KeysTyped /\ CreateTyped /\ EditTyped /\ HistoryTyped

AtWork == {c \in Creates : create[c].at \in CreateSteps}
          \cup {e \in DOMAIN edit : edit[e].at \notin {"idle", "sent"}}

Init ==
  /\ bookings = <<>> /\ seats = <<>> /\ keys = <<>>
  /\ create = [c \in Creates |-> [at |-> "new"]]
  /\ edit = [e \in Edits \cup MarksMissed |-> Idle]
  /\ beside = [x \in Handlers |-> {}] /\ blind = {} /\ overriding = {}

-----------------------------------------------------------------------------
(* POST /api/bookings *)

\* The booking that was created under the key of c, if any.
KeyKnown(c) == KeyOf[c] \in DOMAIN keys /\ keys[KeyOf[c]] \in DOMAIN bookings

\* The handler looks for an earlier answer under its key; a look-up that fails finds none.
StartCreate(c, wish) ==
  /\ create[c].at = "new" /\ Cardinality(AtWork) < MaxActive
  /\ \/ KeyKnown(c) /\ create' = [create EXCEPT ![c] = [at |-> "replayed"]]
     \/ /\ ~KeyKnown(c) \/ Faults
        /\ create' = [create EXCEPT ![c] = [at |-> "checking", span |-> wish.span,
                                            capacity |-> wish.capacity]]
  /\ UNCHANGED <<bookings, seats, keys, edit>>

CreateGoes(c, at) == create' = [create EXCEPT ![c].at = at]
CreateEnds(c, as) == create' = [create EXCEPT ![c] = [at |-> as]]

\* Appointments whose time, with the buffer, overlaps a span.
Conflicts(span, others) ==
  {b \in others : bookings[b].status # "cancelled"
                  /\ bookings[b].start < span.until /\ bookings[b].end + Buffer > span.start}

CheckCreate(c) ==
  /\ create[c].at = "checking"
  /\ IF Cardinality(Conflicts(create[c].span, DOMAIN bookings)) >= create[c].capacity
     THEN CreateEnds(c, "refused") ELSE CreateGoes(c, "inserting")
  /\ UNCHANGED <<bookings, seats, keys, edit>>

InsertCreate(c) ==
  /\ create[c].at = "inserting"
  /\ LET span == create[c].span
         row == [status |-> "pending", start |-> span.start, end |-> span.end,
                 manual |-> FALSE, stamp |-> 0]
     IN bookings' = [b \in DOMAIN bookings \cup {c} |-> IF b = c THEN row ELSE bookings[b]]
  /\ CreateGoes(c, "reserving")
  /\ UNCHANGED <<seats, keys, edit>>

\* Only this handler deletes the booking, so that the reservation can refer to it.
ReserveCreate(c) ==
  /\ create[c].at = "reserving"
  /\ seats' = Reserved(seats, c, create[c].span, create[c].capacity)
  /\ CreateGoes(c, IF FreeSeats(seats, c, create[c].span, create[c].capacity) = {}
                   THEN "undoing" ELSE "mailing")
  /\ UNCHANGED <<bookings, keys, edit>>

\* The call fails, before or after it took effect.
LoseReserve(c) ==
  /\ Faults /\ create[c].at = "reserving"
  /\ seats' \in {seats, Reserved(seats, c, create[c].span, create[c].capacity)}
  /\ CreateGoes(c, "undoing")
  /\ UNCHANGED <<bookings, keys, edit>>

\* Deletes the booking, and with it its reservation; nobody looks at the result.
UndoCreate(c) ==
  /\ create[c].at = "undoing"
  /\ \/ /\ bookings' = [b \in DOMAIN bookings \ {c} |-> bookings[b]]
        /\ seats' = [b \in DOMAIN seats \ {c} |-> seats[b]]
     \/ Faults /\ UNCHANGED <<bookings, seats>>
  /\ CreateEnds(c, "refused")
  /\ UNCHANGED <<keys, edit>>

\* A write of the row, which the trigger stamps anew.
Stamped(id, row) == [bookings EXCEPT ![id] = [row EXCEPT !.stamp = bookings[id].stamp + 1]]

\* The outcome of the confirmation mail is noted in the row.
MailCreate(c) ==
  /\ create[c].at = "mailing"
  /\ bookings' = Stamped(c, bookings[c])
  /\ CreateGoes(c, "recording")
  /\ UNCHANGED <<seats, keys, edit>>

\* Mistake: the key of a booking is not recorded.
RecordNothing(c) ==
  /\ create[c].at = "recording" /\ CreateEnds(c, "created")
  /\ UNCHANGED <<bookings, seats, keys, edit>>

RecordCreate(c) ==
  /\ create[c].at = "recording"
  /\ keys' = [k \in DOMAIN keys \cup {KeyOf[c]} |-> IF k = KeyOf[c] THEN c ELSE keys[k]]
  /\ CreateEnds(c, "created")
  /\ UNCHANGED <<bookings, seats, edit>>

\* Nobody looks at the result of recording the key.
LoseRecord(c) ==
  /\ Faults /\ create[c].at = "recording"
  /\ CreateEnds(c, "unrecorded")
  /\ UNCHANGED <<bookings, seats, keys, edit>>

DieCreating(c) ==
  /\ Faults /\ c \in AtWork
  /\ CreateEnds(c, "dead")
  /\ UNCHANGED <<bookings, seats, keys, edit>>

Creating(c) ==
  \/ \E wish \in Standard \cup Overriding : StartCreate(c, wish)
  \/ CheckCreate(c) \/ InsertCreate(c) \/ ReserveCreate(c) \/ LoseReserve(c)
  \/ UndoCreate(c) \/ MailCreate(c) \/ RecordCreate(c) \/ LoseRecord(c)
  \/ DieCreating(c)

-----------------------------------------------------------------------------
(* PATCH /api/bookings/[id] *)

\* A member of staff edits an appointment as the dashboard shows it.  The version
\* shown goes with the request, except when the notes are saved by themselves.
SendEdit(e, id, request) ==
  /\ edit[e].at = "idle" /\ bookings[id].stamp < MaxStamp
  /\ \E token \in {bookings[id].stamp, Keep} :
       /\ token = Keep <=> request.status = Keep /\ request.start = Keep
       /\ edit' = [edit EXCEPT ![e] = [at |-> "sent", id |-> id, request |-> request,
                                       token |-> token]]
  /\ UNCHANGED <<bookings, seats, keys, create>>

\* The row that a request makes of the one read.
Amended(row, q) ==
  LET start == Given(q.start, row.start)
      manual == Given(q.manual, row.manual)
  IN [row EXCEPT !.status = Given(q.status, row.status), !.start = start, !.manual = manual,
                 !.end = IF manual THEN q.end ELSE start + Duration]

\* Mistake: if_unmodified_since is not looked at.
RefusedWithoutToken(e) ==
  LET id == edit[e].id   q == edit[e].request
  IN \/ id \notin DOMAIN bookings
     \/ Given(q.status, bookings[id].status) \notin AllowedTransitions(bookings[id].status)

\* A request that is refused at once: the row is gone or was written since the
\* dashboard read it, the status may not change so, or a manual end is missing.
Refused(e) ==
  LET id == edit[e].id   q == edit[e].request
  IN \/ id \notin DOMAIN bookings
     \/ edit[e].token # Keep /\ bookings[id].stamp # edit[e].token
     \/ Given(q.status, bookings[id].status) \notin AllowedTransitions(bookings[id].status)
     \/ /\ Given(q.manual, bookings[id].manual)
        /\ q.end = Keep \/ q.end <= Given(q.start, bookings[id].start)

\* The start is compared as text, so that a request which carries the time of the
\* appointment moves it or not, as it spells that time.
MayMove(before, after, q) ==
  {before.start # after.start} \cup (IF q.start = Keep THEN {} ELSE {TRUE})

ReadEdit(e) ==
  LET id == edit[e].id
      before == bookings[id]
      after == Amended(before, edit[e].request)
  IN /\ edit[e].at = "sent" /\ Cardinality(AtWork) < MaxActive
     /\ edit' \in
          IF Refused(e) THEN {[edit EXCEPT ![e] = Idle]}
          ELSE {[edit EXCEPT ![e] =
                   [at |-> IF after.status # "cancelled" /\ moves THEN "checking" ELSE "writing",
                    id |-> id, token |-> edit[e].token, before |-> before, after |-> after,
                    moves |-> moves]] : moves \in MayMove(before, after, edit[e].request)}
     /\ UNCHANGED <<bookings, seats, keys, create>>

EditGoes(e, at) == edit' = [edit EXCEPT ![e].at = at]
EditEnds(e) == edit' = [edit EXCEPT ![e] = Idle]

\* The interval a member of staff is taken for by the amended appointment.
SpanOf(row) == IF row.manual THEN ManualSpan(row.start, row.end) ELSE StandardSpan(row.start)

CheckEdit(e) ==
  /\ edit[e].at = "checking"
  /\ IF Cardinality(Conflicts(SpanOf(edit[e].after), DOMAIN bookings \ {edit[e].id})) >= Staff
     THEN EditEnds(e) ELSE EditGoes(e, "writing")
  /\ UNCHANGED <<bookings, seats, keys, create>>

\* The row is written whatever became of it since it was read.
WriteEdit(e) ==
  LET id == edit[e].id
  IN /\ edit[e].at = "writing"
     /\ \/ /\ id \in DOMAIN bookings
           /\ bookings' = Stamped(id, edit[e].after)
           /\ EditGoes(e, "seating")
        \/ /\ id \notin DOMAIN bookings
           /\ EditEnds(e)
           /\ UNCHANGED bookings
     /\ UNCHANGED <<seats, keys, create>>

\* Mistake: cancelling gives no seat back.
OnlyCompletedGone(status) == status = "completed"

Gone(status) == status \in {"cancelled", "completed"}

\* Mistake: an appointment that is reopened where it was gets no seat.
SeatOnlyForMoves(before, after, moves) == ~Gone(after.status) /\ moves

\* shouldReserveCapacity
NeedsSeat(before, after, moves) == ~Gone(after.status) /\ (moves \/ Gone(before.status))

\* What happens to the seat follows from the row read and the row wanted.  An
\* appointment that is reopened where it was asks for the first seat only.
SeatEdit(e) ==
  LET id == edit[e].id   before == edit[e].before   after == edit[e].after
      capacity == IF edit[e].moves THEN Staff ELSE 1
  IN /\ edit[e].at = "seating"
     /\ CASE Gone(after.status) ->
               /\ seats' \in {Released(seats, id)} \cup (IF Faults THEN {seats} ELSE {})
               /\ EditGoes(e, "mailing")
          [] NeedsSeat(before, after, edit[e].moves) ->
               /\ id \in DOMAIN bookings
               /\ seats' = Reserved(seats, id, SpanOf(after), capacity)
               /\ EditGoes(e, IF FreeSeats(seats, id, SpanOf(after), capacity) = {}
                              THEN "restoring" ELSE "mailing")
          [] OTHER -> EditGoes(e, "mailing") /\ UNCHANGED seats
     /\ UNCHANGED <<bookings, keys, create>>

\* The call to reserve fails, because of the network or because the booking is gone.
LoseSeat(e) ==
  LET id == edit[e].id   before == edit[e].before   after == edit[e].after
  IN /\ edit[e].at = "seating"
     /\ NeedsSeat(before, after, edit[e].moves)
     /\ Faults \/ id \notin DOMAIN bookings
     /\ EditGoes(e, "restoring")
     /\ UNCHANGED <<bookings, seats, keys, create>>

\* Writes the row as it was read, except for the override.
RestoreEdit(e) ==
  LET id == edit[e].id   before == edit[e].before
  IN /\ edit[e].at = "restoring"
     /\ bookings' = IF id \in DOMAIN bookings
                    THEN Stamped(id, [before EXCEPT !.manual = bookings[id].manual])
                    ELSE bookings
     /\ EditEnds(e)
     /\ UNCHANGED <<seats, keys, create>>

MailEdit(e) ==
  LET id == edit[e].id
  IN /\ edit[e].at = "mailing"
     /\ bookings' = IF id \in DOMAIN bookings /\ Announced(edit[e].before, edit[e].after, edit[e].moves)
                    THEN Stamped(id, bookings[id]) ELSE bookings
     /\ EditEnds(e)
     /\ UNCHANGED <<seats, keys, create>>

DieEditing(e) ==
  /\ Faults /\ e \in AtWork
  /\ EditEnds(e)
  /\ UNCHANGED <<bookings, seats, keys, create>>

Editing(e) ==
  \/ \E id \in DOMAIN bookings, q \in Requests : SendEdit(e, id, q)
  \/ ReadEdit(e) \/ CheckEdit(e) \/ WriteEdit(e) \/ SeatEdit(e) \/ LoseSeat(e)
  \/ RestoreEdit(e) \/ MailEdit(e) \/ DieEditing(e)

-----------------------------------------------------------------------------
(* POST /api/bookings/[id]/no-show: a read and a write of the status. *)

ReadMissed(m, id) ==
  /\ edit[m].at = "idle" /\ bookings[id].stamp < MaxStamp /\ Cardinality(AtWork) < MaxActive
  /\ edit' = [edit EXCEPT ![m] = [at |-> "writing", id |-> id, status |->
                IF bookings[id].status = "cancelled" THEN "cancelled" ELSE "completed"]]
  /\ UNCHANGED <<bookings, seats, keys, create>>

WriteMissed(m) ==
  LET id == edit[m].id
  IN /\ edit[m].at = "writing"
     /\ bookings' = IF id \in DOMAIN bookings
                    THEN Stamped(id, [bookings[id] EXCEPT !.status = edit[m].status])
                    ELSE bookings
     /\ EditEnds(m)
     /\ UNCHANGED <<seats, keys, create>>

\* The handlers at work after a step whose work meets that of x: other creations, or
\* whoever else writes the appointment that x edits.
Others(x) ==
  IF x \in Creates THEN (AtWork' \cap Creates) \ {x}
  ELSE (AtWork' \cap ({edit'[x].id} \cup Edits \cup MarksMissed)) \ {x}

\* What the history variables keep of a step: whom a handler met at work (an editing
\* one only while it serves the request), and how creations went on.
Noted ==
  /\ beside' = [x \in Handlers |->
       IF x \in AtWork' THEN (IF x \in AtWork THEN beside[x] ELSE {}) \cup Others(x)
       ELSE IF x \in Creates THEN beside[x] ELSE {}]
  /\ LET started == {c \in Creates : create[c].at = "new" /\ create'[c].at = "checking"}
     IN /\ blind' = blind \cup {c \in started : KeyKnown(c)}
        /\ overriding' = overriding \cup {c \in started :
             [span |-> create'[c].span, capacity |-> create'[c].capacity] \in Overriding}

Next ==
  /\ \/ \E c \in Creates : Creating(c)
     \/ \E e \in Edits : Editing(e)
     \/ \E m \in MarksMissed : WriteMissed(m) \/ \E id \in DOMAIN bookings : ReadMissed(m, id)
  /\ Noted

Spec == Init /\ [][Next]_vars

-----------------------------------------------------------------------------
(* Properties *)

\* The bookings that no handler is working on.
Settled == {b \in DOMAIN bookings : b \notin AtWork /\ \A e \in AtWork \ Creates : edit[e].id # b}

\* The bookings that a customer will come for.
Expected == {b \in Settled : ~Gone(bookings[b].status)}

\* Two reservations of one seat are never for overlapping times
\* (booking_capacity_reservations_no_overlap).
SeatsExclusive == Exclusive(seats)

\* Nobody deletes a booking but the handler that created it and could not seat it.
InsertedStays ==
  \A c \in Creates : create[c].at \in {"reserving", "undoing", "mailing", "recording"}
                        => c \in DOMAIN bookings

\* A creation without the override goes by the staff of the day, and whoever was
\* seated by it or by an edit has one of their seats.
OverridesKnown ==
  /\ \A c \in Creates : create[c].at \in CreateSteps /\ c \notin overriding
                         => create[c].capacity = Staff
  /\ \A b \in DOMAIN seats : seats[b].active /\ b \notin overriding => seats[b].seat <= Staff

\* The inductive invariant behind NotOversold.
BookingInv == TypeOK /\ InsertedStays /\ SeatsExclusive /\ OverridesKnown

SeatedAt(t) == {b \in DOMAIN seats : seats[b].active /\ seats[b].start <= t /\ t < seats[b].until}

\* At no time are more seats reserved than there are members of staff on that day,
\* bookings apart that were created with the manual override: it goes by the weekday's
\* staff even when the day has its own, and together no more than the larger number
\* is seated.
NotOversold ==
  \A t \in Starts :
    /\ Cardinality(SeatedAt(t) \ overriding) <= Staff
    /\ Cardinality(SeatedAt(t)) <= Cardinality(SeatNumbers)

\* At no time are more customers expected than there are members of staff: a booking
\* that passes the checks of POST and PATCH does not take the time of another.
NeverOverbooked ==
  \A t \in Starts : Cardinality({b \in Expected :
    bookings[b].start <= t /\ t < bookings[b].end}) <= Staff

\* An expected customer holds a seat from the start of the appointment to its end:
\* the row and the reservation, written by different calls, agree when a handler is done.
ExpectedHoldsSeat ==
  \A b \in Expected :
    /\ b \in DOMAIN seats /\ seats[b].active
    /\ seats[b].start = bookings[b].start /\ seats[b].until >= bookings[b].end

\* A cancelled booking keeps no seat from others, however it came to be cancelled.
CancelledHoldsNoSeat ==
  \A b \in Settled \cap DOMAIN seats : bookings[b].status = "cancelled" => ~seats[b].active

\* Creations that reached the recording of their key, or may still.
OnTheWay(c) == create[c].at \in CreateSteps \cup {"created"}

\* Two bookings stand under one idempotency key only if their requests were at work at
\* the same time, or one did not get to record the key (it died, failed or was
\* refused on the way), or one failed to find the other by the key.
KeyCreatesOnce ==
  \A b, d \in DOMAIN bookings :
    b # d /\ KeyOf[b] = KeyOf[d] =>
      \/ d \in beside[b] \/ b \in beside[d]
      \/ ~OnTheWay(b) \/ ~OnTheWay(d)
      \/ b \in blind \/ d \in blind

\* An edit, and what it restores when no seat is found, replaces the version of the
\* appointment that it read, and the sender saw if the request says which
\* (if_unmodified_since), unless another handler wrote while it was at work.
EditReplacesSeen ==
  [][\A e \in Edits :
       LET id == edit[e].id
           stamp == bookings[id].stamp
       IN edit[e].at \in {"writing", "restoring"} /\ edit'[e] # edit[e]
          /\ id \in DOMAIN bookings /\ bookings'[id] # bookings[id] =>
            \/ beside[e] # {}
            \/ /\ edit[e].at = "writing" /\ stamp = edit[e].before.stamp
               /\ edit[e].token \in {stamp, Keep}
            \/ edit[e].at = "restoring" /\ stamp = edit[e].before.stamp + 1]_vars
=============================================================================
