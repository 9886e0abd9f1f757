---------------------------- MODULE BookingProofs ----------------------------
(***************************************************************************)
(* Whatever handlers run at once, fail or die, the rows keep their types,  *)
(* the seats reserved exceed the staff by overrides only, and two bookings *)
(* under a key or an edit of another version than the one read come from   *)
(* handlers that met or failed; when handlers run one after another, rows  *)
(* and seats agree; and whatever jobs and answers do, links lead to their  *)
(* bookings, one answer is recorded, and the count of missed appointments  *)
(* is no more than what was missed.                                        *)
(***************************************************************************)
EXTENDS Bookings, BookingAttendance, NaturalOrder, FiniteSetTheorems, TLAPS

\* A nonempty set of seats has a first one.
LEMMA FirstSeat ==
  ASSUME NEW capacity \in Nat, NEW free \in SUBSET (1..capacity), free # {}
  PROVE  Min(free) \in free
<1>1. \E n \in free : \A k \in free : n <= k
  BY LeastNatural, free \subseteq Nat
<1> QED BY <1>1 DEF Min

\* The fields of a request are values of the fields of a booking, or left out.
LEMMA RequestFields ==
  ASSUME NEW q \in Requests
  PROVE  /\ q.status \in Status \cup {Keep} /\ q.start \in Starts \cup {Keep}
         /\ q.manual \in BOOLEAN \cup {Keep} /\ q.end \in Ends \cup {Keep}
BY DEF Requests

\* What a request that is not refused makes of a booking is a booking.
LEMMA AmendedBooking ==
  ASSUME NEW row \in Booking, NEW q \in Requests,
         Given(q.manual, row.manual) => q.end # Keep
  PROVE  Amended(row, q) \in Booking
BY RequestFields DEF Amended, Given, Booking, Times

\* The interval a request wants has ends that a reservation can have.
LEMMA SpanTimes ==
  /\ \A span \in Spans : span.start \in Starts /\ span.end \in Times /\ span.until \in Untils
  /\ \A row \in Booking : SpanOf(row).start \in Starts /\ SpanOf(row).until \in Untils
<1>1. \A s \in Starts : StandardSpan(s).start \in Starts /\ StandardSpan(s).end \in Times
                         /\ StandardSpan(s).until \in Untils
  BY DEF StandardSpan, Times, Untils
<1>2. \A s \in Starts, e \in Times : ManualSpan(s, e).start \in Starts
        /\ ManualSpan(s, e).end \in Times /\ ManualSpan(s, e).until \in Untils
  BY DEF ManualSpan, Untils
<1>3. Ends \subseteq Times
  BY DEF Times
<1>4. ASSUME NEW span \in Spans
      PROVE  span.start \in Starts /\ span.end \in Times /\ span.until \in Untils
  <2>1. CASE \E s \in Starts : span = StandardSpan(s)
    BY <2>1, <1>1
  <2>2. CASE \E s \in Starts, e \in Ends : span = ManualSpan(s, e)
    BY <2>2, <1>2, <1>3
  <2> QED BY <2>1, <2>2 DEF Spans
<1>5. ASSUME NEW row \in Booking
      PROVE  SpanOf(row).start \in Starts /\ SpanOf(row).until \in Untils
  BY <1>1, <1>2 DEF SpanOf, Booking
<1> QED BY <1>4, <1>5

\* Reserving keeps the rows typed and the constraint true: the seat taken is free of
\* every other booking's, and the booking's own old seat is given up.
LEMMA ReservedSeats ==
  ASSUME NEW s, s \in [DOMAIN s -> Seat], Exclusive(s), NEW id, NEW span,
         span.start \in Starts, span.until \in Untils, NEW capacity \in {Staff, WeekStaff, 1}
  PROVE  /\ Reserved(s, id, span, capacity) \in
              [DOMAIN Reserved(s, id, span, capacity) -> Seat]
         /\ DOMAIN Reserved(s, id, span, capacity) \subseteq DOMAIN s \cup {id}
         /\ Exclusive(Reserved(s, id, span, capacity))
         /\ \A b \in DOMAIN Reserved(s, id, span, capacity) :
              Reserved(s, id, span, capacity)[b].active =>
                \/ b = id /\ Reserved(s, id, span, capacity)[b].seat <= capacity
                \/ /\ b \in DOMAIN s /\ s[b].active
                   /\ Reserved(s, id, span, capacity)[b].seat = s[b].seat
<1> DEFINE free == FreeSeats(s, id, span, capacity)
           row == [seat |-> Min(free), start |-> span.start, until |-> span.until, active |-> TRUE]
           after == [b \in DOMAIN s \cup {id} |-> IF b = id THEN row ELSE s[b]]
<1>1. CASE free = {}
  <2>1. Reserved(s, id, span, capacity) = Released(s, id)
    BY <1>1 DEF Reserved
  <2>2. \A b \in DOMAIN s : Released(s, id)[b] \in Seat
           /\ Released(s, id)[b].seat = s[b].seat /\ Released(s, id)[b].start = s[b].start
           /\ Released(s, id)[b].until = s[b].until
           /\ (Released(s, id)[b].active => s[b].active)
    BY DEF Released, Seat
  <2>3. DOMAIN Released(s, id) = DOMAIN s
    BY DEF Released
  <2>4. Released(s, id) \in [DOMAIN s -> Seat]
    BY DEF Released, Seat
  <2>5. Exclusive(Released(s, id))
    BY <2>2, <2>3 DEF Exclusive, Overlap
  <2> QED BY <2>1, <2>2, <2>3, <2>4, <2>5
<1>2. CASE free # {}
  <2>1. free \subseteq 1..capacity /\ capacity \in Nat
    BY BookingTimes DEF FreeSeats
  <2>2. Min(free) \in free
    BY <1>2, <2>1, FirstSeat
  <2>n. Min(free) \in 1..capacity
    BY <2>1, <2>2
  <2>3. Min(free) \in SeatNumbers /\ Min(free) <= capacity
    BY <2>1, <2>n, BookingTimes DEF SeatNumbers
  <2>4. Reserved(s, id, span, capacity) = after
    BY <1>2 DEF Reserved
  <2>5. row \in Seat
    BY <2>3 DEF Seat
  <2>6. after \in [DOMAIN s \cup {id} -> Seat]
    BY <2>5
  <2>7. \A b \in DOMAIN s \ {id} : s[b].active /\ s[b].seat = row.seat => ~Overlap(s[b], row)
    BY <2>2 DEF FreeSeats, Overlap
  <2>s. row.seat <= capacity
    BY <2>3
  <2> HIDE DEF row, free
  <2>8. Exclusive(after)
    <3> SUFFICES ASSUME NEW a \in DOMAIN s \cup {id}, NEW b \in DOMAIN s \cup {id}, a # b,
                        after[a].active, after[b].active, after[a].seat = after[b].seat
                 PROVE  ~Overlap(after[a], after[b])
      BY DEF Exclusive
    <3>1. CASE a = id
      BY <3>1, <2>7 DEF Overlap
    <3>2. CASE b = id
      BY <3>2, <2>7 DEF Overlap
    <3>3. CASE a # id /\ b # id
      BY <3>3 DEF Exclusive
    <3> QED BY <3>1, <3>2, <3>3
  <2> QED BY <2>4, <2>6, <2>8, <2>s
<1> QED BY <1>1, <1>2

-----------------------------------------------------------------------------
(* What the handlers remember between two calls. *)

\* The record of a creating handler has the fields its step says.
LEMMA CreatingRecord ==
  ASSUME CreateTyped, NEW c \in Creates, create[c].at \in CreateSteps
  PROVE  create[c] \in [at : CreateSteps, span : Spans, capacity : {Staff, WeekStaff}]
BY DEF CreateTyped, CreateRecord, CreateSteps, Outcomes

\* The same for an editing handler, before it has read the row and after.
LEMMA EditingRecord ==
  ASSUME EditTyped, NEW e \in Edits
  PROVE  /\ edit[e].at = "sent" => edit[e] \in SentRecord
         /\ edit[e].at \in EditSteps => edit[e] \in EditRecord
<1>1. edit[e] \in {Idle} \cup SentRecord \cup EditRecord
  BY DEF EditTyped
<1> QED BY <1>1 DEF Idle, SentRecord, EditRecord, EditSteps

\* A creating handler goes on, or ends, with a record of the right type.
LEMMA CreateContinues ==
  ASSUME CreateTyped, NEW c \in Creates
  PROVE  /\ \A at \in CreateSteps : create[c].at \in CreateSteps /\ CreateGoes(c, at) => CreateTyped'
         /\ \A as \in Outcomes : CreateEnds(c, as) => CreateTyped'
<1>1. ASSUME NEW at \in CreateSteps, create[c].at \in CreateSteps, CreateGoes(c, at)
      PROVE  CreateTyped'
  <2>1. [create[c] EXCEPT !.at = at] \in [at : CreateSteps, span : Spans, capacity : {Staff, WeekStaff}]
    BY <1>1, CreatingRecord
  <2>2. create' = [create EXCEPT ![c] = [create[c] EXCEPT !.at = at]]
    BY <1>1 DEF CreateGoes
  <2> QED BY <2>1, <2>2 DEF CreateTyped, CreateRecord
<1>2. ASSUME NEW as \in Outcomes, CreateEnds(c, as)
      PROVE  CreateTyped'
  BY <1>2 DEF CreateEnds, CreateTyped, CreateRecord
<1> QED BY <1>1, <1>2

\* An editing handler takes on any record an editing handler may have.
LEMMA EditBecomes ==
  ASSUME EditTyped, NEW e \in Edits, NEW r \in {Idle} \cup SentRecord \cup EditRecord,
         edit' = [edit EXCEPT ![e] = r]
  PROVE  EditTyped'
<1>1. e \notin MarksMissed
  BY BookingRequests
<1> QED BY <1>1 DEF EditTyped

\* An editing handler goes on, or ends, with a record of the right type.
LEMMA EditContinues ==
  ASSUME EditTyped, NEW e \in Edits
  PROVE  /\ \A at \in EditSteps : edit[e].at \in EditSteps /\ EditGoes(e, at) => EditTyped'
         /\ EditEnds(e) => EditTyped'
<1>1. ASSUME NEW at \in EditSteps, edit[e].at \in EditSteps, EditGoes(e, at)
      PROVE  EditTyped'
  <2>1. [edit[e] EXCEPT !.at = at] \in EditRecord
    BY <1>1, EditingRecord DEF EditRecord
  <2>2. edit' = [edit EXCEPT ![e] = [edit[e] EXCEPT !.at = at]]
    BY <1>1 DEF EditGoes
  <2> QED BY <2>1, <2>2, EditBecomes
<1>2. EditEnds(e) => EditTyped'
  BY EditBecomes DEF EditEnds
<1> QED BY <1>1, <1>2

\* A stamped row is a booking, and no other row changes.
LEMMA StampedRows ==
  ASSUME BookingsTyped, NEW id, NEW row \in Booking, bookings' = Stamped(id, row)
  PROVE  BookingsTyped' /\ DOMAIN bookings' = DOMAIN bookings
<1>1. DOMAIN bookings' = DOMAIN bookings
  BY DEF Stamped
<1>2. ASSUME NEW b \in DOMAIN bookings PROVE bookings'[b] \in Booking
  BY DEF Stamped, BookingsTyped, Booking
<1>3. bookings' = [b \in DOMAIN bookings' |-> bookings'[b]]
  BY DEF Stamped
<1> QED BY <1>1, <1>2, <1>3 DEF BookingsTyped

-----------------------------------------------------------------------------
(* The inductive invariant. *)

\* It holds of an empty branch.
LEMMA BookingInvInit == Init => BookingInv
<1> SUFFICES ASSUME Init PROVE BookingInv
  OBVIOUS
<1>1. DOMAIN bookings = {} /\ DOMAIN seats = {} /\ DOMAIN keys = {}
  BY DEF Init
<1>2. BookingsTyped /\ SeatsTyped /\ KeysTyped
  BY <1>1 DEF Init, BookingsTyped, SeatsTyped, KeysTyped
<1>3. CreateTyped /\ EditTyped
  BY DEF Init, CreateTyped, EditTyped, CreateRecord, Outcomes, Idle
<1>4. InsertedStays /\ SeatsExclusive /\ HistoryTyped /\ OverridesKnown
  BY <1>1 DEF Init, InsertedStays, SeatsExclusive, Exclusive, HistoryTyped, OverridesKnown, CreateSteps
<1> QED BY <1>2, <1>3, <1>4 DEF BookingInv, TypeOK

\* The part of the invariant that speaks of no history.
CoreInv ==
  BookingsTyped /\ SeatsTyped /\ KeysTyped /\ CreateTyped /\ EditTyped /\ InsertedStays /\ SeatsExclusive

\* What a creation may ask for.
LEMMA Wishes ==
  /\ \A wish \in Standard \cup Overriding : wish.span \in Spans /\ wish.capacity \in {Staff, WeekStaff}
  /\ \A wish \in Standard \cup Overriding :
       /\ wish = [span |-> wish.span, capacity |-> wish.capacity]
       /\ wish \notin Overriding => wish.capacity = Staff
BY DEF Standard, Overriding, Spans

\* A step of a handler that creates a booking keeps it: the row is there from the
\* insertion until the handler itself deletes it, reservation and all.
LEMMA CreatingKeeps ==
  ASSUME BookingInv, NEW c \in Creates, Creating(c)
  PROVE  CoreInv'
<1> USE DEF BookingInv, TypeOK, CoreInv
<1>1. ASSUME NEW wish \in Standard \cup Overriding, StartCreate(c, wish) PROVE CoreInv'
  <2> DEFINE r == [at |-> "checking", span |-> wish.span, capacity |-> wish.capacity]
  <2>r. r \in CreateRecord /\ r.at = "checking"
    BY Wishes DEF CreateRecord, CreateSteps
  <2>s. [at |-> "replayed"] \in CreateRecord
    BY DEF CreateRecord, Outcomes
  <2>t. create' = [create EXCEPT ![c] = r] \/ create' = [create EXCEPT ![c] = [at |-> "replayed"]]
    BY <1>1 DEF StartCreate
  <2> HIDE DEF r
  <2>1. CreateTyped'
    BY <2>r, <2>s, <2>t DEF CreateTyped
  <2>2. InsertedStays'
    BY <1>1, <2>r, <2>t DEF StartCreate, InsertedStays, CreateTyped
  <2> QED BY <1>1, <2>1, <2>2 DEF StartCreate, BookingsTyped, SeatsTyped, KeysTyped, EditTyped,
                                  SeatsExclusive
<1>2. CASE CheckCreate(c)
  <2>1. CreateTyped'
    BY <1>2, CreateContinues DEF CheckCreate, CreateSteps, Outcomes
  <2>2. InsertedStays'
    <3>1. CASE CreateEnds(c, "refused")
      BY <1>2, <3>1 DEF CheckCreate, CreateEnds, InsertedStays, CreateTyped
    <3>2. CASE CreateGoes(c, "inserting")
      BY <1>2, <3>2 DEF CheckCreate, CreateGoes, InsertedStays, CreateTyped
    <3> QED BY <1>2, <3>1, <3>2 DEF CheckCreate
  <2> QED BY <1>2, <2>1, <2>2 DEF CheckCreate, BookingsTyped, SeatsTyped, KeysTyped, EditTyped,
                                  SeatsExclusive
<1>3. CASE InsertCreate(c)
  <2> DEFINE row == [status |-> "pending", start |-> create[c].span.start,
                     end |-> create[c].span.end, manual |-> FALSE, stamp |-> 0]
  <2>1. create[c].span \in Spans
    BY <1>3, CreatingRecord DEF InsertCreate, CreateSteps
  <2>2. row \in Booking
    BY <2>1, SpanTimes DEF Booking, Status
  <2>3. bookings' = [b \in DOMAIN bookings \cup {c} |-> IF b = c THEN row ELSE bookings[b]]
    BY <1>3 DEF InsertCreate
  <2> HIDE DEF row
  <2>4. BookingsTyped' /\ DOMAIN bookings' = DOMAIN bookings \cup {c}
    BY <2>2, <2>3 DEF BookingsTyped
  <2>5. SeatsTyped'
    BY <1>3, <2>4 DEF InsertCreate, SeatsTyped
  <2>6. CreateTyped'
    BY <1>3, CreateContinues DEF InsertCreate, CreateSteps
  <2>7. InsertedStays'
    BY <1>3, <2>4 DEF InsertCreate, CreateGoes, InsertedStays, CreateTyped
  <2> QED BY <1>3, <2>4, <2>5, <2>6, <2>7 DEF InsertCreate, KeysTyped, EditTyped, SeatsExclusive
<1>4. ASSUME create[c].at = "reserving", UNCHANGED <<bookings, keys, edit>>,
             seats' \in {seats, Reserved(seats, c, create[c].span, create[c].capacity)},
             CreateGoes(c, "undoing") \/ CreateGoes(c, "mailing")
      PROVE  CoreInv'
  <2>1. create[c].span \in Spans
    BY <1>4, CreatingRecord DEF CreateSteps
  <2>2. c \in DOMAIN bookings
    BY <1>4 DEF InsertedStays
  <2>3. SeatsTyped' /\ SeatsExclusive'
    <3>1. create[c].capacity \in {Staff, WeekStaff, 1}
      BY <1>4, CreatingRecord DEF CreateSteps
    <3>2. CASE seats' = Reserved(seats, c, create[c].span, create[c].capacity)
      <4>1. /\ seats' \in [DOMAIN seats' -> Seat] /\ Exclusive(seats')
            /\ DOMAIN seats' \subseteq DOMAIN seats \cup {c}
        BY <2>1, <3>1, <3>2, SpanTimes, ReservedSeats DEF SeatsTyped, SeatsExclusive
      <4> QED BY <1>4, <2>2, <4>1 DEF SeatsTyped, SeatsExclusive
    <3>3. CASE seats' = seats
      BY <1>4, <3>3 DEF SeatsTyped, SeatsExclusive
    <3> QED BY <1>4, <3>2, <3>3
  <2>4. CreateTyped'
    BY <1>4, CreateContinues DEF CreateSteps
  <2>5. InsertedStays'
    BY <1>4 DEF CreateGoes, InsertedStays, CreateTyped
  <2> QED BY <1>4, <2>3, <2>4, <2>5 DEF BookingsTyped, KeysTyped, EditTyped
<1>5. CASE UndoCreate(c)
  <2>1. CreateTyped'
    BY <1>5, CreateContinues DEF UndoCreate, Outcomes
  <2>2. BookingsTyped' /\ SeatsTyped' /\ SeatsExclusive'
    BY <1>5 DEF UndoCreate, BookingsTyped, SeatsTyped, SeatsExclusive, Exclusive, Overlap
  <2>3. InsertedStays'
    BY <1>5 DEF UndoCreate, CreateEnds, InsertedStays, CreateTyped
  <2> QED BY <1>5, <2>1, <2>2, <2>3 DEF UndoCreate, KeysTyped, EditTyped
<1>6. CASE MailCreate(c)
  <2>1. bookings[c] \in Booking
    BY <1>6 DEF MailCreate, InsertedStays, BookingsTyped
  <2>2. BookingsTyped' /\ DOMAIN bookings' = DOMAIN bookings
    BY <1>6, <2>1, StampedRows DEF MailCreate
  <2>3. CreateTyped'
    BY <1>6, CreateContinues DEF MailCreate, CreateSteps
  <2>4. InsertedStays'
    BY <1>6, <2>2 DEF MailCreate, CreateGoes, InsertedStays, CreateTyped
  <2> QED BY <1>6, <2>2, <2>3, <2>4 DEF MailCreate, SeatsTyped, KeysTyped, EditTyped, SeatsExclusive
<1>7. CASE RecordCreate(c)
  <2>1. KeysTyped'
    BY <1>7, BookingRequests DEF RecordCreate, KeysTyped
  <2>2. CreateTyped'
    BY <1>7, CreateContinues DEF RecordCreate, Outcomes
  <2>3. InsertedStays'
    BY <1>7 DEF RecordCreate, CreateEnds, InsertedStays, CreateTyped
  <2> QED BY <1>7, <2>1, <2>2, <2>3 DEF RecordCreate, BookingsTyped, SeatsTyped, EditTyped,
                                        SeatsExclusive
<1>8. CASE DieCreating(c)
  <2>1. CreateTyped'
    BY <1>8, CreateContinues DEF DieCreating, Outcomes
  <2>2. InsertedStays'
    BY <1>8 DEF DieCreating, CreateEnds, InsertedStays, CreateTyped
  <2> QED BY <1>8, <2>1, <2>2 DEF DieCreating, BookingsTyped, SeatsTyped, KeysTyped, EditTyped,
                                  SeatsExclusive
<1>9. CASE ReserveCreate(c)
  BY <1>4, <1>9 DEF ReserveCreate
<1>10. CASE LoseReserve(c)
  BY <1>4, <1>10 DEF LoseReserve
<1>11. CASE LoseRecord(c)
  <2>1. CreateTyped'
    BY <1>11, CreateContinues DEF LoseRecord, Outcomes
  <2>2. InsertedStays'
    BY <1>11 DEF LoseRecord, CreateEnds, InsertedStays, CreateTyped
  <2> QED BY <1>11, <2>1, <2>2 DEF LoseRecord, BookingsTyped, SeatsTyped, KeysTyped, EditTyped,
                                   SeatsExclusive
<1> QED BY <1>1, <1>2, <1>3, <1>5, <1>6, <1>7, <1>8, <1>9, <1>10, <1>11 DEF Creating

\* Editing touches no record of a creating handler and removes no row.
LEMMA RowsStay ==
  ASSUME InsertedStays, SeatsTyped, UNCHANGED create, DOMAIN bookings \subseteq DOMAIN bookings'
  PROVE  InsertedStays' /\ (UNCHANGED seats => SeatsTyped')
BY DEF InsertedStays, SeatsTyped

\* A step of a handler that edits keeps the invariant, also when the booking it is
\* about has been deleted in the meantime.
LEMMA EditingKeeps ==
  ASSUME BookingInv, NEW e \in Edits, Editing(e)
  PROVE  CoreInv'
<1> USE DEF BookingInv, TypeOK, CoreInv
<1>1. ASSUME NEW id \in DOMAIN bookings, NEW q \in Requests, SendEdit(e, id, q)
      PROVE  CoreInv'
  <2>1. bookings[id].stamp \in Nat /\ id \in Creates
    BY DEF BookingsTyped, Booking
  <2>2. PICK token \in {bookings[id].stamp, Keep} :
          edit' = [edit EXCEPT ![e] = [at |-> "sent", id |-> id, request |-> q, token |-> token]]
    BY <1>1 DEF SendEdit
  <2>3. EditTyped'
    BY <2>1, <2>2, EditBecomes DEF SentRecord, Tokens
  <2> QED BY <1>1, <2>3, RowsStay DEF SendEdit, BookingsTyped, KeysTyped, CreateTyped, SeatsExclusive
<1>2. CASE ReadEdit(e)
  <2>1. edit[e] \in SentRecord
    BY <1>2, EditingRecord DEF ReadEdit
  <2> DEFINE id == edit[e].id   before == bookings[id]   after == Amended(before, edit[e].request)
             at(moves) == IF after.status # "cancelled" /\ moves THEN "checking" ELSE "writing"
             r(moves) == [at |-> at(moves), id |-> id, token |-> edit[e].token, before |-> before,
                          after |-> after, moves |-> moves]
  <2>2. ASSUME ~Refused(e), NEW moves \in BOOLEAN PROVE r(moves) \in EditRecord
    <3>1. before \in Booking
      BY <2>2 DEF Refused, BookingsTyped
    <3>2. after \in Booking
      BY <2>1, <2>2, <3>1, AmendedBooking DEF Refused, SentRecord
    <3>3. at(moves) \in EditSteps
      BY DEF EditSteps
    <3> HIDE DEF at, after, before
    <3> QED BY <2>1, <3>1, <3>2, <3>3 DEF SentRecord, EditRecord
  <2>m. MayMove(before, after, edit[e].request) \subseteq BOOLEAN
    BY DEF MayMove
  <2>3. IF Refused(e) THEN edit' = [edit EXCEPT ![e] = Idle]
        ELSE \E moves \in BOOLEAN : edit' = [edit EXCEPT ![e] = r(moves)]
    BY <1>2, <2>m DEF ReadEdit
  <2> HIDE DEF r
  <2>4. EditTyped'
    BY <2>2, <2>3, EditBecomes
  <2> QED BY <1>2, <2>4, RowsStay DEF ReadEdit, BookingsTyped, KeysTyped, CreateTyped, SeatsExclusive
<1>3. CASE CheckEdit(e)
  <2>1. EditTyped'
    BY <1>3, EditContinues DEF CheckEdit, EditSteps
  <2> QED BY <1>3, <2>1, RowsStay DEF CheckEdit, BookingsTyped, KeysTyped, CreateTyped, SeatsExclusive
<1>4. CASE WriteEdit(e)
  <2>1. edit[e] \in EditRecord
    BY <1>4, EditingRecord DEF WriteEdit, EditSteps
  <2>2. EditTyped'
    BY <1>4, EditContinues DEF WriteEdit, EditSteps
  <2>3. BookingsTyped' /\ DOMAIN bookings' = DOMAIN bookings
    BY <1>4, <2>1, StampedRows DEF WriteEdit, EditRecord, BookingsTyped
  <2> QED BY <1>4, <2>2, <2>3, RowsStay DEF WriteEdit, KeysTyped, CreateTyped, SeatsExclusive
<1>5. CASE SeatEdit(e)
  <2>1. edit[e] \in EditRecord
    BY <1>5, EditingRecord DEF SeatEdit, EditSteps
  <2> DEFINE id == edit[e].id   after == edit[e].after
             capacity == IF edit[e].moves THEN Staff ELSE 1
  <2>2. EditTyped'
    BY <1>5, EditContinues DEF SeatEdit, EditSteps
  <2>3. \/ seats' = seats
        \/ seats' = Released(seats, id)
        \/ id \in DOMAIN bookings /\ seats' = Reserved(seats, id, SpanOf(after), capacity)
    BY <1>5 DEF SeatEdit
  <2>4. capacity \in {Staff, WeekStaff, 1}
    OBVIOUS
  <2>5. SeatsTyped' /\ SeatsExclusive'
    <3>1. CASE seats' = seats
      BY <1>5, <3>1 DEF SeatEdit, SeatsTyped, SeatsExclusive
    <3>2. CASE seats' = Released(seats, id)
      <4>1. DOMAIN seats' = DOMAIN seats
        BY <3>2 DEF Released
      <4>2. seats' \in [DOMAIN seats -> Seat]
        BY <3>2 DEF Released, SeatsTyped, Seat
      <4>3. \A b \in DOMAIN seats : /\ seats'[b].seat = seats[b].seat
                                    /\ seats'[b].start = seats[b].start
                                    /\ seats'[b].until = seats[b].until
                                    /\ seats'[b].active => seats[b].active
        BY <3>2 DEF Released, SeatsTyped, Seat
      <4>4. Exclusive(seats')
        BY <4>1, <4>3 DEF Exclusive, Overlap, SeatsExclusive
      <4> QED BY <1>5, <4>1, <4>2, <4>4 DEF SeatEdit, SeatsTyped, SeatsExclusive
    <3>3. CASE id \in DOMAIN bookings /\ seats' = Reserved(seats, id, SpanOf(after), capacity)
      <4>1. SpanOf(after).start \in Starts /\ SpanOf(after).until \in Untils
        BY <2>1, SpanTimes DEF EditRecord
      <4> HIDE DEF capacity
      <4>2. /\ seats' \in [DOMAIN seats' -> Seat] /\ Exclusive(seats')
            /\ DOMAIN seats' \subseteq DOMAIN seats \cup {id}
        BY <2>4, <3>3, <4>1, ReservedSeats DEF SeatsTyped, SeatsExclusive
      <4> QED BY <1>5, <3>3, <4>2 DEF SeatEdit, SeatsTyped, SeatsExclusive
    <3> QED BY <2>3, <3>1, <3>2, <3>3
  <2> QED BY <1>5, <2>2, <2>5, RowsStay DEF SeatEdit, BookingsTyped, KeysTyped, CreateTyped
<1>6. CASE LoseSeat(e)
  <2>1. EditTyped'
    BY <1>6, EditContinues DEF LoseSeat, EditSteps
  <2> QED BY <1>6, <2>1, RowsStay DEF LoseSeat, BookingsTyped, KeysTyped, CreateTyped, SeatsExclusive
<1>7. CASE RestoreEdit(e)
  <2>1. edit[e] \in EditRecord
    BY <1>7, EditingRecord DEF RestoreEdit, EditSteps
  <2> DEFINE id == edit[e].id   row == [edit[e].before EXCEPT !.manual = bookings[id].manual]
  <2>2. id \in DOMAIN bookings => row \in Booking
    BY <2>1 DEF EditRecord, Booking, BookingsTyped
  <2>3. bookings' = IF id \in DOMAIN bookings THEN Stamped(id, row) ELSE bookings
    BY <1>7 DEF RestoreEdit
  <2> HIDE DEF row
  <2>4. BookingsTyped' /\ DOMAIN bookings' = DOMAIN bookings
    BY <2>2, <2>3, StampedRows DEF BookingsTyped
  <2>5. EditTyped'
    BY <1>7, EditContinues DEF RestoreEdit
  <2> QED BY <1>7, <2>4, <2>5, RowsStay DEF RestoreEdit, KeysTyped, CreateTyped, SeatsExclusive
<1>8. CASE MailEdit(e)
  <2>1. BookingsTyped' /\ DOMAIN bookings' = DOMAIN bookings
    <3>1. edit[e].id \in DOMAIN bookings => bookings[edit[e].id] \in Booking
      BY DEF BookingsTyped
    <3> QED BY <1>8, <3>1, StampedRows DEF MailEdit, BookingsTyped
  <2>2. EditTyped'
    BY <1>8, EditContinues DEF MailEdit
  <2> QED BY <1>8, <2>1, <2>2, RowsStay DEF MailEdit, KeysTyped, CreateTyped, SeatsExclusive
<1>9. CASE DieEditing(e)
  <2>1. EditTyped'
    BY <1>9, EditContinues DEF DieEditing
  <2> QED BY <1>9, <2>1, RowsStay DEF DieEditing, BookingsTyped, KeysTyped, CreateTyped, SeatsExclusive
<1> QED BY <1>1, <1>2, <1>3, <1>4, <1>5, <1>6, <1>7, <1>8, <1>9 DEF Editing

\* A step of a no-show handler keeps the invariant.
LEMMA MissedKeeps ==
  ASSUME BookingInv, NEW m \in MarksMissed,
         WriteMissed(m) \/ \E id \in DOMAIN bookings : ReadMissed(m, id)
  PROVE  CoreInv'
<1> USE DEF BookingInv, TypeOK, CoreInv
<1>1. ASSUME NEW r \in {Idle} \cup MissedRecord, edit' = [edit EXCEPT ![m] = r]
      PROVE  EditTyped'
  BY <1>1, BookingRequests DEF EditTyped
<1>2. ASSUME NEW id \in DOMAIN bookings, ReadMissed(m, id) PROVE CoreInv'
  <2> DEFINE r == [at |-> "writing", id |-> id, status |->
                     IF bookings[id].status = "cancelled" THEN "cancelled" ELSE "completed"]
  <2>1. r \in MissedRecord
    BY DEF MissedRecord, Status, BookingsTyped
  <2>2. edit' = [edit EXCEPT ![m] = r]
    BY <1>2 DEF ReadMissed
  <2> HIDE DEF r
  <2>3. EditTyped'
    BY <1>1, <2>1, <2>2
  <2> QED BY <1>2, <2>3, RowsStay DEF ReadMissed, BookingsTyped, KeysTyped, CreateTyped, SeatsExclusive
<1>3. CASE WriteMissed(m)
  <2> DEFINE id == edit[m].id   row == [bookings[id] EXCEPT !.status = edit[m].status]
  <2>1. edit[m] \in MissedRecord
    BY <1>3 DEF WriteMissed, EditTyped, Idle
  <2>2. id \in DOMAIN bookings => row \in Booking
    BY <2>1 DEF MissedRecord, BookingsTyped, Booking
  <2>3. bookings' = IF id \in DOMAIN bookings THEN Stamped(id, row) ELSE bookings
    BY <1>3 DEF WriteMissed
  <2> HIDE DEF row
  <2>4. BookingsTyped' /\ DOMAIN bookings' = DOMAIN bookings
    BY <2>2, <2>3, StampedRows DEF BookingsTyped
  <2>5. EditTyped'
    BY <1>1, <1>3 DEF WriteMissed, EditEnds
  <2> QED BY <1>3, <2>4, <2>5, RowsStay DEF WriteMissed, KeysTyped, CreateTyped, SeatsExclusive
<1> QED BY <1>2, <1>3

\* What the handlers do to a creation in progress and to the seats: it keeps the capacity
\* it goes by, and a seat that is newly active is within the capacity of its reservation.
LEMMA CapacityKept ==
  ASSUME BookingInv, NEW c \in Creates, Creating(c), create'[c].at \in CreateSteps, create[c].at # "new"
  PROVE  create[c].at \in CreateSteps /\ create'[c].capacity = create[c].capacity
<1> DEFINE goes == \E at \in CreateSteps : CreateGoes(c, at)
           ends == \E as \in Outcomes : CreateEnds(c, as)
<1>1. create[c].at \in CreateSteps /\ (goes \/ ends)
  <2>1. CASE DieCreating(c)
    BY <2>1, BookingRequests DEF DieCreating, Outcomes, AtWork, BookingInv, TypeOK, EditTyped
  <2>2. CASE CheckCreate(c) \/ UndoCreate(c) \/ RecordCreate(c) \/ LoseRecord(c)
    BY <2>2 DEF CheckCreate, UndoCreate, RecordCreate, LoseRecord, CreateSteps, Outcomes
  <2>3. CASE InsertCreate(c) \/ MailCreate(c)
    BY <2>3 DEF InsertCreate, MailCreate, CreateSteps
  <2>4. CASE ReserveCreate(c) \/ LoseReserve(c)
    BY <2>4 DEF ReserveCreate, LoseReserve, CreateSteps
  <2>5. ~\E wish \in Standard \cup Overriding : StartCreate(c, wish)
    BY DEF StartCreate
  <2> QED BY <2>1, <2>2, <2>3, <2>4, <2>5 DEF Creating
<1>t. create[c] \in [at : CreateSteps, span : Spans, capacity : {Staff, WeekStaff}] /\ c \in DOMAIN create
  BY <1>1, CreatingRecord DEF BookingInv, TypeOK, CreateTyped
<1>2. ~ends
  BY <1>t DEF CreateEnds, CreateSteps, Outcomes
<1>3. PICK at \in CreateSteps : CreateGoes(c, at)
  BY <1>1, <1>2
<1>4. create'[c] = [create[c] EXCEPT !.at = at]
  BY <1>3, <1>t DEF CreateGoes
<1> QED BY <1>1, <1>t, <1>4

\* Nobody is seated beyond the staff of the day but by the manual override.
LEMMA OverridesStep ==
  ASSUME BookingInv, Next
  PROVE  OverridesKnown'
<1>t. /\ \A b \in DOMAIN seats : b \in Creates /\ seats[b] \in Seat
      /\ DOMAIN create = Creates
  BY DEF BookingInv, TypeOK, SeatsTyped, BookingsTyped, CreateTyped
<1>n. overriding \subseteq overriding'
      /\ \A c \in Creates : create[c].at = "new" /\ create'[c].at = "checking" /\ c \notin overriding'
           => [span |-> create'[c].span, capacity |-> create'[c].capacity] \notin Overriding
  BY DEF Next, Noted
<1>s. Staff \in Nat \ {0}
  BY BookingTimes
<1>1. ASSUME \A c \in Creates : create'[c].at \in CreateSteps =>
               \/ create[c].at \in CreateSteps /\ create'[c].capacity = create[c].capacity
               \/ c \notin overriding' => create'[c].capacity = Staff,
             \A b \in DOMAIN seats' : seats'[b].active => 
               \/ b \notin overriding => seats'[b].seat <= Staff
               \/ b \in DOMAIN seats /\ seats[b].active /\ seats'[b].seat = seats[b].seat
      PROVE  OverridesKnown'
  BY <1>1, <1>n DEF BookingInv, OverridesKnown
<1>u. ASSUME seats' = seats
      PROVE  \A b \in DOMAIN seats' : seats'[b].active => 
               \/ b \notin overriding => seats'[b].seat <= Staff
               \/ b \in DOMAIN seats /\ seats[b].active /\ seats'[b].seat = seats[b].seat
  BY <1>u
<1>v. ASSUME NEW id, NEW span, span.start \in Starts, span.until \in Untils,
             NEW capacity \in {Staff, WeekStaff, 1}, id \notin overriding => capacity <= Staff,
             seats' = Reserved(seats, id, span, capacity)
      PROVE  \A b \in DOMAIN seats' : seats'[b].active => 
               \/ b \notin overriding => seats'[b].seat <= Staff
               \/ b \in DOMAIN seats /\ seats[b].active /\ seats'[b].seat = seats[b].seat
  <2>1. /\ seats' \in [DOMAIN seats' -> Seat]
        /\ \A b \in DOMAIN seats' : seats'[b].active =>
             \/ b = id /\ seats'[b].seat <= capacity
             \/ b \in DOMAIN seats /\ seats[b].active /\ seats'[b].seat = seats[b].seat
    BY <1>v, ReservedSeats DEF BookingInv, TypeOK, SeatsTyped, SeatsExclusive
  <2>2. \A b \in DOMAIN seats' : seats'[b].seat \in Nat
    BY <2>1, BookingTimes DEF Seat, SeatNumbers
  <2>3. capacity \in Nat
    BY BookingTimes
  <2> QED BY <1>v, <2>1, <2>2, <2>3, <1>s
<1>2. ASSUME NEW c \in Creates, Creating(c) PROVE OverridesKnown'
  <2>o. \A d \in Creates \ {c} : create'[d] = create[d]
    BY <1>2, <1>t DEF Creating, StartCreate, CheckCreate, InsertCreate, ReserveCreate, LoseReserve, UndoCreate,
       MailCreate, RecordCreate, LoseRecord, DieCreating, CreateGoes, CreateEnds
  <2>1. create'[c].at \in CreateSteps =>
               \/ create[c].at \in CreateSteps /\ create'[c].capacity = create[c].capacity
               \/ c \notin overriding' => create'[c].capacity = Staff
    <3>1. CASE create[c].at # "new"
      BY <1>2, <3>1, CapacityKept
    <3>2. CASE create[c].at = "new"
      <4>1. \A d \in Creates : d \in AtWork => create[d].at \in CreateSteps
        BY BookingRequests DEF AtWork, BookingInv, TypeOK, EditTyped
      <4>2. \E wish \in Standard \cup Overriding : StartCreate(c, wish)
        BY <1>2, <3>2, <4>1 DEF Creating, CheckCreate, InsertCreate, ReserveCreate, LoseReserve, UndoCreate,
           MailCreate, RecordCreate, LoseRecord, DieCreating, CreateSteps
      <4>3. PICK wish \in Standard \cup Overriding : StartCreate(c, wish)
        BY <4>2
      <4>4. CASE create'[c].at \notin CreateSteps
        BY <4>4
      <4>5. CASE create'[c].at \in CreateSteps
        <5> DEFINE r == [at |-> "checking", span |-> wish.span, capacity |-> wish.capacity]
        <5>1. create'[c] = r
          BY <4>3, <4>5, <1>t DEF StartCreate, CreateSteps
        <5>2. create'[c].at = "checking" /\ create'[c].span = wish.span /\ create'[c].capacity = wish.capacity
          BY <5>1
        <5>3. c \notin overriding' => wish \notin Overriding
          BY <1>n, <3>2, <5>2, Wishes
        <5> QED BY <5>2, <5>3, Wishes
      <4> QED BY <4>4, <4>5
    <3> QED BY <3>1, <3>2
  <2>2. \A d \in Creates : create'[d].at \in CreateSteps =>
               \/ create[d].at \in CreateSteps /\ create'[d].capacity = create[d].capacity
               \/ d \notin overriding' => create'[d].capacity = Staff
    BY <2>o, <2>1
  <2>3. CASE seats' = seats
    BY <1>1, <1>u, <2>2, <2>3
  <2>4. CASE create[c].at = "reserving" /\ seats' = Reserved(seats, c, create[c].span, create[c].capacity)
    <3>1. create[c].span \in Spans /\ create[c].capacity \in {Staff, WeekStaff}
      BY <2>4, CreatingRecord DEF CreateSteps, BookingInv, TypeOK
    <3>2. c \notin overriding => create[c].capacity <= Staff
      BY <1>s, <2>4 DEF BookingInv, OverridesKnown, CreateSteps
    <3>3. create[c].span.start \in Starts /\ create[c].span.until \in Untils
      BY <3>1, SpanTimes
    <3> QED BY <1>1, <1>v, <2>2, <2>4, <3>1, <3>2, <3>3
  <2>5. CASE seats' = [b \in DOMAIN seats \ {c} |-> seats[b]]
    BY <1>1, <2>2, <2>5
  <2> QED BY <1>2, <2>3, <2>4, <2>5 DEF Creating, StartCreate, CheckCreate, InsertCreate, ReserveCreate,
       LoseReserve, UndoCreate, MailCreate, RecordCreate, LoseRecord, DieCreating
<1>3. ASSUME create' = create, seats' = seats PROVE OverridesKnown'
  BY <1>1, <1>3, <1>u
<1>4. ASSUME NEW e \in Edits, SeatEdit(e) PROVE OverridesKnown'
  <2> DEFINE id == edit[e].id   span == SpanOf(edit[e].after)
             capacity == IF edit[e].moves THEN Staff ELSE 1
  <2>1. create' = create /\ edit[e] \in EditRecord
    BY <1>4, EditingRecord DEF SeatEdit, EditSteps, BookingInv, TypeOK
  <2>2. seats' = seats \/ seats' = Released(seats, id) \/ seats' = Reserved(seats, id, span, capacity)
    BY <1>4 DEF SeatEdit
  <2>3. span.start \in Starts /\ span.until \in Untils
    BY <2>1, SpanTimes DEF EditRecord
  <2>4. capacity \in {Staff, WeekStaff, 1} /\ capacity <= Staff
    BY <1>s
  <2>5. CASE seats' = Released(seats, id)
    <3>1. \A b \in DOMAIN seats' : seats'[b].active =>
             b \in DOMAIN seats /\ seats[b].active /\ seats'[b].seat = seats[b].seat
      BY <1>t, <2>5 DEF Released, Seat
    <3> QED BY <1>1, <2>1, <3>1
  <2> HIDE DEF id, span, capacity
  <2>6. CASE seats' = Reserved(seats, id, span, capacity)
    BY <1>1, <1>v, <2>1, <2>3, <2>4, <2>6
  <2> QED BY <1>3, <2>1, <2>2, <2>5, <2>6
<1>5. ASSUME NEW e \in Edits, Editing(e) PROVE OverridesKnown'
  BY <1>3, <1>4, <1>5 DEF Editing, SendEdit, ReadEdit, CheckEdit, WriteEdit, LoseSeat, RestoreEdit, MailEdit,
       DieEditing
<1>6. ASSUME NEW m \in MarksMissed, WriteMissed(m) \/ \E id \in DOMAIN bookings : ReadMissed(m, id)
      PROVE  OverridesKnown'
  BY <1>3, <1>6 DEF WriteMissed, ReadMissed
<1> QED BY <1>2, <1>5, <1>6 DEF Next

\* The histories are of handlers.
LEMMA WorkersTyped == ASSUME EditTyped PROVE AtWork \subseteq Handlers
BY DEF EditTyped, AtWork, Handlers

LEMMA HistoryStep ==
  ASSUME BookingInv, EditTyped', Noted
  PROVE  HistoryTyped'
<1>1. AtWork' \subseteq Handlers
  BY DEF EditTyped, AtWork, Handlers
<1>2. \A x \in Handlers : Others(x) \subseteq Handlers
  BY <1>1 DEF Others
<1>3. beside' \in [Handlers -> SUBSET Handlers]
  BY <1>2 DEF Noted, BookingInv, TypeOK, HistoryTyped
<1>4. blind' \subseteq Creates /\ overriding' \subseteq Creates
  BY DEF Noted, BookingInv, TypeOK, HistoryTyped
<1> QED BY <1>3, <1>4 DEF HistoryTyped

\* Every state of the handlers satisfies the invariant.
THEOREM BookingInvariant == Spec => []BookingInv
<1>1. Init => BookingInv
  BY BookingInvInit
<1>2. BookingInv /\ [Next]_vars => BookingInv'
  <2> SUFFICES ASSUME BookingInv, [Next]_vars PROVE BookingInv'
    OBVIOUS
  <2>1. CASE UNCHANGED vars
    BY <2>1 DEF vars, BookingInv, TypeOK, BookingsTyped, SeatsTyped, KeysTyped, CreateTyped,
                EditTyped, InsertedStays, SeatsExclusive, HistoryTyped, OverridesKnown
  <2>2. CASE Next
    <3>1. CoreInv'
      BY <2>2, CreatingKeeps, EditingKeeps, MissedKeeps DEF Next
    <3>2. HistoryTyped'
      BY <2>2, <3>1, HistoryStep DEF Next, CoreInv
    <3>3. OverridesKnown'
      BY <2>2, OverridesStep
    <3> QED BY <3>1, <3>2, <3>3 DEF BookingInv, CoreInv, TypeOK
  <2> QED BY <2>1, <2>2
<1> QED BY <1>1, <1>2, PTL DEF Spec

\* The rows and what the handlers remember keep their types.
THEOREM BookingTypes == Spec => []TypeOK
<1>1. BookingInv => TypeOK
  BY DEF BookingInv
<1> QED BY <1>1, BookingInvariant, PTL

\* The bookings that hold one of some seats at a time hold different ones, so they are few.
LEMMA SeatedFew ==
  ASSUME BookingInv, NEW t \in Starts, NEW holders \in SUBSET SeatedAt(t), NEW places,
         IsFiniteSet(places), \A b \in holders : seats[b].seat \in places
  PROVE  IsFiniteSet(holders) /\ Cardinality(holders) <= Cardinality(places)
<1> DEFINE f == [b \in holders |-> seats[b].seat]
<1>1. \A b \in DOMAIN seats : seats[b].start \in Int /\ seats[b].until \in Int
  BY BookingTimes DEF BookingInv, TypeOK, SeatsTyped, Seat, Untils, Times
<1>2. f \in Injection(holders, places)
  <2>1. f \in [holders -> places]
    OBVIOUS
  <2>2. ASSUME NEW a \in holders, NEW b \in holders, f[a] = f[b] PROVE a = b
    BY <1>1, <2>2, BookingTimes DEF SeatedAt, BookingInv, SeatsExclusive, Exclusive, Overlap
  <2> QED BY <2>1, <2>2 DEF Injection, IsInjective
<1> HIDE DEF f
<1> QED BY <1>2, FS_Injection

\* The seats of the day and of the week are finitely many.
LEMMA SeatsFew ==
  /\ IsFiniteSet(1..Staff) /\ Cardinality(1..Staff) = Staff /\ IsFiniteSet(SeatNumbers)
<1>1. Staff \in Int /\ WeekStaff \in Int /\ 1 \in Int /\ ~(1 > Staff)
  BY BookingTimes
<1>2. IsFiniteSet(1..Staff) /\ Cardinality(1..Staff) = IF 1 > Staff THEN 0 ELSE Staff - 1 + 1
  BY <1>1, FS_Interval
<1>3. IsFiniteSet(1..WeekStaff)
  BY <1>1, FS_Interval
<1>4. IsFiniteSet(SeatNumbers)
  BY <1>2, <1>3, FS_Union DEF SeatNumbers
<1> QED BY <1>1, <1>2, <1>4

\* Those who were seated without the override hold seats of the day's staff.
LEMMA SeatedByStaff ==
  ASSUME BookingInv, NEW t \in Starts
  PROVE  /\ IsFiniteSet(SeatedAt(t) \ overriding) /\ Cardinality(SeatedAt(t) \ overriding) <= Staff
         /\ IsFiniteSet(SeatedAt(t)) /\ Cardinality(SeatedAt(t)) <= Cardinality(SeatNumbers)
<1>1. \A b \in SeatedAt(t) : seats[b].seat \in SeatNumbers
  BY DEF SeatedAt, BookingInv, TypeOK, SeatsTyped, Seat
<1>2. \A b \in SeatedAt(t) \ overriding : seats[b].seat \in 1..Staff
  BY <1>1, BookingTimes DEF SeatedAt, BookingInv, OverridesKnown, SeatNumbers
<1> DEFINE day == SeatedAt(t) \ overriding
<1>3. day \in SUBSET SeatedAt(t) /\ SeatedAt(t) \in SUBSET SeatedAt(t)
  OBVIOUS
<1>4. \A b \in day : seats[b].seat \in 1..Staff
  BY <1>2
<1> HIDE DEF day
<1>5. IsFiniteSet(day) /\ Cardinality(day) <= Staff
  BY <1>3, <1>4, SeatedFew, SeatsFew
<1>6. IsFiniteSet(SeatedAt(t)) /\ Cardinality(SeatedAt(t)) <= Cardinality(SeatNumbers)
  BY <1>1, <1>3, SeatedFew, SeatsFew
<1> QED BY <1>5, <1>6 DEF day

\* At no time are more seats reserved than there are members of staff on that day, apart
\* from bookings created with the manual override, and never more than the larger of the
\* numbers of staff of the day and of the weekday.
THEOREM NeverOversold == Spec => []NotOversold
<1>1. BookingInv => NotOversold
  BY SeatedByStaff DEF NotOversold
<1> QED BY <1>1, BookingInvariant, PTL

-----------------------------------------------------------------------------
(* Creations under one key, and edits, beside other handlers or after failures. *)

\* A creating handler touches no other handler; the others touch no creation, no key and
\* no set of rows.
LEMMA CreatingOnly ==
  ASSUME BookingInv, NEW c \in Creates, Creating(c)
  PROVE  /\ edit' = edit /\ DOMAIN create' = Creates
         /\ \A d \in Creates \ {c} : create'[d] = create[d]
BY DEF Creating, StartCreate, CheckCreate, InsertCreate, ReserveCreate, LoseReserve, UndoCreate,
       MailCreate, RecordCreate, LoseRecord, DieCreating, CreateGoes, CreateEnds, BookingInv, TypeOK,
       CreateTyped

LEMMA EditingOnly ==
  ASSUME \/ \E e \in Edits : Editing(e)
         \/ \E m \in MarksMissed : WriteMissed(m) \/ \E id \in DOMAIN bookings : ReadMissed(m, id)
  PROVE  create' = create /\ keys' = keys /\ DOMAIN bookings' = DOMAIN bookings
BY DEF Editing, SendEdit, ReadEdit, CheckEdit, WriteEdit, SeatEdit, LoseSeat, RestoreEdit, MailEdit,
       DieEditing, WriteMissed, ReadMissed, Stamped

Met(b, d) == d \in beside[b] \/ b \in beside[d]

\* A key that is recorded leads to the booking created under it, which stays; and two
\* creations on the way under one key met, or one failed to see the key.
KeysLead ==
  \A k \in DOMAIN keys : /\ keys[k] \in DOMAIN bookings /\ keys[k] \in Creates
                         /\ create[keys[k]].at = "created"
CreatedKnown == \A c \in Creates : create[c].at = "created" => KeyKnown(c)
SameKeyMet ==
  \A b, d \in Creates : b # d /\ KeyOf[b] = KeyOf[d] /\ OnTheWay(b) /\ OnTheWay(d)
    => Met(b, d) \/ b \in blind \/ d \in blind

\* The inductive invariant behind KeyCreatesOnce.
KeyInv == KeysLead /\ CreatedKnown /\ SameKeyMet

\* How a creation goes on its way: it starts, it records its key, or neither.
LEMMA CreatingWay ==
  ASSUME BookingInv, NEW c \in Creates, Creating(c)
  PROVE  \/ /\ create[c].at = "new" /\ create'[c].at = "checking" /\ UNCHANGED <<bookings, keys>>
         \/ /\ create[c].at = "recording" /\ create'[c].at = "created" /\ UNCHANGED bookings
            /\ keys' = [k \in DOMAIN keys \cup {KeyOf[c]} |-> IF k = KeyOf[c] THEN c ELSE keys[k]]
         \/ /\ create[c].at # "created" /\ create'[c].at # "created" /\ UNCHANGED keys
            /\ OnTheWay(c)' => OnTheWay(c)
            /\ create'[c].at \in CreateSteps => create[c].at \in CreateSteps
            /\ DOMAIN bookings \ {c} \subseteq DOMAIN bookings'
<1>t. c \in DOMAIN create /\ CreateTyped
  BY DEF BookingInv, TypeOK, CreateTyped
<1>g. ASSUME NEW at \in CreateSteps, create[c].at \in CreateSteps, CreateGoes(c, at)
      PROVE  create'[c].at = at
  <2>1. create[c] \in [at : CreateSteps, span : Spans, capacity : {Staff, WeekStaff}]
    BY <1>t, <1>g, CreatingRecord
  <2>2. create'[c] = [create[c] EXCEPT !.at = at]
    BY <1>t, <1>g DEF CreateGoes
  <2> QED BY <2>1, <2>2
<1>e. ASSUME NEW as, CreateEnds(c, as) PROVE create'[c].at = as
  <2>1. create'[c] = [at |-> as]
    BY <1>t, <1>e DEF CreateEnds
  <2> QED BY <2>1
<1>1. ASSUME create[c].at \in CreateSteps, UNCHANGED keys, DOMAIN bookings \ {c} \subseteq DOMAIN bookings',
             (\E at \in CreateSteps : CreateGoes(c, at))
               \/ \E as \in Outcomes \ {"created"} : CreateEnds(c, as)
      PROVE  /\ create[c].at # "created" /\ create'[c].at # "created" /\ UNCHANGED keys
             /\ OnTheWay(c)' => OnTheWay(c)
             /\ create'[c].at \in CreateSteps => create[c].at \in CreateSteps
             /\ DOMAIN bookings \ {c} \subseteq DOMAIN bookings'
  <2>1. create'[c].at \in CreateSteps \/ create'[c].at \in Outcomes \ {"created"}
    BY <1>1, <1>g, <1>e
  <2> QED BY <1>1, <2>1 DEF OnTheWay, CreateSteps, Outcomes
<1>2. CASE \E wish \in Standard \cup Overriding : StartCreate(c, wish)
  <2>1. PICK wish \in Standard \cup Overriding : StartCreate(c, wish)
    BY <1>2
  <2>2. /\ create[c].at = "new" /\ UNCHANGED <<bookings, keys>>
        /\ create'[c].at \in {"checking", "replayed"}
    BY <1>t, <2>1 DEF StartCreate
  <2> QED BY <2>2 DEF OnTheWay, CreateSteps
<1>3. CASE CheckCreate(c)
  BY <1>1, <1>3 DEF CheckCreate, CreateSteps, Outcomes
<1>4. CASE InsertCreate(c)
  BY <1>1, <1>4 DEF InsertCreate, CreateSteps
<1>5. CASE ReserveCreate(c)
  BY <1>1, <1>5 DEF ReserveCreate, CreateSteps
<1>6. CASE LoseReserve(c)
  BY <1>1, <1>6 DEF LoseReserve, CreateSteps
<1>7. CASE UndoCreate(c)
  BY <1>1, <1>7 DEF UndoCreate, CreateSteps, Outcomes
<1>8. CASE MailCreate(c)
  BY <1>1, <1>8 DEF MailCreate, CreateSteps, Stamped
<1>9. CASE RecordCreate(c)
  BY <1>e, <1>9 DEF RecordCreate
<1>10. CASE LoseRecord(c)
  BY <1>1, <1>10 DEF LoseRecord, CreateSteps, Outcomes
<1>11. CASE DieCreating(c)
  <2>1. create[c].at \in CreateSteps
    BY <1>11, BookingRequests DEF DieCreating, AtWork, BookingInv, TypeOK, EditTyped
  <2> QED BY <1>1, <1>11, <2>1 DEF DieCreating, Outcomes
<1> QED BY <1>2, <1>3, <1>4, <1>5, <1>6, <1>7, <1>8, <1>9, <1>10, <1>11 DEF Creating

\* A step keeps whom a creation has met, unless it is the start of the creation.
LEMMA MetStays ==
  ASSUME BookingInv, Noted, NEW x \in Handlers, NEW y,
         y \in beside[x], x \in AtWork' => x \in AtWork, x \in AtWork' \/ x \in Creates
  PROVE  y \in beside'[x]
BY DEF Noted

LEMMA KeyCreating ==
  ASSUME BookingInv, KeyInv, NEW c \in Creates, Creating(c), Noted
  PROVE  KeyInv'
<1>t. /\ KeyOf[c] \in Keys /\ DOMAIN bookings \subseteq Creates
      /\ create[c].at = "recording" => c \in DOMAIN bookings
  BY BookingRequests DEF BookingInv, TypeOK, BookingsTyped, InsertedStays
<1>o. edit' = edit /\ \A d \in Creates \ {c} : create'[d] = create[d]
  BY CreatingOnly
<1>b. blind \subseteq blind'
      /\ (create[c].at = "new" /\ create'[c].at = "checking" /\ KeyKnown(c) => c \in blind')
  BY DEF Noted
<1>w. /\ \A d \in Creates : d \in AtWork <=> create[d].at \in CreateSteps
      /\ \A d \in Creates : d \in AtWork' <=> create'[d].at \in CreateSteps
  BY <1>o, BookingRequests DEF AtWork, BookingInv, TypeOK, EditTyped
<1>h. Creates \subseteq Handlers
  BY DEF Handlers
\* Two creations of which neither starts.
<1>p. ASSUME NEW b \in Creates, NEW d \in Creates, b # d, KeyOf[b] = KeyOf[d], OnTheWay(b), OnTheWay(d),
             b \in AtWork' => b \in AtWork, d \in AtWork' => d \in AtWork
      PROVE  Met(b, d)' \/ b \in blind' \/ d \in blind'
  <2>1. Met(b, d) \/ b \in blind \/ d \in blind
    BY <1>p DEF KeyInv, SameKeyMet
  <2>2. d \in beside[b] => d \in beside'[b]
    BY <1>p, <1>h, MetStays
  <2>3. b \in beside[d] => b \in beside'[d]
    BY <1>p, <1>h, MetStays
  <2> QED BY <2>1, <2>2, <2>3, <1>b DEF Met
<1>1. CASE create[c].at = "new" /\ create'[c].at = "checking" /\ UNCHANGED <<bookings, keys>>
  <2>1. KeysLead'
    BY <1>1, <1>o DEF KeyInv, KeysLead
  <2>2. CreatedKnown'
    BY <1>1, <1>o DEF KeyInv, CreatedKnown, KeyKnown
  <2>3. ASSUME NEW d \in Creates \ {c}, KeyOf[c] = KeyOf[d], OnTheWay(d)
        PROVE  d \in beside'[c] \/ c \in blind'
    <3>1. CASE create[d].at = "created"
      BY <1>1, <1>b, <2>3, <3>1 DEF KeyInv, CreatedKnown, KeyKnown
    <3>2. CASE create[d].at \in CreateSteps
      <4>1. d \in AtWork' /\ c \in AtWork'
        BY <1>1, <1>o, <1>w, <3>2 DEF CreateSteps
      <4>2. d \in Others(c)
        BY <2>3, <4>1 DEF Others
      <4> QED BY <1>h, <4>1, <4>2 DEF Noted
    <3> QED BY <2>3, <3>1, <3>2 DEF OnTheWay
  <2>4. ASSUME NEW b \in Creates, NEW d \in Creates, b # d, KeyOf[b] = KeyOf[d],
               OnTheWay(b)', OnTheWay(d)'
        PROVE  Met(b, d)' \/ b \in blind' \/ d \in blind'
    <3>1. CASE b = c
      <4>1. OnTheWay(d)
        BY <1>o, <2>4, <3>1 DEF OnTheWay
      <4> QED BY <2>3, <2>4, <3>1, <4>1 DEF Met
    <3>2. CASE d = c
      <4>1. OnTheWay(b)
        BY <1>o, <2>4, <3>2 DEF OnTheWay
      <4> QED BY <2>3, <2>4, <3>2, <4>1 DEF Met
    <3>3. CASE b # c /\ d # c
      <4>1. OnTheWay(b) /\ OnTheWay(d)
        BY <1>o, <2>4, <3>3 DEF OnTheWay
      <4>2. (b \in AtWork' => b \in AtWork) /\ (d \in AtWork' => d \in AtWork)
        BY <1>o, <1>w, <3>3
      <4> QED BY <1>p, <2>4, <4>1, <4>2
    <3> QED BY <3>1, <3>2, <3>3
  <2>5. SameKeyMet'
    BY <2>4 DEF SameKeyMet
  <2> QED BY <2>1, <2>2, <2>5 DEF KeyInv
<1>2. CASE /\ create[c].at = "recording" /\ create'[c].at = "created" /\ UNCHANGED bookings
           /\ keys' = [k \in DOMAIN keys \cup {KeyOf[c]} |-> IF k = KeyOf[c] THEN c ELSE keys[k]]
  <2>1. KeysLead'
    BY <1>2, <1>o, <1>t DEF KeyInv, KeysLead
  <2>2. CreatedKnown'
    BY <1>2, <1>o, <1>t DEF KeyInv, CreatedKnown, KeyKnown
  <2>3. \A d \in Creates : OnTheWay(d)' => OnTheWay(d)
    BY <1>2, <1>o DEF OnTheWay, CreateSteps
  <2>4. \A d \in Creates : d \in AtWork' => d \in AtWork
    BY <1>2, <1>o, <1>w DEF CreateSteps
  <2>5. SameKeyMet'
    BY <1>p, <2>3, <2>4 DEF SameKeyMet
  <2> QED BY <2>1, <2>2, <2>5 DEF KeyInv
<1>3. CASE /\ create[c].at # "created" /\ create'[c].at # "created" /\ UNCHANGED keys
           /\ OnTheWay(c)' => OnTheWay(c)
           /\ create'[c].at \in CreateSteps => create[c].at \in CreateSteps
           /\ DOMAIN bookings \ {c} \subseteq DOMAIN bookings'
  <2>1. KeysLead'
    BY <1>3, <1>o DEF KeyInv, KeysLead
  <2>2. ASSUME NEW d \in Creates, create'[d].at = "created" PROVE KeyKnown(d)'
    <3>1. d # c /\ create[d].at = "created" /\ KeyKnown(d)
      BY <1>3, <1>o, <2>2 DEF KeyInv, CreatedKnown
    <3>2. keys[KeyOf[d]] # c
      BY <1>3, <3>1 DEF KeyInv, KeysLead, KeyKnown
    <3> QED BY <1>3, <3>1, <3>2 DEF KeyKnown
  <2>3. \A d \in Creates : OnTheWay(d)' => OnTheWay(d)
    BY <1>3, <1>o DEF OnTheWay
  <2>4. \A d \in Creates : d \in AtWork' => d \in AtWork
    BY <1>3, <1>o, <1>w
  <2>5. SameKeyMet'
    BY <1>p, <2>3, <2>4 DEF SameKeyMet
  <2> QED BY <2>1, <2>2, <2>5 DEF KeyInv, CreatedKnown
<1> QED BY <1>1, <1>2, <1>3, CreatingWay

LEMMA KeyStep ==
  ASSUME BookingInv, KeyInv, [Next]_vars
  PROVE  KeyInv'
<1>1. CASE UNCHANGED vars
  BY <1>1 DEF vars, KeyInv, KeysLead, CreatedKnown, KeyKnown, SameKeyMet, Met, OnTheWay
<1>2. ASSUME NEW c \in Creates, Creating(c), Next PROVE KeyInv'
  BY <1>2, KeyCreating DEF Next
<1>3. ASSUME Noted, create' = create, keys' = keys, DOMAIN bookings' = DOMAIN bookings, EditTyped'
      PROVE  KeyInv'
  <2>1. KeysLead' /\ CreatedKnown'
    BY <1>3 DEF KeyInv, KeysLead, CreatedKnown, KeyKnown
  <2>2. \A d \in Creates : d \in AtWork' => d \in AtWork
    BY <1>3, BookingRequests DEF AtWork, BookingInv, TypeOK, EditTyped
  <2>3. \A d \in Creates : \A y \in beside[d] : y \in beside'[d]
    BY <1>3, <2>2, MetStays DEF Handlers
  <2>4. blind \subseteq blind'
    BY <1>3 DEF Noted
  <2>5. SameKeyMet'
    BY <1>3, <2>3, <2>4 DEF KeyInv, SameKeyMet, Met, OnTheWay
  <2> QED BY <2>1, <2>5 DEF KeyInv
<1>4. CASE Next /\ ~\E c \in Creates : Creating(c)
  <2>1. create' = create /\ keys' = keys /\ DOMAIN bookings' = DOMAIN bookings
    BY <1>4, EditingOnly DEF Next
  <2>2. CoreInv' /\ Noted
    BY <1>4, EditingKeeps, MissedKeeps DEF Next
  <2> QED BY <1>3, <2>1, <2>2 DEF CoreInv
<1> QED BY <1>1, <1>2, <1>4

\* Two bookings stand under one key only if their requests were at work at the same time,
\* or one did not get to record the key, or one failed to find the other by it: for any
\* number of handlers at once, deaths and failed calls.
THEOREM KeysCreateOnce == Spec => []KeyCreatesOnce
<1>1. Init => KeyInv
  BY DEF Init, KeyInv, KeysLead, CreatedKnown, SameKeyMet, OnTheWay, CreateSteps
<1>2. BookingInv /\ KeyInv /\ [Next]_vars => KeyInv'
  BY KeyStep
<1>3. BookingInv /\ KeyInv => KeyCreatesOnce
  BY DEF KeyInv, SameKeyMet, Met, KeyCreatesOnce, BookingInv, TypeOK, BookingsTyped
<1> QED BY <1>1, <1>2, <1>3, BookingInvariant, PTL DEF Spec

\* Whoever is at work has met the others whose work meets its own.
Meet(x) ==
  IF x \in Creates THEN (AtWork \cap Creates) \ {x}
  ELSE (AtWork \cap ({edit[x].id} \cup Edits \cup MarksMissed)) \ {x}
WorkersMeet == \A x \in AtWork : Meet(x) \subseteq beside[x]

\* The row that an edit read has its version until the edit writes it, and the next one
\* until it is done, unless others are at work.
VersionKnown(e) ==
  LET id == edit[e].id   stamp == bookings[id].stamp   seen == edit[e].before.stamp
  IN id \in DOMAIN bookings =>
       /\ edit[e].at \in {"checking", "writing"} => stamp = seen /\ edit[e].token \in {seen, Keep}
       /\ edit[e].at \in {"seating", "restoring"} => stamp = seen + 1
SeenInv ==
  /\ WorkersMeet
  /\ \A e \in Edits : edit[e].at \in EditSteps => beside[e] # {} \/ VersionKnown(e)

\* Only a handler at work on a booking, or another one that edits, changes a row.
LEMMA WhoWrites ==
  ASSUME BookingInv, Next, NEW e \in Edits, edit'[e] = edit[e], e \in AtWork,
         ~(edit[e].id \in DOMAIN bookings' => edit[e].id \in DOMAIN bookings
              /\ bookings'[edit[e].id] = bookings[edit[e].id])
  PROVE  Meet(e) # {}
<1> DEFINE id == edit[e].id
<1>e. e \notin Creates /\ e \notin MarksMissed /\ e \in DOMAIN edit /\ DOMAIN edit = Edits \cup MarksMissed
  BY BookingRequests DEF BookingInv, TypeOK, EditTyped
<1>c. ASSUME NEW c \in Creates, Creating(c) PROVE Meet(e) # {}
  <2>1. create[c].at \in {"inserting", "undoing", "mailing"} /\ c = id
    BY <1>c DEF Creating, StartCreate, CheckCreate, InsertCreate, ReserveCreate, LoseReserve, UndoCreate,
         MailCreate, RecordCreate, LoseRecord, DieCreating, Stamped
  <2>2. c \in AtWork
    BY <2>1 DEF AtWork, CreateSteps
  <2> QED BY <1>e, <2>1, <2>2 DEF Meet
<1>f. ASSUME NEW f \in Edits \cup MarksMissed, f # e, f \in AtWork PROVE Meet(e) # {}
  BY <1>e, <1>f DEF Meet
<1>d. ASSUME NEW f \in Edits, Editing(f) PROVE Meet(e) # {}
  <2>1. /\ edit[f].at \in {"writing", "restoring", "mailing"} /\ f \in DOMAIN edit
        /\ WriteEdit(f) \/ RestoreEdit(f) \/ MailEdit(f)
    BY <1>d, <1>e DEF Editing, SendEdit, ReadEdit, CheckEdit, WriteEdit, SeatEdit, LoseSeat, RestoreEdit,
         MailEdit, DieEditing
  <2>2. f \in AtWork
    BY <2>1 DEF AtWork
  <2>3. edit'[f] # edit[f]
    <3>1. edit[f] \in EditRecord
      BY <2>1, <1>d, EditingRecord DEF EditSteps, BookingInv, TypeOK
    <3>2. edit'[f] \in {Idle, [edit[f] EXCEPT !.at = "seating"]}
      BY <2>1 DEF WriteEdit, RestoreEdit, MailEdit, EditEnds, EditGoes
    <3>3. edit'[f].at \in {"idle", "seating"}
      BY <3>1, <3>2 DEF Idle, EditRecord
    <3> QED BY <2>1, <3>3
  <2> QED BY <1>d, <1>f, <2>2, <2>3
<1>m. ASSUME NEW m \in MarksMissed, WriteMissed(m) \/ \E i \in DOMAIN bookings : ReadMissed(m, i)
      PROVE  Meet(e) # {}
  <2>1. WriteMissed(m)
    BY <1>m DEF ReadMissed
  <2>2. m \in AtWork
    BY <1>e, <2>1 DEF WriteMissed, AtWork
  <2> QED BY <1>e, <1>f, <2>2
<1> QED BY <1>c, <1>d, <1>m DEF Next

\* An editing handler goes on with what it has, or is idle.
LEMMA GoesOn ==
  ASSUME EditTyped, NEW e \in Edits
  PROVE  /\ \A at : edit[e].at \in EditSteps /\ EditGoes(e, at) =>
              /\ edit'[e].at = at /\ edit'[e].id = edit[e].id /\ edit'[e].token = edit[e].token
              /\ edit'[e].before = edit[e].before /\ edit'[e].after = edit[e].after
              /\ edit'[e].moves = edit[e].moves
         /\ EditEnds(e) => edit'[e].at = "idle"
<1>1. e \in DOMAIN edit
  BY DEF EditTyped
<1>2. ASSUME NEW at, edit[e].at \in EditSteps, EditGoes(e, at)
      PROVE  /\ edit'[e].at = at /\ edit'[e].id = edit[e].id /\ edit'[e].token = edit[e].token
             /\ edit'[e].before = edit[e].before /\ edit'[e].after = edit[e].after
             /\ edit'[e].moves = edit[e].moves
  <2>1. edit[e] \in EditRecord
    BY <1>2, EditingRecord
  <2>2. edit'[e] = [edit[e] EXCEPT !.at = at]
    BY <1>1, <1>2 DEF EditGoes
  <2> QED BY <2>1, <2>2 DEF EditRecord
<1>3. EditEnds(e) => edit'[e].at = "idle"
  BY <1>1 DEF EditEnds, Idle
<1> QED BY <1>2, <1>3

\* The steps of an editing or no-show handler that is at work, or begins.
Turns(x) ==
  \/ x \in Edits /\ (ReadEdit(x) \/ CheckEdit(x) \/ WriteEdit(x) \/ SeatEdit(x) \/ LoseSeat(x)
                       \/ RestoreEdit(x) \/ MailEdit(x) \/ DieEditing(x))
  \/ x \in MarksMissed /\ (WriteMissed(x) \/ \E id \in DOMAIN bookings : ReadMissed(x, id))

\* A step is a creating handler's, a request's that is sent, or another handler's.
LEMMA DeskCases ==
  ASSUME Next
  PROVE  \/ \E c \in Creates : Creating(c)
         \/ \E e \in Edits, id \in DOMAIN bookings, q \in Requests : SendEdit(e, id, q)
         \/ \E x : Turns(x)
BY DEF Next, Editing, Turns

\* What an edit reads is the version its sender saw.
LEMMA ReadsSeen ==
  ASSUME BookingInv, NEW e \in Edits, ReadEdit(e), ~Refused(e)
  PROVE  \E moves \in BOOLEAN :
           edit'[e] = [at |-> IF Amended(bookings[edit[e].id], edit[e].request).status # "cancelled" /\ moves
                              THEN "checking" ELSE "writing",
                       id |-> edit[e].id, token |-> edit[e].token, before |-> bookings[edit[e].id],
                       after |-> Amended(bookings[edit[e].id], edit[e].request), moves |-> moves]
<1> DEFINE before == bookings[edit[e].id]   after == Amended(before, edit[e].request)
           r(moves) == [at |-> IF after.status # "cancelled" /\ moves THEN "checking" ELSE "writing",
                        id |-> edit[e].id, token |-> edit[e].token, before |-> before,
                        after |-> after, moves |-> moves]
<1>1. e \in DOMAIN edit /\ MayMove(before, after, edit[e].request) \subseteq BOOLEAN
  BY DEF BookingInv, TypeOK, EditTyped, MayMove
<1>2. \E moves \in BOOLEAN : edit' = [edit EXCEPT ![e] = r(moves)]
  BY <1>1 DEF ReadEdit
<1>3. \E moves \in BOOLEAN : edit'[e] = r(moves)
  BY <1>1, <1>2
<1> QED BY <1>3

LEMMA SeenStep ==
  ASSUME BookingInv, SeenInv, [Next]_vars, EditTyped'
  PROVE  SeenInv'
<1>1. CASE UNCHANGED vars
  BY <1>1 DEF vars, SeenInv, WorkersMeet, Meet, AtWork, VersionKnown
<1>2. CASE Next
  <2>n. Noted
    BY <1>2 DEF Next
  <2>d. DOMAIN edit = Edits \cup MarksMissed /\ DOMAIN edit' = Edits \cup MarksMissed
    BY DEF BookingInv, TypeOK, EditTyped
  <2>1. WorkersMeet'
    <3> SUFFICES ASSUME NEW x \in AtWork' PROVE Meet(x)' \subseteq beside'[x]
      BY DEF WorkersMeet
    <3>1. x \in Handlers
      BY <2>d DEF AtWork, Handlers
    <3>2. Meet(x)' = Others(x)
      BY DEF Meet, Others
    <3> QED BY <2>n, <3>1, <3>2 DEF Noted
  <2>2. ASSUME NEW e \in Edits, edit'[e].at \in EditSteps
        PROVE  beside'[e] # {} \/ VersionKnown(e)'
    <3>w. e \in AtWork' /\ e \in Handlers /\ e \notin Creates
      BY <2>2, <2>d, BookingRequests DEF AtWork, EditSteps, Handlers
    <3>k. e \in AtWork /\ beside[e] # {} => beside'[e] # {}
      BY <2>n, <3>w DEF Noted
    <3>1. CASE edit'[e] = edit[e]
      <4>1. e \in AtWork /\ edit[e].at \in EditSteps
        BY <2>2, <2>d, <3>1 DEF AtWork, EditSteps
      <4>2. CASE beside[e] # {}
        BY <3>k, <4>1, <4>2
      <4>3. CASE ~(edit[e].id \in DOMAIN bookings' => edit[e].id \in DOMAIN bookings
                     /\ bookings'[edit[e].id] = bookings[edit[e].id])
        <5>1. Meet(e) # {}
          BY <1>2, <3>1, <4>1, <4>3, WhoWrites
        <5>2. beside[e] # {}
          BY <4>1, <5>1 DEF SeenInv, WorkersMeet
        <5> QED BY <3>k, <4>1, <5>2
      <4>4. CASE beside[e] = {} /\ (edit[e].id \in DOMAIN bookings' => edit[e].id \in DOMAIN bookings
                     /\ bookings'[edit[e].id] = bookings[edit[e].id])
        BY <3>1, <4>1, <4>4 DEF SeenInv, VersionKnown
      <4> QED BY <4>2, <4>3, <4>4
    <3>2. CASE edit'[e] # edit[e]
      <4>1. Turns(e) /\ e \notin MarksMissed
        <5>1. e \notin MarksMissed
          BY BookingRequests
        <5>2. ~\E c \in Creates : Creating(c)
          BY <3>2, CreatingOnly
        <5>3. ASSUME NEW f \in Edits, NEW id \in DOMAIN bookings, NEW q \in Requests, SendEdit(f, id, q)
              PROVE  FALSE
          <6>1. f = e
            BY <2>d, <3>2, <5>3 DEF SendEdit
          <6>2. edit'[e].at = "sent"
            BY <2>d, <5>3, <6>1 DEF SendEdit
          <6> QED BY <2>2, <6>2 DEF EditSteps
        <5>4. PICK x : Turns(x)
          BY <1>2, <5>2, <5>3, DeskCases
        <5>5. x = e
          BY <2>d, <3>2, <5>4 DEF Turns, ReadEdit, CheckEdit, WriteEdit, SeatEdit, LoseSeat, RestoreEdit,
               MailEdit, DieEditing, WriteMissed, ReadMissed, EditGoes, EditEnds
        <5> QED BY <5>1, <5>4, <5>5
      <4>g. /\ \A at : edit[e].at \in EditSteps /\ EditGoes(e, at) =>
                 /\ edit'[e].at = at /\ edit'[e].id = edit[e].id /\ edit'[e].token = edit[e].token
                 /\ edit'[e].before = edit[e].before
            /\ EditEnds(e) => edit'[e].at = "idle"
        BY GoesOn DEF BookingInv, TypeOK
      <4>s. edit[e].at \in EditSteps => e \in AtWork /\ (beside[e] # {} \/ VersionKnown(e))
        BY <2>d DEF SeenInv, AtWork, EditSteps
      <4>2. CASE ReadEdit(e)
        <5>1. ~Refused(e)
          BY <2>2, <2>d, <4>2 DEF ReadEdit, Idle, EditSteps
        <5>2. /\ edit'[e].at \in {"checking", "writing"} /\ edit'[e].id = edit[e].id
              /\ edit'[e].token = edit[e].token /\ edit'[e].before = bookings[edit[e].id]
          <6>1. PICK moves \in BOOLEAN :
                  edit'[e] = [at |-> IF Amended(bookings[edit[e].id], edit[e].request).status # "cancelled"
                                        /\ moves THEN "checking" ELSE "writing",
                              id |-> edit[e].id, token |-> edit[e].token, before |-> bookings[edit[e].id],
                              after |-> Amended(bookings[edit[e].id], edit[e].request), moves |-> moves]
            BY <4>2, <5>1, ReadsSeen
          <6> QED BY <6>1
        <5>3. edit[e].token \in {bookings[edit[e].id].stamp, Keep} /\ bookings' = bookings
          BY <4>2, <5>1 DEF Refused, ReadEdit
        <5> QED BY <5>2, <5>3 DEF VersionKnown
      <4>3. CASE CheckEdit(e)
        <5>1. edit[e].at = "checking" /\ bookings' = bookings /\ EditGoes(e, "writing")
          BY <2>2, <4>3, <4>g DEF CheckEdit, EditSteps
        <5> QED BY <3>k, <4>g, <4>s, <5>1 DEF VersionKnown, EditSteps
      <4>4. CASE WriteEdit(e)
        <5>1. edit[e].at = "writing" /\ edit[e].id \in DOMAIN bookings
              /\ bookings' = Stamped(edit[e].id, edit[e].after) /\ EditGoes(e, "seating")
          BY <2>2, <4>4, <4>g DEF WriteEdit, EditSteps
        <5>2. edit[e] \in EditRecord
          BY <5>1, EditingRecord DEF EditSteps, BookingInv, TypeOK
        <5>3. bookings'[edit[e].id].stamp = bookings[edit[e].id].stamp + 1
          BY <5>1, <5>2 DEF Stamped, EditRecord, Booking
        <5> QED BY <3>k, <4>g, <4>s, <5>1, <5>3 DEF VersionKnown, EditSteps
      <4>5. CASE SeatEdit(e) \/ LoseSeat(e)
        <5>1. edit[e].at = "seating" /\ bookings' = bookings
              /\ \E at \in {"mailing", "restoring"} : EditGoes(e, at)
          BY <4>5 DEF SeatEdit, LoseSeat
        <5> QED BY <3>k, <4>g, <4>s, <5>1 DEF VersionKnown, EditSteps
      <4>6. CASE RestoreEdit(e) \/ MailEdit(e) \/ DieEditing(e)
        BY <2>2, <4>6, <4>g DEF RestoreEdit, MailEdit, DieEditing, EditSteps
      <4> QED BY <4>1, <4>2, <4>3, <4>4, <4>5, <4>6 DEF Turns
    <3> QED BY <3>1, <3>2
  <2> QED BY <2>1, <2>2 DEF SeenInv
<1> QED BY <1>1, <1>2

\* An edit, and what it restores, replaces the version that it read and its sender saw,
\* unless another handler was at work on the booking: for any number of handlers at once,
\* deaths and failed calls.
THEOREM EditsReplaceSeen == Spec => EditReplacesSeen
<1>1. Init => SeenInv
  BY DEF Init, SeenInv, WorkersMeet, Meet, AtWork, CreateSteps, EditSteps, Idle
<1>2. BookingInv /\ BookingInv' /\ SeenInv /\ [Next]_vars => SeenInv'
  BY SeenStep DEF BookingInv, TypeOK
<1>3. BookingInv /\ SeenInv /\ [Next]_vars =>
        [\A e \in Edits :
           LET id == edit[e].id
               stamp == bookings[id].stamp
           IN edit[e].at \in {"writing", "restoring"} /\ edit'[e] # edit[e]
              /\ id \in DOMAIN bookings /\ bookings'[id] # bookings[id] =>
                \/ beside[e] # {}
                \/ /\ edit[e].at = "writing" /\ stamp = edit[e].before.stamp
                   /\ edit[e].token \in {stamp, Keep}
                \/ edit[e].at = "restoring" /\ stamp = edit[e].before.stamp + 1]_vars
  BY DEF SeenInv, VersionKnown, EditSteps
<1> QED BY <1>1, <1>2, <1>3, BookingInvariant, PTL DEF Spec, EditReplacesSeen

-----------------------------------------------------------------------------
(* One handler at a time. *)

OneAtWork == \A x, y \in AtWork : x = y

\* Nobody else is at work when x moves.
Alone(x) == \A y \in AtWork : y = x

\* Until it writes, a handler knows the row as it is.
ReadStays ==
  \A e \in Edits : edit[e].at \in {"checking", "writing"} =>
    edit[e].id \in DOMAIN bookings /\ bookings[edit[e].id] = edit[e].before

TurnInv == OneAtWork /\ ReadStays

\* Who begins, or goes on, is alone.
LEMMA TurnOf ==
  ASSUME OneAtWork, MaxActive = 1, NEW x, x \in AtWork \/ Cardinality(AtWork) < MaxActive
  PROVE  Alone(x)
<1>1. CASE x \in AtWork
  BY <1>1 DEF OneAtWork, Alone
<1>2. CASE AtWork = {}
  BY <1>2 DEF Alone
<1>3. ASSUME NEW y \in AtWork, Cardinality(AtWork) < 1 PROVE FALSE
  <2>1. AtWork = {y}
    BY <1>3 DEF OneAtWork
  <2>2. Cardinality({y}) = 1
    BY FS_Singleton
  <2> QED BY <1>3, <2>1, <2>2
<1> QED BY <1>1, <1>2, <1>3

\* A handler that creates moves on its turn, and touches no other handler.
LEMMA CreatingTurn ==
  ASSUME BookingInv, OneAtWork, MaxActive = 1, NEW c \in Creates, Creating(c)
  PROVE  /\ Alone(c) /\ edit' = edit /\ DOMAIN create' = Creates
         /\ \A d \in Creates \ {c} : create'[d] = create[d]
<1>2. c \in AtWork \/ Cardinality(AtWork) < MaxActive
  BY DEF Creating, StartCreate, CheckCreate, InsertCreate, ReserveCreate, LoseReserve, UndoCreate,
         MailCreate, RecordCreate, LoseRecord, DieCreating, AtWork, CreateSteps
<1> QED BY <1>2, TurnOf, CreatingOnly

\* Such a handler moves on its turn, and touches no other handler and no key.
LEMMA EditingTurn ==
  ASSUME BookingInv, OneAtWork, MaxActive = 1, NEW x, Turns(x)
  PROVE  /\ Alone(x) /\ create' = create /\ keys' = keys /\ DOMAIN edit = Edits \cup MarksMissed
         /\ DOMAIN edit' = DOMAIN edit
         /\ x \in DOMAIN edit /\ x \notin Creates
         /\ \A y \in DOMAIN edit \ {x} : edit'[y] = edit[y]
<1>1. create' = create /\ keys' = keys /\ x \in Edits \cup MarksMissed
  BY DEF Turns, ReadEdit, CheckEdit, WriteEdit, SeatEdit, LoseSeat, RestoreEdit, MailEdit, DieEditing,
         WriteMissed, ReadMissed
<1>2. DOMAIN edit = Edits \cup MarksMissed
  BY DEF BookingInv, TypeOK, EditTyped
<1>3. /\ DOMAIN edit' = DOMAIN edit
      /\ \A y \in DOMAIN edit \ {x} : edit'[y] = edit[y]
  BY DEF Turns, ReadEdit, CheckEdit, WriteEdit, SeatEdit, LoseSeat, RestoreEdit, MailEdit, DieEditing,
         WriteMissed, ReadMissed, EditGoes, EditEnds
<1>4. x \in AtWork \/ Cardinality(AtWork) < MaxActive
  BY <1>1, <1>2 DEF Turns, ReadEdit, CheckEdit, WriteEdit, SeatEdit, LoseSeat, RestoreEdit, MailEdit,
         DieEditing, WriteMissed, ReadMissed, AtWork
<1> QED BY <1>1, <1>2, <1>3, <1>4, TurnOf, BookingRequests

\* Sending a request is no work yet.
LEMMA SendingTurn ==
  ASSUME BookingInv, NEW e \in Edits, NEW id \in DOMAIN bookings, NEW q \in Requests, SendEdit(e, id, q)
  PROVE  /\ UNCHANGED <<bookings, seats, keys, create>> /\ AtWork' = AtWork
         /\ edit'[e].at = "sent" /\ DOMAIN edit' = DOMAIN edit
         /\ \A y \in DOMAIN edit \ {e} : edit'[y] = edit[y]
<1>1. e \in DOMAIN edit
  BY DEF BookingInv, TypeOK, EditTyped
<1>2. /\ UNCHANGED <<bookings, seats, keys, create>> /\ edit'[e].at = "sent" /\ edit[e].at = "idle"
      /\ DOMAIN edit' = DOMAIN edit
      /\ \A y \in DOMAIN edit \ {e} : edit'[y] = edit[y]
  BY <1>1 DEF SendEdit
<1> QED BY <1>1, <1>2 DEF AtWork

\* The mover is the only one that can be at work after its step.
LEMMA OneAtWorkStep ==
  ASSUME BookingInv, OneAtWork, MaxActive = 1, [Next]_vars
  PROVE  OneAtWork'
<1>1. CASE UNCHANGED vars
  BY <1>1 DEF vars, OneAtWork, AtWork
<1>2. ASSUME NEW c \in Creates, Creating(c) PROVE OneAtWork'
  <2>1. AtWork' \subseteq AtWork \cup {c}
    BY <1>2, CreatingTurn DEF AtWork
  <2> QED BY <1>2, <2>1, CreatingTurn DEF OneAtWork, Alone
<1>3. ASSUME NEW e \in Edits, NEW id \in DOMAIN bookings, NEW q \in Requests, SendEdit(e, id, q)
      PROVE  OneAtWork'
  BY <1>3, SendingTurn DEF OneAtWork
<1>4. ASSUME NEW x, Turns(x) PROVE OneAtWork'
  <2>1. AtWork' \subseteq AtWork \cup {x}
    BY <1>4, EditingTurn DEF AtWork
  <2> QED BY <1>4, <2>1, EditingTurn DEF OneAtWork, Alone
<1> QED BY <1>1, <1>2, <1>3, <1>4, DeskCases

\* What a handler has read stays as it is until the handler writes.
LEMMA ReadStaysStep ==
  ASSUME BookingInv, TurnInv, MaxActive = 1, [Next]_vars
  PROVE  ReadStays'
<1>d. DOMAIN edit = Edits \cup MarksMissed
  BY DEF BookingInv, TypeOK, EditTyped
<1>1. CASE UNCHANGED vars
  BY <1>1 DEF vars, TurnInv, ReadStays
<1>2. ASSUME NEW c \in Creates, Creating(c) PROVE ReadStays'
  <2>1. \A e \in Edits : edit'[e].at \notin {"checking", "writing"}
    BY <1>2, <1>d, CreatingTurn, BookingRequests DEF TurnInv, Alone, AtWork
  <2> QED BY <2>1 DEF ReadStays
<1>3. ASSUME NEW e \in Edits, NEW id \in DOMAIN bookings, NEW q \in Requests, SendEdit(e, id, q)
      PROVE  ReadStays'
  BY <1>3, <1>d, SendingTurn DEF TurnInv, ReadStays
<1>4. ASSUME NEW x, Turns(x) PROVE ReadStays'
  <2>1. \A e \in Edits \ {x} : edit'[e].at \notin {"checking", "writing"}
    BY <1>4, <1>d, EditingTurn DEF TurnInv, Alone, AtWork
  <2>2. ASSUME x \in Edits, edit'[x].at \in {"checking", "writing"}
        PROVE  edit'[x].id \in DOMAIN bookings' /\ bookings'[edit'[x].id] = edit'[x].before
    <3>x. x \notin MarksMissed /\ x \in DOMAIN edit
      BY <2>2, <1>d, BookingRequests
    <3>g. /\ \A at : edit[x].at \in EditSteps /\ EditGoes(x, at) =>
                /\ edit'[x].at = at /\ edit'[x].id = edit[x].id
                /\ edit'[x].before = edit[x].before
          /\ EditEnds(x) => edit'[x].at = "idle"
      BY <2>2, GoesOn DEF BookingInv, TypeOK
    <3>1. CASE ReadEdit(x)
      <4>1. ~Refused(x) /\ bookings' = bookings
        BY <2>2, <3>1, <3>x DEF ReadEdit, Idle
      <4>2. edit'[x].id = edit[x].id /\ edit'[x].before = bookings[edit[x].id]
        <5>1. PICK moves \in BOOLEAN :
                edit'[x] = [at |-> IF Amended(bookings[edit[x].id], edit[x].request).status # "cancelled"
                                      /\ moves THEN "checking" ELSE "writing",
                            id |-> edit[x].id, token |-> edit[x].token, before |-> bookings[edit[x].id],
                            after |-> Amended(bookings[edit[x].id], edit[x].request), moves |-> moves]
          BY <2>2, <3>1, <4>1, ReadsSeen
        <5> QED BY <5>1
      <4> QED BY <4>1, <4>2 DEF Refused
    <3>2. CASE CheckEdit(x)
      BY <2>2, <3>2, <3>g DEF CheckEdit, EditSteps, TurnInv, ReadStays
    <3>3. CASE WriteEdit(x) \/ SeatEdit(x) \/ LoseSeat(x) \/ RestoreEdit(x) \/ MailEdit(x) \/ DieEditing(x)
      BY <2>2, <3>3, <3>g DEF WriteEdit, SeatEdit, LoseSeat, RestoreEdit, MailEdit, DieEditing,
                              EditSteps
    <3> QED BY <1>4, <3>1, <3>2, <3>3, <3>x DEF Turns
  <2> QED BY <2>1, <2>2 DEF ReadStays
<1> QED BY <1>1, <1>2, <1>3, <1>4, DeskCases

\* When handlers run one after the other their invariant holds.
THEOREM TurnInvariant == ASSUME MaxActive = 1 PROVE Spec => [](BookingInv /\ TurnInv)
<1>1. Init => TurnInv
  BY DEF Init, TurnInv, OneAtWork, AtWork, ReadStays, CreateSteps, Idle
<1>2. BookingInv /\ TurnInv /\ [Next]_vars => TurnInv'
  BY OneAtWorkStep, ReadStaysStep DEF TurnInv
<1> QED BY <1>1, <1>2, BookingInvariant, PTL DEF Spec

\* Without the manual override nobody is seated by it.
NoneOverrides == overriding = {}

LEMMA NoOverrides == ASSUME ~Manual PROVE Spec => []NoneOverrides
<1>1. Init => NoneOverrides
  BY DEF Init, NoneOverrides
<1>2. NoneOverrides /\ [Next]_vars => NoneOverrides'
  <2>1. Overriding = {}
    BY DEF Overriding
  <2> QED BY <2>1 DEF Next, Noted, vars, NoneOverrides
<1> QED BY <1>1, <1>2, PTL DEF Spec

\* When none fails, a booking is there from its insertion on, unless it is undone.
RowsCreated ==
  \A c \in Creates : c \in DOMAIN bookings <=>
    create[c].at \in {"reserving", "undoing", "mailing", "recording", "created"}

\* A creating handler goes on with its span and capacity, or ends.
LEMMA CreateGoesOn ==
  ASSUME CreateTyped, NEW c \in Creates
  PROVE  /\ \A at : create[c].at \in CreateSteps /\ CreateGoes(c, at) =>
              create'[c].at = at /\ create'[c].span = create[c].span
         /\ \A as : CreateEnds(c, as) => create'[c].at = as
<1>1. c \in DOMAIN create
  BY DEF CreateTyped
<1>2. ASSUME NEW at, create[c].at \in CreateSteps, CreateGoes(c, at)
      PROVE  create'[c].at = at /\ create'[c].span = create[c].span
  <2>1. create[c] \in [at : CreateSteps, span : Spans, capacity : {Staff, WeekStaff}]
    BY <1>2, CreatingRecord
  <2>2. create'[c] = [create[c] EXCEPT !.at = at]
    BY <1>1, <1>2 DEF CreateGoes
  <2> QED BY <2>1, <2>2
<1>3. ASSUME NEW as, CreateEnds(c, as) PROVE create'[c].at = as
  <2>1. create'[c] = [at |-> as]
    BY <1>1, <1>3 DEF CreateEnds
  <2> QED BY <2>1
<1> QED BY <1>2, <1>3

\* What the steps of a creation do, but for the seats, when none fails.
LEMMA CreatingSteps ==
  ASSUME BookingInv, ~Faults, NEW c \in Creates, Creating(c)
  PROVE  \/ /\ create[c].at = "new" /\ UNCHANGED <<bookings, seats, keys>>
            /\ create'[c].at \in {"replayed", "checking"}
         \/ /\ create[c].at = "checking" /\ UNCHANGED <<bookings, seats, keys>>
            /\ \/ create'[c].at = "refused"
               \/ /\ create'[c].at = "inserting" /\ create'[c].span = create[c].span
                  /\ ~(Cardinality(Conflicts(create[c].span, DOMAIN bookings)) >= create[c].capacity)
         \/ /\ InsertCreate(c) /\ create'[c].at = "reserving" /\ create'[c].span = create[c].span
         \/ /\ ReserveCreate(c)
            /\ create'[c].at = IF FreeSeats(seats, c, create[c].span, create[c].capacity) = {} THEN "undoing" ELSE "mailing"
         \/ /\ create[c].at = "undoing" /\ create'[c].at = "refused" /\ keys' = keys
            /\ bookings' = [b \in DOMAIN bookings \ {c} |-> bookings[b]]
            /\ seats' = [b \in DOMAIN seats \ {c} |-> seats[b]]
         \/ /\ create[c].at = "mailing" /\ create'[c].at = "recording" /\ UNCHANGED <<seats, keys>>
            /\ bookings' = Stamped(c, bookings[c])
         \/ /\ create[c].at = "recording" /\ create'[c].at = "created" /\ UNCHANGED <<bookings, seats>>
            /\ keys' = [k \in DOMAIN keys \cup {KeyOf[c]} |-> IF k = KeyOf[c] THEN c ELSE keys[k]]
<1>1. CreateTyped /\ c \in DOMAIN create
  BY DEF BookingInv, TypeOK, CreateTyped
<1>g. /\ \A at : create[c].at \in CreateSteps /\ CreateGoes(c, at) =>
           create'[c].at = at /\ create'[c].span = create[c].span
      /\ \A as : CreateEnds(c, as) => create'[c].at = as
  BY <1>1, CreateGoesOn
<1>2. ASSUME NEW wish \in Standard \cup Overriding, StartCreate(c, wish)
      PROVE  create'[c].at \in {"replayed", "checking"}
  BY <1>1, <1>2 DEF StartCreate
<1>3. CASE CheckCreate(c)
  BY <1>3, <1>g DEF CheckCreate, CreateSteps
<1>4. CASE InsertCreate(c)
  BY <1>4, <1>g DEF InsertCreate, CreateSteps
<1>5. CASE ReserveCreate(c)
  BY <1>5, <1>g DEF ReserveCreate, CreateSteps
<1>6. CASE UndoCreate(c)
  BY <1>6, <1>g DEF UndoCreate, CreateSteps
<1>7. CASE MailCreate(c)
  BY <1>7, <1>g DEF MailCreate, CreateSteps
<1>8. CASE RecordCreate(c)
  BY <1>8, <1>g DEF RecordCreate, CreateSteps
<1>9. ~LoseReserve(c) /\ ~LoseRecord(c) /\ ~DieCreating(c)
  BY DEF LoseReserve, LoseRecord, DieCreating
<1>10. CASE \E wish \in Standard \cup Overriding : StartCreate(c, wish)
  BY <1>2, <1>10 DEF StartCreate
<1> QED BY <1>3, <1>4, <1>5, <1>6, <1>7, <1>8, <1>9, <1>10 DEF Creating

\* The other handlers remove and add no rows.
LEMMA EditingRows ==
  ASSUME NEW x, Turns(x)
  PROVE  DOMAIN bookings' = DOMAIN bookings
BY DEF Turns, ReadEdit, CheckEdit, WriteEdit, SeatEdit, LoseSeat, RestoreEdit, MailEdit, DieEditing,
       WriteMissed, ReadMissed, Stamped

LEMMA RowsCreatedStep ==
  ASSUME BookingInv, RowsCreated, ~Faults, [Next]_vars
  PROVE  RowsCreated'
<1>1. CASE UNCHANGED vars
  BY <1>1 DEF vars, RowsCreated
<1>2. ASSUME NEW c \in Creates, Creating(c) PROVE RowsCreated'
  <2>1. \A d \in Creates \ {c} : create'[d] = create[d]
    BY <1>2, CreatingOnly
  <2>2. DOMAIN bookings' = DOMAIN bookings /\ create[c].at \in {"new", "checking"}
        /\ create'[c].at \in {"replayed", "checking", "refused", "inserting"} => RowsCreated'
    BY <2>1 DEF RowsCreated
  <2>3. CASE InsertCreate(c) /\ create'[c].at = "reserving"
    <3>1. DOMAIN bookings' = DOMAIN bookings \cup {c}
      BY <2>3 DEF InsertCreate
    <3> QED BY <2>1, <2>3, <3>1 DEF RowsCreated
  <2>4. CASE ReserveCreate(c) /\ create'[c].at \in {"undoing", "mailing"}
    <3>1. bookings' = bookings /\ create[c].at = "reserving"
      BY <2>4 DEF ReserveCreate
    <3> QED BY <2>1, <2>4, <3>1 DEF RowsCreated
  <2>5. CASE /\ create[c].at = "undoing" /\ create'[c].at = "refused"
             /\ bookings' = [b \in DOMAIN bookings \ {c} |-> bookings[b]]
    BY <2>1, <2>5 DEF RowsCreated
  <2>6. CASE /\ create[c].at = "mailing" /\ create'[c].at = "recording"
             /\ bookings' = Stamped(c, bookings[c])
    <3>1. DOMAIN bookings' = DOMAIN bookings
      BY <2>6 DEF Stamped
    <3> QED BY <2>1, <2>6, <3>1 DEF RowsCreated
  <2>7. CASE create[c].at = "recording" /\ create'[c].at = "created" /\ bookings' = bookings
    BY <2>1, <2>7 DEF RowsCreated
  <2> QED BY <1>2, <2>2, <2>3, <2>4, <2>5, <2>6, <2>7, CreatingSteps
<1>3. CASE Next /\ ~\E c \in Creates : Creating(c)
  <2>1. create' = create /\ DOMAIN bookings' = DOMAIN bookings
    BY <1>3, EditingOnly DEF Next
  <2> QED BY <2>1 DEF RowsCreated
<1> QED BY <1>1, <1>2, <1>3

LEMMA RowsAreCreated == ASSUME ~Faults PROVE Spec => []RowsCreated
<1>1. Init => RowsCreated
  BY DEF Init, RowsCreated
<1>2. BookingInv /\ RowsCreated /\ [Next]_vars => RowsCreated'
  BY RowsCreatedStep
<1> QED BY <1>1, <1>2, BookingInvariant, PTL DEF Spec

-----------------------------------------------------------------------------
(* Rows and seats, when handlers run one after the other, none fails and the *)
(* override is not used.                                                     *)

Serial == MaxActive = 1 /\ ~Faults /\ ~Manual

Plain(row) == ~row.manual /\ row.end = row.start + Duration

\* A row and the seat of its booking: who will come has one, who cancelled has none,
\* and a seat is for the time of the row.
Holds(s, b) == b \in DOMAIN s /\ s[b].active
Agrees(row, s, b) ==
  /\ ~Gone(row.status) => Holds(s, b)
  /\ Holds(s, b) => row.status # "cancelled" /\ s[b].start = row.start /\ s[b].until = row.end + Buffer

\* The other rows leave room for a span.
Clashes(rows, span, b) ==
  {d \in DOMAIN rows \ {b} : rows[d].status # "cancelled"
                             /\ rows[d].start < span.until /\ rows[d].end + Buffer > span.start}
Room(rows, span, b) == ~(Cardinality(Clashes(rows, span, b)) >= Staff)

\* The rows whose seat a handler is about to change.
Seating(b) == \/ create[b].at = "reserving"
              \/ \E e \in Edits : edit[e].at \in {"seating", "restoring"} /\ edit[e].id = b

RowsPlain == IsFiniteSet(DOMAIN bookings) /\ \A b \in DOMAIN bookings : Plain(bookings[b])
RowsAgree == \A b \in DOMAIN bookings : ~Seating(b) => Agrees(bookings[b], seats, b)

\* What was checked for a booking still holds when its seat is reserved, so that a
\* creation is never undone.
CreateRight(c) ==
  /\ create[c].at # "undoing"
  /\ create[c].at \in {"inserting", "reserving"} => Room(bookings, create[c].span, c)
  /\ create[c].at = "reserving" => /\ bookings[c].status = "pending"
                                   /\ bookings[c].start = create[c].span.start

\* The same for an edit; only a booking that had no seat is restored.
EditRight(e) ==
  LET before == edit[e].before   after == edit[e].after   id == edit[e].id
  IN edit[e].at \in EditSteps =>
       /\ id \in DOMAIN bookings /\ Plain(before) /\ Plain(after)
       /\ ~edit[e].moves => before.start = after.start
       /\ edit[e].at \in {"writing", "seating"} /\ ~Gone(after.status) /\ edit[e].moves
            => Room(bookings, SpanOf(after), id)
       /\ edit[e].at = "seating" =>
            /\ bookings[id].status = after.status /\ bookings[id].start = after.start
            /\ Agrees(before, seats, id)
       /\ edit[e].at = "restoring" => Gone(before.status) /\ ~Holds(seats, id)

\* A cancelled booking is not made a missed one.
MissedRight(m) ==
  edit[m].at = "writing" =>
    /\ edit[m].status \in {"cancelled", "completed"}
    /\ edit[m].status = "cancelled" /\ edit[m].id \in DOMAIN bookings
         => bookings[edit[m].id].status = "cancelled"

\* The inductive invariant of the serial desk, beside BookingInv, TurnInv and RowsCreated.
DeskInv ==
  /\ RowsPlain /\ RowsAgree
  /\ \A c \in Creates : CreateRight(c)
  /\ \A e \in Edits : EditRight(e)
  /\ \A m \in MarksMissed : MissedRight(m)

LEMMA RoomStays ==
  ASSUME NEW rows, NEW rows2, NEW span, NEW b, Room(rows, span, b),
         DOMAIN rows2 \ {b} = DOMAIN rows \ {b}, \A d \in DOMAIN rows \ {b} : rows2[d] = rows[d]
  PROVE  Room(rows2, span, b)
<1>1. Clashes(rows2, span, b) = Clashes(rows, span, b)
  BY DEF Clashes
<1> QED BY <1>1 DEF Room

\* Where the rows leave room there is a free seat: a seat that is taken is taken by a
\* booking whose row clashes, and different seats by different ones.
LEMMA RoomHasSeat ==
  ASSUME NEW rows, NEW s, NEW id, NEW span, IsFiniteSet(DOMAIN rows),
         DOMAIN s \subseteq DOMAIN rows, s \in [DOMAIN s -> Seat],
         \A b \in DOMAIN rows \ {id} : Agrees(rows[b], s, b), Room(rows, span, id)
  PROVE  FreeSeats(s, id, span, Staff) # {}
<1> SUFFICES ASSUME FreeSeats(s, id, span, Staff) = {} PROVE FALSE
  OBVIOUS
<1>6. Cardinality(1..Staff) = Staff
  <2>1. 1 \in Int /\ Staff \in Int /\ ~(1 > Staff)
    BY BookingTimes
  <2>2. Cardinality(1..Staff) = IF 1 > Staff THEN 0 ELSE Staff - 1 + 1
    BY <2>1, FS_Interval
  <2> QED BY <2>1, <2>2
<1> DEFINE C == Clashes(rows, span, id)
           f == [n \in 1..Staff |-> CHOOSE b \in C : s[b].seat = n]
<1>1. ASSUME NEW n \in 1..Staff PROVE \E b \in C : s[b].seat = n
  <2>1. PICK b \in DOMAIN s \ {id} : s[b].active /\ s[b].seat = n /\ Overlap(s[b], span)
    BY DEF FreeSeats
  <2>2. b \in DOMAIN rows \ {id} /\ Holds(s, b)
    BY <2>1 DEF Holds
  <2>3. rows[b].status # "cancelled" /\ s[b].start = rows[b].start /\ s[b].until = rows[b].end + Buffer
    BY <2>2 DEF Agrees
  <2> QED BY <2>1, <2>2, <2>3 DEF Clashes, Overlap
<1>2. \A n \in 1..Staff : f[n] \in C /\ s[f[n]].seat = n
  BY <1>1
<1>3. f \in Injection(1..Staff, C)
  BY <1>2 DEF Injection, IsInjective
<1>4. IsFiniteSet(C)
  <2>1. C \in SUBSET DOMAIN rows
    BY DEF Clashes
  <2> QED BY <2>1, FS_Subset
<1>5. Cardinality(1..Staff) <= Cardinality(C)
  BY <1>3, <1>4, FS_Injection
<1>7. Cardinality(C) \in Nat
  BY <1>4, FS_CardinalityType
<1> QED BY <1>5, <1>6, <1>7, BookingTimes DEF Room

\* Who releases holds no seat, and the others keep theirs.
LEMMA ReleasedHolds ==
  ASSUME NEW s, s \in [DOMAIN s -> Seat], NEW id
  PROVE  /\ DOMAIN Released(s, id) = DOMAIN s /\ ~Holds(Released(s, id), id)
         /\ \A b \in DOMAIN s \ {id} : Released(s, id)[b] = s[b]
<1>1. /\ DOMAIN Released(s, id) = DOMAIN s
      /\ \A b \in DOMAIN s \ {id} : Released(s, id)[b] = s[b]
      /\ id \in DOMAIN s => Released(s, id)[id] = [s[id] EXCEPT !.active = FALSE]
  BY DEF Released
<1> QED BY <1>1 DEF Holds, Seat

\* Reserving takes a free seat for the span, or leaves the booking without one.
LEMMA ReservedHolds ==
  ASSUME NEW s, s \in [DOMAIN s -> Seat], NEW id, NEW span, NEW capacity
  PROVE  /\ \A b : b # id => (b \in DOMAIN Reserved(s, id, span, capacity) <=> b \in DOMAIN s)
         /\ \A b \in DOMAIN s \ {id} : Reserved(s, id, span, capacity)[b] = s[b]
         /\ FreeSeats(s, id, span, capacity) = {} => ~Holds(Reserved(s, id, span, capacity), id)
         /\ FreeSeats(s, id, span, capacity) # {} =>
              /\ Holds(Reserved(s, id, span, capacity), id)
              /\ Reserved(s, id, span, capacity)[id].start = span.start
              /\ Reserved(s, id, span, capacity)[id].until = span.until
<1>3. CASE FreeSeats(s, id, span, capacity) = {}
  <2>1. Reserved(s, id, span, capacity) = Released(s, id)
    BY <1>3 DEF Reserved
  <2> QED BY <1>3, <2>1, ReleasedHolds
<1>4. CASE FreeSeats(s, id, span, capacity) # {}
  <2> DEFINE row == [seat |-> Min(FreeSeats(s, id, span, capacity)), start |-> span.start,
                     until |-> span.until, active |-> TRUE]
  <2>1. Reserved(s, id, span, capacity) =
          [b \in DOMAIN s \cup {id} |-> IF b = id THEN row ELSE s[b]]
    BY <1>4 DEF Reserved
  <2>2. row.start = span.start /\ row.until = span.until /\ row.active
    OBVIOUS
  <2> HIDE DEF row
  <2> QED BY <1>4, <2>1, <2>2 DEF Holds
<1> QED BY <1>3, <1>4

\* Spans without an override, and the rows that requests make of plain rows.
LEMMA PlainSpans ==
  ASSUME ~Manual
  PROVE  /\ \A span \in Spans : span.start \in Starts /\ span.end = span.start + Duration
                                /\ span.until = span.start + Duration + Buffer
         /\ \A row : Plain(row) => /\ SpanOf(row).start = row.start
                                   /\ SpanOf(row).until = row.start + Duration + Buffer
         /\ \A row \in Booking, q \in Requests : Plain(row) => Plain(Amended(row, q))
<1>1. ASSUME NEW span \in Spans
      PROVE  span.start \in Starts /\ span.end = span.start + Duration
             /\ span.until = span.start + Duration + Buffer
  BY <1>1 DEF Spans, StandardSpan
<1>2. ASSUME NEW row, Plain(row)
      PROVE  SpanOf(row).start = row.start /\ SpanOf(row).until = row.start + Duration + Buffer
  BY <1>2 DEF Plain, SpanOf, StandardSpan
<1>3. ASSUME NEW row \in Booking, NEW q \in Requests, Plain(row)
      PROVE  Plain(Amended(row, q))
  <2>1. q.manual = Keep
    BY DEF Requests
  <2> QED BY <1>3, <2>1 DEF Plain, Amended, Given, Booking
<1> QED BY <1>1, <1>2, <1>3

\* The seat of a booking agrees with its row also when others' seats have changed.
LEMMA AgreesStays ==
  ASSUME NEW row, NEW s, NEW s2, NEW b, Agrees(row, s, b),
         b \in DOMAIN s2 <=> b \in DOMAIN s, b \in DOMAIN s => s2[b] = s[b]
  PROVE  Agrees(row, s2, b)
BY DEF Agrees, Holds

\* A creating handler's step keeps rows and seats in agreement.
LEMMA DeskCreating ==
  ASSUME BookingInv, TurnInv, RowsCreated, overriding = {}, DeskInv, Serial, NEW c \in Creates, Creating(c)
  PROVE  DeskInv'
<1>s. MaxActive = 1 /\ ~Faults /\ ~Manual
  BY DEF Serial
<1>t. /\ DOMAIN bookings \subseteq Creates /\ DOMAIN edit = Edits \cup MarksMissed
      /\ DOMAIN seats \subseteq DOMAIN bookings /\ seats \in [DOMAIN seats -> Seat]
      /\ bookings \in [DOMAIN bookings -> Booking] /\ CreateTyped
  BY DEF BookingInv, TypeOK, BookingsTyped, SeatsTyped, EditTyped
<1>o. /\ \A d \in Creates \ {c} : create'[d] = create[d] /\ create[d].at \notin CreateSteps
      /\ edit' = edit /\ \A e \in Edits : edit[e].at \notin EditSteps
      /\ \A m \in MarksMissed : edit[m].at # "writing"
  BY <1>s, <1>t, CreatingTurn, BookingRequests DEF TurnInv, Alone, AtWork, EditSteps
<1>g. /\ \A b \in DOMAIN bookings \ {c} : Agrees(bookings[b], seats, b)
      /\ c \in DOMAIN bookings /\ create[c].at # "reserving" => Agrees(bookings[c], seats, c)
  BY <1>t, <1>o DEF DeskInv, RowsAgree, Seating, CreateSteps, EditSteps
<1>k. /\ c \in DOMAIN bookings <=>
           create[c].at \in {"reserving", "undoing", "mailing", "recording", "created"}
      /\ create[c].at # "undoing"
  BY DEF RowsCreated, DeskInv, CreateRight
<1>c. create[c].at \in CreateSteps => create[c].capacity = Staff
  BY DEF BookingInv, OverridesKnown
<1>r. CreateRight(c) /\ RowsPlain
  BY DEF DeskInv
<1>1. ASSUME \A b : b # c => /\ b \in DOMAIN bookings' <=> b \in DOMAIN bookings
                             /\ b \in DOMAIN seats' <=> b \in DOMAIN seats,
             \A b \in DOMAIN bookings \ {c} : bookings'[b] = bookings[b],
             \A b \in DOMAIN seats \ {c} : seats'[b] = seats[b],
             IsFiniteSet(DOMAIN bookings'),
             c \in DOMAIN bookings' => Plain(bookings'[c]),
             c \in DOMAIN bookings' /\ create'[c].at # "reserving" => Agrees(bookings'[c], seats', c),
             CreateRight(c)'
      PROVE  DeskInv'
  <2>1. RowsPlain'
    BY <1>1 DEF DeskInv, RowsPlain
  <2>2. ASSUME NEW b \in DOMAIN bookings', ~Seating(b)' PROVE Agrees(bookings'[b], seats', b)
    <3>1. CASE b = c
      BY <1>1, <2>2, <3>1 DEF Seating
    <3>2. CASE b # c
      <4>1. b \in DOMAIN bookings /\ bookings'[b] = bookings[b] /\ Agrees(bookings[b], seats, b)
        BY <1>1, <1>g, <3>2
      <4> QED BY <1>1, <3>2, <4>1, AgreesStays
    <3> QED BY <3>1, <3>2
  <2>3. \A d \in Creates : CreateRight(d)'
    BY <1>1, <1>o DEF CreateRight, CreateSteps
  <2>4. (\A e \in Edits : EditRight(e)') /\ (\A m \in MarksMissed : MissedRight(m)')
    BY <1>o DEF EditRight, MissedRight
  <2> QED BY <2>1, <2>2, <2>3, <2>4 DEF DeskInv, RowsAgree
<1>2. ASSUME UNCHANGED <<bookings, seats>>, create'[c].at # "reserving", create[c].at # "reserving",
             CreateRight(c)'
      PROVE  DeskInv'
  BY <1>1, <1>2, <1>g, <1>r DEF RowsPlain
<1>3. CASE /\ create[c].at \in {"new", "checking", "recording"} /\ UNCHANGED <<bookings, seats>>
           /\ create'[c].at \in {"replayed", "checking", "refused", "created"}
  BY <1>2, <1>3 DEF CreateRight
<1>4. CASE /\ create[c].at = "checking" /\ UNCHANGED <<bookings, seats, keys>>
           /\ create'[c].at = "inserting" /\ create'[c].span = create[c].span
           /\ ~(Cardinality(Conflicts(create[c].span, DOMAIN bookings)) >= create[c].capacity)
  <2>c. create[c].capacity = Staff
    BY <1>4, <1>c DEF CreateSteps
  <2>1. Conflicts(create[c].span, DOMAIN bookings) = Clashes(bookings, create[c].span, c)
    BY <1>4, <1>k DEF Conflicts, Clashes
  <2>2. CreateRight(c)'
    BY <1>4, <2>1, <2>c DEF CreateRight, Room
  <2> QED BY <1>2, <1>4, <2>2
<1>5. CASE InsertCreate(c) /\ create'[c].at = "reserving" /\ create'[c].span = create[c].span
  <2> DEFINE row == [status |-> "pending", start |-> create[c].span.start, end |-> create[c].span.end,
                     manual |-> FALSE, stamp |-> 0]
  <2>1. create[c].at = "inserting" /\ UNCHANGED <<seats, keys, edit>> /\ c \notin DOMAIN bookings
        /\ bookings' = [b \in DOMAIN bookings \cup {c} |-> IF b = c THEN row ELSE bookings[b]]
    BY <1>5, <1>k DEF InsertCreate
  <2>2. create[c].span \in Spans
    BY <1>t, <2>1, CreatingRecord DEF CreateSteps
  <2>3. Plain(row) /\ row.status = "pending" /\ row.start = create[c].span.start
    BY <1>s, <2>2, PlainSpans DEF Plain
  <2> HIDE DEF row
  <2>4. /\ DOMAIN bookings' = DOMAIN bookings \cup {c} /\ bookings'[c] = row
        /\ \A b \in DOMAIN bookings : bookings'[b] = bookings[b]
    BY <2>1
  <2>5. IsFiniteSet(DOMAIN bookings')
    BY <1>r, <2>4, FS_AddElement DEF RowsPlain
  <2>6. Room(bookings', create[c].span, c)
    <3>1. DOMAIN bookings' \ {c} = DOMAIN bookings \ {c}
      BY <2>4
    <3> QED BY <1>r, <2>1, <2>4, <3>1, RoomStays DEF CreateRight
  <2>7. CreateRight(c)'
    BY <1>5, <2>3, <2>4, <2>6 DEF CreateRight
  <2> QED BY <1>1, <1>5, <2>1, <2>3, <2>4, <2>5, <2>7
<1>6. CASE /\ ReserveCreate(c)
           /\ create'[c].at = IF FreeSeats(seats, c, create[c].span, create[c].capacity) = {}
                             THEN "undoing" ELSE "mailing"
  <2> DEFINE span == create[c].span
  <2>c. create[c].at = "reserving" /\ create[c].capacity = Staff
    BY <1>6, <1>c DEF ReserveCreate, CreateSteps
  <2>1. create[c].at = "reserving" /\ UNCHANGED <<bookings, keys, edit>>
        /\ seats' = Reserved(seats, c, span, Staff)
    BY <1>6, <2>c DEF ReserveCreate
  <2>2. span \in Spans /\ c \in DOMAIN bookings
    BY <1>t, <1>k, <2>1, CreatingRecord DEF CreateSteps
  <2>r. Room(bookings, span, c) /\ bookings[c].status = "pending" /\ bookings[c].start = span.start
    BY <1>r, <2>1 DEF CreateRight
  <2>p. span.until = bookings[c].end + Buffer /\ IsFiniteSet(DOMAIN bookings)
    BY <1>s, <1>r, <2>2, <2>r, PlainSpans DEF RowsPlain, Plain
  <2> HIDE DEF span
  <2>3. FreeSeats(seats, c, span, Staff) # {}
    BY <1>t, <1>g, <2>r, <2>p, RoomHasSeat
  <2>4. create'[c].at = "mailing"
    BY <1>6, <2>3, <2>c DEF span
  <2>5. /\ \A b : b # c => (b \in DOMAIN seats' <=> b \in DOMAIN seats)
        /\ \A b \in DOMAIN seats \ {c} : seats'[b] = seats[b]
        /\ Holds(seats', c) /\ seats'[c].start = span.start /\ seats'[c].until = span.until
    BY <1>t, <2>1, <2>3, ReservedHolds
  <2>6. Agrees(bookings'[c], seats', c)
    BY <2>1, <2>5, <2>r, <2>p DEF Agrees, Gone
  <2>7. CreateRight(c)'
    BY <2>4 DEF CreateRight
  <2>8. Plain(bookings'[c]) /\ IsFiniteSet(DOMAIN bookings')
    BY <1>r, <2>1, <2>2 DEF RowsPlain
  <2> QED BY <1>1, <2>1, <2>4, <2>5, <2>6, <2>7, <2>8
<1>7. CASE /\ create[c].at = "mailing" /\ create'[c].at = "recording" /\ UNCHANGED <<seats, keys>>
           /\ bookings' = Stamped(c, bookings[c])
  <2>1. /\ DOMAIN bookings' = DOMAIN bookings /\ c \in DOMAIN bookings
        /\ \A b \in DOMAIN bookings \ {c} : bookings'[b] = bookings[b]
        /\ bookings'[c] = [bookings[c] EXCEPT !.stamp = bookings[c].stamp + 1]
    BY <1>7, <1>k DEF Stamped
  <2>2. bookings[c] \in Booking /\ Plain(bookings[c]) /\ Agrees(bookings[c], seats, c)
    BY <1>7, <1>t, <1>g, <1>r, <2>1 DEF RowsPlain
  <2>3. Plain(bookings'[c]) /\ Agrees(bookings'[c], seats', c)
    BY <1>7, <2>1, <2>2 DEF Plain, Agrees, Booking
  <2>4. CreateRight(c)' /\ IsFiniteSet(DOMAIN bookings')
    BY <1>7, <1>r, <2>1 DEF CreateRight, RowsPlain
  <2> QED BY <1>1, <1>7, <2>1, <2>3, <2>4
<1> QED BY <1>s, <1>k, <1>3, <1>4, <1>5, <1>6, <1>7, CreatingSteps

\* What the steps of an editing or no-show handler do, when none fails: only the row and
\* the seat of the booking it is about change.
LEMMA TurnSteps ==
  ASSUME BookingInv, TurnInv, Serial, DeskInv, NEW x, Turns(x)
  PROVE  \/ /\ UNCHANGED <<bookings, seats>> /\ edit'[x].at = "idle"
         \/ /\ x \in Edits /\ edit[x].at = "sent" /\ UNCHANGED <<bookings, seats>>
            /\ ~Refused(x)
            /\ \E moves \in MayMove(bookings[edit[x].id], Amended(bookings[edit[x].id], edit[x].request),
                                    edit[x].request) :
                 edit'[x] = [at |-> IF Amended(bookings[edit[x].id], edit[x].request).status # "cancelled"
                                       /\ moves
                                    THEN "checking" ELSE "writing",
                             id |-> edit[x].id, token |-> edit[x].token, before |-> bookings[edit[x].id],
                             after |-> Amended(bookings[edit[x].id], edit[x].request), moves |-> moves]
         \/ /\ x \in Edits /\ CheckEdit(x) /\ EditGoes(x, "writing")
         \/ /\ x \in Edits /\ WriteEdit(x) /\ EditGoes(x, "seating")
         \/ /\ x \in Edits /\ SeatEdit(x)
         \/ /\ x \in Edits /\ RestoreEdit(x)
         \/ /\ x \in Edits /\ MailEdit(x)
         \/ /\ x \in MarksMissed
            /\ WriteMissed(x) \/ \E id \in DOMAIN bookings : ReadMissed(x, id)
<1>s. ~Faults
  BY DEF Serial
<1>t. x \in Edits => x \in DOMAIN edit /\ EditTyped
  BY DEF BookingInv, TypeOK, EditTyped
<1>e. x \in Edits => EditRight(x)
  BY DEF DeskInv
<1>1. CASE x \in Edits /\ ReadEdit(x)
  <2> DEFINE before == bookings[edit[x].id]   after == Amended(before, edit[x].request)
             r(moves) == [at |-> IF after.status # "cancelled" /\ moves THEN "checking" ELSE "writing",
                          id |-> edit[x].id, token |-> edit[x].token, before |-> before,
                          after |-> after, moves |-> moves]
  <2>1. edit[x].at = "sent" /\ UNCHANGED <<bookings, seats>>
    BY <1>1 DEF ReadEdit
  <2>2. CASE Refused(x)
    BY <1>1, <1>t, <2>1, <2>2 DEF ReadEdit, Idle
  <2>3. CASE ~Refused(x)
    <3>1. \E moves \in MayMove(before, after, edit[x].request) : edit' = [edit EXCEPT ![x] = r(moves)]
      BY <1>1, <2>3 DEF ReadEdit
    <3>2. \E moves \in MayMove(before, after, edit[x].request) : edit'[x] = r(moves)
      BY <1>1, <1>t, <3>1
    <3> QED BY <1>1, <2>1, <2>3, <3>2
  <2> QED BY <2>2, <2>3
<1>2. CASE x \in Edits /\ CheckEdit(x)
  BY <1>2, <1>t, GoesOn DEF CheckEdit
<1>3. CASE x \in Edits /\ WriteEdit(x)
  BY <1>3, <1>t, <1>e DEF WriteEdit, EditRight, EditSteps
<1>4. ~LoseSeat(x) \/ x \notin Edits
  BY <1>s, <1>e DEF LoseSeat, EditRight, EditSteps
<1>5. ~DieEditing(x)
  BY <1>s DEF DieEditing
<1> QED BY <1>1, <1>2, <1>3, <1>4, <1>5 DEF Turns

LEMMA DeskEditing ==
  ASSUME BookingInv, TurnInv, RowsCreated, overriding = {}, DeskInv, Serial, NEW x, Turns(x)
  PROVE  DeskInv'
<1>s. MaxActive = 1 /\ ~Faults /\ ~Manual
  BY DEF Serial
<1>t. /\ DOMAIN bookings \subseteq Creates /\ DOMAIN edit = Edits \cup MarksMissed
      /\ DOMAIN seats \subseteq DOMAIN bookings /\ seats \in [DOMAIN seats -> Seat]
      /\ bookings \in [DOMAIN bookings -> Booking] /\ EditTyped
  BY DEF BookingInv, TypeOK, BookingsTyped, SeatsTyped, EditTyped
<1>o. /\ \A y \in DOMAIN edit \ {x} : edit'[y] = edit[y] /\ edit[y].at \in {"idle", "sent"}
      /\ create' = create /\ \A d \in Creates : create[d].at \notin CreateSteps
      /\ x \in DOMAIN edit /\ x \notin Edits \cap MarksMissed
  BY <1>s, <1>t, EditingTurn, BookingRequests DEF TurnInv, Alone, AtWork
<1>p. RowsPlain /\ DOMAIN bookings' = DOMAIN bookings
  BY EditingRows DEF DeskInv
<1>g. \A b \in DOMAIN bookings :
        Agrees(bookings[b], seats, b)
          \/ (x \in Edits /\ edit[x].at \in {"seating", "restoring"} /\ edit[x].id = b)
  BY <1>t, <1>o DEF DeskInv, RowsAgree, Seating, CreateSteps
<1>1. ASSUME NEW id,
             x \in Edits /\ edit[x].at \in {"seating", "restoring"} => edit[x].id = id,
             \A b \in DOMAIN bookings \ {id} : bookings'[b] = bookings[b],
             \A b : b # id => (b \in DOMAIN seats' <=> b \in DOMAIN seats),
             \A b \in DOMAIN seats \ {id} : seats'[b] = seats[b],
             id \in DOMAIN bookings => Plain(bookings'[id]),
             IF x \in Edits /\ edit'[x].at \in {"seating", "restoring"} THEN edit'[x].id = id
             ELSE id \in DOMAIN bookings => Agrees(bookings'[id], seats', id),
             x \in Edits => EditRight(x)',
             x \in MarksMissed => MissedRight(x)'
      PROVE  DeskInv'
  <2>1. RowsPlain'
    BY <1>1, <1>p DEF RowsPlain
  <2>2. ASSUME NEW b \in DOMAIN bookings', ~Seating(b)' PROVE Agrees(bookings'[b], seats', b)
    <3>1. CASE b = id
      BY <1>1, <1>p, <2>2, <3>1 DEF Seating
    <3>2. CASE b # id
      <4>1. bookings'[b] = bookings[b] /\ Agrees(bookings[b], seats, b)
        BY <1>1, <1>g, <1>p, <3>2
      <4> QED BY <1>1, <3>2, <4>1, AgreesStays
    <3> QED BY <3>1, <3>2
  <2>3. \A d \in Creates : CreateRight(d)'
    BY <1>o DEF CreateRight, CreateSteps
  <2>4. \A e \in Edits : EditRight(e)'
    BY <1>1, <1>o, <1>t DEF EditRight, EditSteps
  <2>5. \A m \in MarksMissed : MissedRight(m)'
    BY <1>1, <1>o, <1>t DEF MissedRight
  <2> QED BY <2>1, <2>2, <2>3, <2>4, <2>5 DEF DeskInv, RowsAgree
<1>2. ASSUME UNCHANGED <<bookings, seats>>,
             ~(x \in Edits /\ edit[x].at \in {"seating", "restoring"}),
             ~(x \in Edits /\ edit'[x].at \in {"seating", "restoring"}),
             x \in Edits => EditRight(x)', x \in MarksMissed => MissedRight(x)'
      PROVE  DeskInv'
  <2> DEFINE id == edit[x].id
  <2>1. id \in DOMAIN bookings => Plain(bookings[id]) /\ Agrees(bookings[id], seats, id)
    BY <1>2, <1>p, <1>g DEF RowsPlain
  <2> HIDE DEF id
  <2> QED BY <1>1, <1>2, <2>1
<1>n. x \in Edits /\ edit[x].at \in EditSteps =>
        /\ edit[x] \in EditRecord /\ EditRight(x)
        /\ \A at : EditGoes(x, at) =>
              /\ edit'[x].at = at /\ edit'[x].id = edit[x].id /\ edit'[x].moves = edit[x].moves
              /\ edit'[x].before = edit[x].before /\ edit'[x].after = edit[x].after
        /\ EditEnds(x) => edit'[x].at = "idle"
  BY <1>t, GoesOn, EditingRecord DEF DeskInv
<1>3. CASE /\ x \in Edits /\ edit[x].at = "sent" /\ UNCHANGED <<bookings, seats>> /\ ~Refused(x)
           /\ \E moves \in MayMove(bookings[edit[x].id], Amended(bookings[edit[x].id], edit[x].request),
                                   edit[x].request) :
                edit'[x] = [at |-> IF Amended(bookings[edit[x].id], edit[x].request).status # "cancelled"
                                      /\ moves
                                   THEN "checking" ELSE "writing",
                            id |-> edit[x].id, token |-> edit[x].token, before |-> bookings[edit[x].id],
                            after |-> Amended(bookings[edit[x].id], edit[x].request), moves |-> moves]
  <2> DEFINE before == bookings[edit[x].id]   after == Amended(before, edit[x].request)
  <2>m. PICK moves \in MayMove(before, after, edit[x].request) :
          edit'[x] = [at |-> IF after.status # "cancelled" /\ moves THEN "checking" ELSE "writing",
                      id |-> edit[x].id, token |-> edit[x].token, before |-> before, after |-> after,
                      moves |-> moves]
    BY <1>3
  <2>1. edit[x].request \in Requests /\ edit[x].id \in DOMAIN bookings
    BY <1>3, <1>t, EditingRecord DEF Refused, SentRecord
  <2>2. Plain(before) /\ Plain(after)
    BY <1>s, <1>t, <1>p, <2>1, PlainSpans DEF RowsPlain
  <2>n. moves \in BOOLEAN /\ (~moves => before.start = after.start)
    BY DEF MayMove
  <2> HIDE DEF before, after
  <2>3. /\ edit'[x].at \in {"checking", "writing"}
        /\ edit'[x].at = "writing" /\ ~Gone(after.status) => ~moves
        /\ edit'[x].id = edit[x].id /\ edit'[x].before = before /\ edit'[x].after = after
        /\ edit'[x].moves = moves
    BY <2>m, <2>n DEF Gone
  <2>4. EditRight(x)'
    BY <1>3, <2>1, <2>2, <2>3, <2>n DEF EditRight
  <2> QED BY <1>2, <1>3, <1>o, <2>3, <2>4
<1>4. CASE x \in Edits /\ CheckEdit(x) /\ EditGoes(x, "writing")
  <2>1. edit[x].at = "checking" /\ UNCHANGED <<bookings, seats>>
    BY <1>4 DEF CheckEdit
  <2>2. /\ edit'[x].at = "writing" /\ edit'[x].id = edit[x].id /\ edit'[x].moves = edit[x].moves
        /\ edit'[x].before = edit[x].before /\ edit'[x].after = edit[x].after
    BY <1>4, <1>n, <2>1 DEF EditSteps
  <2>3. ~(Cardinality(Conflicts(SpanOf(edit[x].after), DOMAIN bookings \ {edit[x].id})) >= Staff)
    BY <1>4, <1>n, <2>1, <2>2 DEF CheckEdit, EditSteps
  <2>4. Conflicts(SpanOf(edit[x].after), DOMAIN bookings \ {edit[x].id})
          = Clashes(bookings, SpanOf(edit[x].after), edit[x].id)
    BY DEF Conflicts, Clashes
  <2>5. EditRight(x)'
    BY <1>4, <1>n, <2>1, <2>2, <2>3, <2>4 DEF EditRight, EditSteps, Room
  <2> QED BY <1>2, <1>4, <1>o, <2>1, <2>2, <2>5
<1>5. CASE x \in Edits /\ WriteEdit(x) /\ EditGoes(x, "seating")
  <2> DEFINE id == edit[x].id   after == edit[x].after   before == edit[x].before   moves == edit[x].moves
  <2>1. edit[x].at = "writing" /\ seats' = seats /\ id \in DOMAIN bookings
        /\ bookings[id] = before
    BY <1>5 DEF WriteEdit, TurnInv, ReadStays
  <2>2. /\ edit'[x].at = "seating" /\ edit'[x].id = id /\ edit'[x].moves = moves
        /\ edit'[x].before = before /\ edit'[x].after = after
    BY <1>5, <1>n, <2>1 DEF EditSteps
  <2>3. bookings' = Stamped(id, after)
    BY <1>5, <2>1, <2>2, <1>n, <1>t DEF WriteEdit, EditSteps
  <2>4. after \in Booking /\ Plain(after) /\ Plain(before) /\ (~moves => before.start = after.start)
        /\ (~Gone(after.status) /\ moves => Room(bookings, SpanOf(after), id))
    BY <1>5, <1>n, <2>1 DEF EditRecord, EditRight, EditSteps
  <2>5. Agrees(before, seats, id)
    BY <1>g, <2>1
  <2> HIDE DEF id, after, before, moves
  <2>6. /\ \A b \in DOMAIN bookings \ {id} : bookings'[b] = bookings[b]
        /\ bookings'[id] = [after EXCEPT !.stamp = bookings[id].stamp + 1]
    BY <2>1, <2>3 DEF Stamped
  <2>7. /\ Plain(bookings'[id]) /\ bookings'[id].status = after.status
        /\ bookings'[id].start = after.start
    BY <2>4, <2>6 DEF Plain, Booking
  <2>8. ~Gone(after.status) /\ moves => Room(bookings', SpanOf(after), id)
    BY <1>p, <2>4, <2>6, RoomStays
  <2>9. EditRight(x)'
    BY <1>p, <2>1, <2>2, <2>4, <2>5, <2>7, <2>8 DEF EditRight
  <2> QED BY <1>1, <1>5, <1>o, <2>1, <2>2, <2>6, <2>7, <2>9
<1>6. CASE x \in Edits /\ SeatEdit(x)
  <2> DEFINE id == edit[x].id   after == edit[x].after   before == edit[x].before
             moves == edit[x].moves
             capacity == IF moves THEN Staff ELSE 1
             free == FreeSeats(seats, id, SpanOf(after), capacity)
  <2>1. edit[x].at = "seating" /\ bookings' = bookings
    BY <1>6 DEF SeatEdit
  <2>2. /\ \A at : EditGoes(x, at) =>
             /\ edit'[x].at = at /\ edit'[x].id = id /\ edit'[x].moves = moves
             /\ edit'[x].before = before /\ edit'[x].after = after
        /\ (~moves => before.start = after.start)
        /\ id \in DOMAIN bookings /\ Plain(before) /\ Plain(after)
        /\ bookings[id].status = after.status /\ bookings[id].start = after.start
        /\ Agrees(before, seats, id)
        /\ (~Gone(after.status) /\ moves => Room(bookings, SpanOf(after), id))
    BY <1>6, <1>n, <2>1 DEF EditRight, EditSteps
  <2>3. Plain(bookings[id]) /\ IsFiniteSet(DOMAIN bookings)
    BY <1>p, <2>2 DEF RowsPlain
  <2>4. \/ /\ Gone(after.status) /\ seats' = Released(seats, id) /\ EditGoes(x, "mailing")
        \/ /\ NeedsSeat(before, after, moves) /\ seats' = Reserved(seats, id, SpanOf(after), capacity)
           /\ EditGoes(x, IF free = {} THEN "restoring" ELSE "mailing")
        \/ /\ ~Gone(after.status) /\ ~NeedsSeat(before, after, moves) /\ seats' = seats
           /\ EditGoes(x, "mailing")
    BY <1>6, <1>s DEF SeatEdit
  <2>5. SpanOf(after).start = after.start /\ SpanOf(after).until = bookings[id].end + Buffer
    BY <1>s, <2>2, <2>3, PlainSpans DEF Plain
  <2>6. moves /\ ~Gone(after.status) => free # {}
    <3>1. \A b \in DOMAIN bookings \ {id} : Agrees(bookings[b], seats, b)
      BY <1>g
    <3> QED BY <1>t, <2>2, <2>3, <3>1, RoomHasSeat
  <2> HIDE DEF free, id, after, before, moves
  <2>7. /\ \A b : b # id => (b \in DOMAIN seats' <=> b \in DOMAIN seats)
        /\ \A b \in DOMAIN seats \ {id} : seats'[b] = seats[b]
    <3>1. CASE seats' = Released(seats, id)
      BY <1>t, <3>1, ReleasedHolds
    <3>2. CASE seats' = Reserved(seats, id, SpanOf(after), capacity)
      BY <1>t, <3>2, ReservedHolds
    <3>3. CASE seats' = seats
      BY <3>3
    <3> QED BY <2>4, <3>1, <3>2, <3>3
  <2>8. ASSUME edit'[x].at = "mailing", edit'[x].id = id, edit'[x].before = before, edit'[x].after = after,
               edit'[x].moves = moves, Agrees(bookings'[id], seats', id)
        PROVE  DeskInv'
    <3>1. EditRight(x)'
      BY <2>8, <2>1, <2>2 DEF EditRight
    <3>2. Plain(bookings'[id])
      BY <2>1, <2>3
    <3>3. edit[x].id = id
      BY DEF id
    <3>4. \A b \in DOMAIN bookings \ {id} : bookings'[b] = bookings[b]
      BY <2>1
    <3> QED BY <1>1, <1>6, <1>o, <2>7, <2>8, <3>1, <3>2, <3>3, <3>4
  <2>9. CASE Gone(after.status) /\ seats' = Released(seats, id) /\ EditGoes(x, "mailing")
    <3>1. ~Holds(seats', id)
      BY <1>t, <2>9, ReleasedHolds
    <3>2. Agrees(bookings'[id], seats', id)
      BY <2>1, <2>2, <2>9, <3>1 DEF Agrees
    <3> QED BY <2>2, <2>8, <2>9, <3>2
  <2>10. CASE /\ NeedsSeat(before, after, moves) /\ seats' = Reserved(seats, id, SpanOf(after), capacity)
              /\ free # {} /\ EditGoes(x, "mailing")
    <3>1. /\ Holds(seats', id) /\ seats'[id].start = SpanOf(after).start
          /\ seats'[id].until = SpanOf(after).until
      BY <1>t, <2>10, ReservedHolds DEF free
    <3>2. Agrees(bookings'[id], seats', id)
      BY <2>1, <2>2, <2>5, <2>10, <3>1 DEF Agrees, NeedsSeat, Gone
    <3> QED BY <2>2, <2>8, <2>10, <3>2
  <2>11. CASE ~Gone(after.status) /\ ~NeedsSeat(before, after, moves) /\ seats' = seats /\ EditGoes(x, "mailing")
    <3>1. ~Gone(before.status) /\ before.start = after.start
      BY <2>2, <2>11 DEF NeedsSeat
    <3>2. Agrees(bookings'[id], seats', id)
      BY <2>1, <2>2, <2>3, <2>11, <3>1 DEF Agrees, Plain, Gone
    <3> QED BY <2>2, <2>8, <2>11, <3>2
  <2>12. CASE /\ NeedsSeat(before, after, moves) /\ seats' = Reserved(seats, id, SpanOf(after), capacity)
              /\ free = {} /\ EditGoes(x, "restoring")
    <3>1. ~Holds(seats', id)
      BY <1>t, <2>12, ReservedHolds DEF free
    <3>2. Gone(before.status)
      BY <2>6, <2>12 DEF NeedsSeat
    <3>3. EditRight(x)'
      BY <2>1, <2>2, <2>12, <3>1, <3>2 DEF EditRight
    <3>4. Plain(bookings'[id]) /\ edit'[x].id = id /\ edit'[x].at = "restoring"
      BY <2>1, <2>2, <2>3, <2>12
    <3>5. edit[x].id = id
      BY DEF id
    <3>6. \A b \in DOMAIN bookings \ {id} : bookings'[b] = bookings[b]
      BY <2>1
    <3> QED BY <1>1, <1>6, <1>o, <2>7, <3>3, <3>4, <3>5, <3>6
  <2> QED BY <2>4, <2>9, <2>10, <2>11, <2>12
<1>7. CASE x \in Edits /\ RestoreEdit(x)
  <2> DEFINE id == edit[x].id   before == edit[x].before
             row == [before EXCEPT !.manual = bookings[id].manual]
  <2>1. edit[x].at = "restoring" /\ seats' = seats /\ EditEnds(x)
    BY <1>7 DEF RestoreEdit
  <2>2. /\ id \in DOMAIN bookings /\ Plain(before) /\ before \in Booking /\ Gone(before.status)
        /\ ~Holds(seats, id) /\ edit'[x].at = "idle"
    BY <1>7, <1>n, <2>1 DEF EditRight, EditSteps, EditRecord
  <2>3. bookings' = Stamped(id, row) /\ ~bookings[id].manual
    BY <1>7, <1>p, <2>2 DEF RestoreEdit, RowsPlain, Plain
  <2>4. Plain(row) /\ row.status = before.status /\ row \in Booking
    BY <2>2, <2>3, <1>t DEF Plain, Booking
  <2>i. edit[x].id = id
    OBVIOUS
  <2> HIDE DEF row, id, before
  <2>5. /\ \A b \in DOMAIN bookings \ {id} : bookings'[b] = bookings[b]
        /\ bookings'[id] = [row EXCEPT !.stamp = bookings[id].stamp + 1]
    BY <2>2, <2>3 DEF Stamped
  <2>6. Plain(bookings'[id]) /\ bookings'[id].status = before.status
    BY <2>4, <2>5 DEF Plain, Booking
  <2>7. Agrees(bookings'[id], seats', id)
    BY <2>1, <2>2, <2>6 DEF Agrees
  <2>8. EditRight(x)'
    BY <2>2 DEF EditRight, EditSteps
  <2> QED BY <1>1, <1>7, <1>o, <2>i, <2>1, <2>2, <2>5, <2>6, <2>7, <2>8
<1>r. ASSUME NEW id, NEW row \in Booking, id \in DOMAIN bookings => Plain(row) /\ Agrees(row, seats, id),
             bookings' = IF id \in DOMAIN bookings THEN Stamped(id, row) ELSE bookings,
             seats' = seats, edit'[x].at = "idle",
             ~(x \in Edits /\ edit[x].at \in {"seating", "restoring"})
      PROVE  DeskInv'
  <2>1. /\ \A b \in DOMAIN bookings \ {id} : bookings'[b] = bookings[b]
        /\ id \in DOMAIN bookings => bookings'[id] = [row EXCEPT !.stamp = bookings[id].stamp + 1]
    BY <1>r DEF Stamped
  <2>2. id \in DOMAIN bookings => Plain(bookings'[id]) /\ Agrees(bookings'[id], seats', id)
    BY <1>r, <2>1 DEF Plain, Agrees, Booking
  <2>3. (x \in Edits => EditRight(x)') /\ (x \in MarksMissed => MissedRight(x)')
    BY <1>r DEF EditRight, MissedRight, EditSteps
  <2> QED BY <1>1, <1>r, <2>1, <2>2, <2>3
<1>8. CASE x \in Edits /\ MailEdit(x)
  <2>1. edit[x].at = "mailing" /\ seats' = seats /\ EditEnds(x)
    BY <1>8 DEF MailEdit
  <2>2. edit[x].id \in DOMAIN bookings /\ edit'[x].at = "idle"
    BY <1>8, <1>n, <2>1 DEF EditRight, EditSteps
  <2>3. /\ bookings[edit[x].id] \in Booking /\ Plain(bookings[edit[x].id])
        /\ Agrees(bookings[edit[x].id], seats, edit[x].id)
    BY <1>t, <1>p, <1>g, <2>1, <2>2 DEF RowsPlain
  <2>4. CASE bookings' = bookings
    BY <1>2, <1>8, <1>o, <2>1, <2>2, <2>4 DEF EditRight, EditSteps
  <2>5. CASE bookings' = Stamped(edit[x].id, bookings[edit[x].id])
    BY <1>r, <2>1, <2>2, <2>3, <2>5
  <2> QED BY <1>8, <2>4, <2>5 DEF MailEdit
<1>9. CASE x \in MarksMissed /\ \E id \in DOMAIN bookings : ReadMissed(x, id)
  <2>1. PICK id \in DOMAIN bookings : ReadMissed(x, id)
    BY <1>9
  <2>2. /\ UNCHANGED <<bookings, seats>>
        /\ edit'[x] = [at |-> "writing", id |-> id, status |->
                         IF bookings[id].status = "cancelled" THEN "cancelled" ELSE "completed"]
    BY <1>o, <2>1 DEF ReadMissed
  <2>3. MissedRight(x)'
    BY <2>2 DEF MissedRight
  <2> QED BY <1>2, <1>9, <1>o, <2>2, <2>3
<1>10. CASE x \in MarksMissed /\ WriteMissed(x)
  <2> DEFINE id == edit[x].id   row == [bookings[id] EXCEPT !.status = edit[x].status]
  <2>1. edit[x].at = "writing" /\ seats' = seats /\ edit'[x].at = "idle"
    BY <1>10, <1>o DEF WriteMissed, EditEnds, Idle
  <2>2. /\ edit[x].status \in {"cancelled", "completed"}
        /\ edit[x].status = "cancelled" /\ id \in DOMAIN bookings => bookings[id].status = "cancelled"
    BY <1>10, <2>1 DEF DeskInv, MissedRight
  <2>3. bookings' = IF id \in DOMAIN bookings THEN Stamped(id, row) ELSE bookings
    BY <1>10 DEF WriteMissed
  <2>4. CASE id \in DOMAIN bookings
    <3>1. bookings[id] \in Booking /\ Plain(bookings[id]) /\ Agrees(bookings[id], seats, id)
      BY <1>10, <1>t, <1>p, <1>g, <1>o, <2>4 DEF RowsPlain
    <3>2. row \in Booking /\ Plain(row) /\ Agrees(row, seats, id)
      BY <2>2, <2>4, <3>1 DEF Booking, Plain, Agrees, Gone, Status
    <3> HIDE DEF row, id
    <3> QED BY <1>r, <1>10, <1>o, <2>1, <2>3, <2>4, <3>2
  <2>5. CASE id \notin DOMAIN bookings
    BY <1>2, <1>10, <1>o, <2>1, <2>3, <2>5 DEF MissedRight
  <2> QED BY <2>4, <2>5
<1>11. CASE UNCHANGED <<bookings, seats>> /\ edit'[x].at = "idle"
  <2>1. CASE x \in Edits /\ edit[x].at \in {"seating", "restoring"}
    <3>1. edit[x].id \in DOMAIN bookings
      BY <1>n, <2>1 DEF EditRight, EditSteps
    <3>2. ~DieEditing(x) /\ ~LoseSeat(x)
      BY <1>s, <3>1 DEF DieEditing, LoseSeat
    <3>3. x \notin MarksMissed
      BY <1>o, <2>1
    <3> QED BY <1>6, <1>7, <2>1, <3>2, <3>3 DEF Turns, ReadEdit, CheckEdit, WriteEdit, MailEdit
  <2>2. CASE ~(x \in Edits /\ edit[x].at \in {"seating", "restoring"})
    BY <1>2, <1>11, <2>2 DEF EditRight, MissedRight, EditSteps
  <2> QED BY <2>1, <2>2
<1> QED BY <1>3, <1>4, <1>5, <1>6, <1>7, <1>8, <1>9, <1>10, <1>11, TurnSteps

LEMMA DeskSending ==
  ASSUME BookingInv, DeskInv, NEW e \in Edits, NEW id \in DOMAIN bookings, NEW q \in Requests,
         SendEdit(e, id, q)
  PROVE  DeskInv'
<1>1. /\ UNCHANGED <<bookings, seats, create>> /\ edit[e].at = "idle" /\ edit'[e].at = "sent"
      /\ \A y \in (Edits \cup MarksMissed) \ {e} : edit'[y] = edit[y]
      /\ e \notin MarksMissed
  BY SendingTurn, BookingRequests DEF SendEdit, BookingInv, TypeOK, EditTyped
<1>2. \A b : Seating(b)' => Seating(b)
  BY <1>1 DEF Seating
<1>3. \A b : Seating(b) => Seating(b)'
  BY <1>1 DEF Seating
<1>4. RowsPlain' /\ RowsAgree'
  BY <1>1, <1>2, <1>3 DEF DeskInv, RowsPlain, RowsAgree
<1>5. \A c \in Creates : CreateRight(c)'
  BY <1>1 DEF DeskInv, CreateRight
<1>6. \A f \in Edits : EditRight(f)'
  BY <1>1 DEF DeskInv, EditRight, EditSteps
<1>7. \A m \in MarksMissed : MissedRight(m)'
  BY <1>1 DEF DeskInv, MissedRight
<1> QED BY <1>4, <1>5, <1>6, <1>7 DEF DeskInv

LEMMA DeskStep ==
  ASSUME BookingInv, TurnInv, RowsCreated, overriding = {}, DeskInv, Serial, [Next]_vars
  PROVE  DeskInv'
<1>1. CASE UNCHANGED vars
  BY <1>1 DEF vars, DeskInv, RowsPlain, RowsAgree, Seating, CreateRight, EditRight, MissedRight
<1> QED BY <1>1, DeskSending, DeskCreating, DeskEditing, DeskCases

\* The invariant of the desk that serves one request after the other.
THEOREM DeskInvariant == ASSUME Serial PROVE Spec => [](BookingInv /\ NoneOverrides /\ DeskInv)
<1>1. MaxActive = 1 /\ ~Faults /\ ~Manual
  BY DEF Serial
<1>2. Init => DeskInv
  <2> SUFFICES ASSUME Init PROVE DeskInv
    OBVIOUS
  <2>1. DOMAIN bookings = {}
    BY DEF Init
  <2>2. RowsPlain /\ RowsAgree
    BY <2>1, FS_EmptySet DEF RowsPlain, RowsAgree
  <2> QED BY <2>2 DEF Init, DeskInv, CreateRight, EditRight, MissedRight, EditSteps, Idle
<1>3. BookingInv /\ TurnInv /\ RowsCreated /\ NoneOverrides /\ DeskInv /\ [Next]_vars => DeskInv'
  BY DeskStep DEF NoneOverrides
<1> QED BY <1>1, <1>2, <1>3, BookingInvariant, TurnInvariant, RowsAreCreated, NoOverrides, PTL DEF Spec

\* The seat of a booking that no handler works on agrees with its row.
LEMMA SettledAgrees ==
  ASSUME BookingInv, DeskInv, NEW b \in Settled
  PROVE  b \in DOMAIN bookings /\ bookings[b] \in Booking /\ Agrees(bookings[b], seats, b)
<1>1. b \in DOMAIN bookings /\ b \in Creates /\ bookings[b] \in Booking
  BY DEF Settled, BookingInv, TypeOK, BookingsTyped
<1>2. ~Seating(b)
  <2>1. create[b].at # "reserving"
    BY <1>1 DEF Settled, AtWork, CreateSteps
  <2>2. \A e \in Edits : edit[e].at \in {"seating", "restoring"} => e \in AtWork \ Creates
    BY BookingRequests DEF AtWork, BookingInv, TypeOK, EditTyped
  <2> QED BY <2>1, <2>2 DEF Seating, Settled
<1> QED BY <1>1, <1>2 DEF DeskInv, RowsAgree

LEMMA ExpectedSeated ==
  ASSUME BookingInv, DeskInv
  PROVE  ExpectedHoldsSeat
<1> SUFFICES ASSUME NEW b \in Expected
             PROVE  /\ b \in DOMAIN seats /\ seats[b].active
                    /\ seats[b].start = bookings[b].start /\ seats[b].until >= bookings[b].end
  BY DEF ExpectedHoldsSeat
<1>1. b \in Settled /\ ~Gone(bookings[b].status)
  BY DEF Expected
<1>2. bookings[b] \in Booking /\ Agrees(bookings[b], seats, b)
  BY <1>1, SettledAgrees
<1>3. bookings[b].end \in Int
  <2>1. \A s \in Starts : s + Duration \in Int
    BY BookingTimes
  <2>2. Times \subseteq Int
    BY <2>1, BookingTimes DEF Times
  <2> QED BY <1>2, <2>2 DEF Booking
<1> QED BY <1>1, <1>2, <1>3, BookingTimes DEF Agrees, Holds

\* An expected customer holds a seat for the appointment, when handlers run one after the
\* other, none fails and the override is not used: what POST and PATCH check of the rows
\* leaves a free seat for what they then reserve, and a seat that could not be had leaves
\* only a booking that had none.
THEOREM ExpectedAreSeated == ASSUME Serial PROVE Spec => []ExpectedHoldsSeat
<1>1. BookingInv /\ DeskInv => ExpectedHoldsSeat
  BY ExpectedSeated
<1> QED BY <1>1, DeskInvariant, PTL

\* No more customers are expected at a time than there are members of staff: each of them
\* holds a seat, and the seats are not oversold.
THEOREM NobodyOverbooked == ASSUME Serial PROVE Spec => []NeverOverbooked
<1>1. ASSUME BookingInv, NoneOverrides, DeskInv PROVE NeverOverbooked
  <2> SUFFICES ASSUME NEW t \in Starts
               PROVE  Cardinality({b \in Expected : bookings[b].start <= t /\ t < bookings[b].end}) <= Staff
    BY DEF NeverOverbooked
  <2> DEFINE expected == {b \in Expected : bookings[b].start <= t /\ t < bookings[b].end}
  <2>1. ASSUME NEW b \in expected PROVE b \in SeatedAt(t)
    <3>1. /\ b \in DOMAIN seats /\ seats[b].active /\ seats[b].start = bookings[b].start
          /\ seats[b].until >= bookings[b].end
      BY <1>1, ExpectedSeated DEF ExpectedHoldsSeat
    <3>2. b \in DOMAIN bookings
      BY DEF Expected, Settled
    <3>3. bookings[b].end \in Int /\ seats[b].until \in Int /\ t \in Int
      BY <1>1, <3>1, <3>2, BookingTimes
         DEF BookingInv, TypeOK, BookingsTyped, SeatsTyped, Booking, Seat, Times, Untils
    <3> QED BY <3>1, <3>3 DEF SeatedAt
  <2>2. IsFiniteSet(SeatedAt(t)) /\ Cardinality(SeatedAt(t)) <= Staff
    <3>1. SeatedAt(t) \ overriding = SeatedAt(t)
      BY <1>1 DEF NoneOverrides
    <3> QED BY <1>1, <3>1, SeatedByStaff
  <2> HIDE DEF expected
  <2>3. expected \in SUBSET SeatedAt(t)
    BY <2>1
  <2>4. IsFiniteSet(expected) /\ Cardinality(expected) <= Cardinality(SeatedAt(t))
    BY <2>2, <2>3, FS_Subset
  <2>5. Cardinality(expected) \in Nat /\ Cardinality(SeatedAt(t)) \in Nat
    BY <2>2, <2>4, FS_CardinalityType
  <2> QED BY <2>2, <2>4, <2>5, BookingTimes DEF expected
<1> QED BY <1>1, DeskInvariant, PTL

-----------------------------------------------------------------------------
(* Cancelled bookings, when handlers run one after the other and none fails; *)
(* the override may be used.                                                  *)

\* The row of a cancelled booking keeps a seat only until the edit that wrote it gives the
\* seat back; what a handler has left to do is for the row as it is.
CancelledUnseated ==
  \A b \in DOMAIN bookings : bookings[b].status = "cancelled" /\ Holds(seats, b)
    => \E e \in Edits : edit[e].at = "seating" /\ edit[e].id = b
CreatesPending == \A c \in Creates : create[c].at = "reserving" => bookings[c].status = "pending"
EditFollows(e) ==
  LET id == edit[e].id
  IN /\ edit[e].at = "seating" /\ id \in DOMAIN bookings => bookings[id].status = edit[e].after.status
     /\ edit[e].at = "restoring" => ~Holds(seats, id)

\* The inductive invariant behind CancelledHoldsNoSeat, beside BookingInv and TurnInv.
CancelInv ==
  /\ CancelledUnseated /\ CreatesPending
  /\ \A e \in Edits : EditFollows(e)
  /\ \A m \in MarksMissed : MissedRight(m)

\* A creating handler's step leaves no cancelled booking with a seat: its own is pending.
LEMMA CancelCreating ==
  ASSUME BookingInv, TurnInv, CancelInv, MaxActive = 1, ~Faults, NEW c \in Creates, Creating(c)
  PROVE  CancelInv'
<1>t. /\ DOMAIN seats \subseteq DOMAIN bookings /\ seats \in [DOMAIN seats -> Seat]
      /\ bookings \in [DOMAIN bookings -> Booking] /\ DOMAIN edit = Edits \cup MarksMissed
      /\ create[c].at \in {"reserving", "undoing", "mailing", "recording"} => c \in DOMAIN bookings
  BY DEF BookingInv, TypeOK, BookingsTyped, SeatsTyped, EditTyped, InsertedStays
<1>o. /\ \A d \in Creates \ {c} : create'[d] = create[d] /\ create[d].at \notin CreateSteps
      /\ edit' = edit /\ \A e \in Edits : edit[e].at \notin EditSteps
      /\ \A m \in MarksMissed : edit[m].at # "writing"
  BY <1>t, CreatingTurn, BookingRequests DEF TurnInv, Alone, AtWork, EditSteps
<1>u. /\ \A b \in DOMAIN bookings : bookings[b].status = "cancelled" => ~Holds(seats, b)
      /\ create[c].at = "reserving" => bookings[c].status = "pending"
  BY <1>o DEF CancelInv, CancelledUnseated, CreatesPending, EditSteps
<1>1. ASSUME \A b \in DOMAIN bookings' \ {c} : b \in DOMAIN bookings /\ bookings'[b] = bookings[b],
             \A b : b # c => (Holds(seats', b) => Holds(seats, b)),
             c \in DOMAIN bookings' /\ bookings'[c].status = "cancelled" => ~Holds(seats', c),
             create'[c].at = "reserving" => bookings'[c].status = "pending"
      PROVE  CancelInv'
  <2>1. CancelledUnseated'
    <3> SUFFICES ASSUME NEW b \in DOMAIN bookings', bookings'[b].status = "cancelled", Holds(seats', b)
                 PROVE  FALSE
      BY DEF CancelledUnseated
    <3> QED BY <1>1, <1>u
  <2>2. CreatesPending'
    BY <1>1, <1>o DEF CreatesPending, CreateSteps
  <2>3. (\A e \in Edits : EditFollows(e)') /\ \A m \in MarksMissed : MissedRight(m)'
    BY <1>o DEF EditFollows, MissedRight, EditSteps
  <2> QED BY <2>1, <2>2, <2>3 DEF CancelInv
<1>2. CASE UNCHANGED <<bookings, seats>> /\ create'[c].at # "reserving"
  BY <1>1, <1>2, <1>u
<1>3. CASE InsertCreate(c)
  <2>1. /\ DOMAIN bookings' = DOMAIN bookings \cup {c} /\ bookings'[c].status = "pending" /\ seats' = seats
        /\ \A b \in DOMAIN bookings \ {c} : bookings'[b] = bookings[b]
    BY <1>3 DEF InsertCreate
  <2> QED BY <1>1, <2>1
<1>4. CASE ReserveCreate(c) /\ create'[c].at # "reserving"
  <2>1. bookings' = bookings /\ bookings[c].status = "pending"
    BY <1>4, <1>u DEF ReserveCreate
  <2>2. \A b : b # c => (Holds(seats', b) => Holds(seats, b))
    BY <1>4, <1>t, ReservedHolds DEF ReserveCreate, Holds
  <2> QED BY <1>1, <1>4, <2>1, <2>2
<1>5. CASE /\ bookings' = [b \in DOMAIN bookings \ {c} |-> bookings[b]]
           /\ seats' = [b \in DOMAIN seats \ {c} |-> seats[b]] /\ create'[c].at = "refused"
  <2>1. /\ DOMAIN bookings' = DOMAIN bookings \ {c} /\ DOMAIN seats' = DOMAIN seats \ {c}
        /\ \A b \in DOMAIN bookings \ {c} : bookings'[b] = bookings[b]
        /\ \A b \in DOMAIN seats \ {c} : seats'[b] = seats[b]
    BY <1>5
  <2> QED BY <1>1, <1>5, <2>1 DEF Holds
<1>6. CASE /\ create[c].at = "mailing" /\ create'[c].at = "recording" /\ UNCHANGED <<seats, keys>>
           /\ bookings' = Stamped(c, bookings[c])
  <2>1. /\ DOMAIN bookings' = DOMAIN bookings /\ bookings'[c].status = bookings[c].status
        /\ \A b \in DOMAIN bookings \ {c} : bookings'[b] = bookings[b]
    BY <1>6, <1>t DEF Stamped, Booking
  <2> QED BY <1>1, <1>6, <1>t, <1>u, <2>1
<1> QED BY <1>2, <1>3, <1>4, <1>5, <1>6, CreatingSteps

\* A step of another handler disturbs at most the booking it is about.
LEMMA CancelEditing ==
  ASSUME BookingInv, TurnInv, CancelInv, MaxActive = 1, ~Faults, NEW x, Turns(x)
  PROVE  CancelInv'
<1>t. /\ DOMAIN seats \subseteq DOMAIN bookings /\ seats \in [DOMAIN seats -> Seat]
      /\ bookings \in [DOMAIN bookings -> Booking] /\ DOMAIN edit = Edits \cup MarksMissed /\ EditTyped
      /\ \A b \in DOMAIN bookings : b \in Creates
  BY DEF BookingInv, TypeOK, BookingsTyped, SeatsTyped, EditTyped
<1>o. /\ \A y \in DOMAIN edit \ {x} : edit'[y] = edit[y] /\ edit[y].at \in {"idle", "sent"}
      /\ create' = create /\ \A d \in Creates : create[d].at \notin CreateSteps
      /\ x \in DOMAIN edit /\ x \notin Edits \cap MarksMissed
  BY <1>t, EditingTurn, BookingRequests DEF TurnInv, Alone, AtWork
<1>d. DOMAIN bookings' = DOMAIN bookings
  BY EditingRows
<1>u. \A b \in DOMAIN bookings : bookings[b].status = "cancelled" /\ Holds(seats, b)
        => x \in Edits /\ edit[x].at = "seating" /\ edit[x].id = b
  BY <1>o, <1>t DEF CancelInv, CancelledUnseated
<1>1. ASSUME NEW id,
             x \in Edits /\ edit[x].at = "seating" => edit[x].id = id,
             \A b \in DOMAIN bookings \ {id} : bookings'[b] = bookings[b],
             \A b : b # id => (Holds(seats', b) => Holds(seats, b)),
             id \in DOMAIN bookings /\ bookings'[id].status = "cancelled" /\ Holds(seats', id)
               => x \in Edits /\ edit'[x].at = "seating" /\ edit'[x].id = id,
             x \in Edits => EditFollows(x)', x \in MarksMissed => MissedRight(x)'
      PROVE  CancelInv'
  <2>1. CancelledUnseated'
    <3> SUFFICES ASSUME NEW b \in DOMAIN bookings, bookings'[b].status = "cancelled", Holds(seats', b)
                 PROVE  \E e \in Edits : edit'[e].at = "seating" /\ edit'[e].id = b
      BY <1>d DEF CancelledUnseated
    <3>1. b = id
      BY <1>1, <1>u
    <3> QED BY <1>1, <3>1
  <2>2. CreatesPending'
    BY <1>o DEF CreatesPending, CreateSteps
  <2>3. \A e \in Edits : EditFollows(e)'
    BY <1>1, <1>o, <1>t DEF EditFollows
  <2>4. \A m \in MarksMissed : MissedRight(m)'
    BY <1>1, <1>o, <1>t DEF MissedRight
  <2> QED BY <2>1, <2>2, <2>3, <2>4 DEF CancelInv
<1>2. ASSUME UNCHANGED <<bookings, seats>>, x \in Edits => edit[x].at # "seating",
             x \in Edits => edit'[x].at \notin {"seating", "restoring"},
             x \in MarksMissed => MissedRight(x)'
      PROVE  CancelInv'
  <2>1. x \in Edits => EditFollows(x)'
    BY <1>2 DEF EditFollows
  <2> QED BY <1>1, <1>2, <1>u, <2>1
<1>n. x \in Edits =>
        /\ EditFollows(x) /\ x \notin MarksMissed
        /\ \A at : edit[x].at \in EditSteps /\ EditGoes(x, at) =>
              /\ edit'[x].at = at /\ edit'[x].id = edit[x].id /\ edit'[x].after = edit[x].after
        /\ EditEnds(x) => edit'[x].at = "idle"
  BY <1>t, <1>o, GoesOn DEF CancelInv
<1>3. CASE x \in Edits /\ (ReadEdit(x) \/ CheckEdit(x))
  <2>1. CASE ReadEdit(x)
    <3>1. UNCHANGED <<bookings, seats>> /\ edit[x].at = "sent"
          /\ edit'[x].at \in {"idle", "checking", "writing"}
      BY <1>o, <2>1 DEF ReadEdit, Idle
    <3> QED BY <1>2, <1>3, <1>n, <3>1
  <2>2. CASE CheckEdit(x)
    <3>1. UNCHANGED <<bookings, seats>> /\ edit[x].at = "checking" /\ edit'[x].at \in {"idle", "writing"}
      BY <1>3, <1>n, <2>2 DEF CheckEdit, EditSteps
    <3> QED BY <1>2, <1>3, <1>n, <3>1
  <2> QED BY <1>3, <2>1, <2>2
<1>4. CASE x \in Edits /\ WriteEdit(x)
  <2>1. edit[x].at = "writing" /\ seats' = seats
    BY <1>4 DEF WriteEdit
  <2>2. CASE edit[x].id \notin DOMAIN bookings
    BY <1>2, <1>4, <1>n, <2>1, <2>2 DEF WriteEdit
  <2>3. CASE edit[x].id \in DOMAIN bookings
    <3>1. edit[x] \in EditRecord
      BY <1>4, <1>t, <2>1, EditingRecord DEF EditSteps
    <3>2. bookings' = Stamped(edit[x].id, edit[x].after) /\ EditGoes(x, "seating")
      BY <1>4, <2>3 DEF WriteEdit
    <3>3. /\ \A b \in DOMAIN bookings \ {edit[x].id} : bookings'[b] = bookings[b]
          /\ bookings'[edit[x].id].status = edit[x].after.status
      BY <2>3, <3>1, <3>2 DEF Stamped, EditRecord, Booking
    <3>4. edit'[x].at = "seating" /\ edit'[x].id = edit[x].id /\ edit'[x].after = edit[x].after
      BY <1>4, <1>n, <2>1, <3>2 DEF EditSteps
    <3>5. EditFollows(x)'
      BY <3>3, <3>4 DEF EditFollows
    <3> QED BY <1>1, <1>4, <1>n, <2>1, <3>3, <3>4, <3>5
  <2> QED BY <2>2, <2>3
<1>5. CASE x \in Edits /\ SeatEdit(x)
  <2> DEFINE id == edit[x].id   before == edit[x].before   after == edit[x].after
             capacity == IF edit[x].moves THEN Staff ELSE 1
             span == SpanOf(after)
  <2>1. edit[x].at = "seating" /\ bookings' = bookings
    BY <1>5 DEF SeatEdit
  <2>2. id \in DOMAIN bookings => bookings[id].status = after.status
    BY <1>5, <1>n, <2>1 DEF EditFollows
  <2>a. ASSUME \A b : b # id => (Holds(seats', b) => Holds(seats, b)),
               after.status = "cancelled" => ~Holds(seats', id),
               EditGoes(x, "mailing") \/ (EditGoes(x, "restoring") /\ ~Holds(seats', id))
        PROVE  CancelInv'
    <3>1. edit'[x].at \in {"mailing", "restoring"} /\ edit'[x].id = id
          /\ (edit'[x].at = "restoring" => ~Holds(seats', id))
      BY <1>5, <1>n, <2>1, <2>a DEF EditSteps
    <3>2. EditFollows(x)'
      BY <3>1 DEF EditFollows
    <3> QED BY <1>1, <1>5, <1>n, <2>1, <2>2, <2>a, <3>2
  <2>3. CASE Gone(after.status)
    <3>1. seats' = Released(seats, id) /\ EditGoes(x, "mailing")
      BY <1>5, <2>3 DEF SeatEdit, NeedsSeat
    <3> QED BY <1>t, <2>a, <3>1, ReleasedHolds DEF Holds
  <2>4. CASE ~Gone(after.status) /\ NeedsSeat(before, after, edit[x].moves)
    <3>1. seats' = Reserved(seats, id, span, capacity)
          /\ EditGoes(x, IF FreeSeats(seats, id, span, capacity) = {} THEN "restoring" ELSE "mailing")
      BY <1>5, <2>4 DEF SeatEdit
    <3>2. after.status # "cancelled"
      BY <2>4 DEF Gone
    <3> HIDE DEF capacity, span, id, before, after
    <3>3. /\ \A b : b # id => (Holds(seats', b) => Holds(seats, b))
          /\ FreeSeats(seats, id, span, capacity) = {} => ~Holds(seats', id)
      BY <1>t, <3>1, ReservedHolds DEF Holds
    <3> QED BY <2>a, <3>1, <3>2, <3>3
  <2>5. CASE ~Gone(after.status) /\ ~NeedsSeat(before, after, edit[x].moves)
    <3>1. seats' = seats /\ EditGoes(x, "mailing") /\ after.status # "cancelled"
      BY <1>5, <2>5 DEF SeatEdit, Gone
    <3> QED BY <2>a, <3>1
  <2> QED BY <2>3, <2>4, <2>5
<1>6. CASE x \in Edits /\ LoseSeat(x)
  <2>1. edit[x].at = "seating" /\ UNCHANGED <<bookings, seats>> /\ edit[x].id \notin DOMAIN bookings
        /\ EditGoes(x, "restoring")
    BY <1>6 DEF LoseSeat
  <2>2. edit'[x].at = "restoring" /\ edit'[x].id = edit[x].id
    BY <1>6, <1>n, <2>1 DEF EditSteps
  <2>3. EditFollows(x)'
    BY <1>t, <2>1, <2>2 DEF EditFollows, Holds
  <2> QED BY <1>1, <1>6, <1>n, <2>1, <2>3
<1>7. CASE x \in Edits /\ RestoreEdit(x)
  <2>1. /\ edit[x].at = "restoring" /\ seats' = seats /\ EditEnds(x)
        /\ \A b \in DOMAIN bookings \ {edit[x].id} : bookings'[b] = bookings[b]
    BY <1>7 DEF RestoreEdit, Stamped
  <2>2. ~Holds(seats, edit[x].id) /\ edit'[x].at = "idle"
    BY <1>7, <1>n, <2>1 DEF EditFollows
  <2>3. EditFollows(x)'
    BY <2>2 DEF EditFollows
  <2> QED BY <1>1, <1>7, <1>n, <2>1, <2>2, <2>3
<1>8. CASE x \in Edits /\ MailEdit(x)
  <2>1. /\ edit[x].at = "mailing" /\ seats' = seats /\ EditEnds(x)
        /\ \A b \in DOMAIN bookings \ {edit[x].id} : bookings'[b] = bookings[b]
        /\ edit[x].id \in DOMAIN bookings => bookings'[edit[x].id].status = bookings[edit[x].id].status
    BY <1>8, <1>t DEF MailEdit, Stamped, Booking
  <2>2. edit'[x].at = "idle"
    BY <1>8, <1>n, <2>1
  <2>3. EditFollows(x)'
    BY <2>2 DEF EditFollows
  <2> QED BY <1>1, <1>8, <1>n, <1>u, <2>1, <2>3
<1>9. ~DieEditing(x)
  BY DEF DieEditing
<1>10. CASE x \in MarksMissed /\ \E id \in DOMAIN bookings : ReadMissed(x, id)
  <2>1. PICK id \in DOMAIN bookings : ReadMissed(x, id)
    BY <1>10
  <2>2. /\ UNCHANGED <<bookings, seats>>
        /\ edit'[x] = [at |-> "writing", id |-> id, status |->
                         IF bookings[id].status = "cancelled" THEN "cancelled" ELSE "completed"]
    BY <1>o, <2>1 DEF ReadMissed
  <2>3. MissedRight(x)'
    BY <2>2 DEF MissedRight
  <2> QED BY <1>2, <1>10, <1>o, <2>2, <2>3
<1>11. CASE x \in MarksMissed /\ WriteMissed(x)
  <2> DEFINE id == edit[x].id
  <2>1. /\ edit[x].at = "writing" /\ seats' = seats /\ edit'[x].at = "idle"
        /\ \A b \in DOMAIN bookings \ {id} : bookings'[b] = bookings[b]
    BY <1>11, <1>o DEF WriteMissed, EditEnds, Idle, Stamped
  <2>2. edit[x].status = "cancelled" /\ id \in DOMAIN bookings => bookings[id].status = "cancelled"
    BY <1>11, <2>1 DEF CancelInv, MissedRight
  <2>3. id \in DOMAIN bookings => bookings'[id].status = edit[x].status
    BY <1>11, <1>t DEF WriteMissed, Stamped, Booking
  <2>4. x \notin Edits /\ MissedRight(x)'
    BY <1>11, <1>o, <2>1 DEF MissedRight
  <2> QED BY <1>1, <1>u, <2>1, <2>2, <2>3, <2>4
<1> QED BY <1>3, <1>4, <1>5, <1>6, <1>7, <1>8, <1>9, <1>10, <1>11 DEF Turns

\* Every step keeps the invariant; sending a request changes nothing it speaks of.
LEMMA CancelStep ==
  ASSUME BookingInv, TurnInv, CancelInv, MaxActive = 1, ~Faults, [Next]_vars
  PROVE  CancelInv'
<1>1. CASE UNCHANGED vars
  BY <1>1 DEF vars, CancelInv, CancelledUnseated, CreatesPending, EditFollows, MissedRight
<1>2. ASSUME NEW e \in Edits, NEW id \in DOMAIN bookings, NEW q \in Requests, SendEdit(e, id, q)
      PROVE  CancelInv'
  <2>1. /\ UNCHANGED <<bookings, seats, create>> /\ edit[e].at = "idle" /\ edit'[e].at = "sent"
        /\ \A y \in (Edits \cup MarksMissed) \ {e} : edit'[y] = edit[y]
        /\ e \notin MarksMissed
    BY <1>2, SendingTurn, BookingRequests DEF SendEdit, BookingInv, TypeOK, EditTyped
  <2>2. CancelledUnseated' /\ CreatesPending'
    BY <2>1 DEF CancelInv, CancelledUnseated, CreatesPending
  <2>3. \A f \in Edits : EditFollows(f)'
    BY <2>1 DEF CancelInv, EditFollows
  <2>4. \A m \in MarksMissed : MissedRight(m)'
    BY <2>1 DEF CancelInv, MissedRight
  <2> QED BY <2>2, <2>3, <2>4 DEF CancelInv
<1> QED BY <1>1, <1>2, CancelCreating, CancelEditing, DeskCases

\* A booking that came to be cancelled, by whichever handler, keeps no seat from others
\* when handlers run one after the other and none fails, whatever ends are set by hand.
THEOREM CancelledAreUnseated == ASSUME MaxActive = 1, ~Faults PROVE Spec => []CancelledHoldsNoSeat
<1>1. Init => CancelInv
  BY DEF Init, CancelInv, CancelledUnseated, CreatesPending, EditFollows, MissedRight, Idle
<1>2. BookingInv /\ TurnInv /\ CancelInv /\ [Next]_vars => CancelInv'
  BY CancelStep
<1>3. ASSUME BookingInv, CancelInv PROVE CancelledHoldsNoSeat
  <2> SUFFICES ASSUME NEW b \in Settled, b \in DOMAIN seats, bookings[b].status = "cancelled",
                      seats[b].active
               PROVE  FALSE
    BY DEF CancelledHoldsNoSeat
  <2>1. PICK e \in Edits : edit[e].at = "seating" /\ edit[e].id = b
    BY <1>3 DEF CancelInv, CancelledUnseated, Holds, Settled
  <2>2. e \in AtWork \ Creates
    BY <1>3, <2>1, BookingRequests DEF AtWork, BookingInv, TypeOK, EditTyped
  <2> QED BY <2>1, <2>2 DEF Settled
<1> QED BY <1>1, <1>2, <1>3, TurnInvariant, BookingInvariant, PTL DEF Spec

-----------------------------------------------------------------------------
(* Reminders and answers: types. *)

\* Rows of some of the bookings, one by one.
LEMMA RowsByBooking ==
  \A r : r \in Rows <=> DOMAIN r \subseteq Appointments /\ r \in [DOMAIN r -> ReminderEvent]
<1>1. ASSUME NEW r, r \in Rows
      PROVE  DOMAIN r \subseteq Appointments /\ r \in [DOMAIN r -> ReminderEvent]
  <2>1. PICK S \in SUBSET Appointments : r \in [S -> ReminderEvent]
    BY <1>1 DEF Rows
  <2> QED BY <2>1
<1>2. ASSUME NEW r, DOMAIN r \subseteq Appointments, r \in [DOMAIN r -> ReminderEvent]
      PROVE  r \in Rows
  BY <1>2 DEF Rows
<1> QED BY <1>1, <1>2

\* What a job remembers has the fields its step says.
LEMMA JobRecord ==
  ASSUME AttendanceTyped, NEW j \in Jobs
  PROVE  /\ reminding[j].at \in {"off", "reading", "mailing", "storing"}
         /\ reminding[j] # Off => reminding[j].at # "off"
         /\ reminding[j].at \in {"reading", "mailing", "storing"} => reminding[j].window \in Windows
         /\ reminding[j].at \in {"mailing", "storing"} =>
              reminding[j].rows \in Rows /\ reminding[j].left \subseteq Appointments
         /\ reminding[j].at = "storing" => /\ reminding[j].booking \in Appointments
                                           /\ reminding[j].token \in Nat
                                           /\ reminding[j].sent \in BOOLEAN
<1>1. reminding[j] \in Reminding
  BY DEF AttendanceTyped
<1> QED BY <1>1 DEF Reminding, Off

\* The same for a request.
LEMMA VisitRecord ==
  ASSUME AttendanceTyped, NEW v \in Answers \cup Marks
  PROVE  /\ visit[v].at \in {"waiting", "ended", "claiming", "noting", "undoing", "counting", "adding"}
         /\ visit[v].at \in {"claiming", "noting", "undoing"} =>
              /\ visit[v].booking \in Appointments /\ visit[v].status \in {"present", "missed"}
              /\ visit[v] \in [at : {"claiming", "noting", "undoing"}, booking : Appointments,
                               status : {"present", "missed"}]
         /\ visit[v].at = "adding" => visit[v].seen \in Nat
<1>1. visit[v] \in Visit
  BY DEF AttendanceTyped
<1> QED BY <1>1 DEF Visit, Waiting, Ended

\* What a batch that was mailed leads to.
LEMMA AfterBatchTyped == \A w \in Windows : AfterBatch(w) \in Reminding
BY DEF AfterBatch, Windows, Reminding, Off

\* A job's step keeps the types.
LEMMA RemindTyped ==
  ASSUME AttendanceTyped, NEW j \in Jobs, Remind(j)
  PROVE  AttendanceTyped'
<1> USE DEF answerVars
<1>1. ASSUME NEW batch \in SUBSET Appointments, NEW fails \in BOOLEAN, ReadBatch(j, batch, fails)
      PROVE  AttendanceTyped'
  <2> DEFINE known == IF fails THEN {} ELSE batch \cap DOMAIN events
             window == reminding[j].window
             left == {b \in batch : b \in known => window \notin events[b].sent}
             next == IF left = {} THEN AfterBatch(window)
                      ELSE [at |-> "mailing", window |-> window, left |-> left,
                            rows |-> [b \in known |-> events[b]]]
  <2>1. window \in Windows
    BY <1>1, JobRecord DEF ReadBatch
  <2>2. [b \in known |-> events[b]] \in Rows
    BY RowsByBooking DEF AttendanceTyped
  <2>3. left \subseteq Appointments
    OBVIOUS
  <2>4. reminding' = [reminding EXCEPT ![j] = next]
    BY <1>1 DEF ReadBatch, JobGoes
  <2>5. troubled' \subseteq Appointments /\ interrupted' \subseteq Appointments
    BY <1>1 DEF ReadBatch, AttendanceTyped
  <2> HIDE DEF known, window, left
  <2>6. next \in Reminding
    BY <2>1, <2>2, <2>3, AfterBatchTyped DEF Reminding
  <2> HIDE DEF next
  <2> QED BY <1>1, <2>4, <2>5, <2>6 DEF ReadBatch, AttendanceTyped
<1>2. ASSUME NEW b \in Appointments, NEW sent \in BOOLEAN, MailReminder(j, b, sent)
      PROVE  AttendanceTyped'
  <2> DEFINE next == [at |-> "storing", window |-> reminding[j].window,
                      rows |-> reminding[j].rows, left |-> reminding[j].left \ {b},
                      booking |-> b, token |-> LinkFor(j, b), sent |-> sent]
  <2>1. reminding[j].window \in Windows /\ reminding[j].rows \in Rows
        /\ reminding[j].left \subseteq Appointments
    BY <1>2, JobRecord DEF MailReminder
  <2>2. LinkFor(j, b) \in Nat
    BY <2>1, RowsByBooking DEF LinkFor, ReminderEvent, AttendanceTyped
  <2>3. next \in Reminding
    BY <2>1, <2>2 DEF Reminding
  <2>4. tokens' \in Nat /\ mailed' \in [Appointments -> SUBSET Nat]
    BY <1>2, <2>2 DEF MailReminder, AttendanceTyped
  <2>5. reminding' = [reminding EXCEPT ![j] = next]
    BY <1>2 DEF MailReminder, JobGoes
  <2> HIDE DEF next
  <2> QED BY <1>2, <2>3, <2>4, <2>5 DEF MailReminder, AttendanceTyped
<1>3. ASSUME NEW fails \in BOOLEAN, StoreReminder(j, fails)
      PROVE  AttendanceTyped'
  <2> DEFINE b == reminding[j].booking
             left == reminding[j].left
             next == IF left = {} THEN AfterBatch(reminding[j].window)
                      ELSE [at |-> "mailing", window |-> reminding[j].window,
                            rows |-> reminding[j].rows, left |-> left]
  <2>1. /\ reminding[j].window \in Windows /\ reminding[j].rows \in Rows
        /\ left \subseteq Appointments /\ b \in Appointments
        /\ reminding[j].token \in Nat /\ reminding[j].sent \in BOOLEAN
    BY <1>3, JobRecord DEF StoreReminder
  <2>2. reminding' = [reminding EXCEPT ![j] = next]
    BY <1>3 DEF StoreReminder, JobGoes
  <2>3. troubled' \subseteq Appointments
    BY <1>3, <2>1 DEF StoreReminder, AttendanceTyped
  <2>4. Stored(j) \in ReminderEvent
    BY <2>1, RowsByBooking DEF Stored, TakenAnswer, ReminderEvent, Responses, Windows
  <2>5. events' \in Rows
    BY <1>3, <2>1, <2>4, RowsByBooking DEF StoreReminder, AttendanceTyped
  <2> HIDE DEF b, left
  <2>6. next \in Reminding
    BY <2>1, AfterBatchTyped DEF Reminding
  <2> HIDE DEF next
  <2> QED BY <1>3, <2>2, <2>3, <2>5, <2>6 DEF StoreReminder, AttendanceTyped
<1>4. CASE DieReminding(j)
  <2>1. troubled' \subseteq Appointments
    BY <1>4, JobRecord DEF DieReminding, AttendanceTyped
  <2>2. Off \in Reminding
    BY DEF Reminding
  <2> QED BY <1>4, <2>1, <2>2 DEF DieReminding, JobGoes, AttendanceTyped
<1> QED BY <1>1, <1>2, <1>3, <1>4 DEF Remind

\* A request takes on any record a request of its kind may have.
LEMMA VisitBecomes ==
  ASSUME AttendanceTyped, NEW v \in Answers \cup Marks, NEW step \in Visit, VisitGoes(v, step),
         step.at \in {"claiming", "noting", "undoing"} => v \in Answers
  PROVE  /\ visit' \in [Answers \cup Marks -> Visit]
         /\ \A m \in Marks : visit'[m].at \notin {"claiming", "noting", "undoing"}
<1>1. visit' = [visit EXCEPT ![v] = step] /\ visit \in [Answers \cup Marks -> Visit]
  BY DEF VisitGoes, AttendanceTyped
<1> QED BY <1>1, AttendanceConstants DEF AttendanceTyped

\* The steps that a request goes on to.
LEMMA VisitSteps ==
  ASSUME AttendanceTyped, NEW v \in Answers \cup Marks
  PROVE  /\ Ended \in Visit /\ [at |-> "counting"] \in Visit
         /\ \A n \in Nat : [at |-> "adding", seen |-> n] \in Visit
         /\ visit[v].at \in {"claiming", "noting", "undoing"} =>
              /\ [visit[v] EXCEPT !.at = "noting"] \in Visit
              /\ [visit[v] EXCEPT !.at = "undoing"] \in Visit
<1>1. /\ Ended \in Visit /\ [at |-> "counting"] \in Visit
      /\ \A n \in Nat : [at |-> "adding", seen |-> n] \in Visit
  BY DEF Visit
<1>2. ASSUME visit[v].at \in {"claiming", "noting", "undoing"}, NEW at \in {"noting", "undoing"}
      PROVE  [visit[v] EXCEPT !.at = at] \in Visit
  BY <1>2, VisitRecord DEF Visit
<1> QED BY <1>1, <1>2

\* A row that is answered or given up remains a row.
LEMMA RowAnswered ==
  ASSUME AttendanceTyped, NEW b, NEW r \in Responses, events' = [events EXCEPT ![b].response = r]
  PROVE  events' \in Rows /\ DOMAIN events' = DOMAIN events
<1>1. DOMAIN events \subseteq Appointments /\ events \in [DOMAIN events -> ReminderEvent]
  BY RowsByBooking DEF AttendanceTyped
<1>2. DOMAIN events' = DOMAIN events
  OBVIOUS
<1>3. ASSUME NEW d \in DOMAIN events PROVE events'[d] \in ReminderEvent
  <2>1. events[d] \in ReminderEvent
    BY <1>1
  <2>2. [events[d] EXCEPT !.response = r] \in ReminderEvent
    BY <2>1 DEF ReminderEvent
  <2>3. events'[d] = events[d] \/ events'[d] = [events[d] EXCEPT !.response = r]
    OBVIOUS
  <2> QED BY <2>1, <2>2, <2>3
<1>4. events' \in [DOMAIN events -> ReminderEvent]
  BY <1>3
<1> QED BY <1>1, <1>2, <1>4, RowsByBooking

\* A request's step keeps the types.
LEMMA VisitTyped ==
  ASSUME AttendanceTyped, NEW v \in Answers \cup Marks,
         \/ v \in Answers /\ Respond(v)
         \/ v \in Marks /\ \E b \in Appointments : MarkMissed(v, b)
         \/ ReadCount(v) \/ AddMissed(v) \/ DieVisiting(v)
  PROVE  AttendanceTyped'
<1> USE DEF answerVars, jobVars
<1> DEFINE step == visit'[v]
<1>0. ASSUME step \in Visit, VisitGoes(v, step),
             step.at \in {"claiming", "noting", "undoing"} => v \in Answers
      PROVE  /\ visit' \in [Answers \cup Marks -> Visit]
             /\ \A m \in Marks : visit'[m].at \notin {"claiming", "noting", "undoing"}
  BY <1>0, VisitBecomes
<1> HIDE DEF step
<1> DEFINE Goes(x) == VisitGoes(v, x)
<1>a. \A x : VisitGoes(v, x) => step = x
  BY DEF VisitGoes, step, AttendanceTyped
<1>1. ASSUME v \in Answers, NEW b \in Appointments, NEW link \in 1..MaxTokens,
             NEW status \in {"present", "missed"}, FollowLink(v, b, link, status)
      PROVE  AttendanceTyped'
  <2>1. PICK x \in {Ended, [at |-> "claiming", booking |-> b, status |-> status]} : VisitGoes(v, x)
    BY <1>1 DEF FollowLink
  <2>2. x \in Visit
    BY <2>1, VisitSteps DEF Visit
  <2>3. VisitGoes(v, step) /\ step \in Visit
    BY <2>1, <2>2, <1>a
  <2> QED BY <1>1, <1>0, <2>3 DEF FollowLink, AttendanceTyped
<1>2. CASE v \in Answers /\ ClaimAnswer(v)
  <2>1. PICK x \in {Ended, [visit[v] EXCEPT !.at = "noting"]} : VisitGoes(v, x)
    BY <1>2 DEF ClaimAnswer
  <2>2. VisitGoes(v, step) /\ step \in Visit
    BY <1>2, <2>1, <1>a, VisitSteps DEF ClaimAnswer
  <2>3. visit[v].booking \in Appointments /\ visit[v].status \in Responses
    BY <1>2, VisitRecord DEF ClaimAnswer, Responses
  <2>4. /\ events' \in Rows /\ respondent' \in [Appointments -> SUBSET Answers]
        /\ accepted' \in [Appointments -> SUBSET Answers] /\ interrupted' \subseteq Appointments
    <3>1. CASE Answered(v)
      BY <1>2, <2>3, <3>1, RowAnswered DEF Answered, AttendanceTyped
    <3>2. CASE UNCHANGED <<events, respondent, accepted, interrupted>>
      BY <3>2 DEF AttendanceTyped
    <3> QED BY <1>2, <3>1, <3>2 DEF ClaimAnswer
  <2> QED BY <1>0, <1>2, <2>2, <2>4 DEF ClaimAnswer, AttendanceTyped
<1>3. CASE v \in Answers /\ (NoteAnswer(v) \/ LoseNote(v))
  <2>1. PICK x \in {Ended, [at |-> "counting"], [visit[v] EXCEPT !.at = "undoing"]} : VisitGoes(v, x)
    BY <1>3 DEF NoteAnswer, LoseNote
  <2>2. visit[v].at = "noting"
    BY <1>3 DEF NoteAnswer, LoseNote
  <2>3. VisitGoes(v, step) /\ step \in Visit
    BY <2>1, <2>2, <1>a, VisitSteps
  <2>4. attendance' \in [Appointments -> Responses \cup {"manual_no_show"}]
    BY <1>3, <2>2, VisitRecord DEF NoteAnswer, LoseNote, AttendanceTyped, Responses
  <2>5. misses' \subseteq Answers \cup Marks
    BY <1>3 DEF NoteAnswer, LoseNote, AttendanceTyped
  <2> QED BY <1>0, <1>3, <2>3, <2>4, <2>5 DEF NoteAnswer, LoseNote, AttendanceTyped
<1>4. CASE v \in Answers /\ UndoAnswer(v)
  <2>1. VisitGoes(v, step) /\ step \in Visit
    BY <1>4, <1>a, VisitSteps DEF UndoAnswer
  <2>2. visit[v].booking \in Appointments
    BY <1>4, VisitRecord DEF UndoAnswer
  <2>3. /\ events' \in Rows /\ respondent' \in [Appointments -> SUBSET Answers]
        /\ accepted' \in [Appointments -> SUBSET Answers]
    <3>1. CASE UNCHANGED <<events, respondent, accepted>>
      BY <3>1 DEF AttendanceTyped
    <3>2. CASE respondent[visit[v].booking] = {v} /\ ~UNCHANGED <<events, respondent, accepted>>
      <4>1. events' \in Rows
        BY <1>4, <3>2, RowAnswered DEF UndoAnswer, Responses
      <4> QED BY <1>4, <2>2, <3>2, <4>1 DEF UndoAnswer, AttendanceTyped
    <3> QED BY <1>4, <3>1, <3>2 DEF UndoAnswer
  <2> QED BY <1>0, <1>4, <2>1, <2>3 DEF UndoAnswer, AttendanceTyped
<1>5. ASSUME v \in Marks, NEW b \in Appointments, MarkMissed(v, b)
      PROVE  AttendanceTyped'
  <2>1. VisitGoes(v, step) /\ step \in {Ended, [at |-> "counting"]}
    BY <1>5, <1>a DEF MarkMissed
  <2>3. step \in Visit /\ step.at \in {"ended", "counting"}
    <3>1. step \in Visit
      BY <2>1, VisitSteps
    <3>2. Ended.at = "ended" /\ [at |-> "counting"].at = "counting"
      BY DEF Ended
    <3> QED BY <2>1, <3>1, <3>2
  <2>2. attendance' \in [Appointments -> Responses \cup {"manual_no_show"}]
        /\ misses' \subseteq Answers \cup Marks
    BY <1>5 DEF MarkMissed, AttendanceTyped
  <2>4. /\ visit' \in [Answers \cup Marks -> Visit]
        /\ \A m \in Marks : visit'[m].at \notin {"claiming", "noting", "undoing"}
    BY <1>0, <2>1, <2>3
  <2> QED BY <1>5, <2>2, <2>4 DEF MarkMissed, AttendanceTyped
<1>6. CASE ReadCount(v)
  <2>1. PICK n \in {missed, 0} : VisitGoes(v, [at |-> "adding", seen |-> n])
    BY <1>6 DEF ReadCount
  <2>2. n \in Nat
    BY DEF AttendanceTyped
  <2>3. [at |-> "adding", seen |-> n] \in Visit
    BY <2>2, VisitSteps
  <2>4. VisitGoes(v, step) /\ step \in Visit /\ step.at = "adding"
    BY <2>1, <2>3, <1>a
  <2> QED BY <1>0, <1>6, <2>4 DEF ReadCount, AttendanceTyped
<1>7. CASE AddMissed(v) \/ DieVisiting(v)
  <2>1. VisitGoes(v, step) /\ step = Ended
    BY <1>7, <1>a DEF AddMissed, DieVisiting
  <2>2. missed' \in Nat
    <3>1. CASE AddMissed(v)
      <4>1. visit[v].seen \in Nat
        BY <3>1, VisitRecord DEF AddMissed
      <4> QED BY <3>1, <4>1 DEF AddMissed, AttendanceTyped
    <3> QED BY <1>7, <3>1 DEF DieVisiting, AttendanceTyped
  <2>3. miscounted' \in BOOLEAN
    BY <1>7 DEF AddMissed, DieVisiting, AttendanceTyped
  <2> QED BY <1>0, <1>7, <2>1, <2>2, <2>3, VisitSteps DEF AddMissed, DieVisiting, AttendanceTyped, Ended
<1> QED BY <1>1, <1>2, <1>3, <1>4, <1>5, <1>6, <1>7 DEF Respond

-----------------------------------------------------------------------------
(* Reminders and answers: links. *)

\* A booking that is being written is no longer left to mail.
OneAtATime == \A j \in Jobs : reminding[j].at = "storing" => reminding[j].booking \notin reminding[j].left

StoringFor(j, b) == reminding[j].at = "storing" /\ reminding[j].booking = b

\* One job holds a booking, and it knows the row as it is.
HeldByOne(b) ==
  \A j \in Jobs : b \in Held(j) =>
    /\ \A i \in Jobs : b \in Held(i) => i = j
    /\ b \in DOMAIN reminding[j].rows <=> b \in DOMAIN events
    /\ b \in DOMAIN events => reminding[j].rows[b].token = events[b].token
    /\ StoringFor(j, b) /\ b \in DOMAIN events => reminding[j].token = events[b].token

\* What was mailed is the link of the row, or will be.
LinkKept(b) ==
  \A link \in mailed[b] :
    \/ b \in DOMAIN events /\ events[b].token = link
    \/ b \notin DOMAIN events /\ \E j \in Jobs : StoringFor(j, b) /\ reminding[j].token = link

\* The inductive invariant behind LinksWork.
LinkInv ==
  /\ AttendanceTyped /\ OneAtATime
  /\ \A b \in Appointments \ troubled : HeldByOne(b) /\ LinkKept(b)

\* What a step of one job leaves as it was for the others.
LEMMA OtherJobs ==
  ASSUME AttendanceTyped, NEW j \in Jobs, NEW step, JobGoes(j, step)
  PROVE  /\ reminding'[j] = step
         /\ \A i \in Jobs \ {j} : reminding'[i] = reminding[i] /\ Held(i)' = Held(i)
         /\ \A i \in Jobs \ {j}, b \in Appointments :
              (StoringFor(i, b)' <=> StoringFor(i, b)) /\ TakenAnswer(i, b)' = TakenAnswer(i, b)
BY DEF JobGoes, AttendanceTyped, Held, StoringFor, TakenAnswer

\* A job that begins a window or ends holds nothing.
LEMMA HoldsNothing ==
  ASSUME NEW j \in Jobs, reminding[j].at \in {"reading", "off"}
  PROVE  Held(j) = {} /\ \A b \in Appointments : ~StoringFor(j, b)
BY DEF Held, StoringFor

LEMMA AfterBatchAt == \A w : AfterBatch(w).at \in {"reading", "off"}
BY DEF AfterBatch, Off

LEMMA ReadLinks ==
  ASSUME LinkInv, NEW j \in Jobs, NEW batch \in SUBSET Appointments, NEW fails \in BOOLEAN,
         ReadBatch(j, batch, fails)
  PROVE  OneAtATime' /\ \A b \in Appointments \ troubled' : HeldByOne(b)' /\ LinkKept(b)'
<1> DEFINE known == IF fails THEN {} ELSE batch \cap DOMAIN events
           window == reminding[j].window
           left == {b \in batch : b \in known => window \notin events[b].sent}
           rows == [b \in known |-> events[b]]
           next == IF left = {} THEN AfterBatch(window)
                   ELSE [at |-> "mailing", window |-> window, left |-> left, rows |-> rows]
<1>1. /\ JobGoes(j, next) /\ UNCHANGED <<events, mailed>> /\ reminding[j].at = "reading"
      /\ troubled' = troubled \cup {b \in left : fails \/ \E i \in Jobs \ {j} : b \in Held(i)}
  BY DEF ReadBatch
<1>2. ~fails => known = batch \cap DOMAIN events
  OBVIOUS
<1>3. left \subseteq batch /\ DOMAIN rows = known /\ \A b \in known : rows[b] = events[b]
  OBVIOUS
<1> HIDE DEF known, window, left, rows
<1>4. /\ reminding'[j] = next
      /\ \A i \in Jobs \ {j} : reminding'[i] = reminding[i] /\ Held(i)' = Held(i)
      /\ \A i \in Jobs \ {j}, b \in Appointments : StoringFor(i, b)' <=> StoringFor(i, b)
  BY <1>1, OtherJobs DEF LinkInv
<1>5. next.at # "storing" /\ (\A b : StoringFor(j, b)' => FALSE)
  BY <1>4, AfterBatchAt DEF StoringFor
<1>6. Held(j)' \subseteq left /\ (Held(j)' # {} => reminding'[j].rows = rows)
  BY <1>4, AfterBatchAt DEF Held
<1> HIDE DEF next
<1>7. OneAtATime'
  BY <1>4, <1>5 DEF OneAtATime, LinkInv
<1>8. ASSUME NEW b \in Appointments \ troubled' PROVE HeldByOne(b)' /\ LinkKept(b)'
  <2>1. b \notin troubled /\ HeldByOne(b) /\ LinkKept(b)
    BY <1>1 DEF LinkInv
  <2>2. b \in Held(j)' => ~fails /\ b \in batch /\ \A i \in Jobs \ {j} : b \notin Held(i)
    BY <1>1, <1>3, <1>6
  <2>3. ASSUME NEW i \in Jobs, b \in Held(i)'
        PROVE  /\ \A k \in Jobs : b \in Held(k)' => k = i
               /\ b \in DOMAIN reminding'[i].rows <=> b \in DOMAIN events'
               /\ b \in DOMAIN events' => reminding'[i].rows[b].token = events'[b].token
               /\ StoringFor(i, b)' /\ b \in DOMAIN events' => reminding'[i].token = events'[b].token
    <3>1. CASE i = j
      BY <1>1, <1>2, <1>3, <1>4, <1>5, <1>6, <2>2, <2>3, <3>1
    <3>2. CASE i # j
      BY <1>1, <1>4, <2>1, <2>2, <2>3, <3>2 DEF HeldByOne
    <3> QED BY <3>1, <3>2
  <2>4. LinkKept(b)'
    <3>1. \A i \in Jobs : StoringFor(i, b) => StoringFor(i, b)' /\ reminding'[i] = reminding[i]
      BY <1>1, <1>4 DEF StoringFor
    <3> QED BY <1>1, <2>1, <3>1 DEF LinkKept
  <2> QED BY <2>3, <2>4 DEF HeldByOne
<1> QED BY <1>7, <1>8

LEMMA MailLinks ==
  ASSUME LinkInv, NEW j \in Jobs, NEW b \in Appointments, NEW sent \in BOOLEAN,
         MailReminder(j, b, sent)
  PROVE  OneAtATime' /\ \A d \in Appointments \ troubled' : HeldByOne(d)' /\ LinkKept(d)'
<1> DEFINE next == [at |-> "storing", window |-> reminding[j].window,
                    rows |-> reminding[j].rows, left |-> reminding[j].left \ {b},
                    booking |-> b, token |-> LinkFor(j, b), sent |-> sent]
<1>1. /\ JobGoes(j, next) /\ UNCHANGED <<events, troubled>>
      /\ reminding[j].at = "mailing" /\ b \in reminding[j].left
      /\ mailed' = IF sent THEN [mailed EXCEPT ![b] = @ \cup {LinkFor(j, b)}] ELSE mailed
  BY DEF MailReminder
<1>2. /\ reminding'[j] = next
      /\ \A i \in Jobs \ {j} : reminding'[i] = reminding[i] /\ Held(i)' = Held(i)
      /\ \A i \in Jobs \ {j}, d \in Appointments : StoringFor(i, d)' <=> StoringFor(i, d)
  BY <1>1, OtherJobs DEF LinkInv
<1>3. /\ Held(j)' = Held(j) /\ b \in Held(j) /\ reminding'[j].rows = reminding[j].rows
      /\ \A d \in Appointments : StoringFor(j, d)' <=> d = b
      /\ \A d \in Appointments : ~StoringFor(j, d)
      /\ reminding'[j].token = LinkFor(j, b)
  BY <1>1, <1>2 DEF Held, StoringFor
<1>4. OneAtATime'
  BY <1>2 DEF OneAtATime, LinkInv
<1> HIDE DEF next
<1>5. ASSUME NEW d \in Appointments \ troubled' PROVE HeldByOne(d)' /\ LinkKept(d)'
  <2>1. HeldByOne(d) /\ LinkKept(d)
    BY <1>1 DEF LinkInv
  <2>2. HeldByOne(d)'
    <3>1. d = b /\ d \in DOMAIN events => LinkFor(j, b) = events[b].token
      BY <1>3, <2>1 DEF HeldByOne, LinkFor
    <3> QED BY <1>1, <1>2, <1>3, <2>1, <3>1 DEF HeldByOne
  <2>3. \A link \in mailed'[d] : link \in mailed[d] \/ (d = b /\ link = LinkFor(j, b))
    BY <1>1 DEF LinkInv, AttendanceTyped
  <2>4. LinkKept(d)'
    <3>1. \A link \in mailed[d] : \/ d \in DOMAIN events /\ events[d].token = link
                                  \/ d \notin DOMAIN events /\ \E i \in Jobs \ {j} :
                                       StoringFor(i, d) /\ reminding[i].token = link
      BY <1>3, <2>1 DEF LinkKept
    <3>2. d = b /\ d \in DOMAIN events => LinkFor(j, b) = events[b].token
      BY <1>3, <2>1 DEF HeldByOne, LinkFor
    <3>3. d = b => StoringFor(j, d)' /\ reminding'[j].token = LinkFor(j, b)
      BY <1>3
    <3> QED BY <1>1, <1>2, <2>3, <3>1, <3>2, <3>3 DEF LinkKept
  <2> QED BY <2>2, <2>4
<1> QED BY <1>4, <1>5

LEMMA StoreLinks ==
  ASSUME LinkInv, NEW j \in Jobs, NEW fails \in BOOLEAN, StoreReminder(j, fails)
  PROVE  OneAtATime' /\ \A d \in Appointments \ troubled' : HeldByOne(d)' /\ LinkKept(d)'
<1> DEFINE b == reminding[j].booking
           left == reminding[j].left
           next == IF left = {} THEN AfterBatch(reminding[j].window)
                   ELSE [at |-> "mailing", window |-> reminding[j].window,
                         rows |-> reminding[j].rows, left |-> left]
<1>1. /\ JobGoes(j, next) /\ UNCHANGED mailed /\ reminding[j].at = "storing"
      /\ events' = IF fails THEN events
                   ELSE [d \in DOMAIN events \cup {b} |-> IF d = b THEN Stored(j) ELSE events[d]]
      /\ troubled' = IF fails THEN troubled \cup {b} ELSE troubled
  BY DEF StoreReminder
<1>2. b \in Appointments /\ b \notin left /\ left \subseteq Appointments
  BY <1>1, JobRecord DEF LinkInv, OneAtATime
<1>3. /\ reminding'[j] = next
      /\ \A i \in Jobs \ {j} : reminding'[i] = reminding[i] /\ Held(i)' = Held(i)
      /\ \A i \in Jobs \ {j}, d \in Appointments : StoringFor(i, d)' <=> StoringFor(i, d)
  BY <1>1, OtherJobs DEF LinkInv
<1>4. /\ Held(j)' = left /\ (left # {} => reminding'[j].rows = reminding[j].rows)
      /\ Held(j) = left \cup {b} /\ \A d \in Appointments : StoringFor(j, d) <=> d = b
      /\ \A d : ~StoringFor(j, d)'
  BY <1>1, <1>3, AfterBatchAt DEF Held, StoringFor
<1>5. OneAtATime'
  BY <1>3, <1>4 DEF OneAtATime, LinkInv, StoringFor
<1>6. Stored(j).token = reminding[j].token
  BY DEF Stored
<1> HIDE DEF b, left, next
<1>7. ASSUME NEW d \in Appointments \ troubled' PROVE HeldByOne(d)' /\ LinkKept(d)'
  <2>1. HeldByOne(d) /\ LinkKept(d) /\ (d = b => ~fails)
    BY <1>1 DEF LinkInv
  <2>2. CASE d # b
    <3>1. /\ d \in DOMAIN events' <=> d \in DOMAIN events
          /\ d \in DOMAIN events => events'[d] = events[d]
      BY <1>1, <2>2
    <3>2. /\ \A i \in Jobs : d \in Held(i)' <=> d \in Held(i)
          /\ \A i \in Jobs : d \in Held(i)' => reminding'[i].rows = reminding[i].rows
          /\ \A i \in Jobs : StoringFor(i, d)' => reminding'[i] = reminding[i] /\ StoringFor(i, d)
          /\ \A i \in Jobs : StoringFor(i, d) => StoringFor(i, d)' /\ reminding'[i] = reminding[i]
      BY <1>2, <1>3, <1>4, <2>2
    <3>3. HeldByOne(d)'
      BY <2>1, <3>1, <3>2 DEF HeldByOne
    <3>4. LinkKept(d)'
      BY <1>1, <2>1, <3>1, <3>2 DEF LinkKept
    <3> QED BY <3>3, <3>4
  <2>3. CASE d = b
    <3>1. d \in DOMAIN events' /\ events'[d].token = reminding[j].token
      BY <1>1, <1>6, <2>1, <2>3
    <3>2. \A i \in Jobs : d \notin Held(i)'
      BY <1>2, <1>3, <1>4, <2>1, <2>3 DEF HeldByOne
    <3>3. HeldByOne(d)'
      BY <3>2 DEF HeldByOne
    <3>4. \A link \in mailed[d] : link = reminding[j].token
      <4>1. b \in Held(j) /\ StoringFor(j, b)
        BY <1>2, <1>4
      <4>2. \A i \in Jobs : StoringFor(i, d) => d \in Held(i)
        BY DEF StoringFor, Held
      <4> QED BY <2>1, <2>3, <4>1, <4>2 DEF HeldByOne, LinkKept
    <3> QED BY <1>1, <3>1, <3>3, <3>4 DEF LinkKept
  <2> QED BY <2>2, <2>3
<1> QED BY <1>5, <1>7

LEMMA DieLinks ==
  ASSUME LinkInv, NEW j \in Jobs, DieReminding(j)
  PROVE  OneAtATime' /\ \A d \in Appointments \ troubled' : HeldByOne(d)' /\ LinkKept(d)'
<1>1. /\ reminding'[j] = Off /\ UNCHANGED <<events, mailed>>
      /\ \A i \in Jobs \ {j} : reminding'[i] = reminding[i] /\ Held(i)' = Held(i)
      /\ \A i \in Jobs \ {j}, d \in Appointments : StoringFor(i, d)' <=> StoringFor(i, d)
  BY OtherJobs DEF DieReminding, LinkInv
<1>2. Off.at = "off"
  BY DEF Off
<1>3. Held(j)' = {} /\ \A d : ~StoringFor(j, d)'
  BY <1>1, <1>2 DEF Held, StoringFor
<1>4. OneAtATime'
  BY <1>1, <1>2 DEF OneAtATime, LinkInv
<1>5. ASSUME NEW d \in Appointments \ troubled' PROVE HeldByOne(d)' /\ LinkKept(d)'
  <2>1. HeldByOne(d) /\ LinkKept(d) /\ ~StoringFor(j, d)
    BY DEF LinkInv, DieReminding, StoringFor
  <2>2. HeldByOne(d)'
    BY <1>1, <1>3, <2>1 DEF HeldByOne
  <2>3. LinkKept(d)'
    BY <1>1, <2>1 DEF LinkKept
  <2> QED BY <2>2, <2>3
<1> QED BY <1>4, <1>5

\* A request answers a booking and leaves its link.
LEMMA VisitLinks ==
  ASSUME LinkInv, NEW v \in Answers \cup Marks,
         \/ v \in Answers /\ Respond(v)
         \/ v \in Marks /\ \E b \in Appointments : MarkMissed(v, b)
         \/ ReadCount(v) \/ AddMissed(v) \/ DieVisiting(v)
  PROVE  OneAtATime' /\ \A d \in Appointments \ troubled' : HeldByOne(d)' /\ LinkKept(d)'
<1>1. UNCHANGED jobVars
  BY DEF Respond, FollowLink, ClaimAnswer, NoteAnswer, LoseNote, UndoAnswer, MarkMissed,
         ReadCount, AddMissed, DieVisiting
<1>2. \/ UNCHANGED events
      \/ \E d, r : events' = [events EXCEPT ![d].response = r]
  BY DEF Respond, FollowLink, ClaimAnswer, Answered, NoteAnswer, LoseNote, UndoAnswer,
         MarkMissed, ReadCount, AddMissed, DieVisiting
<1>3. DOMAIN events' = DOMAIN events /\ \A d \in DOMAIN events : events'[d].token = events[d].token
  <2>1. \A d \in DOMAIN events : events[d] \in ReminderEvent
    BY RowsByBooking DEF LinkInv, AttendanceTyped
  <2>2. CASE UNCHANGED events
    BY <2>2
  <2>3. ASSUME NEW d, NEW r, events' = [events EXCEPT ![d].response = r]
        PROVE  DOMAIN events' = DOMAIN events
               /\ \A e \in DOMAIN events : events'[e].token = events[e].token
    BY <2>1, <2>3 DEF ReminderEvent
  <2> QED BY <1>2, <2>2, <2>3
<1>4. /\ UNCHANGED <<reminding, mailed, troubled>>
      /\ \A j \in Jobs : Held(j)' = Held(j) /\ \A d : StoringFor(j, d)' <=> StoringFor(j, d)
  BY <1>1 DEF jobVars, Held, StoringFor
<1>5. OneAtATime'
  BY <1>4 DEF OneAtATime, LinkInv
<1>6. ASSUME NEW d \in Appointments \ troubled' PROVE HeldByOne(d)' /\ LinkKept(d)'
  <2>1. HeldByOne(d) /\ LinkKept(d)
    BY <1>4 DEF LinkInv
  <2> QED BY <1>3, <1>4, <2>1 DEF HeldByOne, LinkKept
<1> QED BY <1>5, <1>6

-----------------------------------------------------------------------------
(* Reminders and answers: one answer, and the count. *)

\* Requests answer rows that are there.
RowsFound ==
  \A a \in Answers : visit[a].at \in {"claiming", "noting", "undoing"} => visit[a].booking \in DOMAIN events

\* An answer that stands is its row's, and no job will write over it.
AnswerKept(b) ==
  accepted[b] # {} =>
    /\ b \in DOMAIN events /\ events[b].response # "unknown"
    /\ \E a \in Answers : accepted[b] = {a} /\ respondent[b] = {a}
    /\ \A j \in Jobs : b \in Held(j) => TakenAnswer(j, b) # "unknown"

\* The inductive invariant behind AnsweredOnce.
AnswerInv ==
  /\ AttendanceTyped /\ RowsFound
  /\ \A b \in Appointments \ interrupted : AnswerKept(b)

LEMMA RemindAnswers ==
  ASSUME AnswerInv, NEW j \in Jobs, Remind(j)
  PROVE  RowsFound' /\ \A b \in Appointments \ interrupted' : AnswerKept(b)'
<1>0. AttendanceTyped /\ RowsFound /\ \A b \in Appointments \ interrupted : AnswerKept(b)
  BY DEF AnswerInv
<1>1. UNCHANGED <<visit, accepted, respondent>> /\ interrupted \subseteq interrupted'
  BY DEF Remind, ReadBatch, MailReminder, StoreReminder, DieReminding, answerVars
<1>2. DOMAIN events \subseteq DOMAIN events'
  BY DEF Remind, ReadBatch, MailReminder, StoreReminder, DieReminding
<1>3. RowsFound'
  BY <1>0, <1>1, <1>2 DEF RowsFound
<1>4. PICK step : JobGoes(j, step)
  BY DEF Remind, ReadBatch, MailReminder, StoreReminder, DieReminding
<1>5. /\ reminding'[j] = step
      /\ \A i \in Jobs \ {j} : Held(i)' = Held(i)
      /\ \A i \in Jobs \ {j}, b \in Appointments : TakenAnswer(i, b)' = TakenAnswer(i, b)
  BY <1>0, <1>4, OtherJobs
<1>6. ASSUME NEW b \in Appointments \ interrupted', accepted'[b] # {}
      PROVE  AnswerKept(b)'
  <2>1. /\ b \in DOMAIN events /\ events[b].response # "unknown"
        /\ \E a \in Answers : accepted[b] = {a} /\ respondent[b] = {a}
        /\ \A i \in Jobs : b \in Held(i) => TakenAnswer(i, b) # "unknown"
    BY <1>0, <1>1, <1>6 DEF AnswerKept
  <2> SUFFICES /\ events'[b].response # "unknown"
               /\ b \in Held(j)' => TakenAnswer(j, b)' # "unknown"
    BY <1>1, <1>2, <1>5, <2>1 DEF AnswerKept
  <2>2. ASSUME NEW batch \in SUBSET Appointments, NEW fails \in BOOLEAN, ReadBatch(j, batch, fails)
        PROVE  events'[b].response # "unknown" /\ (b \in Held(j)' => TakenAnswer(j, b)' # "unknown")
    <3> DEFINE known == IF fails THEN {} ELSE batch \cap DOMAIN events
               left == {d \in batch : d \in known => reminding[j].window \notin events[d].sent}
               rows == [d \in known |-> events[d]]
    <3>1. /\ interrupted' = interrupted \cup {d \in left : fails /\ accepted[d] # {}}
          /\ UNCHANGED events
          /\ \/ \E w : reminding'[j] = AfterBatch(w)
             \/ reminding'[j] = [at |-> "mailing", window |-> reminding[j].window, left |-> left,
                                 rows |-> rows]
      BY <1>0, <2>2 DEF ReadBatch, JobGoes, AttendanceTyped
    <3>2. (~fails => known = batch \cap DOMAIN events) /\ left \subseteq batch
          /\ DOMAIN rows = known /\ \A d \in known : rows[d] = events[d]
      OBVIOUS
    <3> HIDE DEF known, left, rows
    <3>3. b \in Held(j)' => b \in left /\ reminding'[j].rows = rows
      BY <3>1, AfterBatchAt DEF Held
    <3>4. b \in Held(j)' => b \in known
      BY <1>1, <1>6, <2>1, <3>1, <3>2, <3>3
    <3>5. b \in Held(j)' => TakenAnswer(j, b)' = events[b].response
      BY <3>2, <3>3, <3>4 DEF TakenAnswer
    <3> QED BY <2>1, <3>1, <3>5
  <2>3. ASSUME NEW d \in Appointments, NEW sent \in BOOLEAN, MailReminder(j, d, sent)
        PROVE  events'[b].response # "unknown" /\ (b \in Held(j)' => TakenAnswer(j, b)' # "unknown")
    <3>1. reminding'[j] = [at |-> "storing", window |-> reminding[j].window,
                           rows |-> reminding[j].rows, left |-> reminding[j].left \ {d},
                           booking |-> d, token |-> LinkFor(j, d), sent |-> sent]
          /\ UNCHANGED events /\ reminding[j].at = "mailing" /\ d \in reminding[j].left
      BY <1>0, <2>3 DEF MailReminder, JobGoes, AttendanceTyped
    <3>2. Held(j)' = Held(j) /\ TakenAnswer(j, b)' = TakenAnswer(j, b)
      BY <3>1 DEF Held, TakenAnswer
    <3> QED BY <2>1, <3>1, <3>2
  <2>4. ASSUME NEW fails \in BOOLEAN, StoreReminder(j, fails)
        PROVE  events'[b].response # "unknown" /\ (b \in Held(j)' => TakenAnswer(j, b)' # "unknown")
    <3> DEFINE left == reminding[j].left
    <3>1. /\ reminding[j].at = "storing"
          /\ \/ \E w : reminding'[j] = AfterBatch(w)
             \/ reminding'[j] = [at |-> "mailing", window |-> reminding[j].window,
                                 rows |-> reminding[j].rows, left |-> left]
          /\ \/ events'[b] = events[b]
             \/ reminding[j].booking = b /\ events'[b] = Stored(j)
      BY <1>0, <2>1, <2>4 DEF StoreReminder, JobGoes, AttendanceTyped
    <3>2. b \in Held(j)' => b \in Held(j) /\ TakenAnswer(j, b)' = TakenAnswer(j, b)
      BY <3>1, AfterBatchAt DEF Held, TakenAnswer
    <3>3. reminding[j].booking = b => Stored(j).response # "unknown"
      BY <2>1, <3>1 DEF Stored, Held
    <3> QED BY <2>1, <3>1, <3>2, <3>3
  <2>5. ASSUME DieReminding(j)
        PROVE  events'[b].response # "unknown" /\ (b \in Held(j)' => TakenAnswer(j, b)' # "unknown")
    <3>1. reminding'[j].at = "off" /\ UNCHANGED events
      BY <1>0, <2>5 DEF DieReminding, JobGoes, AttendanceTyped, Off
    <3> QED BY <2>1, <3>1 DEF Held
  <2> QED BY <2>2, <2>3, <2>4, <2>5 DEF Remind
<1>7. \A b \in Appointments \ interrupted' : AnswerKept(b)'
  BY <1>6 DEF AnswerKept
<1> QED BY <1>3, <1>7

LEMMA VisitAnswers ==
  ASSUME AnswerInv, NEW v \in Answers \cup Marks,
         \/ v \in Answers /\ Respond(v)
         \/ v \in Marks /\ \E b \in Appointments : MarkMissed(v, b)
         \/ ReadCount(v) \/ AddMissed(v) \/ DieVisiting(v)
  PROVE  RowsFound' /\ \A b \in Appointments \ interrupted' : AnswerKept(b)'
<1>0. AttendanceTyped /\ RowsFound /\ \A b \in Appointments \ interrupted : AnswerKept(b)
  BY DEF AnswerInv
<1>1. UNCHANGED jobVars
  BY DEF Respond, FollowLink, ClaimAnswer, NoteAnswer, LoseNote, UndoAnswer, MarkMissed,
         ReadCount, AddMissed, DieVisiting
<1>2. /\ \A j \in Jobs : Held(j)' = Held(j)
      /\ \A j \in Jobs, b \in Appointments : TakenAnswer(j, b)' = TakenAnswer(j, b)
  BY <1>1 DEF jobVars, Held, TakenAnswer
<1>3. \/ UNCHANGED events
      \/ \E d, r : events' = [events EXCEPT ![d].response = r]
  BY DEF Respond, FollowLink, ClaimAnswer, Answered, NoteAnswer, LoseNote, UndoAnswer,
         MarkMissed, ReadCount, AddMissed, DieVisiting
<1>4. DOMAIN events' = DOMAIN events
  BY <1>3
<1>5. RowsFound'
  <2>1. \/ visit'[v].at \notin {"claiming", "noting", "undoing"}
        \/ visit'[v].booking \in DOMAIN events
    <3>1. CASE \E b \in Appointments, link \in 1..MaxTokens, status \in {"present", "missed"} :
                 FollowLink(v, b, link, status)
      BY <1>0, <3>1 DEF FollowLink, VisitGoes, Ended, AttendanceTyped
    <3>2. CASE v \in Answers /\ (ClaimAnswer(v) \/ NoteAnswer(v) \/ LoseNote(v) \/ UndoAnswer(v))
      <4>1. visit[v].booking \in DOMAIN events
        BY <1>0, <3>2 DEF RowsFound, ClaimAnswer, NoteAnswer, LoseNote, UndoAnswer
      <4>2. visit'[v] \in {Ended, [at |-> "counting"], [visit[v] EXCEPT !.at = "noting"],
                           [visit[v] EXCEPT !.at = "undoing"]}
        BY <1>0, <3>2 DEF ClaimAnswer, NoteAnswer, LoseNote, UndoAnswer, VisitGoes, AttendanceTyped
      <4>3. visit[v] \in [at : {"claiming", "noting", "undoing"}, booking : Appointments,
                          status : {"present", "missed"}]
        BY <1>0, <3>2, VisitRecord DEF ClaimAnswer, NoteAnswer, LoseNote, UndoAnswer
      <4> QED BY <4>1, <4>2, <4>3 DEF Ended
    <3>3. CASE \/ \E b \in Appointments : MarkMissed(v, b)
               \/ ReadCount(v) \/ AddMissed(v) \/ DieVisiting(v)
      <4>1. visit'[v] = Ended \/ visit'[v] = [at |-> "counting"]
            \/ \E n : visit'[v] = [at |-> "adding", seen |-> n]
        BY <1>0, <3>3 DEF MarkMissed, ReadCount, AddMissed, DieVisiting, VisitGoes, AttendanceTyped
      <4>2. /\ Ended.at = "ended" /\ [at |-> "counting"].at = "counting"
            /\ \A n : [at |-> "adding", seen |-> n].at = "adding"
        BY DEF Ended
      <4>3. visit'[v].at \in {"ended", "counting", "adding"}
        BY <4>1, <4>2
      <4> QED BY <4>3
    <3> QED BY <3>1, <3>2, <3>3 DEF Respond
  <2>2. \A w \in Answers \ {v} : visit'[w] = visit[w]
    BY <1>0 DEF Respond, FollowLink, ClaimAnswer, NoteAnswer, LoseNote, UndoAnswer, MarkMissed,
                ReadCount, AddMissed, DieVisiting, VisitGoes, AttendanceTyped
  <2> QED BY <1>0, <1>4, <2>1, <2>2 DEF RowsFound
<1>6. CASE UNCHANGED <<events, respondent, accepted, interrupted>>
  BY <1>0, <1>2, <1>5, <1>6 DEF AnswerKept
<1>7. CASE /\ v \in Answers /\ ClaimAnswer(v) /\ Answered(v)
             /\ events[visit[v].booking].response = "unknown"
  <2> DEFINE d == visit[v].booking
  <2>1. /\ d \in Appointments /\ d \in DOMAIN events /\ events[d].response = "unknown"
        /\ visit[v].status # "unknown"
    BY <1>0, <1>7, VisitRecord DEF ClaimAnswer, RowsFound, Answered
  <2>2. /\ events' = [events EXCEPT ![d].response = visit[v].status]
        /\ respondent' = [respondent EXCEPT ![d] = {v}]
        /\ accepted' = [accepted EXCEPT ![d] = @ \cup {v}]
        /\ interrupted' = IF \E j \in Jobs : d \in Held(j) /\ TakenAnswer(j, d) = "unknown"
                          THEN interrupted \cup {d} ELSE interrupted
    BY <1>7 DEF Answered
  <2>3. events[d] \in ReminderEvent
    BY <1>0, <2>1, RowsByBooking DEF AttendanceTyped
  <2> HIDE DEF d
  <2>4. ASSUME NEW b \in Appointments \ interrupted' PROVE AnswerKept(b)'
    <3>1. b \notin interrupted /\ AnswerKept(b)
      BY <1>0, <2>2, <2>4
    <3>2. CASE b # d
      BY <1>0, <1>2, <1>4, <2>2, <3>1, <3>2 DEF AnswerKept, AttendanceTyped
    <3>3. CASE b = d
      <4>1. accepted[b] = {}
        BY <2>1, <3>1, <3>3 DEF AnswerKept
      <4>2. accepted'[b] = {v} /\ respondent'[b] = {v}
        BY <1>0, <2>2, <3>3, <4>1 DEF AttendanceTyped
      <4>3. events'[b].response = visit[v].status
        BY <2>1, <2>2, <2>3, <3>3 DEF ReminderEvent
      <4>4. \A j \in Jobs : b \in Held(j) => TakenAnswer(j, b) # "unknown"
        BY <2>2, <2>4, <3>3
      <4> QED BY <1>2, <1>4, <1>7, <2>1, <3>3, <4>2, <4>3, <4>4 DEF AnswerKept
    <3> QED BY <3>2, <3>3
  <2> QED BY <1>5, <2>4
<1>8. CASE v \in Answers /\ UndoAnswer(v) /\ respondent[visit[v].booking] = {v}
           /\ ~UNCHANGED <<events, respondent, accepted, interrupted>>
  <2> DEFINE d == visit[v].booking
  <2>1. /\ d \in Appointments
        /\ events' = [events EXCEPT ![d].response = "unknown"]
        /\ respondent' = [respondent EXCEPT ![d] = {}]
        /\ accepted' = [accepted EXCEPT ![d] = @ \ {v}] /\ UNCHANGED interrupted
    BY <1>0, <1>8, VisitRecord DEF UndoAnswer
  <2> HIDE DEF d
  <2>2. ASSUME NEW b \in Appointments \ interrupted' PROVE AnswerKept(b)'
    <3>1. AnswerKept(b)
      BY <1>0, <2>1, <2>2
    <3>2. CASE b # d
      BY <1>0, <1>2, <1>4, <2>1, <3>1, <3>2 DEF AnswerKept, AttendanceTyped
    <3>3. CASE b = d
      <4>1. accepted[b] \in {{}, {v}}
        BY <1>8, <3>1, <3>3 DEF AnswerKept, d
      <4>2. accepted'[b] = {}
        BY <1>0, <2>1, <3>3, <4>1 DEF AttendanceTyped
      <4> QED BY <4>2 DEF AnswerKept
    <3> QED BY <3>2, <3>3
  <2> QED BY <1>5, <2>2
<1> QED BY <1>6, <1>7, <1>8 DEF Respond, FollowLink, ClaimAnswer, NoteAnswer, LoseNote, UndoAnswer,
         MarkMissed, ReadCount, AddMissed, DieVisiting, answerVars

\* Requests that have recorded a miss and not yet counted it.
Counting == {v \in Answers \cup Marks : visit[v].at \in {"counting", "adding"}}

\* Nobody counts what is not recorded, and what is recorded is counted from then on.
CountsFollow ==
  \A v \in Answers \cup Marks :
    /\ v \in Counting => v \in misses
    /\ visit[v].at \in {"waiting", "claiming", "noting", "undoing"} => v \notin misses

\* The inductive invariant behind MissesCounted.
CountInv ==
  /\ AttendanceTyped /\ CountsFollow
  /\ missed <= Cardinality(misses \ Counting)
  /\ \A v \in Answers \cup Marks :
       visit[v].at = "adding" => visit[v].seen <= Cardinality(misses \ Counting)
  /\ ~miscounted => missed = Cardinality(misses \ Counting)

LEMMA CountKept ==
  ASSUME CountInv, AttendanceTyped', NEW v \in Answers \cup Marks,
         \/ v \in Answers /\ Respond(v)
         \/ v \in Marks /\ \E b \in Appointments : MarkMissed(v, b)
         \/ ReadCount(v) \/ AddMissed(v) \/ DieVisiting(v)
  PROVE  CountInv'
<1>0. AttendanceTyped /\ CountsFollow
  BY DEF CountInv
<1>1. \A w \in (Answers \cup Marks) \ {v} : visit'[w] = visit[w]
  BY <1>0 DEF Respond, FollowLink, ClaimAnswer, NoteAnswer, LoseNote, UndoAnswer, MarkMissed,
              ReadCount, AddMissed, DieVisiting, VisitGoes, AttendanceTyped
<1>2. \A w \in (Answers \cup Marks) \ {v} : w \in Counting' <=> w \in Counting
  BY <1>1 DEF Counting
<1>3. IsFiniteSet(misses \ Counting) /\ Cardinality(misses \ Counting) \in Nat
  <2>1. IsFiniteSet(Answers \cup Marks)
    BY AttendanceConstants, FS_Union
  <2>2. misses \ Counting \in SUBSET (Answers \cup Marks)
    BY <1>0 DEF AttendanceTyped
  <2> QED BY <2>1, <2>2, FS_Subset, FS_CardinalityType
<1>4. CASE (misses \ Counting)' = misses \ Counting /\ UNCHANGED missed
           /\ (visit'[v].at = "adding" => visit'[v].seen <= Cardinality(misses \ Counting))
           /\ CountsFollow' /\ (miscounted => miscounted')
  BY <1>1, <1>4 DEF CountInv
<1>5. CASE v \in Answers /\ Respond(v)
  <2>1. CASE \E b \in Appointments, link \in 1..MaxTokens, status \in {"present", "missed"} :
               FollowLink(v, b, link, status)
    <3>1. visit[v].at = "waiting" /\ visit'[v].at \in {"claiming", "ended"}
          /\ UNCHANGED <<misses, missed, miscounted>>
      BY <1>0, <2>1 DEF FollowLink, VisitGoes, Waiting, Ended, AttendanceTyped, answerVars
    <3>2. Counting' = Counting
      BY <1>1, <3>1 DEF Counting
    <3>3. CountsFollow'
      BY <1>0, <1>1, <3>1, <3>2 DEF CountsFollow
    <3> QED BY <1>4, <3>1, <3>2, <3>3
  <2>2. CASE ClaimAnswer(v) \/ LoseNote(v) \/ UndoAnswer(v)
    <3>1. visit[v].at \in {"claiming", "noting", "undoing"}
          /\ visit'[v].at \in {"noting", "undoing", "ended"}
          /\ UNCHANGED <<misses, missed, miscounted>>
      <4>1. visit[v].at \in {"claiming", "noting", "undoing"}
        BY <2>2 DEF ClaimAnswer, LoseNote, UndoAnswer
      <4>2. visit'[v] \in {Ended, [visit[v] EXCEPT !.at = "noting"], [visit[v] EXCEPT !.at = "undoing"]}
        BY <1>0, <2>2 DEF ClaimAnswer, LoseNote, UndoAnswer, VisitGoes, AttendanceTyped
      <4>3. visit[v] \in [at : {"claiming", "noting", "undoing"}, booking : Appointments,
                          status : {"present", "missed"}]
        BY <1>0, <4>1, VisitRecord
      <4> QED BY <2>2, <4>1, <4>2, <4>3 DEF Ended, ClaimAnswer, LoseNote, UndoAnswer
    <3>2. Counting' = Counting
      BY <1>1, <3>1 DEF Counting
    <3>3. CountsFollow'
      BY <1>0, <1>1, <3>1, <3>2 DEF CountsFollow
    <3> QED BY <1>4, <3>1, <3>2, <3>3
  <2>3. CASE NoteAnswer(v)
    <3>1. /\ visit[v].at = "noting" /\ UNCHANGED <<missed, miscounted>>
          /\ \/ visit'[v].at = "counting" /\ misses' = misses \cup {v}
             \/ visit'[v].at = "ended" /\ misses' = misses
      BY <1>0, <2>3 DEF NoteAnswer, VisitGoes, AttendanceTyped, Ended
    <3>2. v \notin misses
      BY <1>0, <3>1 DEF CountsFollow
    <3>3. misses' \ Counting' = misses \ Counting
      BY <1>0, <1>2, <3>1, <3>2 DEF Counting, AttendanceTyped
    <3>4. CountsFollow'
      BY <1>0, <1>1, <1>2, <3>1, <3>2 DEF CountsFollow, Counting
    <3> QED BY <1>4, <3>1, <3>3, <3>4
  <2> QED BY <1>5, <2>1, <2>2, <2>3 DEF Respond
<1>6. ASSUME v \in Marks, NEW b \in Appointments, MarkMissed(v, b)
      PROVE  CountInv'
  <2>1. /\ visit[v].at = "waiting" /\ UNCHANGED <<missed, miscounted>>
        /\ \/ visit'[v].at = "counting" /\ misses' = misses \cup {v}
           \/ visit'[v].at = "ended" /\ misses' = misses
    BY <1>0, <1>6 DEF MarkMissed, VisitGoes, AttendanceTyped, Waiting, Ended
  <2>2. v \notin misses
    BY <1>0, <2>1 DEF CountsFollow
  <2>3. misses' \ Counting' = misses \ Counting
    BY <1>0, <1>2, <2>1, <2>2 DEF Counting, AttendanceTyped
  <2>4. CountsFollow'
    BY <1>0, <1>1, <1>2, <2>1, <2>2 DEF CountsFollow, Counting
  <2> QED BY <1>4, <2>1, <2>3, <2>4
<1>7. CASE ReadCount(v)
  <2>1. PICK n \in {missed, 0} : visit[v].at = "counting" /\ VisitGoes(v, [at |-> "adding", seen |-> n])
    BY <1>7 DEF ReadCount
  <2>2. visit'[v] = [at |-> "adding", seen |-> n] /\ UNCHANGED <<misses, missed, miscounted>>
    BY <1>0, <1>7, <2>1 DEF VisitGoes, AttendanceTyped, ReadCount, answerVars
  <2>3. n <= Cardinality(misses \ Counting)
    BY <1>3 DEF CountInv
  <2>4. Counting' = Counting
    BY <1>1, <2>1, <2>2 DEF Counting
  <2>5. CountsFollow'
    BY <1>0, <1>1, <2>1, <2>2, <2>4 DEF CountsFollow
  <2> QED BY <1>4, <2>2, <2>3, <2>4, <2>5
<1>8. CASE AddMissed(v) \/ (DieVisiting(v) /\ v \in Counting)
  <2>1. visit'[v].at = "ended" /\ UNCHANGED misses /\ v \in Counting
    BY <1>0, <1>8 DEF AddMissed, DieVisiting, VisitGoes, AttendanceTyped, Ended, Counting
  <2>2. v \in misses
    BY <1>0, <2>1 DEF CountsFollow
  <2>3. misses' \ Counting' = (misses \ Counting) \cup {v}
    BY <1>0, <1>2, <2>1, <2>2 DEF Counting, AttendanceTyped
  <2>4. Cardinality((misses \ Counting)') = Cardinality(misses \ Counting) + 1
    BY <1>3, <2>1, <2>3, FS_AddElement
  <2>5. CountsFollow'
    BY <1>0, <1>1, <1>2, <2>1 DEF CountsFollow, Counting
  <2>6. /\ missed' <= Cardinality(misses \ Counting) + 1
        /\ ~miscounted' => missed' = Cardinality(misses \ Counting) + 1
    <3>1. CASE AddMissed(v)
      <4>1. visit[v].at = "adding" /\ visit[v].seen \in Nat /\ missed \in Nat
            /\ visit[v].seen <= Cardinality(misses \ Counting)
        BY <1>0, <3>1, VisitRecord DEF AddMissed, CountInv, AttendanceTyped
      <4>2. /\ missed' = IF visit[v].seen = 0 /\ missed > 0 THEN missed ELSE visit[v].seen + 1
            /\ miscounted' = (miscounted \/ missed # visit[v].seen)
        BY <3>1 DEF AddMissed
      <4>3. missed' <= Cardinality(misses \ Counting) + 1
        BY <1>3, <4>1, <4>2 DEF CountInv
      <4>4. ASSUME ~miscounted' PROVE missed' = Cardinality(misses \ Counting) + 1
        <5>1. missed = visit[v].seen /\ missed = Cardinality(misses \ Counting)
          BY <4>2, <4>4 DEF CountInv
        <5> QED BY <4>1, <4>2, <5>1
      <4> QED BY <4>3, <4>4
    <3>2. CASE DieVisiting(v)
      <4>1. UNCHANGED missed /\ miscounted'
        BY <2>1, <3>2 DEF DieVisiting, Counting
      <4> QED BY <1>0, <1>3, <4>1 DEF CountInv, AttendanceTyped
    <3> QED BY <1>8, <3>1, <3>2
  <2>7. \A w \in Answers \cup Marks : visit'[w].at = "adding" => visit'[w].seen <= Cardinality(misses \ Counting)
    BY <1>1, <2>1 DEF CountInv
  <2>8. \A w \in Answers \cup Marks : visit'[w].at = "adding" => visit'[w].seen \in Nat
    BY <1>1, <1>0, <2>1, VisitRecord
  <2>9. \A w \in Answers \cup Marks : visit'[w].at = "adding" => visit'[w].seen <= Cardinality((misses \ Counting)')
    <3> DEFINE n == Cardinality(misses \ Counting)
    <3>1. n \in Nat /\ Cardinality((misses \ Counting)') = n + 1
      BY <1>3, <2>4
    <3> SUFFICES ASSUME NEW w \in Answers \cup Marks, visit'[w].at = "adding"
                 PROVE  visit'[w].seen <= n + 1
      BY <3>1
    <3>2. visit'[w].seen \in Nat /\ visit'[w].seen <= n
      BY <2>7, <2>8
    <3> QED BY <3>1, <3>2
  <2> QED BY <2>4, <2>5, <2>6, <2>9 DEF CountInv
<1>9. CASE DieVisiting(v) /\ v \notin Counting
  <2>1. visit'[v].at = "ended" /\ UNCHANGED <<misses, missed>> /\ (miscounted => miscounted')
    BY <1>0, <1>9 DEF DieVisiting, VisitGoes, AttendanceTyped, Ended
  <2>2. Counting' = Counting
    BY <1>1, <1>9, <2>1 DEF Counting
  <2>3. CountsFollow'
    BY <1>0, <1>1, <2>1, <2>2 DEF CountsFollow
  <2> QED BY <1>4, <2>1, <2>2, <2>3
<1> QED BY <1>5, <1>6, <1>7, <1>8, <1>9

-----------------------------------------------------------------------------
(* The theorems about reminders and answers. *)

LEMMA NextCases ==
  ASSUME AttendanceNext
  PROVE  \/ \E j \in Jobs : Remind(j)
         \/ \E v \in Answers \cup Marks :
              \/ v \in Answers /\ Respond(v)
              \/ v \in Marks /\ \E b \in Appointments : MarkMissed(v, b)
              \/ ReadCount(v) \/ AddMissed(v) \/ DieVisiting(v)
BY DEF AttendanceNext

\* Reminders, answers and counts keep their types.
THEOREM AttendanceTypes == AttendanceSpec => []AttendanceTyped
<1>1. AttendanceInit => AttendanceTyped
  <2> SUFFICES ASSUME AttendanceInit PROVE AttendanceTyped
    OBVIOUS
  <2>1. events \in Rows
    <3>1. DOMAIN events = {}
      BY DEF AttendanceInit
    <3>2. events \in [DOMAIN events -> ReminderEvent]
      BY <3>1 DEF AttendanceInit
    <3> QED BY <3>1, <3>2, RowsByBooking
  <2>2. reminding \in [Jobs -> Reminding]
    BY DEF AttendanceInit, Reminding, Windows
  <2> QED BY <2>1, <2>2 DEF AttendanceInit, AttendanceTyped, Responses, Visit, Waiting
<1>2. AttendanceTyped /\ [AttendanceNext]_attendanceVars => AttendanceTyped'
  <2> SUFFICES ASSUME AttendanceTyped, [AttendanceNext]_attendanceVars PROVE AttendanceTyped'
    OBVIOUS
  <2>1. CASE UNCHANGED attendanceVars
    BY <2>1 DEF attendanceVars, AttendanceTyped
  <2>2. CASE AttendanceNext
    BY <2>2, NextCases, RemindTyped, VisitTyped
  <2> QED BY <2>1, <2>2
<1> QED BY <1>1, <1>2, PTL DEF AttendanceSpec

\* A link leads to its booking for as many jobs, answers and failures as there may be.
THEOREM LinksLead == AttendanceSpec => []LinksWork
<1>1. AttendanceInit /\ AttendanceTyped => LinkInv
  BY DEF AttendanceInit, LinkInv, OneAtATime, HeldByOne, LinkKept, Held
<1>2. LinkInv /\ AttendanceTyped' /\ [AttendanceNext]_attendanceVars => LinkInv'
  <2> SUFFICES ASSUME LinkInv, AttendanceTyped', [AttendanceNext]_attendanceVars PROVE LinkInv'
    OBVIOUS
  <2>1. CASE UNCHANGED attendanceVars
    BY <2>1 DEF attendanceVars, LinkInv, AttendanceTyped, OneAtATime, HeldByOne, LinkKept,
                StoringFor, Held
  <2>2. ASSUME NEW j \in Jobs, Remind(j) PROVE LinkInv'
    BY <2>2, ReadLinks, MailLinks, StoreLinks, DieLinks DEF Remind, LinkInv
  <2>3. CASE AttendanceNext
    BY <2>2, <2>3, NextCases, VisitLinks DEF LinkInv
  <2> QED BY <2>1, <2>3
<1>3. LinkInv => LinksWork
  <2> SUFFICES ASSUME LinkInv, NEW b \in Appointments \ troubled
               PROVE  /\ Cardinality(mailed[b]) <= 1
                      /\ \A link \in mailed[b] :
                           \/ b \in DOMAIN events /\ events[b].token = link
                           \/ \E j \in Jobs : StoringFor(j, b)
    BY DEF LinksWork, StoringFor
  <2>1. HeldByOne(b) /\ LinkKept(b)
    BY DEF LinkInv
  <2>2. \A j \in Jobs : StoringFor(j, b) => b \in Held(j)
    BY DEF StoringFor, Held
  <2>3. \A x, y \in mailed[b] : x = y
    BY <2>1, <2>2 DEF HeldByOne, LinkKept
  <2>4. Cardinality(mailed[b]) <= 1
    <3>1. CASE mailed[b] = {}
      BY <3>1, FS_EmptySet
    <3>2. ASSUME NEW x \in mailed[b] PROVE Cardinality(mailed[b]) <= 1
      <4>1. mailed[b] = {x}
        BY <2>3
      <4> QED BY <4>1, FS_Singleton
    <3> QED BY <3>1, <3>2
  <2> QED BY <2>1, <2>4 DEF LinkKept
<1> QED BY <1>1, <1>2, <1>3, AttendanceTypes, PTL DEF AttendanceSpec

\* One answer is recorded, for as many jobs, answers and failures as there may be.
THEOREM OneAnswerRecorded == AttendanceSpec => []AnsweredOnce
<1>1. AttendanceInit /\ AttendanceTyped => AnswerInv
  BY DEF AttendanceInit, AnswerInv, RowsFound, AnswerKept, Waiting
<1>2. AnswerInv /\ AttendanceTyped' /\ [AttendanceNext]_attendanceVars => AnswerInv'
  <2> SUFFICES ASSUME AnswerInv, AttendanceTyped', [AttendanceNext]_attendanceVars PROVE AnswerInv'
    OBVIOUS
  <2>1. CASE UNCHANGED attendanceVars
    BY <2>1 DEF attendanceVars, AnswerInv, RowsFound, AnswerKept, Held, TakenAnswer
  <2>2. CASE AttendanceNext
    BY <2>2, NextCases, RemindAnswers, VisitAnswers DEF AnswerInv
  <2> QED BY <2>1, <2>2
<1>3. AnswerInv => AnsweredOnce
  <2> SUFFICES ASSUME AnswerInv, NEW b \in Appointments \ interrupted
               PROVE  Cardinality(accepted[b]) <= 1
    BY DEF AnsweredOnce
  <2>1. accepted[b] = {} \/ \E a : accepted[b] = {a}
    BY DEF AnswerInv, AnswerKept
  <2>2. \A a : Cardinality({a}) = 1
    BY FS_Singleton
  <2>3. Cardinality({}) = 0
    BY FS_EmptySet
  <2> HIDE DEF AnswerInv
  <2>4. Cardinality(accepted[b]) \in {0, 1}
    BY <2>1, <2>2, <2>3
  <2> QED BY <2>4
<1> QED BY <1>1, <1>2, <1>3, AttendanceTypes, PTL DEF AttendanceSpec

\* The count never exceeds the misses, and misses none unless two requests counted at
\* the same time or one did not succeed.
THEOREM CountFollowsMisses == AttendanceSpec => []MissesCounted
<1>1. AttendanceInit /\ AttendanceTyped => CountInv
  <2> SUFFICES ASSUME AttendanceInit, AttendanceTyped PROVE CountInv
    OBVIOUS
  <2>1. misses \ Counting = {} /\ Counting = {} /\ missed = 0
    BY DEF AttendanceInit, Counting, Waiting
  <2>2. Cardinality(misses \ Counting) = 0
    BY <2>1, FS_EmptySet
  <2> QED BY <2>1, <2>2 DEF CountInv, CountsFollow, AttendanceInit, Waiting
<1>2. CountInv /\ AttendanceTyped' /\ [AttendanceNext]_attendanceVars => CountInv'
  <2> SUFFICES ASSUME CountInv, AttendanceTyped', [AttendanceNext]_attendanceVars PROVE CountInv'
    OBVIOUS
  <2>1. CASE UNCHANGED attendanceVars
    BY <2>1 DEF attendanceVars, CountInv, CountsFollow, Counting
  <2>2. ASSUME NEW j \in Jobs, Remind(j) PROVE CountInv'
    <3>1. UNCHANGED <<visit, misses, missed, miscounted>>
      BY <2>2 DEF Remind, ReadBatch, MailReminder, StoreReminder, DieReminding, answerVars
    <3> QED BY <3>1 DEF CountInv, CountsFollow, Counting
  <2>3. CASE AttendanceNext
    BY <2>2, <2>3, NextCases, CountKept
  <2> QED BY <2>1, <2>3
<1>3. CountInv => MissesCounted
  <2> SUFFICES ASSUME CountInv PROVE MissesCounted
    OBVIOUS
  <2>1. IsFiniteSet(misses) /\ misses \ Counting \in SUBSET misses
    <3>1. IsFiniteSet(Answers \cup Marks)
      BY AttendanceConstants, FS_Union
    <3> QED BY <3>1, FS_Subset DEF CountInv, AttendanceTyped
  <2>2. /\ Cardinality(misses \ Counting) <= Cardinality(misses)
        /\ Cardinality(misses) \in Nat /\ Cardinality(misses \ Counting) \in Nat
    BY <2>1, FS_Subset, FS_CardinalityType
  <2>3. (\A v \in DOMAIN visit : visit[v].at \in AtRest) => misses \ Counting = misses
    BY DEF CountInv, AttendanceTyped, AtRest, Counting
  <2>4. missed \in Nat /\ missed <= Cardinality(misses \ Counting)
        /\ (~miscounted => missed = Cardinality(misses \ Counting))
    BY DEF CountInv, AttendanceTyped
  <2>5. missed <= Cardinality(misses)
    BY <2>2, <2>4
  <2> QED BY <2>3, <2>4, <2>5 DEF MissesCounted
<1> QED BY <1>1, <1>2, <1>3, AttendanceTypes, PTL DEF AttendanceSpec
=============================================================================
