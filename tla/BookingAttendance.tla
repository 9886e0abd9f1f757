--------------------------- MODULE BookingAttendance ---------------------------
(***************************************************************************)
(* Reminders, the customers' answers to them, and the count of missed      *)
(* appointments of one contact.  The job reads what was sent and answered, *)
(* mails links, and writes back what it read with what it sent; customers  *)
(* follow the links and staff mark no-shows meanwhile.  Every call to the  *)
(* database is a step.                                                     *)
(***************************************************************************)
EXTENDS Naturals, FiniteSets

CONSTANTS
  Appointments, \* bookings of one contact that are neither cancelled nor deleted
  Jobs,         \* runs of the reminder job
  Answers,      \* requests by the links in the mails
  Marks,        \* no-show requests by staff
  MaxTokens,    \* bound: links ever made
  Failing       \* whether calls may fail and handlers may die

ASSUME AttendanceConstants ==
  /\ IsFiniteSet(Answers) /\ IsFiniteSet(Marks) /\ Answers \cap Marks = {}
  /\ MaxTokens \in Nat /\ Failing \in BOOLEAN

VARIABLES
  events,      \* booking_reminder_events: booking -> row
  respondent,  \* whose answer responded_at of a row is of
  attendance,  \* bookings.attendance_status
  missed,      \* missed_count in the contact's row of booking_contact_flags, 0 for no row
  tokens,      \* links made so far
  mailed,      \* the links mailed for each booking
  reminding,   \* what each job is about to do
  visit,       \* what each answer or mark is about to do
  accepted,    \* history: the answers recorded for each booking
  misses,      \* history: the requests that recorded a missed appointment
  troubled,    \* history: bookings that two jobs held at once, or a job without success
  interrupted, \* history: bookings answered while a job held them unanswered
  miscounted   \* history: whether two requests counted at once, or one without success

attendanceVars == <<events, respondent, attendance, missed, tokens, mailed, reminding, visit,
                    accepted, misses, troubled, interrupted, miscounted>>
answerVars == <<attendance, missed, accepted, misses, miscounted>>
jobVars == <<tokens, mailed, reminding, troubled>>

Responses == {"unknown", "present", "missed"}
Windows == {"advance", "same_day"}
ReminderEvent == [token : Nat, response : Responses, sent : SUBSET Windows]
Rows == UNION {[S -> ReminderEvent] : S \in SUBSET Appointments}

Off == [at |-> "off"]
\* rows is what the job read of its batch, left the bookings it has still to mail.
Reminding ==
  {Off} \cup [at : {"reading"}, window : Windows]
        \cup [at : {"mailing"}, window : Windows, rows : Rows, left : SUBSET Appointments]
        \cup [at : {"storing"}, window : Windows, rows : Rows, left : SUBSET Appointments,
              booking : Appointments, token : Nat, sent : BOOLEAN]

Waiting == [at |-> "waiting"]
Ended == [at |-> "ended"]
Visit ==
  {Waiting, Ended}
    \cup [at : {"claiming", "noting", "undoing"}, booking : Appointments,
          status : {"present", "missed"}]
    \cup [at : {"counting"}] \cup [at : {"adding"}, seen : Nat]

AttendanceTyped ==
  /\ events \in Rows
  /\ respondent \in [Appointments -> SUBSET Answers]
  /\ attendance \in [Appointments -> Responses \cup {"manual_no_show"}]
  /\ missed \in Nat /\ tokens \in Nat
  /\ mailed \in [Appointments -> SUBSET Nat]
  /\ reminding \in [Jobs -> Reminding]
  /\ visit \in [Answers \cup Marks -> Visit]
  /\ \A m \in Marks : visit[m].at \notin {"claiming", "noting", "undoing"}
  /\ accepted \in [Appointments -> SUBSET Answers]
  /\ misses \subseteq Answers \cup Marks
  /\ troubled \subseteq Appointments /\ interrupted \subseteq Appointments
  /\ miscounted \in BOOLEAN

AttendanceInit ==
  /\ events = <<>> /\ respondent = [b \in Appointments |-> {}]
  /\ attendance = [b \in Appointments |-> "unknown"]
  /\ missed = 0 /\ tokens = 0 /\ mailed = [b \in Appointments |-> {}]
  /\ reminding = [j \in Jobs |-> [at |-> "reading", window |-> "advance"]]
  /\ visit = [v \in Answers \cup Marks |-> Waiting]
  /\ accepted = [b \in Appointments |-> {}] /\ misses = {}
  /\ troubled = {} /\ interrupted = {} /\ miscounted = FALSE

-----------------------------------------------------------------------------
(* GET /api/cron/bookings/reminders *)

\* The bookings a job has read and not yet written.
Held(j) ==
  CASE reminding[j].at = "mailing" -> reminding[j].left
    [] reminding[j].at = "storing" -> reminding[j].left \cup {reminding[j].booking}
    [] OTHER -> {}

\* What a job takes the answer for a booking to be, and will write.
TakenAnswer(j, b) ==
  IF b \in DOMAIN reminding[j].rows THEN reminding[j].rows[b].response ELSE "unknown"

JobGoes(j, step) == reminding' = [reminding EXCEPT ![j] = step]

\* A job that has mailed its batch goes on to the next window.
AfterBatch(window) ==
  IF window = "advance" THEN [at |-> "reading", window |-> "same_day"] ELSE Off

\* Reads the reminders sent for a batch.  An error is not looked at: the job goes on
\* as if none had been sent.
ReadBatch(j, batch, fails) ==
  /\ reminding[j].at = "reading" /\ (fails => Failing)
  /\ LET known == IF fails THEN {} ELSE batch \cap DOMAIN events
         window == reminding[j].window
         left == {b \in batch : b \in known => window \notin events[b].sent}
     IN /\ JobGoes(j, IF left = {} THEN AfterBatch(window)
                      ELSE [at |-> "mailing", window |-> window, left |-> left,
                            rows |-> [b \in known |-> events[b]]])
        /\ troubled' = troubled \cup {b \in left : fails \/ \E i \in Jobs \ {j} : b \in Held(i)}
        /\ interrupted' = interrupted \cup {b \in left : fails /\ accepted[b] # {}}
  /\ UNCHANGED <<events, respondent, tokens, mailed, visit, answerVars>>

\* Mistake: every mail carries a new link.
LinkAnew(j, b) == tokens + 1

\* The link of the row, or a new one.
LinkFor(j, b) ==
  IF b \in DOMAIN reminding[j].rows THEN reminding[j].rows[b].token ELSE tokens + 1

MailReminder(j, b, sent) ==
  /\ reminding[j].at = "mailing" /\ b \in reminding[j].left
  /\ LET token == LinkFor(j, b)
     IN /\ token <= MaxTokens
        /\ tokens' = IF token > tokens THEN token ELSE tokens
        /\ mailed' = IF sent THEN [mailed EXCEPT ![b] = @ \cup {token}] ELSE mailed
        /\ JobGoes(j, [at |-> "storing", window |-> reminding[j].window,
                       rows |-> reminding[j].rows, left |-> reminding[j].left \ {b},
                       booking |-> b, token |-> token, sent |-> sent])
  /\ UNCHANGED <<events, respondent, visit, answerVars, troubled, interrupted>>

\* The row as the job writes it: its link, the answer it read, and what was sent.
Stored(j) ==
  LET b == reminding[j].booking   rows == reminding[j].rows
      before == IF b \in DOMAIN rows THEN rows[b].sent ELSE {}
  IN [token |-> reminding[j].token, response |-> TakenAnswer(j, b),
      sent |-> before \cup (IF reminding[j].sent THEN {reminding[j].window} ELSE {})]

\* Writes the row, whatever became of it since it was read; that it could not is logged.
StoreReminder(j, fails) ==
  /\ reminding[j].at = "storing" /\ (fails => Failing)
  /\ LET b == reminding[j].booking   left == reminding[j].left
     IN /\ events' = IF fails THEN events
                     ELSE [d \in DOMAIN events \cup {b} |-> IF d = b THEN Stored(j) ELSE events[d]]
        /\ troubled' = IF fails THEN troubled \cup {b} ELSE troubled
        /\ JobGoes(j, IF left = {} THEN AfterBatch(reminding[j].window)
                      ELSE [at |-> "mailing", window |-> reminding[j].window,
                            rows |-> reminding[j].rows, left |-> left])
  /\ UNCHANGED <<respondent, tokens, mailed, visit, answerVars, interrupted>>

DieReminding(j) ==
  /\ Failing /\ reminding[j] # Off
  /\ troubled' = troubled \cup (IF reminding[j].at = "storing" THEN {reminding[j].booking} ELSE {})
  /\ JobGoes(j, Off)
  /\ UNCHANGED <<events, respondent, tokens, mailed, visit, answerVars, interrupted>>

Remind(j) ==
  \/ \E batch \in SUBSET Appointments, fails \in BOOLEAN : ReadBatch(j, batch, fails)
  \/ \E b \in Appointments, sent \in BOOLEAN : MailReminder(j, b, sent)
  \/ \E fails \in BOOLEAN : StoreReminder(j, fails)
  \/ DieReminding(j)

-----------------------------------------------------------------------------
(* GET /api/bookings/attendance/respond *)

VisitGoes(v, step) == visit' = [visit EXCEPT ![v] = step]

\* A customer follows a link.  It leads nowhere when no row has it or its booking was
\* answered.
FollowLink(a, b, link, status) ==
  /\ visit[a] = Waiting /\ link \in mailed[b]
  /\ VisitGoes(a, IF b \in DOMAIN events /\ events[b].token = link /\ events[b].response = "unknown"
                  THEN [at |-> "claiming", booking |-> b, status |-> status] ELSE Ended)
  /\ UNCHANGED <<events, respondent, jobVars, answerVars, interrupted>>

Answered(a) ==
  LET b == visit[a].booking
  IN /\ events' = [events EXCEPT ![b].response = visit[a].status]
     /\ respondent' = [respondent EXCEPT ![b] = {a}]
     /\ accepted' = [accepted EXCEPT ![b] = @ \cup {a}]
     /\ interrupted' = IF \E j \in Jobs : b \in Held(j) /\ TakenAnswer(j, b) = "unknown"
                       THEN interrupted \cup {b} ELSE interrupted

\* Mistake: the row is claimed by its id alone.
ClaimById(a) ==
  /\ visit[a].at = "claiming" /\ Answered(a) /\ VisitGoes(a, [visit[a] EXCEPT !.at = "noting"])
  /\ UNCHANGED <<jobVars, attendance, missed, misses, miscounted>>

\* Claims the row if it is still unanswered; the claim may stand though the handler
\* learns of an error.
ClaimAnswer(a) ==
  /\ visit[a].at = "claiming"
  /\ IF events[visit[a].booking].response = "unknown"
     THEN /\ Answered(a)
          /\ \/ VisitGoes(a, [visit[a] EXCEPT !.at = "noting"])
             \/ Failing /\ VisitGoes(a, Ended)
     ELSE VisitGoes(a, Ended) /\ UNCHANGED <<events, respondent, accepted, interrupted>>
  /\ UNCHANGED <<jobVars, attendance, missed, misses, miscounted>>

\* Mistake: whoever answers is counted as having missed the appointment.
NoteAnyAnswer(a) ==
  /\ visit[a].at = "noting"
  /\ attendance' = [attendance EXCEPT ![visit[a].booking] = visit[a].status]
  /\ misses' = IF visit[a].status = "missed" THEN misses \cup {a} ELSE misses
  /\ VisitGoes(a, [at |-> "counting"])
  /\ UNCHANGED <<events, respondent, jobVars, missed, accepted, interrupted, miscounted>>

NoteAnswer(a) ==
  /\ visit[a].at = "noting"
  /\ attendance' = [attendance EXCEPT ![visit[a].booking] = visit[a].status]
  /\ LET absent == visit[a].status = "missed"
     IN /\ misses' = IF absent THEN misses \cup {a} ELSE misses
        /\ VisitGoes(a, IF absent THEN [at |-> "counting"] ELSE Ended)
  /\ UNCHANGED <<events, respondent, jobVars, missed, accepted, interrupted, miscounted>>

\* The booking could not be written, or so it seems.
LoseNote(a) ==
  /\ Failing /\ visit[a].at = "noting"
  /\ attendance' \in {attendance, [attendance EXCEPT ![visit[a].booking] = visit[a].status]}
  /\ VisitGoes(a, [visit[a] EXCEPT !.at = "undoing"])
  /\ UNCHANGED <<events, respondent, jobVars, missed, accepted, misses, interrupted, miscounted>>

\* Gives the claim up if it is still this request's.
UndoAnswer(a) ==
  LET b == visit[a].booking
  IN /\ visit[a].at = "undoing" /\ VisitGoes(a, Ended)
     /\ \/ /\ respondent[b] = {a}
           /\ events' = [events EXCEPT ![b].response = "unknown"]
           /\ respondent' = [respondent EXCEPT ![b] = {}]
           /\ accepted' = [accepted EXCEPT ![b] = @ \ {a}]
        \/ (respondent[b] # {a} \/ Failing) /\ UNCHANGED <<events, respondent, accepted>>
     /\ UNCHANGED <<jobVars, attendance, missed, misses, interrupted, miscounted>>

-----------------------------------------------------------------------------
(* POST /api/bookings/[id]/no-show, and incrementBookingContactPenalty *)

MarkMissed(m, b) ==
  /\ visit[m] = Waiting
  /\ attendance' = [attendance EXCEPT ![b] = "manual_no_show"]
  /\ \/ VisitGoes(m, [at |-> "counting"]) /\ misses' = misses \cup {m}
     \/ Failing /\ VisitGoes(m, Ended) /\ UNCHANGED misses
  /\ UNCHANGED <<events, respondent, jobVars, missed, accepted, interrupted, miscounted>>

\* Reads the count; an error is taken for a contact without one.
ReadCount(v) ==
  /\ visit[v].at = "counting"
  /\ \E seen \in {missed} \cup (IF Failing THEN {0} ELSE {}) :
       VisitGoes(v, [at |-> "adding", seen |-> seen])
  /\ UNCHANGED <<events, respondent, jobVars, answerVars, interrupted>>

\* Writes the next count.  A second row for the contact is refused, which nobody looks at.
AddMissed(v) ==
  LET seen == visit[v].seen
  IN /\ visit[v].at = "adding" /\ VisitGoes(v, Ended)
     /\ missed' = IF seen = 0 /\ missed > 0 THEN missed ELSE seen + 1
     /\ miscounted' = (miscounted \/ missed # seen)
     /\ UNCHANGED <<events, respondent, jobVars, attendance, accepted, misses, interrupted>>

\* Steps of a request of which nothing is in doubt.
AtRest == {"waiting", "ended"}

\* A handler dies, or its last write fails unnoticed.
DieVisiting(v) ==
  /\ Failing /\ visit[v].at \notin AtRest /\ VisitGoes(v, Ended)
  /\ miscounted' = (miscounted \/ visit[v].at \in {"counting", "adding"})
  /\ UNCHANGED <<events, respondent, jobVars, attendance, missed, accepted, misses, interrupted>>

Respond(a) ==
  \/ \E b \in Appointments, link \in 1..MaxTokens, status \in {"present", "missed"} :
       FollowLink(a, b, link, status)
  \/ ClaimAnswer(a) \/ NoteAnswer(a) \/ LoseNote(a) \/ UndoAnswer(a)

AttendanceNext ==
  \/ \E j \in Jobs : Remind(j)
  \/ \E a \in Answers : Respond(a)
  \/ \E m \in Marks, b \in Appointments : MarkMissed(m, b)
  \/ \E v \in Answers \cup Marks : ReadCount(v) \/ AddMissed(v) \/ DieVisiting(v)

AttendanceSpec == AttendanceInit /\ [][AttendanceNext]_attendanceVars

-----------------------------------------------------------------------------
(* Properties *)

\* A link that a customer holds leads to the booking, also after a second mail and a
\* restart of the job, once the job has written it (response_token).
LinksWork ==
  \A b \in Appointments \ troubled :
    /\ Cardinality(mailed[b]) <= 1
    /\ \A link \in mailed[b] :
         \/ b \in DOMAIN events /\ events[b].token = link
         \/ \E j \in Jobs : reminding[j].at = "storing" /\ reminding[j].booking = b

\* However many links are followed and followed again, one answer is recorded for a
\* booking (the condition on response_status), unless it came while a job held the
\* booking unanswered.
AnsweredOnce ==
  \A b \in Appointments \ interrupted : Cardinality(accepted[b]) <= 1

\* One answer is recorded for a booking.
OneAnswer == \A b \in Appointments : Cardinality(accepted[b]) <= 1

\* The count that penalties go by is never more than the contact missed, and with all
\* requests done it is just that, unless two of them counted at the same time.
MissesCounted ==
  /\ missed <= Cardinality(misses)
  /\ (\A v \in DOMAIN visit : visit[v].at \in AtRest) /\ ~miscounted => missed = Cardinality(misses)
================================================================================
