----------------------------- MODULE FrappeOutbox -----------------------------
(***************************************************************************)
(* The outbox through which attendance and leave reach Frappe HRMS.  Leave *)
(* and lifecycle events are inserted once; the summary of an employee's    *)
(* day is queued again after every punch of the day and by a daily job,    *)
(* for as long as that job covers the day.                                 *)
(***************************************************************************)
EXTENDS Naturals, FiniteSets

CONSTANTS
  Events,      \* leave and lifecycle events
  Summary,     \* the dedupe key of the day's summary
  Punches,     \* punches and adjustments of the day
  Writers,     \* requests that store a punch and queue the summary
  Cron,        \* the daily job
  Dispatchers, \* outbox jobs and manual pushes
  MaxRetries

ASSUME OutboxConstants ==
  /\ Summary \notin Events /\ Cron \notin Writers /\ Writers \cap Dispatchers = {}
  /\ MaxRetries \in Nat \ {0}

VARIABLES
  punched,   \* timeclock_events of the day
  outbox,    \* integration_outbox: dedupe key -> row
  received,  \* external: what Frappe accepted last under each key
  queue,     \* what each request, and the daily job, is about to do
  work,      \* what each dispatcher is about to do, with the row it fetched
  failures,  \* history: failed attempts of each event, counted to MaxRetries
  requeued   \* history: whether the summary was last queued with all punches, and at a
             \* time when no dispatcher was at work on it

vars == <<punched, outbox, received, queue, work, failures, requeued>>

Keys == Events \cup {Summary}
Payloads == SUBSET Punches
Row == [status : {"pending", "processing", "processed", "dead_letter"},
        attempts : 0..MaxRetries, payload : Payloads]

Idle == [at |-> "idle"]
QueueRecord == [at : {"listing"}] \cup [at : {"queueing"}, payload : Payloads]
Posting == {"posting", "succeeded", "failed"}
WorkRecord == [at : {"reserving"} \cup Posting, key : Keys, attempts : 0..MaxRetries,
               payload : Payloads]

OutboxTyped == DOMAIN outbox \subseteq Keys /\ outbox \in [DOMAIN outbox -> Row]
ReceivedTyped == DOMAIN received \subseteq Keys /\ received \in [DOMAIN received -> Payloads]

TypeOK ==
  /\ punched \subseteq Punches
  /\ OutboxTyped /\ ReceivedTyped
  /\ queue \in [Writers \cup {Cron} -> {Idle} \cup QueueRecord]
  /\ work \in [Dispatchers -> {Idle} \cup WorkRecord]
  /\ failures \in [Events -> 0..MaxRetries]
  /\ requeued \in BOOLEAN

Init ==
  /\ punched = {} /\ outbox = <<>> /\ received = <<>>
  /\ queue = [w \in Writers \cup {Cron} |-> Idle]
  /\ work = [d \in Dispatchers |-> Idle]
  /\ failures = [e \in Events |-> 0]
  /\ requeued = FALSE

With(f, k, v) == [x \in DOMAIN f \cup {k} |-> IF x = k THEN v ELSE f[x]]
AtMost(n) == IF n > MaxRetries THEN MaxRetries ELSE n

-----------------------------------------------------------------------------
(* Queueing *)

Of(d, k) == work[d] # Idle /\ work[d].key = k

\* enqueueIntegrationEvent
EnqueueEvent(e) ==
  /\ e \notin DOMAIN outbox
  /\ outbox' = With(outbox, e, [status |-> "pending", attempts |-> 0, payload |-> {}])
  /\ UNCHANGED <<punched, received, queue, work, failures, requeued>>

Punch(w, p) ==
  /\ queue[w] = Idle /\ p \notin punched
  /\ punched' = punched \cup {p}
  /\ queue' = [queue EXCEPT ![w] = [at |-> "listing"]]
  /\ requeued' = FALSE
  /\ UNCHANGED <<outbox, received, work, failures>>

\* queueRecentTimeclockAttendance, once the day has a punch
StartCron ==
  /\ queue[Cron] = Idle /\ punched # {}
  /\ queue' = [queue EXCEPT ![Cron] = [at |-> "listing"]]
  /\ UNCHANGED <<punched, outbox, received, work, failures, requeued>>

\* listAttendancePunchesForDay
ListPunches(w) ==
  /\ queue[w].at = "listing"
  /\ queue' = [queue EXCEPT ![w] = [at |-> "queueing", payload |-> punched]]
  /\ UNCHANGED <<punched, outbox, received, work, failures, requeued>>

\* Whether a payload is that of all punches, and no dispatcher is at work on another.
WithAll(payload) == payload = punched /\ \A d \in Dispatchers : ~Of(d, Summary)

\* Mistake: the row of a day that was sent is left alone.
InsertSummary(w) ==
  /\ queue[w].at = "queueing"
  /\ outbox' = IF Summary \in DOMAIN outbox THEN outbox
               ELSE With(outbox, Summary, [status |-> "pending", attempts |-> 0,
                                           payload |-> queue[w].payload])
  /\ queue' = [queue EXCEPT ![w] = Idle]
  /\ requeued' = WithAll(queue[w].payload)
  /\ UNCHANGED <<punched, received, work, failures>>

\* enqueueAttendanceSummary: an upsert that leaves the attempts of the row as they are.
QueueSummary(w) ==
  LET before == IF Summary \in DOMAIN outbox THEN outbox[Summary].attempts ELSE 0
  IN /\ queue[w].at = "queueing"
     /\ outbox' = With(outbox, Summary, [status |-> "pending", attempts |-> before,
                                         payload |-> queue[w].payload])
     /\ queue' = [queue EXCEPT ![w] = Idle]
     /\ requeued' = WithAll(queue[w].payload)
     /\ UNCHANGED <<punched, received, work, failures>>

DieQueueing(w) ==
  /\ queue[w] # Idle
  /\ queue' = [queue EXCEPT ![w] = Idle]
  /\ UNCHANGED <<punched, outbox, received, work, failures, requeued>>

-----------------------------------------------------------------------------
(* dispatchOutboxBatch, row by row *)

\* The row as the batch read it.  Rows that wait for their next retry are due some time.
Fetch(d, k) ==
  /\ work[d] = Idle /\ k \in DOMAIN outbox /\ outbox[k].status = "pending"
  /\ work' = [work EXCEPT ![d] = [at |-> "reserving", key |-> k, attempts |-> outbox[k].attempts,
                                  payload |-> outbox[k].payload]]
  /\ UNCHANGED <<punched, outbox, received, queue, failures, requeued>>

Goes(d, at) == work' = [work EXCEPT ![d].at = at]
Ends(d) == work' = [work EXCEPT ![d] = Idle]

\* Mistake: the status is not looked at again.
StillThere(row) == TRUE

Reservable(row) == row.status = "pending"

Reserve(d) ==
  LET k == work[d].key
  IN /\ work[d].at = "reserving"
     /\ IF Reservable(outbox[k])
        THEN outbox' = [outbox EXCEPT ![k].status = "processing"] /\ Goes(d, "posting")
        ELSE Ends(d) /\ UNCHANGED outbox
     /\ UNCHANGED <<punched, received, queue, failures, requeued>>

\* frappeRequest succeeds.
Post(d) ==
  /\ work[d].at = "posting"
  /\ received' = With(received, work[d].key, work[d].payload)
  /\ Goes(d, "succeeded")
  /\ UNCHANGED <<punched, outbox, queue, failures, requeued>>

\* frappeRequest gives up after its retries, whether or not Frappe has got one of them.
FailPost(d) ==
  /\ work[d].at = "posting"
  /\ received' \in {received, With(received, work[d].key, work[d].payload)}
  /\ failures' = [e \in Events |-> IF e = work[d].key THEN AtMost(failures[e] + 1) ELSE failures[e]]
  /\ Goes(d, "failed")
  /\ UNCHANGED <<punched, outbox, queue, requeued>>

\* The row is updated by its id, whatever became of it since it was fetched.
MarkProcessed(d) ==
  /\ work[d].at = "succeeded"
  /\ outbox' = [outbox EXCEPT ![work[d].key].status = "processed",
                              ![work[d].key].attempts = AtMost(work[d].attempts + 1)]
  /\ Ends(d)
  /\ UNCHANGED <<punched, received, queue, failures, requeued>>

\* Mistake: one attempt too few.
LastButOne(attempts) == attempts + 1 >= MaxRetries

\* Mistake: a failure is retried for ever.
Tireless(attempts) == FALSE

Exhausted(attempts) == attempts >= MaxRetries

MarkFailed(d) ==
  LET attempts == AtMost(work[d].attempts + 1)
  IN /\ work[d].at = "failed"
     /\ outbox' = [outbox EXCEPT ![work[d].key].attempts = attempts,
          ![work[d].key].status = IF Exhausted(attempts) THEN "dead_letter" ELSE "pending"]
     /\ Ends(d)
     /\ UNCHANGED <<punched, received, queue, failures, requeued>>

\* The job dies, or its last update of the row fails.
DieDispatching(d) ==
  /\ work[d] # Idle
  /\ Ends(d)
  /\ UNCHANGED <<punched, outbox, received, queue, failures, requeued>>

Queueing(w) == ListPunches(w) \/ QueueSummary(w) \/ DieQueueing(w)
Processes(d) ==
  Reserve(d) \/ Post(d) \/ FailPost(d) \/ MarkProcessed(d) \/ MarkFailed(d) \/ DieDispatching(d)

Runs ==
  \/ StartCron
  \/ \E w \in Writers \cup {Cron} : Queueing(w)
  \/ \E d \in Dispatchers : Processes(d) \/ \E k \in Keys : Fetch(d, k)

Next ==
  \/ \E e \in Events : EnqueueEvent(e)
  \/ \E w \in Writers, p \in Punches : Punch(w, p)
  \/ Runs

\* The outbox job is run every day, and takes the oldest rows first; it may die, but does
\* not die every time before it has reserved a row.
Fairness ==
  /\ \A d \in Dispatchers : WF_vars(Processes(d))
  /\ \A e \in Events : /\ SF_vars(\E d \in Dispatchers : Fetch(d, e))
                        /\ SF_vars(\E d \in Dispatchers : Of(d, e) /\ Reserve(d))

Spec == Init /\ [][Next]_vars /\ Fairness

-----------------------------------------------------------------------------
(* Properties *)

Holds(d, k) == work[d].at \in Posting /\ work[d].key = k

\* Concurrent dispatchers skip an event that one of them has reserved, and so it is
\* posted by one of them at a time.
EventHeldOnce ==
  \A e \in Events, d1, d2 \in Dispatchers : Holds(d1, e) /\ Holds(d2, e) => d1 = d2

\* An event is marked as processed only after Frappe has got it, and given up only
\* after it has failed as often as MaxRetries says, though concurrent dispatchers
\* work with attempts they read before.
EventsTruthful ==
  \A e \in Events \cap DOMAIN outbox :
    /\ outbox[e].status = "processed" => e \in DOMAIN received
    /\ outbox[e].status = "dead_letter" => failures[e] = MaxRetries

\* A dispatcher works on a row that is there, and an event it holds is in processing.
RowsHeld ==
  \A d \in Dispatchers :
    /\ work[d] # Idle => work[d].key \in DOMAIN outbox
    /\ \A e \in Events : Holds(d, e) => outbox[e].status = "processing"

\* What a dispatcher is about to note of an event has happened.
NotesTruthful ==
  \A d \in Dispatchers, e \in Events : Of(d, e) =>
    /\ work[d].at = "succeeded" => e \in DOMAIN received
    /\ work[d].attempts <= failures[e]
    /\ work[d].at = "failed" => AtMost(work[d].attempts + 1) <= failures[e]

\* A row counts no more attempts than have failed until one succeeds.
AttemptsFailed ==
  \A e \in Events \cap DOMAIN outbox :
    outbox[e].status # "processed" => outbox[e].attempts <= failures[e]

\* The inductive invariant behind EventHeldOnce and EventsTruthful.
OutboxInv ==
  TypeOK /\ RowsHeld /\ NotesTruthful /\ AttemptsFailed /\ EventHeldOnce /\ EventsTruthful

\* In the end an event is processed or given up, or its dispatcher has died with it.
EventsSettle ==
  \A e \in Events : <>[](e \in DOMAIN outbox =>
    \/ outbox[e].status \in {"processed", "dead_letter"}
    \/ outbox[e].status = "processing" /\ \A d \in Dispatchers : ~Holds(d, e))

\* A summary that was queued with all punches, while no dispatcher was at work on the row,
\* is what Frappe has once its row says processed, whatever summaries of fewer punches were
\* queued, sent late, given up or lost before.
SummaryIsSent ==
  requeued /\ outbox[Summary].status = "processed"
    => Summary \in DOMAIN received /\ received[Summary] = punched

\* What is queued, held or sent since then is the summary of all punches.
SummaryCurrent ==
  requeued =>
    /\ Summary \in DOMAIN outbox /\ outbox[Summary].payload = punched
    /\ \A d \in Dispatchers : Of(d, Summary) =>
         /\ work[d].payload = punched
         /\ work[d].at = "succeeded" => Summary \in DOMAIN received /\ received[Summary] = punched

\* The inductive invariant behind SummaryIsSent.
SummaryInv == TypeOK /\ SummaryCurrent /\ SummaryIsSent
=============================================================================
