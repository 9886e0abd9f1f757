------------------------------ MODULE FrappeInbox ------------------------------
(***************************************************************************)
(* The inbox through which leave changed in Frappe HRMS reaches the        *)
(* portal.  Webhooks and pulls insert changes into integration_inbox, and  *)
(* a reconciliation copies pending rows, oldest first, to leave_requests.  *)
(* Pulls and reconciliations are requested by administrators and may       *)
(* overlap.  Frappe is external, and its clock agrees with the portal's.   *)
(***************************************************************************)
EXTENDS Naturals, Sequences, FiniteSets

CONSTANTS
  Documents, \* leave applications in Frappe
  Jobs,      \* pulls and reconciliations
  PullLimit, \* how many changes a pull asks for
  CopyLimit, \* how many rows a reconciliation takes
  LastTick,  \* bound on the clock
  MaxInbox   \* bound on the rows of the inbox

ASSUME InboxConstants ==
  /\ PullLimit \in Nat \ {0} /\ CopyLimit \in Nat \ {0}
  /\ LastTick \in Nat /\ MaxInbox \in Nat

VARIABLES
  clock,
  versions,   \* external: when each document was changed
  inbox,      \* integration_inbox in the order of received_at
  cursor,     \* integration_sync_state.last_pull_at, as a set of at most one time
  leave,      \* the leave_requests rows of each document
  decision,   \* history: the last copied row of the inbox at the last decision in the portal
  job,        \* what each job is about to do
  passedOver, \* history: changes a pull had not in its batch when it moved the cursor
  disturbed   \* history: documents whose rows two jobs held at once, or one half copied

inboxVars == <<clock, versions, inbox, cursor, leave, decision, job, passedOver, disturbed>>

Time == 0..LastTick
Change == [doc : Documents, version : Time]
InboxRow == [from : {"pull", "event", "name", "uuid"}, change : Change,
             status : {"pending", "processed", "failed"}]

\* The change a row says, and whether its status was decided in the portal since.
LeaveRow == [version : Time, decided : BOOLEAN]

Resting == [at |-> "resting"]
Selecting == [at |-> "selecting"]
JobRecord ==
  {Resting, Selecting}
    \cup [at : {"asking"}, since : SUBSET Time]
    \cup [at : {"ingesting"}, rows : SUBSET Change, left : SUBSET Documents, asked : Time]
    \cup [at : {"copying"}, rows : SUBSET Nat]
    \cup [at : {"writing"}, rows : SUBSET Nat, found : {0, 1}]
    \cup [at : {"marking"}, rows : SUBSET Nat, status : {"processed", "failed"}]

InboxTyped ==
  /\ clock \in Time
  /\ versions \in [Documents -> SUBSET Time]
  /\ inbox \in Seq(InboxRow)
  /\ cursor \subseteq Time
  /\ leave \in [Documents -> Seq(LeaveRow)]
  /\ decision \in [Documents -> Nat]
  /\ job \in [Jobs -> JobRecord]
  /\ passedOver \subseteq Change /\ disturbed \subseteq Documents

InboxInit ==
  /\ clock = 0 /\ cursor = {} /\ inbox = <<>>
  /\ versions = [d \in Documents |-> {}]
  /\ leave = [d \in Documents |-> <<>>] /\ decision = [d \in Documents |-> 0]
  /\ job = [j \in Jobs |-> Resting]
  /\ passedOver = {} /\ disturbed = {}

Goto(j, record) == job' = [job EXCEPT ![j] = record]

-----------------------------------------------------------------------------
(* Frappe *)

TickOn ==
  /\ clock < LastTick
  /\ clock' = clock + 1
  /\ UNCHANGED <<versions, inbox, cursor, leave, decision, job, passedOver, disturbed>>

ChangeDocument(d) ==
  /\ clock \notin versions[d]
  /\ versions' = [versions EXCEPT ![d] = @ \cup {clock}]
  /\ UNCHANGED <<clock, inbox, cursor, leave, decision, job, passedOver, disturbed>>

Current(d, v) == v \in versions[d] /\ \A u \in versions[d] : u <= v

-----------------------------------------------------------------------------
(* ingestInboundEvent *)

\* The unique index on source and source_event_id: a pull's id is name and time, a
\* webhook's is its event id, or the document's name, or else a new uuid.
Duplicate(from, c) ==
  \E i \in DOMAIN inbox :
    /\ inbox[i].from = from /\ from # "uuid" /\ inbox[i].change.doc = c.doc
    /\ from = "name" \/ inbox[i].change = c

Ingested(from, c) ==
  IF Duplicate(from, c) THEN inbox
  ELSE Append(inbox, [from |-> from, change |-> c, status |-> "pending"])

\* A webhook tells of any change there was, late, again or never.
Webhook(from, c) ==
  /\ c.version \in versions[c.doc] /\ Len(inbox) < MaxInbox
  /\ inbox' = Ingested(from, c)
  /\ UNCHANGED <<clock, versions, cursor, leave, decision, job, passedOver, disturbed>>

-----------------------------------------------------------------------------
(* pullLeaveEvents *)

StartPull(j) ==
  /\ job[j] = Resting
  /\ Goto(j, [at |-> "asking", since |-> cursor])
  /\ UNCHANGED <<clock, versions, inbox, cursor, leave, decision, passedOver, disturbed>>

\* Mistake: what was changed at the very time of the last pull is left out.
After(v, since) == \A t \in since : v > t

From(v, since) == \A t \in since : v >= t

Changed(since) == {c \in Change : Current(c.doc, c.version) /\ From(c.version, since)}

\* The first changes by time, as many as the limit allows.
Batches(changes) ==
  {rows \in SUBSET changes :
    /\ Cardinality(rows) = IF Cardinality(changes) < PullLimit THEN Cardinality(changes) ELSE PullLimit
    /\ \A c \in rows, x \in changes \ rows : c.version <= x.version}

AskFrappe(j) ==
  /\ job[j].at = "asking"
  /\ \E rows \in Batches(Changed(job[j].since)) :
       Goto(j, [at |-> "ingesting", rows |-> rows, asked |-> clock,
                left |-> {c.doc : c \in Changed(job[j].since) \ rows}])
  /\ UNCHANGED <<clock, versions, inbox, cursor, leave, decision, passedOver, disturbed>>

Ingest(j) ==
  /\ job[j].at = "ingesting" /\ Len(inbox) < MaxInbox
  /\ \E c \in job[j].rows :
       /\ \A x \in job[j].rows : c.version <= x.version
       /\ inbox' = Ingested("pull", c)
       /\ Goto(j, [job[j] EXCEPT !.rows = @ \ {c}])
  /\ UNCHANGED <<clock, versions, cursor, leave, decision, passedOver, disturbed>>

Pending == {i \in DOMAIN inbox : inbox[i].status = "pending"}

\* The cursor becomes the time now, not that of the query.
Stamp(j) ==
  /\ job[j].at = "ingesting" /\ job[j].rows = {}
  /\ cursor' = {clock}
  /\ passedOver' = passedOver \cup
       {c \in Change : /\ Current(c.doc, c.version)
                       /\ c.version >= job[j].asked \/ c.doc \in job[j].left}
  /\ Goto(j, Selecting)
  /\ UNCHANGED <<clock, versions, inbox, leave, decision, disturbed>>

\* The cursor could not be written; nobody looks at the error.
MissStamp(j) ==
  /\ job[j].at = "ingesting" /\ job[j].rows = {}
  /\ Goto(j, Selecting)
  /\ UNCHANGED <<clock, versions, inbox, cursor, leave, decision, passedOver, disturbed>>

-----------------------------------------------------------------------------
(* reconcileInboundLeaveEvents *)

StartReconciling(j) ==
  /\ job[j] = Resting
  /\ Goto(j, Selecting)
  /\ UNCHANGED <<clock, versions, inbox, cursor, leave, decision, passedOver, disturbed>>

Doc(i) == inbox[i].change.doc
RowsOf(j) == IF job[j].at \in {"copying", "writing", "marking"} THEN job[j].rows ELSE {}
Shared(j, rows) == {Doc(i) : i \in rows} \cap {Doc(i) : i \in UNION {RowsOf(k) : k \in Jobs \ {j}}}

Select(j) ==
  /\ job[j] = Selecting
  /\ LET rows == {i \in Pending : Cardinality({k \in Pending : k < i}) < CopyLimit}
     IN /\ Goto(j, [at |-> "copying", rows |-> rows])
        /\ disturbed' = disturbed \cup Shared(j, rows)
  /\ UNCHANGED <<clock, versions, inbox, cursor, leave, decision, passedOver>>

\* Mistake: the rows in the wrong order.
NewestFirst(i, rows) == \A k \in rows : k <= i

OldestFirst(i, rows) == \A k \in rows : i <= k

\* The row in the job's hands.
At(j, i) == i \in RowsOf(j) /\ OldestFirst(i, RowsOf(j))

\* maybeSingle: the row of the document, but nothing when there are several.
Existing(d) == IF Len(leave[d]) = 1 THEN 1 ELSE 0

LookUp(j) ==
  /\ job[j].at = "copying"
  /\ \E i \in DOMAIN inbox : At(j, i) /\
       Goto(j, [at |-> "writing", rows |-> job[j].rows, found |-> Existing(Doc(i))])
  /\ UNCHANGED <<clock, versions, inbox, cursor, leave, decision, passedOver, disturbed>>

\* The look-up fails, which is taken for a document without a row.
LookUpNothing(j) ==
  /\ job[j].at = "copying"
  /\ \E i \in DOMAIN inbox : At(j, i) /\ Existing(Doc(i)) # 0
       /\ disturbed' = disturbed \cup {Doc(i)}
       /\ Goto(j, [at |-> "writing", rows |-> job[j].rows, found |-> 0])
  /\ UNCHANGED <<clock, versions, inbox, cursor, leave, decision, passedOver>>

\* The employee or the type of leave is not known, or the row cannot be written.
Reject(j) ==
  /\ job[j].at \in {"copying", "writing"} /\ job[j].rows # {}
  /\ Goto(j, [at |-> "marking", rows |-> job[j].rows, status |-> "failed"])
  /\ UNCHANGED <<clock, versions, inbox, cursor, leave, decision, passedOver, disturbed>>

\* Two rows stand for any number, since more are handled as two are.
Written(rows, found, v) ==
  LET row == [version |-> v, decided |-> FALSE]
  IN IF found # 0 THEN [rows EXCEPT ![found] = row]
     ELSE IF Len(rows) < 2 THEN Append(rows, row) ELSE rows

\* The row is updated or inserted; the answer may be lost.
Write(j) ==
  /\ job[j].at = "writing"
  /\ \E i \in DOMAIN inbox, status \in {"processed", "failed"} :
       /\ At(j, i)
       /\ leave' = [leave EXCEPT ![Doc(i)] = Written(@, job[j].found, inbox[i].change.version)]
       /\ disturbed' = IF status = "failed" THEN disturbed \cup {Doc(i)} ELSE disturbed
       /\ Goto(j, [at |-> "marking", rows |-> job[j].rows, status |-> status])
  /\ UNCHANGED <<clock, versions, inbox, cursor, decision, passedOver>>

Mark(j) ==
  /\ job[j].at = "marking"
  /\ \E i \in DOMAIN inbox : At(j, i)
       /\ inbox' = [inbox EXCEPT ![i].status = job[j].status]
       /\ Goto(j, [at |-> "copying", rows |-> job[j].rows \ {i}])
  /\ UNCHANGED <<clock, versions, cursor, leave, decision, passedOver, disturbed>>

\* The row that a job has copied and not marked yet.
Done(j) ==
  IF job[j].at = "marking" /\ job[j].status = "processed"
  THEN {i \in DOMAIN inbox : At(j, i)} ELSE {}

\* The row could not be marked; nobody looks at the error.
MissMark(j) ==
  /\ job[j].at = "marking"
  /\ \E i \in DOMAIN inbox : At(j, i)
       /\ disturbed' = disturbed \cup {Doc(i)}
       /\ Goto(j, [at |-> "copying", rows |-> job[j].rows \ {i}])
  /\ UNCHANGED <<clock, versions, inbox, cursor, leave, decision, passedOver>>

FinishJob(j) ==
  /\ job[j].at = "copying" /\ job[j].rows = {}
  /\ Goto(j, Resting)
  /\ UNCHANGED <<clock, versions, inbox, cursor, leave, decision, passedOver, disturbed>>

\* A query or an insertion fails, or the request is cut off.
DieInJob(j) ==
  /\ job[j] # Resting
  /\ disturbed' = disturbed \cup {Doc(i) : i \in Done(j)}
  /\ Goto(j, Resting)
  /\ UNCHANGED <<clock, versions, inbox, cursor, leave, decision, passedOver>>

-----------------------------------------------------------------------------
(* PATCH /api/hr/leave/requests/[id] *)

\* Rows whose leave has been written.
Copied(i) == inbox[i].status = "processed" \/ \E j \in Jobs : i \in Done(j)
CopiedRows(d) == {i \in DOMAIN inbox : Doc(i) = d /\ Copied(i)}

\* A request is approved, rejected or cancelled in the portal.  Nothing that the handler
\* writes depends on what it has read but sync_version, by which no copied row is treated.
Decide(d, k) ==
  /\ k \in DOMAIN leave[d]
  /\ leave' = [leave EXCEPT ![d][k].decided = TRUE]
  /\ \E i \in CopiedRows(d) \cup {0} :
       (\A m \in CopiedRows(d) : m <= i) /\ decision' = [decision EXCEPT ![d] = i]
  /\ UNCHANGED <<clock, versions, inbox, cursor, job, passedOver, disturbed>>

-----------------------------------------------------------------------------
Pulls(j) == StartPull(j) \/ AskFrappe(j) \/ Ingest(j) \/ Stamp(j) \/ MissStamp(j)
Reconciles(j) ==
  \/ StartReconciling(j) \/ Select(j) \/ LookUp(j) \/ LookUpNothing(j) \/ Reject(j)
  \/ Write(j) \/ Mark(j) \/ MissMark(j) \/ FinishJob(j)

InboxNext ==
  \/ TickOn
  \/ \E d \in Documents : ChangeDocument(d)
  \/ \E from \in {"event", "name", "uuid"}, c \in Change : Webhook(from, c)
  \/ \E j \in Jobs : Pulls(j) \/ Reconciles(j) \/ DieInJob(j)
  \/ \E d \in Documents : \E k \in DOMAIN leave[d] : Decide(d, k)

InboxSpec == InboxInit /\ [][InboxNext]_inboxVars

-----------------------------------------------------------------------------
(* Properties *)

Held(c) == \E i \in DOMAIN inbox : inbox[i].change = c
Settled(c) == Held(c) \/ c \in passedOver

\* The present version of a document is in the inbox, or the next pull will ask for it,
\* or a pull has passed it over: it was changed between that pull's query and its stamp,
\* or lay beyond the limit.  Nothing else is lost, though pulls overlap, fail half-way
\* and are asked for again.
MissedOnlyWhilePulling ==
  \A c \in Change :
    Current(c.doc, c.version) => Settled(c) \/ From(c.version, cursor)

\* Nothing is from a time to come.
NothingAhead ==
  /\ \A d \in Documents : From(clock, versions[d])
  /\ From(clock, cursor)
  /\ \A j \in Jobs : /\ job[j].at = "asking" => From(clock, job[j].since)
                     /\ job[j].at = "ingesting" => job[j].asked <= clock

\* What a pull must bring is in its hands, or will come with its query.
PullsComplete ==
  \A j \in Jobs, c \in Change : Current(c.doc, c.version) =>
    /\ job[j].at = "asking" => Settled(c) \/ From(c.version, job[j].since)
    /\ job[j].at = "ingesting" =>
         Settled(c) \/ c \in job[j].rows \/ c.version >= job[j].asked \/ c.doc \in job[j].left

\* The inductive invariant behind MissedOnlyWhilePulling.
InboxInv == InboxTyped /\ NothingAhead /\ PullsComplete /\ MissedOnlyWhilePulling

Calm(i) == Doc(i) \notin disturbed

\* A document has one row of leave, which says what the last of its copied inbox rows
\* says and has the status of a decision in the portal exactly if that was made later;
\* unless two reconciliations held rows of the document at once, or one of them read,
\* wrote or marked a row without success.
LeaveFollowsInbox ==
  \A d \in Documents \ disturbed :
    IF CopiedRows(d) = {} THEN leave[d] = <<>>
    ELSE \E i \in CopiedRows(d) :
           /\ \A k \in CopiedRows(d) : k <= i
           /\ leave[d] = <<[version |-> inbox[i].change.version, decided |-> decision[d] = i]>>

\* A job holds pending rows of the inbox, and none that another holds.
HeldRows ==
  \A j \in Jobs :
    /\ RowsOf(j) \subseteq DOMAIN inbox
    /\ job[j].at \in {"writing", "marking"} => RowsOf(j) # {}
    /\ \A i \in RowsOf(j) : Calm(i) =>
         /\ inbox[i].status = "pending"
         /\ \A k \in Jobs \ {j} : \A m \in RowsOf(k) : Doc(m) # Doc(i)

\* Rows of a document are taken, and copied, in turn.
TakenInTurn ==
  \A i, k \in DOMAIN inbox :
    Doc(i) = Doc(k) /\ Calm(i) /\ inbox[k].status = "pending" =>
      /\ Copied(i) /\ ~Copied(k) => i < k
      /\ \A j \in Jobs : i \in RowsOf(j) /\ k < i => k \in RowsOf(j)

\* What was looked up is there when it is written.
FoundStill ==
  \A j \in Jobs, i \in DOMAIN inbox :
    At(j, i) /\ Calm(i) /\ job[j].at = "writing" => job[j].found = Existing(Doc(i))

\* A decision in the portal is one after some copied row, or before any.
DecisionsKnown == \A d \in Documents \ disturbed : decision[d] \in CopiedRows(d) \cup {0}

\* The inductive invariant behind LeaveFollowsInbox.
CopyInv == HeldRows /\ TakenInTurn /\ FoundStill /\ LeaveFollowsInbox /\ DecisionsKnown
=============================================================================
