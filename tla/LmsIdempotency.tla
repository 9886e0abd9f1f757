---------------------------- MODULE LmsIdempotency ----------------------------
(***************************************************************************)
(* Retries of the ledger RPCs that take an idempotency key, here recording *)
(* a payment.  A dialog keeps its key until a submission succeeds; the     *)
(* clerk may submit again after a failure, with the same or other details. *)
(* A request or its answer can be lost, while the handler goes on.  The    *)
(* RPC is one transaction that holds an advisory lock on the key; its      *)
(* effects appear when it commits, and an abort leaves none.               *)
(***************************************************************************)
EXTENDS Naturals, FiniteSets

CONSTANTS
  Keys,         \* idempotency keys, one per dialog
  Amounts,      \* amounts a clerk may enter
  Dates,        \* dates a clerk may enter
  None,         \* no date, no attempt, no amount
  MaxAttempts,  \* submissions
  MaxClock      \* last value of the clock

ASSUME IdempotencyBounds ==
  /\ MaxAttempts \in Nat /\ MaxClock \in Nat
  /\ None \notin Amounts \cup Dates \cup Nat \cup {"recorded", "replayed", "mismatch"}

Attempts == 1..MaxAttempts
Stamps   == Dates \cup 0..MaxClock
Body     == [key : Keys, amount : Amounts, date : Dates \cup {None}]

VARIABLES
  clock,    \* now
  body,     \* attempt -> what was submitted
  phase,    \* attempt -> how far its request is
  stamp,    \* attempt -> transaction timestamp the route resolved
  outcome,  \* attempt -> how the RPC ended
  current,  \* key -> attempt its dialog waits for, or None
  told,     \* key -> amount its dialog reported as recorded, or None
  records,  \* committed lms_idempotency_keys: key -> payload
  ledger    \* committed payments: attempts that posted one

vars == <<clock, body, phase, stamp, outcome, current, told, records, ledger>>

Payload == [amount : Amounts, stamp : Stamps]
PayloadOf(a) == [amount |-> body[a].amount, stamp |-> stamp[a]]

Recorded == {"recorded", "replayed"}

TypeOK ==
  /\ clock \in 0..MaxClock
  /\ DOMAIN body \subseteq Attempts /\ \A a \in DOMAIN body : body[a] \in Body
  /\ phase \in [DOMAIN body -> {"sent", "called", "locked", "missing", "ended", "lost"}]
  /\ stamp \in [DOMAIN body -> Stamps \cup {None}]
  /\ \A a \in DOMAIN body : phase[a] \in {"called", "locked", "missing"} => stamp[a] \in Stamps
  /\ outcome \in [DOMAIN body -> Recorded \cup {"mismatch", "failed", None}]
  /\ current \in [Keys -> Attempts \cup {None}]
  /\ told \in [Keys -> Amounts \cup {None}]
  /\ DOMAIN records \subseteq Keys /\ \A k \in DOMAIN records : records[k] \in Payload
  /\ ledger \subseteq Attempts

Init ==
  /\ clock = 0
  /\ body = <<>> /\ phase = <<>> /\ stamp = <<>> /\ outcome = <<>>
  /\ current = [k \in Keys |-> None] /\ told = [k \in Keys |-> None]
  /\ records = <<>> /\ ledger = {}

-----------------------------------------------------------------------------
Extended(f, a, v) == [b \in DOMAIN f \cup {a} |-> IF b = a THEN v ELSE f[b]]

\* handleSubmit: the dialog creates its key once and keeps it across failures.
Submit(k, amount, date) ==
  LET a == Cardinality(DOMAIN body) + 1
  IN  /\ current[k] = None /\ told[k] = None
      /\ a \in Attempts
      /\ body' = Extended(body, a, [key |-> k, amount |-> amount, date |-> date])
      /\ phase' = Extended(phase, a, "sent")
      /\ stamp' = Extended(stamp, a, None)
      /\ outcome' = Extended(outcome, a, None)
      /\ current' = [current EXCEPT ![k] = a]
      /\ UNCHANGED <<clock, told, records, ledger>>

\* The dialog sees the connection fail; the request may still be under way.
GiveUp(k) ==
  /\ current[k] # None
  /\ current' = [current EXCEPT ![k] = None]
  /\ UNCHANGED <<clock, body, phase, stamp, outcome, told, records, ledger>>

LoseRequest(a) ==
  /\ a \in DOMAIN body /\ phase[a] = "sent"
  /\ phase' = [phase EXCEPT ![a] = "lost"]
  /\ UNCHANGED <<clock, body, stamp, outcome, current, told, records, ledger>>

\* Mutated form: the date that was entered is not used.
RouteStampsNow(a) ==
  /\ a \in DOMAIN body /\ phase[a] = "sent"
  /\ phase' = [phase EXCEPT ![a] = "called"]
  /\ stamp' = [stamp EXCEPT ![a] = clock]
  /\ UNCHANGED <<clock, body, outcome, current, told, records, ledger>>

\* POST: a date that was left out becomes the time at which the route runs.
Route(a) ==
  /\ a \in DOMAIN body /\ phase[a] = "sent"
  /\ phase' = [phase EXCEPT ![a] = "called"]
  /\ stamp' = [stamp EXCEPT ![a] = IF body[a].date = None THEN clock ELSE body[a].date]
  /\ UNCHANGED <<clock, body, outcome, current, told, records, ledger>>

\* Mutated form: a session's lock, which the end of the transaction keeps.
HoldersOfSession(k) ==
  {a \in DOMAIN body : body[a].key = k /\ phase[a] \in {"locked", "missing", "ended"}}

\* The attempts whose transaction is open and holds the lock on key k.
Holders(k) == {a \in DOMAIN body : body[a].key = k /\ phase[a] \in {"locked", "missing"}}

\* pg_advisory_xact_lock
Lock(a) ==
  /\ a \in DOMAIN body /\ phase[a] = "called"
  /\ Holders(body[a].key) = {}
  /\ phase' = [phase EXCEPT ![a] = "locked"]
  /\ UNCHANGED <<clock, body, stamp, outcome, current, told, records, ledger>>

\* The transaction of a ends, and its locks with it.
End(a, result) ==
  /\ phase' = [phase EXCEPT ![a] = "ended"]
  /\ outcome' = [outcome EXCEPT ![a] = result]

\* Mutated form: a key that is found is replayed, whatever was stored with it.
ReplayWithoutComparing(a) ==
  LET k == body[a].key
  IN  /\ phase[a] = "locked" /\ k \in DOMAIN records
      /\ End(a, "replayed")
      /\ UNCHANGED <<clock, body, stamp, current, told, records, ledger>>

\* The select on lms_idempotency_keys finds the key, or does not.
CheckFound(a) ==
  LET k == body[a].key
  IN  /\ phase[a] = "locked" /\ k \in DOMAIN records
      /\ End(a, IF records[k] = PayloadOf(a) THEN "replayed" ELSE "mismatch")
      /\ UNCHANGED <<clock, body, stamp, current, told, records, ledger>>

CheckMissing(a) ==
  /\ phase[a] = "locked" /\ body[a].key \notin DOMAIN records
  /\ phase' = [phase EXCEPT ![a] = "missing"]
  /\ UNCHANGED <<clock, body, stamp, outcome, current, told, records, ledger>>

\* Mutated form: the key is not stored with the payment.
RecordPaymentOnly(a) ==
  /\ phase[a] = "missing" /\ body[a].key \notin DOMAIN records
  /\ ledger' = ledger \cup {a}
  /\ End(a, "recorded")
  /\ UNCHANGED <<clock, body, stamp, current, told, records>>

\* The payment and its key are inserted and committed.  The unique constraint on
\* the key makes the insert fail, and Abort, when the key is there by now.
Record(a) ==
  /\ phase[a] = "missing" /\ body[a].key \notin DOMAIN records
  /\ ledger' = ledger \cup {a}
  /\ records' = Extended(records, body[a].key, PayloadOf(a))
  /\ End(a, "recorded")
  /\ UNCHANGED <<clock, body, stamp, current, told>>

\* An exception, a lost connection or a timeout: the transaction is rolled back.
Abort(a) ==
  /\ phase[a] \in {"called", "locked", "missing"}
  /\ End(a, "failed")
  /\ UNCHANGED <<clock, body, stamp, current, told, records, ledger>>

\* The answer reaches the dialog that still waits for it: it reports success and
\* closes, or shows the error and lets the clerk submit again.
Receive(a) ==
  LET k == body[a].key
  IN  /\ phase[a] = "ended" /\ current[k] = a
      /\ current' = [current EXCEPT ![k] = None]
      /\ told' = IF outcome[a] \in Recorded THEN [told EXCEPT ![k] = body[a].amount] ELSE told
      /\ UNCHANGED <<clock, body, phase, stamp, outcome, records, ledger>>

Tick ==
  /\ clock < MaxClock
  /\ clock' = clock + 1
  /\ UNCHANGED <<body, phase, stamp, outcome, current, told, records, ledger>>

Next ==
  \/ \E k \in Keys, amount \in Amounts, date \in Dates \cup {None} : Submit(k, amount, date)
  \/ \E k \in Keys : GiveUp(k)
  \/ \E a \in DOMAIN body :
       \/ LoseRequest(a) \/ Route(a) \/ Lock(a) \/ CheckFound(a) \/ CheckMissing(a)
       \/ Record(a) \/ Abort(a) \/ Receive(a)
  \/ Tick

\* The database runs the statements of an open transaction and grants a free lock.
Fairness ==
  \A a \in Attempts :
    WF_vars(a \in DOMAIN body /\ (Lock(a) \/ CheckFound(a) \/ CheckMissing(a) \/ Record(a)))

Spec == Init /\ [][Next]_vars /\ Fairness

-----------------------------------------------------------------------------
(* Correctness.                                                            *)

Posted(k) == {a \in ledger : body[a].key = k}

\* Under every key at most one payment is ever posted, whatever attempts are
\* under way, and what a dialog reports as recorded is that payment, at the
\* amount its clerk entered: "prevent duplicate ledger/customer creation under
\* concurrent retries".
PayOnce == INSTANCE LmsPayOnce WITH
  posted <- [k \in Keys |-> IF Posted(k) = {} THEN None
                            ELSE body[CHOOSE a \in Posted(k) : TRUE].amount]
PaysOnce == PayOnce!Spec /\ [](\A k \in Keys : Cardinality(Posted(k)) <= 1)

\* What the select saw stays true until the transaction has inserted its row:
\* this is what the advisory lock is for, and without it a retry would run into
\* the unique constraint instead of being answered.
StillMissing ==
  \A a \in DOMAIN body : phase[a] = "missing" => body[a].key \notin DOMAIN records

\* Attempts are numbered in the order of their submission.
Numbered == \E n \in 0..MaxAttempts : DOMAIN body = 1..n

\* The lock has one holder.
OneHolder == \A k \in Keys : \A a, b \in Holders(k) : a = b

\* A stored key and a posted payment come together, and once.
PostedIsRecorded ==
  /\ ledger \subseteq DOMAIN body
  /\ \A a \in ledger : /\ phase[a] = "ended" /\ body[a].key \in DOMAIN records
                       /\ records[body[a].key] = PayloadOf(a)
  /\ \A k \in DOMAIN records : Posted(k) # {}
  /\ \A a, b \in ledger : body[a].key = body[b].key => a = b

\* Answers and dialogs speak of the payment that was posted.
ToldIsRecorded ==
  /\ \A a \in DOMAIN body : outcome[a] \in Recorded =>
       /\ phase[a] = "ended" /\ body[a].key \in DOMAIN records
       /\ records[body[a].key] = PayloadOf(a)
  /\ \A k \in Keys : told[k] # None => k \in DOMAIN records /\ told[k] = records[k].amount

\* The inductive invariant behind PaysOnce.
RetryInv == TypeOK /\ Numbered /\ OneHolder /\ StillMissing /\ PostedIsRecorded /\ ToldIsRecorded

\* A retry with the same details is never refused once an attempt was recorded.
Refused(a, b) ==
  /\ body[a] = body[b]
  /\ outcome[a] \in Recorded /\ outcome[b] = "mismatch"
RetryReplays == \A a, b \in DOMAIN body : ~ Refused(a, b)

\* The same for payments that carry their date.
DatedRetryReplays == \A a, b \in DOMAIN body : body[a].date # None => ~ Refused(a, b)

\* Every RPC that began ends: nobody waits for a key's lock for ever.
EveryCallEnds ==
  \A a \in Attempts :
    (a \in DOMAIN body /\ phase[a] = "called") ~> (a \in DOMAIN body /\ phase[a] = "ended")
=============================================================================
