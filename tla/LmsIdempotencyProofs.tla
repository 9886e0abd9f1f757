------------------------- MODULE LmsIdempotencyProofs -------------------------
(***************************************************************************)
(* For any number of keys and submissions, a key posts at most one         *)
(* payment, and who is told of a payment is told of that one: the protocol *)
(* implements LmsPayOnce.  A retry that carries its date is never refused. *)
(***************************************************************************)
EXTENDS LmsIdempotency, FiniteSetTheorems, TLAPS

USE IdempotencyBounds

LEMMA NotNone ==
         /\ None \notin Amounts /\ None \notin Stamps /\ None \notin Attempts
         /\ None \notin Recorded
BY DEF Stamps, Attempts, Recorded

\* The next submission is a new one.
LEMMA NextNumber ==
  ASSUME Numbered
  PROVE  /\ Cardinality(DOMAIN body) \in Nat /\ Cardinality(DOMAIN body) + 1 \notin DOMAIN body
         /\ Cardinality(DOMAIN body) + 1 \in Attempts =>
              \E n \in 0..MaxAttempts : DOMAIN body \cup {Cardinality(DOMAIN body) + 1} = 1..n
<1>1. PICK n \in 0..MaxAttempts : DOMAIN body = 1..n
  BY DEF Numbered
<1>2. Cardinality(1..n) = n
  BY FS_Interval, <1>1
<1>3. (1..n) \cup {n + 1} = 1..(n + 1)
  BY <1>1
<1> QED BY <1>1, <1>2, <1>3 DEF Attempts

\* What the submitted attempts are.
LEMMA Fields ==
  ASSUME TypeOK, NEW a \in DOMAIN body
  PROVE  /\ a \in Attempts /\ body[a].key \in Keys /\ body[a].amount \in Amounts
         /\ body[a].date \in Dates \cup {None}
         /\ a \in DOMAIN phase /\ a \in DOMAIN stamp /\ a \in DOMAIN outcome
BY DEF TypeOK, Body

LEMMA PaidAmount ==
  \A a : PayloadOf(a).amount = body[a].amount /\ PayloadOf(a).stamp = stamp[a]
BY DEF PayloadOf

-----------------------------------------------------------------------------
(* Steps of an attempt that leave the others alone *)

\* An attempt moves on, and takes nobody's lock.
LEMMA MoveStep ==
  ASSUME RetryInv, NEW a \in DOMAIN body,
         UNCHANGED <<clock, body, current, told, records, ledger>>,
         phase' \in [DOMAIN body -> {"sent", "called", "locked", "missing", "ended", "lost"}],
         outcome' \in [DOMAIN body -> Recorded \cup {"mismatch", "failed", None}],
         stamp' \in [DOMAIN body -> Stamps \cup {None}],
         \A b \in DOMAIN body \ {a} :
           phase'[b] = phase[b] /\ outcome'[b] = outcome[b] /\ stamp'[b] = stamp[b],
         phase[a] # "ended",
         phase'[a] \in {"called", "locked", "missing"} => stamp'[a] \in Stamps,
         phase'[a] \in {"locked", "missing"} => \A b \in Holders(body[a].key) : b = a,
         phase'[a] = "missing" => body[a].key \notin DOMAIN records,
         outcome'[a] \in Recorded =>
           /\ phase'[a] = "ended" /\ body[a].key \in DOMAIN records
           /\ records[body[a].key] = PayloadOf(a) /\ stamp'[a] = stamp[a]
  PROVE  RetryInv'
<1>1. TypeOK'
  BY DEF RetryInv, TypeOK
<1>2. Numbered'
  BY DEF RetryInv, Numbered
<1>3. OneHolder'
  <2>1. \A k \in Keys : \A b \in DOMAIN body \ {a} : b \in Holders(k)' => b \in Holders(k)
    BY DEF Holders
  <2>2. \A k \in Keys : a \in Holders(k)' => k = body[a].key /\ phase'[a] \in {"locked", "missing"}
    BY DEF Holders
  <2>3. \A k \in Keys : Holders(k)' \subseteq DOMAIN body
    BY DEF Holders
  <2> QED BY <2>1, <2>2, <2>3 DEF RetryInv, OneHolder
<1>4. StillMissing'
  BY DEF RetryInv, StillMissing
<1>5. \A b \in ledger : b # a /\ b \in DOMAIN body
  BY DEF RetryInv, PostedIsRecorded
<1>6. \A b \in DOMAIN body : stamp'[b] = stamp[b] => PayloadOf(b)' = PayloadOf(b)
  BY DEF PayloadOf
<1>7. PostedIsRecorded'
  <2>1. \A k : Posted(k)' = Posted(k)
    BY DEF Posted
  <2> QED BY <1>5, <1>6, <2>1 DEF RetryInv, PostedIsRecorded
<1>8. ToldIsRecorded'
  BY <1>6 DEF RetryInv, ToldIsRecorded
<1> QED BY <1>1, <1>2, <1>3, <1>4, <1>7, <1>8 DEF RetryInv

\* The clock moves on, or a dialog learns of a payment that was recorded.
LEMMA FrameStep ==
  ASSUME RetryInv, TypeOK', UNCHANGED <<body, phase, stamp, outcome, records, ledger>>,
         \A k \in Keys : told'[k] # None => k \in DOMAIN records /\ told'[k] = records[k].amount
  PROVE  RetryInv'
<1>1. /\ \A k : Posted(k)' = Posted(k) /\ Holders(k)' = Holders(k)
      /\ \A b : PayloadOf(b)' = PayloadOf(b)
  BY DEF Posted, Holders, PayloadOf
<1>2. Numbered' /\ OneHolder' /\ StillMissing'
  BY <1>1 DEF RetryInv, Numbered, OneHolder, StillMissing
<1>3. PostedIsRecorded'
  BY <1>1 DEF RetryInv, PostedIsRecorded
<1>4. ToldIsRecorded'
  BY <1>1 DEF RetryInv, ToldIsRecorded
<1> QED BY <1>2, <1>3, <1>4 DEF RetryInv

-----------------------------------------------------------------------------
(* The inductive invariant *)

LEMMA InitRetry == Init => RetryInv
<1> SUFFICES ASSUME Init PROVE RetryInv
  OBVIOUS
<1>1. DOMAIN body = 1..0
  BY DEF Init
<1>2. Numbered
  BY <1>1 DEF Numbered
<1> QED BY <1>1, <1>2 DEF Init, RetryInv, TypeOK, OneHolder, Holders, StillMissing, PostedIsRecorded,
       ToldIsRecorded, Posted

LEMMA SubmitStep ==
  ASSUME RetryInv, NEW k \in Keys, NEW amount \in Amounts, NEW date \in Dates \cup {None},
         Submit(k, amount, date)
  PROVE  RetryInv'
<1> USE DEF RetryInv
<1> DEFINE a == Cardinality(DOMAIN body) + 1
<1>1. a \notin DOMAIN body /\ a \in Attempts
  BY NextNumber DEF Submit
<1>2. Numbered'
  <2>1. DOMAIN body' = DOMAIN body \cup {a}
    BY DEF Submit, Extended
  <2> QED BY <2>1, <1>1, NextNumber DEF Numbered
<1> HIDE DEF a
<1>3. /\ body' = Extended(body, a, [key |-> k, amount |-> amount, date |-> date])
      /\ phase' = Extended(phase, a, "sent") /\ stamp' = Extended(stamp, a, None)
      /\ outcome' = Extended(outcome, a, None) /\ current' = [current EXCEPT ![k] = a]
      /\ UNCHANGED <<clock, told, records, ledger>>
  BY DEF Submit, a
<1>4. /\ DOMAIN body' = DOMAIN body \cup {a}
      /\ \A b \in DOMAIN body : /\ body'[b] = body[b] /\ phase'[b] = phase[b]
                                /\ stamp'[b] = stamp[b] /\ outcome'[b] = outcome[b]
      /\ body'[a] = [key |-> k, amount |-> amount, date |-> date]
      /\ phase'[a] = "sent" /\ stamp'[a] = None /\ outcome'[a] = None
  BY <1>1, <1>3 DEF Extended, TypeOK
<1>5. TypeOK'
  <2>1. body'[a] \in Body
    BY <1>4 DEF Body
  <2>2. /\ phase' \in [DOMAIN body' -> {"sent", "called", "locked", "missing", "ended", "lost"}]
        /\ stamp' \in [DOMAIN body' -> Stamps \cup {None}]
        /\ outcome' \in [DOMAIN body' -> Recorded \cup {"mismatch", "failed", None}]
    BY <1>1, <1>3, <1>4 DEF TypeOK, Extended
  <2> QED BY <1>1, <1>3, <1>4, <2>1, <2>2 DEF TypeOK
<1>6. \A j : Holders(j)' = Holders(j)
  BY <1>1, <1>4 DEF Holders
<1>7. /\ \A j : Posted(j)' = Posted(j)
      /\ \A b \in DOMAIN body : PayloadOf(b)' = PayloadOf(b)
  BY <1>3, <1>4 DEF Posted, PayloadOf, PostedIsRecorded
<1>8. OneHolder' /\ StillMissing'
  BY <1>3, <1>4, <1>6 DEF OneHolder, StillMissing
<1>9. PostedIsRecorded'
  BY <1>3, <1>4, <1>7 DEF PostedIsRecorded
<1>10. ToldIsRecorded'
  BY <1>3, <1>4, <1>7, NotNone DEF ToldIsRecorded
<1> QED BY <1>2, <1>5, <1>8, <1>9, <1>10

LEMMA RecordStep ==
  ASSUME RetryInv, NEW a \in DOMAIN body, Record(a)
  PROVE  RetryInv'
<1> USE DEF RetryInv
<1> DEFINE k == body[a].key
<1>1. k \in Keys /\ body[a].amount \in Amounts /\ a \in Attempts /\ a \in DOMAIN phase /\ a \in DOMAIN outcome
  BY Fields
<1> HIDE DEF k
<1>2. /\ phase[a] = "missing" /\ k \notin DOMAIN records
      /\ ledger' = ledger \cup {a} /\ records' = Extended(records, k, PayloadOf(a))
      /\ phase' = [phase EXCEPT ![a] = "ended"] /\ outcome' = [outcome EXCEPT ![a] = "recorded"]
      /\ UNCHANGED <<clock, body, stamp, current, told>>
  BY DEF Record, End, k
<1>3. /\ DOMAIN records' = DOMAIN records \cup {k} /\ records'[k] = PayloadOf(a)
      /\ \A j \in DOMAIN records : records'[j] = records[j]
      /\ DOMAIN phase = DOMAIN body /\ DOMAIN outcome = DOMAIN body
      /\ phase'[a] = "ended" /\ outcome'[a] = "recorded"
      /\ \A b \in DOMAIN body \ {a} : phase'[b] = phase[b] /\ outcome'[b] = outcome[b]
      /\ \A b : PayloadOf(b)' = PayloadOf(b)
  BY <1>2 DEF Extended, TypeOK, PayloadOf
<1>4. stamp[a] \in Stamps
  BY <1>2 DEF TypeOK
<1>5. TypeOK'
  BY <1>1, <1>2, <1>3, <1>4 DEF TypeOK, PayloadOf, Payload, Recorded
<1>6. OneHolder'
  BY <1>2, <1>3 DEF OneHolder, Holders
<1>7. StillMissing'
  <2>1. ASSUME NEW b \in DOMAIN body, phase'[b] = "missing"
        PROVE  b # a /\ phase[b] = "missing" /\ body[b].key # k /\ body[b].key \notin DOMAIN records
    <3>1. b # a /\ phase[b] = "missing"
      BY <2>1, <1>3
    <3>2. body[b].key # k
      BY <3>1, <1>1, <1>2 DEF OneHolder, Holders, k
    <3> QED BY <3>1, <3>2 DEF StillMissing
  <2> QED BY <2>1, <1>2, <1>3 DEF StillMissing
<1>8. \A b \in ledger : b \in DOMAIN body /\ b # a /\ body[b].key \in DOMAIN records /\ body[b].key # k
  BY <1>2 DEF PostedIsRecorded
<1>9. PostedIsRecorded'
  <2>1. \A j \in DOMAIN records' : Posted(j)' # {}
    BY <1>2, <1>3 DEF PostedIsRecorded, Posted, k
  <2>2. \A b, c \in ledger' : body'[b].key = body'[c].key => b = c
    BY <1>2, <1>8 DEF PostedIsRecorded, k
  <2>3. \A b \in ledger' : /\ b \in DOMAIN body' /\ phase'[b] = "ended"
                           /\ body'[b].key \in DOMAIN records'
                           /\ records'[body'[b].key] = PayloadOf(b)'
    BY <1>2, <1>3, <1>8 DEF PostedIsRecorded, k
  <2> QED BY <2>1, <2>2, <2>3 DEF PostedIsRecorded
<1>10. ToldIsRecorded'
  <2>1. \A b \in DOMAIN body \ {a} : outcome'[b] \in Recorded =>
          /\ phase'[b] = "ended" /\ body[b].key \in DOMAIN records' /\ body[b].key # k
          /\ records'[body[b].key] = PayloadOf(b)'
    BY <1>2, <1>3 DEF ToldIsRecorded
  <2> QED BY <2>1, <1>2, <1>3 DEF ToldIsRecorded, k
<1> QED BY <1>2, <1>5, <1>6, <1>7, <1>9, <1>10 DEF Numbered

LEMMA RetryStep ==
  ASSUME RetryInv, [Next]_vars
  PROVE  RetryInv'
<1>f. ASSUME NEW a \in DOMAIN body
      PROVE  /\ phase[a] \in {"sent", "called", "locked", "missing", "ended", "lost"}
             /\ stamp[a] \in Stamps \cup {None}
             /\ outcome[a] \in Recorded \cup {"mismatch", "failed", None}
             /\ body[a].key \in Keys /\ body[a].amount \in Amounts /\ body[a].date \in Dates \cup {None}
             /\ outcome[a] \in Recorded => phase[a] = "ended"
  BY <1>f, Fields DEF RetryInv, TypeOK, ToldIsRecorded
<1>t. \A k \in Keys : told[k] # None => k \in DOMAIN records /\ told[k] = records[k].amount
  BY DEF RetryInv, ToldIsRecorded
<1>d. /\ DOMAIN phase = DOMAIN body /\ DOMAIN stamp = DOMAIN body /\ DOMAIN outcome = DOMAIN body
      /\ phase \in [DOMAIN body -> {"sent", "called", "locked", "missing", "ended", "lost"}]
      /\ stamp \in [DOMAIN body -> Stamps \cup {None}]
      /\ outcome \in [DOMAIN body -> Recorded \cup {"mismatch", "failed", None}]
      /\ \A a \in DOMAIN body : phase[a] \in {"called", "locked", "missing"} => stamp[a] \in Stamps
  BY DEF RetryInv, TypeOK
<1>1. CASE UNCHANGED vars
  <2>1. TypeOK'
    BY <1>1 DEF vars, RetryInv, TypeOK
  <2> QED BY <1>1, <1>t, <2>1, FrameStep DEF vars
<1>2. ASSUME NEW k \in Keys, NEW amount \in Amounts, NEW date \in Dates \cup {None},
             Submit(k, amount, date)
      PROVE  RetryInv'
  BY <1>2, SubmitStep
<1>3. ASSUME NEW k \in Keys, GiveUp(k)
      PROVE  RetryInv'
  <2>1. TypeOK'
    BY <1>3 DEF GiveUp, RetryInv, TypeOK
  <2> QED BY <1>3, <1>t, <2>1, FrameStep DEF GiveUp
<1>4. CASE Tick
  <2>1. TypeOK'
    BY <1>4 DEF Tick, RetryInv, TypeOK
  <2> QED BY <1>4, <1>t, <2>1, FrameStep DEF Tick
<1>5. ASSUME NEW a \in DOMAIN body, LoseRequest(a)
      PROVE  RetryInv'
  BY <1>5, <1>f, <1>d, MoveStep DEF LoseRequest
<1>6. ASSUME NEW a \in DOMAIN body, Route(a)
      PROVE  RetryInv'
  <2>1. /\ stamp'[a] \in Stamps /\ \A b \in DOMAIN body \ {a} : stamp'[b] = stamp[b]
        /\ stamp' \in [DOMAIN body -> Stamps \cup {None}]
    <3>1. clock \in Stamps
      BY DEF RetryInv, TypeOK, Stamps
    <3> QED BY <1>6, <1>f, <1>d, <3>1 DEF Route, Stamps
  <2>2. phase[a] = "sent" /\ phase' = [phase EXCEPT ![a] = "called"]
        /\ UNCHANGED <<clock, body, outcome, current, told, records, ledger>>
    BY <1>6 DEF Route
  <2> QED BY <1>f, <1>d, <2>1, <2>2, MoveStep
<1>7. ASSUME NEW a \in DOMAIN body, Lock(a) \/ CheckMissing(a)
      PROVE  RetryInv'
  <2>1. \A b \in Holders(body[a].key) : b = a
    BY <1>7, <1>f DEF Lock, CheckMissing, RetryInv, OneHolder, Holders
  <2>2. CASE Lock(a)
    BY <2>2, <1>f, <1>d, <2>1, MoveStep DEF Lock
  <2>3. CASE CheckMissing(a)
    BY <2>3, <1>f, <1>d, <2>1, MoveStep DEF CheckMissing
  <2> QED BY <1>7, <2>2, <2>3
<1>8. ASSUME NEW a \in DOMAIN body, NEW result \in {"failed", "mismatch", "replayed"}, End(a, result),
             phase[a] # "ended",
             UNCHANGED <<clock, body, stamp, current, told, records, ledger>>,
             result = "replayed" => body[a].key \in DOMAIN records /\ records[body[a].key] = PayloadOf(a)
      PROVE  RetryInv'
  <2>1. result \in Recorded \cup {"mismatch", "failed", None} /\ (result \in Recorded => result = "replayed")
    BY <1>8 DEF Recorded
  <2> QED BY <1>8, <1>d, <2>1, MoveStep DEF End
<1>9. ASSUME NEW a \in DOMAIN body, CheckFound(a)
      PROVE  RetryInv'
  <2>1. PICK result \in {"mismatch", "replayed"} :
          /\ End(a, result)
          /\ result = "replayed" => records[body[a].key] = PayloadOf(a)
    BY <1>9 DEF CheckFound
  <2> QED BY <1>9, <1>8, <2>1 DEF CheckFound
<1>10. ASSUME NEW a \in DOMAIN body, Abort(a)
       PROVE  RetryInv'
  BY <1>10, <1>8 DEF Abort
<1>11. ASSUME NEW a \in DOMAIN body, Receive(a)
       PROVE  RetryInv'
  <2> DEFINE k == body[a].key
  <2>1. /\ UNCHANGED <<clock, body, phase, stamp, outcome, records, ledger>>
        /\ current' = [current EXCEPT ![k] = None]
        /\ told' = IF outcome[a] \in Recorded THEN [told EXCEPT ![k] = body[a].amount] ELSE told
    BY <1>11 DEF Receive
  <2>2. TypeOK'
    BY <2>1, <1>f DEF RetryInv, TypeOK
  <2>3. outcome[a] \in Recorded => k \in DOMAIN records /\ records[k].amount = body[a].amount
    BY PaidAmount DEF RetryInv, ToldIsRecorded
  <2>4. \A j \in Keys : told'[j] # None => j \in DOMAIN records /\ told'[j] = records[j].amount
    BY <1>t, <2>1, <2>3 DEF RetryInv, TypeOK
  <2> QED BY <2>1, <2>2, <2>4, FrameStep
<1> QED BY <1>1, <1>2, <1>3, <1>4, <1>5, <1>6, <1>7, <1>9, <1>10, <1>11, RecordStep DEF Next

\* What the keys store, what the attempts answer and what the ledger has agree: the
\* advisory lock and the record written with the payment keep it so.
THEOREM RetryInvariant == Spec => []RetryInv
BY InitRetry, RetryStep, PTL DEF Spec

\* What the look-up saw stays true until its transaction has inserted the key.
THEOREM MissingStaysMissing == Spec => []StillMissing
<1>1. RetryInv => StillMissing
  BY DEF RetryInv
<1> QED BY <1>1, RetryInvariant, PTL

-----------------------------------------------------------------------------
(* Retries that carry their date *)

\* The route keeps the date that was entered.
DateKept ==
  \A a \in DOMAIN body : body[a].date # None /\ stamp[a] # None => stamp[a] = body[a].date

\* Who was refused found something else under its key.
RefusedDiffers ==
  \A a \in DOMAIN body : outcome[a] = "mismatch" =>
    /\ phase[a] = "ended" /\ stamp[a] \in Stamps
    /\ body[a].key \in DOMAIN records /\ records[body[a].key] # PayloadOf(a)

\* The inductive invariant behind DatedRetryReplays, beside RetryInv.
AnswersInv == DateKept /\ RefusedDiffers

\* An ended attempt keeps its stamp and its answer, and a key its record.
LEMMA EndedStays ==
  ASSUME RetryInv, [Next]_vars, NEW a \in DOMAIN body
  PROVE  /\ DOMAIN body \subseteq DOMAIN body' /\ body'[a] = body[a]
         /\ phase[a] # "sent" => stamp'[a] = stamp[a]
         /\ phase[a] = "sent" => stamp'[a] \in {stamp[a], IF body[a].date = None THEN clock ELSE body[a].date}
         /\ phase[a] = "ended" => phase'[a] = "ended" /\ outcome'[a] = outcome[a]
         /\ \A k \in DOMAIN records : k \in DOMAIN records' /\ records'[k] = records[k]
<1>t. /\ DOMAIN phase = DOMAIN body /\ DOMAIN stamp = DOMAIN body /\ DOMAIN outcome = DOMAIN body
  BY DEF RetryInv, TypeOK
<1>1. ASSUME NEW k \in Keys, NEW amount \in Amounts, NEW date \in Dates \cup {None},
             Submit(k, amount, date)
      PROVE  /\ DOMAIN body \subseteq DOMAIN body' /\ records' = records
             /\ body'[a] = body[a] /\ phase'[a] = phase[a]
             /\ stamp'[a] = stamp[a] /\ outcome'[a] = outcome[a]
  <2>1. Cardinality(DOMAIN body) + 1 \notin DOMAIN body
    BY NextNumber DEF RetryInv
  <2> QED BY <1>1, <1>t, <2>1 DEF Submit, Extended
<1>2. ASSUME NEW b \in DOMAIN body, LoseRequest(b) \/ Lock(b) \/ CheckMissing(b) \/ Receive(b)
      PROVE  /\ UNCHANGED <<body, stamp, outcome, records>>
             /\ phase[a] = "ended" => phase'[a] = "ended"
  BY <1>2, <1>t DEF LoseRequest, Lock, CheckMissing, Receive
<1>3. ASSUME NEW b \in DOMAIN body, CheckFound(b) \/ Abort(b)
      PROVE  /\ UNCHANGED <<body, stamp, records>>
             /\ phase[a] = "ended" => phase'[a] = "ended" /\ outcome'[a] = outcome[a]
  BY <1>3, <1>t DEF CheckFound, Abort, End
<1>4. ASSUME NEW b \in DOMAIN body, Record(b)
      PROVE  /\ UNCHANGED <<body, stamp>>
             /\ phase[a] = "ended" => phase'[a] = "ended" /\ outcome'[a] = outcome[a]
             /\ \A k \in DOMAIN records : k \in DOMAIN records' /\ records'[k] = records[k]
  BY <1>4, <1>t DEF Record, End, Extended
<1>5. ASSUME NEW b \in DOMAIN body, Route(b)
      PROVE  /\ UNCHANGED <<body, outcome, records>>
             /\ phase[a] = "ended" => phase'[a] = "ended"
             /\ phase[a] # "sent" => stamp'[a] = stamp[a]
             /\ stamp'[a] \in {stamp[a], IF body[a].date = None THEN clock ELSE body[a].date}
  BY <1>5, <1>t DEF Route
<1>6. UNCHANGED vars \/ Tick \/ (\E k \in Keys : GiveUp(k)) =>
        UNCHANGED <<body, phase, stamp, outcome, records>>
  BY DEF vars, Tick, GiveUp
<1> QED BY <1>1, <1>2, <1>3, <1>4, <1>5, <1>6 DEF Next

LEMMA InitAnswers == Init => AnswersInv
BY DEF Init, AnswersInv, DateKept, RefusedDiffers

\* What a step adds: a submission without stamp and answer, and answers.
LEMMA NewAnswer ==
  ASSUME RetryInv, [Next]_vars, NEW a \in DOMAIN body'
  PROVE  /\ a \notin DOMAIN body => stamp'[a] = None /\ outcome'[a] = None
         /\ a \in DOMAIN body /\ outcome'[a] = "mismatch" =>
              \/ outcome[a] = "mismatch"
              \/ /\ phase[a] = "locked" /\ body[a].key \in DOMAIN records
                 /\ records[body[a].key] # PayloadOf(a)
                 /\ phase'[a] = "ended" /\ UNCHANGED <<body, stamp, records>>
<1>t. /\ DOMAIN phase = DOMAIN body /\ DOMAIN stamp = DOMAIN body /\ DOMAIN outcome = DOMAIN body
  BY DEF RetryInv, TypeOK
<1>1. ASSUME NEW k \in Keys, NEW amount \in Amounts, NEW date \in Dates \cup {None},
             Submit(k, amount, date)
      PROVE  /\ a \notin DOMAIN body => stamp'[a] = None /\ outcome'[a] = None
             /\ a \in DOMAIN body => outcome'[a] = outcome[a]
  <2>1. Cardinality(DOMAIN body) + 1 \notin DOMAIN body
    BY NextNumber DEF RetryInv
  <2> QED BY <1>1, <1>t, <2>1 DEF Submit, Extended
<1>2. ASSUME NEW b \in DOMAIN body,
             LoseRequest(b) \/ Lock(b) \/ CheckMissing(b) \/ Receive(b) \/ Route(b)
      PROVE  UNCHANGED <<body, outcome>>
  BY <1>2 DEF LoseRequest, Lock, CheckMissing, Receive, Route
<1>3. ASSUME NEW b \in DOMAIN body, Abort(b) \/ Record(b)
      PROVE  body' = body /\ (outcome'[a] = "mismatch" => outcome[a] = "mismatch")
  BY <1>3, <1>t DEF Abort, Record, End
<1>4. ASSUME NEW b \in DOMAIN body, CheckFound(b)
      PROVE  /\ UNCHANGED <<body, stamp, records>>
             /\ outcome'[a] = "mismatch" =>
                  \/ outcome[a] = "mismatch"
                  \/ /\ phase[a] = "locked" /\ body[a].key \in DOMAIN records
                     /\ records[body[a].key] # PayloadOf(a)
                     /\ phase'[a] = "ended"
  BY <1>4, <1>t DEF CheckFound, End
<1>5. UNCHANGED vars \/ Tick \/ (\E k \in Keys : GiveUp(k)) => UNCHANGED <<body, outcome>>
  BY DEF vars, Tick, GiveUp
<1> QED BY <1>1, <1>2, <1>3, <1>4, <1>5 DEF Next

LEMMA AnswersStep ==
  ASSUME RetryInv, AnswersInv, [Next]_vars
  PROVE  AnswersInv'
<1>1. DateKept'
  <2> SUFFICES ASSUME NEW a \in DOMAIN body', body'[a].date # None, stamp'[a] # None
               PROVE  stamp'[a] = body'[a].date
    BY DEF DateKept
  <2>1. a \in DOMAIN body
    BY NewAnswer
  <2> QED BY <2>1, EndedStays DEF AnswersInv, DateKept
<1>2. RefusedDiffers'
  <2> SUFFICES ASSUME NEW a \in DOMAIN body', outcome'[a] = "mismatch"
               PROVE  /\ phase'[a] = "ended" /\ stamp'[a] \in Stamps
                      /\ body'[a].key \in DOMAIN records'
                      /\ records'[body'[a].key] # PayloadOf(a)'
    BY DEF RefusedDiffers
  <2>1. a \in DOMAIN body
    BY NewAnswer
  <2>2. CASE outcome[a] = "mismatch"
    <3>1. /\ phase[a] = "ended" /\ stamp[a] \in Stamps /\ body[a].key \in DOMAIN records
          /\ records[body[a].key] # PayloadOf(a)
      BY <2>1, <2>2 DEF AnswersInv, RefusedDiffers
    <3> QED BY <2>1, <3>1, EndedStays DEF PayloadOf
  <2>3. CASE outcome[a] # "mismatch"
    BY <2>1, <2>3, NewAnswer, Fields DEF PayloadOf, RetryInv, TypeOK
  <2> QED BY <2>2, <2>3
<1> QED BY <1>1, <1>2 DEF AnswersInv

\* A retry that carries its date is never refused once an attempt with the same
\* details was recorded: the route keeps the date, so both have one payload.
THEOREM DatedRetriesReplay == Spec => []DatedRetryReplays
<1>1. ASSUME RetryInv, AnswersInv
      PROVE  DatedRetryReplays
  <2> SUFFICES ASSUME NEW a \in DOMAIN body, NEW b \in DOMAIN body, body[a].date # None, Refused(a, b)
               PROVE  FALSE
    BY DEF DatedRetryReplays
  <2>1. body[a] = body[b] /\ outcome[a] \in Recorded /\ outcome[b] = "mismatch"
    BY DEF Refused
  <2>r. body[a].key \in DOMAIN records /\ records[body[a].key] = PayloadOf(a)
    BY <1>1, <2>1 DEF RetryInv, ToldIsRecorded
  <2>2. PayloadOf(a) \in Payload
    BY <1>1, <2>r DEF RetryInv, TypeOK
  <2>3. stamp[a] \in Stamps
    BY <2>2 DEF PayloadOf, Payload
  <2>d. /\ stamp[b] \in Stamps /\ records[body[b].key] # PayloadOf(b)
    BY <1>1, <2>1 DEF AnswersInv, RefusedDiffers
  <2>4. stamp[a] = body[a].date /\ stamp[b] = body[b].date
    BY <1>1, <2>1, <2>3, <2>d, NotNone DEF AnswersInv, DateKept
  <2>5. PayloadOf(a) = PayloadOf(b)
    BY <2>1, <2>4 DEF PayloadOf
  <2> QED BY <2>1, <2>r, <2>d, <2>5
<1>2. RetryInv /\ AnswersInv /\ [Next]_vars => AnswersInv'
  BY AnswersStep
<1> QED BY <1>1, <1>2, InitAnswers, RetryInvariant, PTL DEF Spec

-----------------------------------------------------------------------------
(* The refinement *)

\* The amount posted under each key, as PayOnce has it.
Amount == [k \in Keys |-> IF Posted(k) = {} THEN None
                          ELSE body[CHOOSE a \in Posted(k) : TRUE].amount]

Noted == [k \in Keys |-> IF k \in DOMAIN records THEN records[k].amount ELSE None]
AmountIsNoted == Amount = Noted

LEMMA AmountRecorded == RetryInv => AmountIsNoted
<1> SUFFICES ASSUME RetryInv PROVE Amount = Noted
  BY DEF AmountIsNoted
<1>1. ASSUME NEW k \in Keys
      PROVE  (IF Posted(k) = {} THEN None ELSE body[CHOOSE a \in Posted(k) : TRUE].amount)
               = IF k \in DOMAIN records THEN records[k].amount ELSE None
  <2>1. \A a \in Posted(k) : k \in DOMAIN records /\ records[k].amount = body[a].amount
    BY PaidAmount DEF RetryInv, PostedIsRecorded, Posted
  <2>2. k \in DOMAIN records => Posted(k) # {}
    BY DEF RetryInv, PostedIsRecorded
  <2>3. CASE Posted(k) = {}
    BY <2>2, <2>3
  <2>4. CASE Posted(k) # {}
    <3>1. (CHOOSE a \in Posted(k) : TRUE) \in Posted(k)
      BY <2>4
    <3> QED BY <2>1, <2>4, <3>1
  <2> QED BY <2>3, <2>4
<1> QED BY <1>1 DEF Amount, Noted

LEMMA PostsOne ==
  ASSUME RetryInv, NEW k \in Keys
  PROVE  Cardinality(Posted(k)) <= 1
<1>1. \A a, b \in Posted(k) : a = b
  BY DEF RetryInv, PostedIsRecorded, Posted
<1>2. CASE Posted(k) = {}
  BY <1>2, FS_EmptySet
<1>3. CASE \E a : Posted(k) = {a}
  <2>1. PICK a : Posted(k) = {a}
    BY <1>3
  <2>2. Cardinality({a}) = 1
    BY FS_Singleton
  <2> QED BY <2>1, <2>2
<1> QED BY <1>1, <1>2, <1>3

LEMMA ImplementsInit == Init => PayOnce!Init
BY DEF Init, PayOnce!Init, Posted

LEMMA ImplementsStep ==
  ASSUME RetryInv, RetryInv', [Next]_vars
  PROVE  PayOnce!Next \/ UNCHANGED <<Amount, told>>
<1>1. /\ Amount = [k \in Keys |-> IF k \in DOMAIN records THEN records[k].amount ELSE None]
      /\ Amount' = [k \in Keys |-> IF k \in DOMAIN records' THEN records'[k].amount ELSE None]
  <2>1. AmountIsNoted /\ AmountIsNoted'
    BY AmountRecorded, PTL
  <2> QED BY <2>1 DEF AmountIsNoted, Noted
<1>2. ASSUME NEW a \in DOMAIN body, Record(a)
      PROVE  PayOnce!Next
  <2> DEFINE k == body[a].key
  <2>1. k \in Keys /\ body[a].amount \in Amounts
    BY Fields DEF RetryInv
  <2>2. /\ k \notin DOMAIN records /\ DOMAIN records' = DOMAIN records \cup {k}
        /\ records'[k].amount = body[a].amount /\ \A j \in DOMAIN records : records'[j] = records[j]
        /\ told' = told
    BY <1>2 DEF Record, Extended, PayloadOf
  <2>3. Amount[k] = None /\ Amount' = [Amount EXCEPT ![k] = body[a].amount]
    BY <1>1, <2>1, <2>2
  <2>4. PayOnce!Post(k, body[a].amount)
    BY <2>2, <2>3 DEF PayOnce!Post, Amount
  <2> QED BY <2>1, <2>4 DEF PayOnce!Next
<1>3. ASSUME NEW a \in DOMAIN body, Receive(a), outcome[a] \in Recorded
      PROVE  PayOnce!Next
  <2> DEFINE k == body[a].key
  <2>1. k \in Keys /\ body[a].amount \in Amounts
    BY Fields DEF RetryInv
  <2>2. k \in DOMAIN records /\ records[k].amount = body[a].amount
    BY <1>3, PaidAmount DEF RetryInv, ToldIsRecorded
  <2>3. records' = records /\ told' = [told EXCEPT ![k] = body[a].amount]
    BY <1>3 DEF Receive
  <2>4. Amount' = Amount /\ Amount[k] = body[a].amount /\ Amount[k] # None
    BY <1>1, <2>1, <2>2, <2>3, NotNone
  <2>5. PayOnce!Tell(k)
    BY <2>3, <2>4 DEF PayOnce!Tell, Amount
  <2> QED BY <2>1, <2>5 DEF PayOnce!Next
<1>4. UNCHANGED <<records, told>> => UNCHANGED <<Amount, told>>
  BY <1>1
<1>5. CASE UNCHANGED <<records, told>>
  BY <1>4, <1>5
<1>6. CASE \E a \in DOMAIN body : Record(a) \/ (Receive(a) /\ outcome[a] \in Recorded)
  BY <1>2, <1>3, <1>6
<1>7. UNCHANGED <<records, told>>
      \/ (\E a \in DOMAIN body : Record(a) \/ (Receive(a) /\ outcome[a] \in Recorded))
  BY DEF Next, vars, Submit, GiveUp, LoseRequest, Route, Lock, CheckFound, CheckMissing, Abort, Receive, Tick
<1> QED BY <1>5, <1>6, <1>7

\* The protocol implements LmsPayOnce: under every key at most one payment is posted,
\* and a clerk is told of that one, whatever is retried, lost, aborted or concurrent.
THEOREM ImplementsPayOnce == Spec => PaysOnce
<1>1. RetryInv => \A k \in Keys : Cardinality(Posted(k)) <= 1
  BY PostsOne
<1>2. RetryInv /\ RetryInv' /\ [Next]_vars => [PayOnce!Next]_<<Amount, told>>
  BY ImplementsStep
<1> QED BY <1>1, <1>2, ImplementsInit, RetryInvariant, PTL DEF Spec, PaysOnce, PayOnce!Spec, Amount
=============================================================================
