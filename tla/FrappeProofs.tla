----------------------------- MODULE FrappeProofs -----------------------------
(***************************************************************************)
(* For any number of events, writers and dispatchers, an event is sent by  *)
(* one dispatcher at a time, and its row tells what has happened to it;    *)
(* and for any number of documents and jobs, pulls miss no more than they  *)
(* must.                                                                   *)
(***************************************************************************)
EXTENDS FrappeOutbox, FrappeInbox, SequenceTheorems, FiniteSetTheorems, TLAPS

USE OutboxConstants

LEMMA Capped ==
  \A n \in Nat : AtMost(n) \in 0..MaxRetries /\ AtMost(n) <= n /\ (n <= MaxRetries => AtMost(n) = n)
BY DEF AtMost

\* A dispatcher at work has a fetched row.
LEMMA WorkFields ==
  ASSUME TypeOK, NEW d \in Dispatchers, work[d] # Idle
  PROVE  /\ work[d] \in WorkRecord
         /\ work[d].key \in Keys /\ work[d].payload \in Payloads /\ work[d].attempts \in 0..MaxRetries
         /\ work[d].at \in {"reserving"} \cup Posting
<1>1. work[d] \in {Idle} \cup WorkRecord
  BY DEF TypeOK
<1> QED BY <1>1 DEF WorkRecord

LEMMA IdleAt == Idle.at = "idle" /\ "idle" \notin {"reserving"} \cup Posting
BY DEF Idle, Posting

-----------------------------------------------------------------------------
(* Types *)

LEMMA RowTyped ==
  ASSUME NEW row \in Row
  PROVE  /\ row.attempts \in 0..MaxRetries /\ row.payload \in Payloads
         /\ \A s \in {"pending", "processing", "processed", "dead_letter"}, n \in 0..MaxRetries :
              /\ [row EXCEPT !.status = s] \in Row
              /\ [row EXCEPT !.status = s, !.attempts = n] \in Row
              /\ [row EXCEPT !.attempts = n, !.status = s] \in Row
BY DEF Row

LEMMA RowNoted ==
  ASSUME NEW row \in Row, NEW s, NEW n
  PROVE  /\ [row EXCEPT !.status = s, !.attempts = n].status = s
         /\ [row EXCEPT !.status = s, !.attempts = n].attempts = n
         /\ [row EXCEPT !.attempts = n, !.status = s].status = s
         /\ [row EXCEPT !.attempts = n, !.status = s].attempts = n
BY DEF Row

LEMMA OutboxWith ==
  ASSUME OutboxTyped, NEW k \in Keys, NEW row \in Row, outbox' = With(outbox, k, row)
  PROVE  OutboxTyped'
BY DEF OutboxTyped, With

LEMMA ReceivedWith ==
  ASSUME ReceivedTyped, NEW k \in Keys, NEW p \in Payloads,
         received' \in {received, With(received, k, p)}
  PROVE  ReceivedTyped'
BY DEF ReceivedTyped, With

LEMMA OutboxSet ==
  ASSUME OutboxTyped, NEW k \in DOMAIN outbox, NEW row \in Row,
         outbox' = [outbox EXCEPT ![k] = row]
  PROVE  OutboxTyped'
BY DEF OutboxTyped

LEMMA AllOrNot == \A payload : WithAll(payload) \in BOOLEAN
BY ZenonT(30) DEF WithAll

LEMMA TypesStep ==
  ASSUME TypeOK, RowsHeld, [Next]_vars
  PROVE  TypeOK'
<1>1. CASE UNCHANGED vars
  BY <1>1 DEF TypeOK, vars, OutboxTyped, ReceivedTyped
<1>2. ASSUME NEW e \in Events, EnqueueEvent(e)
      PROVE  TypeOK'
  <2>1. [status |-> "pending", attempts |-> 0, payload |-> {}] \in Row
    BY DEF Row, Payloads
  <2>2. OutboxTyped'
    BY <1>2, <2>1, OutboxWith DEF EnqueueEvent, TypeOK, Keys
  <2> QED BY <1>2, <2>2 DEF EnqueueEvent, TypeOK, ReceivedTyped
<1>3. ASSUME NEW w \in Writers \cup {Cron}, Queueing(w) \/ StartCron \/ \E p \in Punches : Punch(w, p)
      PROVE  TypeOK'
  <2>1. queue[w].at = "queueing" => queue[w].payload \in Payloads
    BY DEF TypeOK, QueueRecord, Idle
  <2>2. CASE QueueSummary(w)
    <3>1. Summary \in DOMAIN outbox => outbox[Summary].attempts \in 0..MaxRetries
      BY DEF TypeOK, OutboxTyped, Row
    <3>2. PICK n \in 0..MaxRetries :
            outbox' = With(outbox, Summary, [status |-> "pending", attempts |-> n, payload |-> queue[w].payload])
      BY <2>2, <3>1 DEF QueueSummary
    <3>3. [status |-> "pending", attempts |-> n, payload |-> queue[w].payload] \in Row
      BY <2>1, <2>2 DEF Row, QueueSummary
    <3>4. OutboxTyped'
      BY <3>2, <3>3, OutboxWith DEF TypeOK, Keys
    <3>5. PICK q \in BOOLEAN : requeued' = q
      BY <2>2, AllOrNot DEF QueueSummary
    <3> QED BY <2>2, <3>4, <3>5 DEF QueueSummary, TypeOK, ReceivedTyped
  <2>3. CASE ListPunches(w)
    <3>1. [at |-> "queueing", payload |-> punched] \in QueueRecord
      BY DEF TypeOK, QueueRecord, Payloads
    <3> QED BY <2>3, <3>1 DEF ListPunches, TypeOK, OutboxTyped, ReceivedTyped
  <2>4. CASE DieQueueing(w)
    BY <2>4 DEF DieQueueing, TypeOK, OutboxTyped, ReceivedTyped
  <2>5. [at |-> "listing"] \in QueueRecord
    BY DEF QueueRecord
  <2>6. CASE StartCron
    BY <2>5, <2>6 DEF StartCron, TypeOK, OutboxTyped, ReceivedTyped
  <2>7. CASE \E p \in Punches : Punch(w, p)
    BY <2>5, <2>7 DEF Punch, TypeOK, OutboxTyped, ReceivedTyped
  <2> QED BY <1>3, <2>2, <2>3, <2>4, <2>6, <2>7 DEF Queueing
<1>4. ASSUME NEW d \in Dispatchers, NEW k \in Keys, Fetch(d, k)
      PROVE  TypeOK'
  <2>1. outbox[k] \in Row
    BY <1>4 DEF Fetch, TypeOK, OutboxTyped
  <2>2. [at |-> "reserving", key |-> k, attempts |-> outbox[k].attempts, payload |-> outbox[k].payload]
          \in WorkRecord
    BY <2>1, RowTyped DEF WorkRecord
  <2> QED BY <1>4, <2>2 DEF Fetch, TypeOK, OutboxTyped, ReceivedTyped
<1>5. ASSUME NEW d \in Dispatchers, Processes(d)
      PROVE  TypeOK'
  <2> DEFINE Works == {Idle} \cup WorkRecord
  <2>1. work[d] # Idle
    BY <1>5, IdleAt DEF Processes, Reserve, Post, FailPost, MarkProcessed, MarkFailed, DieDispatching, Posting
  <2>2. work[d] \in WorkRecord /\ work[d].key \in Keys /\ work[d].payload \in Payloads
        /\ work[d].attempts \in 0..MaxRetries
    BY <2>1, WorkFields
  <2>3. \A at \in {"reserving"} \cup Posting : [work[d] EXCEPT !.at = at] \in WorkRecord
    BY <2>2 DEF WorkRecord
  <2>4. \A at \in Posting : Goes(d, at) => work' \in [Dispatchers -> Works]
    BY <2>3 DEF Goes, TypeOK
  <2>5. Ends(d) => work' \in [Dispatchers -> Works]
    BY DEF Ends, TypeOK
  <2>6. work[d].key \in DOMAIN outbox /\ outbox[work[d].key] \in Row
    BY <2>1 DEF RowsHeld, TypeOK, OutboxTyped
  <2>7. AtMost(work[d].attempts + 1) \in 0..MaxRetries
    BY <2>2, Capped
  <2>8. CASE Reserve(d)
    <3>1. CASE outbox' = [outbox EXCEPT ![work[d].key].status = "processing"]
      <4>1. PICK row \in Row : outbox' = [outbox EXCEPT ![work[d].key] = row]
        BY <2>6, <3>1, RowTyped
      <4> QED BY <4>1, <2>6, <2>4, <2>5, <2>8, OutboxSet DEF Reserve, TypeOK, Posting, ReceivedTyped
    <3>2. CASE UNCHANGED outbox
      BY <2>4, <2>5, <2>8, <3>2 DEF Reserve, TypeOK, OutboxTyped, Posting, ReceivedTyped
    <3> QED BY <2>8, <3>1, <3>2 DEF Reserve
  <2>9. CASE Post(d)
    <3>1. ReceivedTyped'
      BY <2>9, <2>2, ReceivedWith DEF Post, TypeOK
    <3> QED BY <2>9, <3>1, <2>4 DEF Post, TypeOK, OutboxTyped, Posting
  <2>10. CASE FailPost(d)
    <3>1. ReceivedTyped'
      BY <2>10, <2>2, ReceivedWith DEF FailPost, TypeOK
    <3>2. failures' \in [Events -> 0..MaxRetries]
      BY <2>10, Capped DEF FailPost, TypeOK
    <3> QED BY <2>10, <3>1, <3>2, <2>4 DEF FailPost, TypeOK, OutboxTyped, Posting
  <2>11. CASE MarkProcessed(d)
    <3>1. PICK row \in Row : outbox' = [outbox EXCEPT ![work[d].key] = row]
      BY <2>6, <2>7, <2>11, RowTyped DEF MarkProcessed
    <3> QED BY <2>11, <3>1, <2>5, <2>6, OutboxSet DEF MarkProcessed, TypeOK, ReceivedTyped
  <2>12. CASE MarkFailed(d)
    <3>1. PICK row \in Row : outbox' = [outbox EXCEPT ![work[d].key] = row]
      BY <2>6, <2>7, <2>12, RowTyped DEF MarkFailed
    <3> QED BY <2>12, <3>1, <2>5, <2>6, OutboxSet DEF MarkFailed, TypeOK, ReceivedTyped
  <2>13. CASE DieDispatching(d)
    BY <2>13, <2>5 DEF DieDispatching, TypeOK, OutboxTyped, ReceivedTyped
  <2> QED BY <1>5, <2>8, <2>9, <2>10, <2>11, <2>12, <2>13 DEF Processes
<1> QED BY <1>1, <1>2, <1>3, <1>4, <1>5 DEF Next, Runs

-----------------------------------------------------------------------------
(* What rows and dispatchers tell *)

\* Queueing touches no event but to insert it.
LEMMA QueueStep ==
  ASSUME OutboxInv,
         UNCHANGED <<received, work, failures>>,
         DOMAIN outbox \subseteq DOMAIN outbox',
         \A e \in Events \cap DOMAIN outbox : outbox'[e] = outbox[e],
         \A e \in Events \cap DOMAIN outbox' :
           e \notin DOMAIN outbox => outbox'[e].status = "pending" /\ outbox'[e].attempts = 0
  PROVE  RowsHeld' /\ NotesTruthful' /\ AttemptsFailed' /\ EventHeldOnce' /\ EventsTruthful'
<1> USE DEF OutboxInv
<1>1. RowsHeld'
  <2>1. ASSUME NEW d \in Dispatchers, NEW e \in Events, Holds(d, e)
        PROVE  e \in DOMAIN outbox
    BY <2>1, IdleAt DEF RowsHeld, Holds
  <2> QED BY <2>1 DEF RowsHeld, Holds
<1>2. NotesTruthful' /\ EventHeldOnce'
  BY DEF NotesTruthful, EventHeldOnce, Of, Holds
<1>3. \A e \in Events : failures[e] \in Nat
  BY DEF TypeOK
<1>4. AttemptsFailed'
  BY <1>3 DEF AttemptsFailed
<1>5. EventsTruthful'
  BY DEF EventsTruthful
<1> QED BY <1>1, <1>2, <1>4, <1>5

\* A step of a dispatcher on an event's row, or on the row of a summary.
LEMMA ProcessStep ==
  ASSUME OutboxInv, NEW d \in Dispatchers, Processes(d) \/ \E k \in Keys : Fetch(d, k)
  PROVE  RowsHeld' /\ NotesTruthful' /\ AttemptsFailed' /\ EventHeldOnce' /\ EventsTruthful'
<1> USE DEF OutboxInv
<1> DEFINE key == work[d].key
           attempts == AtMost(work[d].attempts + 1)
<1>t. /\ \A e \in Events : failures[e] \in 0..MaxRetries
      /\ \A k \in DOMAIN outbox : outbox[k].attempts \in 0..MaxRetries
  BY DEF TypeOK, OutboxTyped, Row
<1>w. DOMAIN work = Dispatchers /\ work \in [Dispatchers -> {Idle} \cup WorkRecord]
  BY DEF TypeOK
<1>1. ASSUME NEW k \in Keys, Fetch(d, k)
      PROVE  RowsHeld' /\ NotesTruthful' /\ AttemptsFailed' /\ EventHeldOnce' /\ EventsTruthful'
  <2>1. /\ k \in DOMAIN outbox /\ outbox[k].status = "pending"
        /\ UNCHANGED <<outbox, received, failures>>
        /\ work'[d].at = "reserving" /\ work'[d].key = k /\ work'[d].attempts = outbox[k].attempts
        /\ \A g \in Dispatchers \ {d} : work'[g] = work[g]
    BY <1>1, <1>w DEF Fetch
  <2>2. \A g \in Dispatchers, e \in Events : Holds(g, e)' => g # d /\ Holds(g, e)
    BY <2>1 DEF Holds, Posting
  <2>3. RowsHeld'
    BY <2>1, <2>2 DEF RowsHeld
  <2>4. NotesTruthful'
    BY <2>1, <1>t DEF NotesTruthful, Of, AttemptsFailed
  <2> QED BY <2>1, <2>2, <2>3, <2>4 DEF AttemptsFailed, EventHeldOnce, EventsTruthful
<1>2. ASSUME Processes(d)
      PROVE  RowsHeld' /\ NotesTruthful' /\ AttemptsFailed' /\ EventHeldOnce' /\ EventsTruthful'
  <2>0. work[d] # Idle
    BY <1>2, IdleAt DEF Processes, Reserve, Post, FailPost, MarkProcessed, MarkFailed, DieDispatching, Posting
  <2>f. /\ key \in DOMAIN outbox /\ key \in Keys /\ work[d].attempts \in 0..MaxRetries
        /\ attempts \in 0..MaxRetries /\ work[d] \in WorkRecord
    BY <2>0, WorkFields, Capped DEF RowsHeld
  <2> HIDE DEF key, attempts
  <2>e. ASSUME Ends(d)
        PROVE  work'[d] = Idle /\ \A g \in Dispatchers \ {d} : work'[g] = work[g]
    BY <2>e, <1>w DEF Ends
  <2>g. ASSUME NEW at, Goes(d, at)
        PROVE  /\ work'[d].at = at /\ work'[d].key = key /\ work'[d].attempts = work[d].attempts
               /\ \A g \in Dispatchers \ {d} : work'[g] = work[g]
    BY <2>g, <1>w, <2>f DEF Goes, WorkRecord, key
  <2>1. CASE DieDispatching(d)
    <3>1. UNCHANGED <<outbox, received, failures>> /\ work'[d] = Idle
          /\ \A g \in Dispatchers \ {d} : work'[g] = work[g]
      BY <2>1, <2>e DEF DieDispatching
    <3>2. \A g \in Dispatchers, e \in Events : Holds(g, e)' => g # d /\ Holds(g, e)
      BY <3>1, IdleAt DEF Holds
    <3>3. RowsHeld'
      BY <3>1, <3>2 DEF RowsHeld
    <3>4. NotesTruthful'
      BY <3>1 DEF NotesTruthful, Of
    <3> QED BY <3>1, <3>2, <3>3, <3>4 DEF AttemptsFailed, EventHeldOnce, EventsTruthful
  <2>2. CASE Reserve(d) /\ ~Reservable(outbox[key])
    <3>1. UNCHANGED <<outbox, received, failures>> /\ work'[d] = Idle
          /\ \A g \in Dispatchers \ {d} : work'[g] = work[g]
      BY <2>2, <2>e DEF Reserve, key
    <3>2. \A g \in Dispatchers, e \in Events : Holds(g, e)' => g # d /\ Holds(g, e)
      BY <3>1, IdleAt DEF Holds
    <3>3. RowsHeld'
      BY <3>1, <3>2 DEF RowsHeld
    <3>4. NotesTruthful'
      BY <3>1 DEF NotesTruthful, Of
    <3> QED BY <3>1, <3>2, <3>3, <3>4 DEF AttemptsFailed, EventHeldOnce, EventsTruthful
  <2>3. CASE Reserve(d) /\ Reservable(outbox[key])
    <3>1. /\ outbox' = [outbox EXCEPT ![key].status = "processing"]
          /\ outbox[key].status = "pending" /\ Goes(d, "posting") /\ UNCHANGED <<received, failures>>
      BY <2>3 DEF Reserve, Reservable, key
    <3>2. /\ work'[d].at = "posting" /\ work'[d].key = key /\ work'[d].attempts = work[d].attempts
          /\ \A g \in Dispatchers \ {d} : work'[g] = work[g]
      BY <3>1, <2>g
    <3>3. /\ DOMAIN outbox' = DOMAIN outbox /\ outbox[key] \in Row
          /\ outbox'[key].status = "processing" /\ outbox'[key].attempts = outbox[key].attempts
          /\ \A k \in DOMAIN outbox \ {key} : outbox'[k] = outbox[k]
      BY <3>1, <2>f DEF TypeOK, OutboxTyped, Row
    <3>4. \A g \in Dispatchers, e \in Events : Holds(g, e) => e # key
      BY <3>1 DEF RowsHeld
    <3>5. \A g \in Dispatchers, e \in Events : Holds(g, e)' =>
            (g = d /\ e = key) \/ (g # d /\ Holds(g, e))
      BY <3>2 DEF Holds
    <3>6. EventHeldOnce'
      BY <3>4, <3>5 DEF EventHeldOnce
    <3>7. \A g \in Dispatchers, e \in Events : Holds(g, e) => e \in DOMAIN outbox
      BY IdleAt DEF RowsHeld, Holds
    <3>8. RowsHeld'
      <4>1. ASSUME NEW g \in Dispatchers
            PROVE  work'[g] # Idle => work'[g].key \in DOMAIN outbox
        BY <3>2, <2>f DEF RowsHeld
      <4>2. ASSUME NEW g \in Dispatchers, NEW e \in Events, Holds(g, e)'
            PROVE  outbox'[e].status = "processing"
        BY <4>2, <3>3, <3>4, <3>5, <3>7 DEF RowsHeld
      <4> QED BY <4>1, <4>2, <3>3 DEF RowsHeld
    <3>9. NotesTruthful'
      <4>1. \A e \in Events : Of(d, e)' => Of(d, e)
        BY <3>2, <2>0 DEF Of, key
      <4>2. \A g \in Dispatchers \ {d}, e \in Events : Of(g, e)' => Of(g, e)
        BY <3>2 DEF Of
      <4> QED BY <4>1, <4>2, <3>1, <3>2 DEF NotesTruthful
    <3>10. AttemptsFailed' /\ EventsTruthful'
      BY <3>1, <3>3 DEF AttemptsFailed, EventsTruthful
    <3> QED BY <3>6, <3>8, <3>9, <3>10
  <2>4. CASE Post(d)
    <3>1. /\ work[d].at = "posting" /\ received' = With(received, key, work[d].payload)
          /\ Goes(d, "succeeded") /\ UNCHANGED <<outbox, failures>>
      BY <2>4 DEF Post, key
    <3>2. /\ work'[d].at = "succeeded" /\ work'[d].key = key /\ work'[d].attempts = work[d].attempts
          /\ \A g \in Dispatchers \ {d} : work'[g] = work[g]
      BY <3>1, <2>g
    <3>3. DOMAIN received' = DOMAIN received \cup {key}
      BY <3>1 DEF With
    <3>4. \A g \in Dispatchers, e \in Events : Holds(g, e)' => Holds(g, e)
      BY <3>1, <3>2 DEF Holds, Posting, key
    <3>5. RowsHeld'
      BY <3>1, <3>2, <3>4, <2>f DEF RowsHeld
    <3>6. \A g \in Dispatchers, e \in Events : Of(g, e)' => Of(g, e) /\ (g = d => e = key)
      BY <3>2, <2>0 DEF Of, key
    <3>7. NotesTruthful'
      BY <3>1, <3>2, <3>3, <3>6 DEF NotesTruthful
    <3> QED BY <3>1, <3>3, <3>4, <3>5, <3>7 DEF EventHeldOnce, AttemptsFailed, EventsTruthful
  <2>5. CASE FailPost(d)
    <3>1. /\ work[d].at = "posting" /\ received' \in {received, With(received, key, work[d].payload)}
          /\ failures' = [e \in Events |-> IF e = key THEN AtMost(failures[e] + 1) ELSE failures[e]]
          /\ Goes(d, "failed") /\ UNCHANGED outbox
      BY <2>5 DEF FailPost, key
    <3>2. /\ work'[d].at = "failed" /\ work'[d].key = key /\ work'[d].attempts = work[d].attempts
          /\ \A g \in Dispatchers \ {d} : work'[g] = work[g]
      BY <3>1, <2>g
    <3>3. DOMAIN received \subseteq DOMAIN received'
      BY <3>1 DEF With
    <3>4. \A g \in Dispatchers, e \in Events : Holds(g, e)' => Holds(g, e)
      BY <3>1, <3>2 DEF Holds, Posting, key
    <3>5. RowsHeld'
      BY <3>1, <3>2, <3>4, <2>f DEF RowsHeld
    <3>6. \A g \in Dispatchers, e \in Events : Of(g, e)' => Of(g, e) /\ (g = d => e = key)
      BY <3>2, <2>0 DEF Of, key
    <3>7. \A e \in Events :
            /\ failures'[e] \in 0..MaxRetries /\ failures[e] <= failures'[e]
            /\ e = key => failures'[e] = AtMost(failures[e] + 1)
      BY <3>1, <1>t DEF AtMost
    <3>8. NotesTruthful'
      <4> SUFFICES ASSUME NEW g \in Dispatchers, NEW e \in Events, Of(g, e)'
                   PROVE  /\ work'[g].at = "succeeded" => e \in DOMAIN received'
                          /\ work'[g].attempts <= failures'[e]
                          /\ work'[g].at = "failed" => AtMost(work'[g].attempts + 1) <= failures'[e]
        BY DEF NotesTruthful
      <4>1. Of(g, e) /\ (g = d => e = key)
        BY <3>6
      <4>2. work[g].attempts \in 0..MaxRetries /\ work'[g].attempts = work[g].attempts
        BY <4>1, <3>2, WorkFields DEF Of
      <4>3. work[g].attempts <= failures[e]
        BY <4>1 DEF NotesTruthful
      <4>4. work'[g].attempts <= failures'[e]
        BY <4>2, <4>3, <3>7, <1>t
      <4>5. CASE g = d
        <5>1. failures'[e] = AtMost(failures[e] + 1)
          BY <4>1, <4>5, <3>7
        <5>2. AtMost(work[g].attempts + 1) <= AtMost(failures[e] + 1)
          BY <4>2, <4>3, <1>t DEF AtMost
        <5> QED BY <4>2, <4>4, <4>5, <5>1, <5>2, <3>2
      <4>6. CASE g # d
        <5>1. work'[g] = work[g]
          BY <4>6, <3>2
        <5>2. work[g].at = "failed" => AtMost(work[g].attempts + 1) <= failures[e]
          BY <4>1 DEF NotesTruthful
        <5>3. AtMost(work[g].attempts + 1) \in Nat
          BY <4>2, Capped
        <5> QED BY <4>1, <4>4, <5>1, <5>2, <5>3, <3>3, <3>7, <1>t DEF NotesTruthful
      <4> QED BY <4>5, <4>6
    <3>9. AttemptsFailed'
      BY <3>1, <3>7, <1>t DEF AttemptsFailed
    <3>10. EventsTruthful'
      BY <3>1, <3>3, <3>7, <1>t DEF EventsTruthful
    <3> QED BY <3>4, <3>5, <3>8, <3>9, <3>10 DEF EventHeldOnce
  <2>6. CASE MarkProcessed(d) \/ MarkFailed(d)
    <3>1. /\ Ends(d) /\ UNCHANGED <<received, failures>> /\ work[d].at \in {"succeeded", "failed"}
      BY <2>6 DEF MarkProcessed, MarkFailed
    <3>2. work'[d] = Idle /\ \A g \in Dispatchers \ {d} : work'[g] = work[g]
      BY <3>1, <2>e
    <3>3. outbox[key] \in Row
      BY <2>f DEF TypeOK, OutboxTyped
    <3>4. /\ DOMAIN outbox' = DOMAIN outbox
          /\ \A k \in DOMAIN outbox \ {key} : outbox'[k] = outbox[k]
          /\ outbox'[key].attempts = attempts
          /\ MarkProcessed(d) => outbox'[key].status = "processed"
          /\ MarkFailed(d) => outbox'[key].status = IF Exhausted(attempts) THEN "dead_letter" ELSE "pending"
      <4>1. PICK row : /\ outbox' = [outbox EXCEPT ![key] = row] /\ row.attempts = attempts
                       /\ MarkProcessed(d) => row.status = "processed"
                       /\ MarkFailed(d) => row.status = IF Exhausted(attempts) THEN "dead_letter" ELSE "pending"
        <5>1. MarkProcessed(d) => ~MarkFailed(d)
          BY DEF MarkProcessed, MarkFailed
        <5>2. CASE MarkProcessed(d)
          <6> DEFINE noted == [outbox[key] EXCEPT !.status = "processed", !.attempts = attempts]
          <6>1. outbox' = [outbox EXCEPT ![key] = noted]
            BY <5>2 DEF MarkProcessed, key, attempts
          <6>2. noted.status = "processed" /\ noted.attempts = attempts
            BY <3>3, RowNoted
          <6> HIDE DEF noted
          <6> QED BY <6>1, <6>2, <5>1, <5>2
        <5>3. CASE MarkFailed(d)
          <6> DEFINE status == IF Exhausted(attempts) THEN "dead_letter" ELSE "pending"
          <6> DEFINE noted == [outbox[key] EXCEPT !.attempts = attempts, !.status = status]
          <6>1. outbox' = [outbox EXCEPT ![key] = noted]
            BY <5>3 DEF MarkFailed, key, attempts
          <6>2. noted.status = status /\ noted.attempts = attempts
            BY <3>3, RowNoted
          <6> HIDE DEF noted
          <6> QED BY <6>1, <6>2, <5>1, <5>3
        <5> QED BY <2>6, <5>2, <5>3
      <4> QED BY <4>1, <2>f DEF TypeOK, OutboxTyped
    <3>5. Holds(d, key)
      BY <3>1 DEF Holds, Posting, key
    <3>6. \A g \in Dispatchers, e \in Events : Holds(g, e)' => g # d /\ Holds(g, e) /\ e # key
      BY <3>2, <3>5, IdleAt DEF Holds, EventHeldOnce
    <3>7. \A g \in Dispatchers, e \in Events : Holds(g, e) => e \in DOMAIN outbox
      BY IdleAt DEF RowsHeld, Holds
    <3>8. RowsHeld'
      BY <3>2, <3>4, <3>6, <3>7 DEF RowsHeld
    <3>9. NotesTruthful'
      BY <3>1, <3>2 DEF NotesTruthful, Of
    <3>10. key \in Events => /\ work[d].at = "succeeded" => key \in DOMAIN received
                             /\ work[d].at = "failed" => attempts <= failures[key]
      BY <2>0 DEF NotesTruthful, Of, key, attempts
    <3>11. /\ MarkProcessed(d) => work[d].at = "succeeded"
           /\ MarkFailed(d) => work[d].at = "failed"
      BY DEF MarkProcessed, MarkFailed
    <3>12. AttemptsFailed'
      BY <2>6, <3>1, <3>4, <3>10, <3>11 DEF AttemptsFailed
    <3>13. key \in Events /\ MarkFailed(d) /\ Exhausted(attempts) => failures[key] = MaxRetries
      BY <3>10, <3>11, <2>f, <1>t DEF Exhausted
    <3>14. EventsTruthful'
      BY <2>6, <3>1, <3>4, <3>10, <3>11, <3>13 DEF EventsTruthful
    <3> QED BY <3>6, <3>8, <3>9, <3>12, <3>14 DEF EventHeldOnce
  <2> QED BY <1>2, <2>1, <2>2, <2>3, <2>4, <2>5, <2>6 DEF Processes
<1> QED BY <1>1, <1>2

-----------------------------------------------------------------------------
(* Theorems *)

\* Every step preserves what holds of the rows and of the dispatchers.
LEMMA OutboxStep ==
  ASSUME OutboxInv, [Next]_vars
  PROVE  OutboxInv'
<1>1. TypeOK'
  BY TypesStep DEF OutboxInv
<1>2. CASE UNCHANGED vars
  BY <1>1, <1>2, QueueStep DEF OutboxInv, vars
<1>3. ASSUME NEW e \in Events, EnqueueEvent(e)
      PROVE  OutboxInv'
  BY <1>1, <1>3, QueueStep DEF OutboxInv, EnqueueEvent, With
<1>4. ASSUME NEW w \in Writers \cup {Cron}, Queueing(w) \/ StartCron \/ \E p \in Punches : Punch(w, p)
      PROVE  OutboxInv'
  <2>1. UNCHANGED <<received, work, failures>>
    BY <1>4 DEF Queueing, ListPunches, QueueSummary, DieQueueing, StartCron, Punch
  <2>2. UNCHANGED outbox \/ \E row : outbox' = With(outbox, Summary, row)
    BY <1>4 DEF Queueing, ListPunches, QueueSummary, DieQueueing, StartCron, Punch
  <2>3. /\ DOMAIN outbox \subseteq DOMAIN outbox'
        /\ \A e \in Events \cap DOMAIN outbox : outbox'[e] = outbox[e]
        /\ \A e \in Events \cap DOMAIN outbox' : e \in DOMAIN outbox
    BY <2>2 DEF With
  <2> QED BY <1>1, <2>1, <2>3, QueueStep DEF OutboxInv
<1>5. ASSUME NEW d \in Dispatchers, Processes(d) \/ \E k \in Keys : Fetch(d, k)
      PROVE  OutboxInv'
  BY <1>1, <1>5, ProcessStep DEF OutboxInv
<1> QED BY <1>2, <1>3, <1>4, <1>5 DEF Next, Runs

LEMMA InitOutbox == Init => OutboxInv
<1> SUFFICES ASSUME Init PROVE OutboxInv
  OBVIOUS
<1>1. DOMAIN outbox = {} /\ DOMAIN received = {} /\ \A d \in Dispatchers : work[d] = Idle
  BY DEF Init
<1>2. TypeOK
  <2>1. OutboxTyped /\ ReceivedTyped
    BY DEF Init, OutboxTyped, ReceivedTyped
  <2>2. requeued \in BOOLEAN
    BY DEF Init
  <2>3. /\ punched \subseteq Punches
        /\ queue \in [Writers \cup {Cron} -> {Idle} \cup QueueRecord]
        /\ work \in [Dispatchers -> {Idle} \cup WorkRecord]
        /\ failures \in [Events -> 0..MaxRetries]
    BY DEF Init
  <2> QED BY <2>1, <2>2, <2>3 DEF TypeOK
<1>3. RowsHeld /\ NotesTruthful /\ AttemptsFailed /\ EventHeldOnce /\ EventsTruthful
  BY <1>1, IdleAt DEF RowsHeld, NotesTruthful, AttemptsFailed, EventHeldOnce, EventsTruthful, Of, Holds
<1> QED BY <1>2, <1>3 DEF OutboxInv

\* The outbox keeps its types, its rows and its dispatchers agree, and the history of
\* failures bounds what they count: what dispatchOutboxBatch may rely on.
THEOREM OutboxInvariant == Spec => []OutboxInv
<1> QED BY InitOutbox, OutboxStep, PTL DEF Spec

\* However many jobs and manual pushes overlap, one of them at a time sends an event.
THEOREM EventsHeldOnce == Spec => []EventHeldOnce
<1>1. OutboxInv => EventHeldOnce
  BY DEF OutboxInv
<1> QED BY <1>1, OutboxInvariant, PTL

\* No event is marked as processed before Frappe got it, and none is given up before
\* it failed MaxRetries times.
THEOREM EventsAreTruthful == Spec => []EventsTruthful
<1>1. OutboxInv => EventsTruthful
  BY DEF OutboxInv
<1> QED BY <1>1, OutboxInvariant, PTL
-----------------------------------------------------------------------------
(* The summary *)

\* What a dispatcher may do to the summary's row: anything but its payload, and to mark it as
\* processed only when Frappe has got the summary.
LEMMA SummaryStays ==
  ASSUME SummaryInv, UNCHANGED <<punched, requeued>>,
         requeued =>
           /\ Summary \in DOMAIN outbox' /\ outbox'[Summary].payload = outbox[Summary].payload
           /\ \A d \in Dispatchers : Of(d, Summary)' =>
                /\ work'[d].payload = punched
                /\ work'[d].at = "succeeded" => Summary \in DOMAIN received' /\ received'[Summary] = punched
           /\ outbox'[Summary].status = "processed" =>
                Summary \in DOMAIN received' /\ received'[Summary] = punched
  PROVE  SummaryCurrent' /\ SummaryIsSent'
BY DEF SummaryInv, SummaryCurrent, SummaryIsSent

LEMMA SummaryProcess ==
  ASSUME OutboxInv, SummaryInv, NEW d \in Dispatchers, Processes(d) \/ \E k \in Keys : Fetch(d, k)
  PROVE  SummaryCurrent' /\ SummaryIsSent'
<1>1. UNCHANGED <<punched, requeued>> /\ DOMAIN outbox' = DOMAIN outbox
  BY DEF Processes, Reserve, Post, FailPost, MarkProcessed, MarkFailed, DieDispatching, Fetch
<1> SUFFICES ASSUME requeued
             PROVE  /\ Summary \in DOMAIN outbox' /\ outbox'[Summary].payload = outbox[Summary].payload
                    /\ \A e \in Dispatchers : Of(e, Summary)' =>
                         /\ work'[e].payload = punched
                         /\ work'[e].at = "succeeded" => Summary \in DOMAIN received' /\ received'[Summary] = punched
                    /\ outbox'[Summary].status = "processed" =>
                         Summary \in DOMAIN received' /\ received'[Summary] = punched
  BY <1>1, SummaryStays
<1>2. /\ TypeOK /\ work \in [Dispatchers -> {Idle} \cup WorkRecord]
      /\ Summary \in DOMAIN outbox /\ outbox[Summary].payload = punched /\ outbox[Summary] \in Row
      /\ \A e \in Dispatchers : Of(e, Summary) =>
           /\ work[e].payload = punched
           /\ work[e].at = "succeeded" => Summary \in DOMAIN received /\ received[Summary] = punched
      /\ outbox[Summary].status = "processed" => Summary \in DOMAIN received /\ received[Summary] = punched
  BY DEF SummaryInv, SummaryCurrent, SummaryIsSent, TypeOK, OutboxTyped
<1>3. CASE \E k \in Keys : Fetch(d, k)
  <2>1. PICK k \in Keys : Fetch(d, k)
    BY <1>3
  <2> DEFINE fetched == [at |-> "reserving", key |-> k, attempts |-> outbox[k].attempts,
                         payload |-> outbox[k].payload]
  <2>2. /\ work'[d] = fetched /\ \A e \in Dispatchers \ {d} : work'[e] = work[e]
        /\ UNCHANGED <<outbox, received>>
    BY <1>2, <2>1 DEF Fetch
  <2>3. fetched.at = "reserving" /\ (fetched.key = Summary => fetched.payload = punched)
    BY <1>2
  <2> HIDE DEF fetched
  <2>4. ASSUME NEW e \in Dispatchers, Of(e, Summary)'
        PROVE  work'[e].payload = punched /\ (work'[e].at = "succeeded" => Of(e, Summary))
    BY <1>2, <2>2, <2>3, <2>4 DEF Of
  <2>5. ASSUME NEW e \in Dispatchers, Of(e, Summary)', work'[e].at = "succeeded"
        PROVE  Summary \in DOMAIN received' /\ received'[Summary] = punched
    <3>1. e # d
      BY <2>2, <2>3, <2>5
    <3> QED BY <1>2, <2>2, <2>5, <3>1 DEF Of
  <2> QED BY <1>2, <2>2, <2>4, <2>5
<1>4. CASE Processes(d)
  <2>1. work[d] # Idle
    BY <1>4, IdleAt DEF Processes, Reserve, Post, FailPost, MarkProcessed, MarkFailed, DieDispatching, Posting
  <2>2. /\ work[d] \in WorkRecord /\ work[d].key \in Keys
        /\ work[d].key \in DOMAIN outbox /\ outbox[work[d].key] \in Row
    BY <1>2, <2>1, WorkFields DEF OutboxInv, RowsHeld, TypeOK, OutboxTyped
  <2>3. work[d].key = Summary => Of(d, Summary)
    BY <2>1 DEF Of
  <2>4. \A at : Goes(d, at) =>
          /\ work'[d].at = at /\ work'[d].key = work[d].key /\ work'[d].payload = work[d].payload
          /\ \A e \in Dispatchers \ {d} : work'[e] = work[e]
    BY <1>2, <2>2 DEF Goes, WorkRecord
  <2>5. Ends(d) => work'[d] = Idle /\ \A e \in Dispatchers \ {d} : work'[e] = work[e]
    BY <1>2 DEF Ends
  <2>6. \A e \in Dispatchers \ {d} : work'[e] = work[e] => (Of(e, Summary)' <=> Of(e, Summary))
    BY DEF Of
  <2>7. Ends(d) => ~Of(d, Summary)'
    BY <2>5 DEF Of
  <2>8. \A at : Goes(d, at) => (Of(d, Summary)' => Of(d, Summary))
    BY <2>1, <2>4 DEF Of
  <2>9. CASE Reserve(d)
    <3>1. UNCHANGED received
      BY <2>9 DEF Reserve
    <3>2. Goes(d, "posting") \/ Ends(d)
      BY <2>9 DEF Reserve
    <3>3. /\ outbox'[Summary].payload = outbox[Summary].payload
          /\ outbox'[Summary].status = "processed" => outbox[Summary].status = "processed"
      <4>1. UNCHANGED outbox \/ outbox' = [outbox EXCEPT ![work[d].key].status = "processing"]
        BY <2>9 DEF Reserve
      <4> QED BY <1>2, <2>2, <4>1 DEF Row
    <3> QED BY <1>1, <1>2, <2>4, <2>5, <2>6, <2>7, <2>8, <3>1, <3>2, <3>3
  <2>10. CASE Post(d)
    <3>1. UNCHANGED outbox /\ Goes(d, "succeeded") /\ received' = With(received, work[d].key, work[d].payload)
      BY <2>10 DEF Post
    <3>2. CASE work[d].key = Summary
      <4>1. work[d].payload = punched
        BY <1>2, <2>3, <3>2
      <4>2. Summary \in DOMAIN received' /\ received'[Summary] = punched
        BY <3>1, <3>2, <4>1 DEF With
      <4> QED BY <1>1, <1>2, <2>4, <2>6, <2>8, <3>1, <4>1, <4>2
    <3>3. CASE work[d].key # Summary
      <4>1. Summary \in DOMAIN received => Summary \in DOMAIN received' /\ received'[Summary] = received[Summary]
        BY <3>1, <3>3 DEF With
      <4>2. ~Of(d, Summary)'
        BY <2>4, <3>1, <3>3 DEF Of
      <4> QED BY <1>1, <1>2, <2>4, <2>6, <3>1, <4>1, <4>2
    <3> QED BY <3>2, <3>3
  <2>11. CASE FailPost(d)
    <3>1. /\ UNCHANGED outbox /\ Goes(d, "failed")
          /\ received' \in {received, With(received, work[d].key, work[d].payload)}
      BY <2>11 DEF FailPost
    <3>2. Summary \in DOMAIN received /\ received[Summary] = punched
            => Summary \in DOMAIN received' /\ received'[Summary] = punched
      <4>1. work[d].key = Summary => work[d].payload = punched
        BY <1>2, <2>3
      <4> QED BY <3>1, <4>1 DEF With
    <3> QED BY <1>1, <1>2, <2>4, <2>6, <2>8, <3>1, <3>2
  <2>12. CASE MarkProcessed(d)
    <3>1. UNCHANGED received /\ Ends(d)
      BY <2>12 DEF MarkProcessed
    <3>2. outbox'[Summary].payload = outbox[Summary].payload
      BY <1>2, <2>2, <2>12 DEF Row, MarkProcessed
    <3>3. work[d].key # Summary => outbox'[Summary] = outbox[Summary]
      BY <1>2, <2>12 DEF MarkProcessed
    <3>4. outbox'[Summary].status = "processed" => Summary \in DOMAIN received /\ received[Summary] = punched
      BY <1>2, <2>3, <2>12, <3>3 DEF MarkProcessed
    <3> QED BY <1>1, <1>2, <2>5, <2>6, <2>7, <3>1, <3>2, <3>4
  <2>13. CASE MarkFailed(d)
    <3>1. UNCHANGED received /\ Ends(d)
      BY <2>13 DEF MarkFailed
    <3>2. /\ outbox'[Summary].payload = outbox[Summary].payload
          /\ outbox'[Summary].status = "processed" => outbox[Summary].status = "processed"
      BY <1>2, <2>2, <2>13 DEF Row, MarkFailed
    <3> QED BY <1>1, <1>2, <2>5, <2>6, <2>7, <3>1, <3>2
  <2>14. CASE DieDispatching(d)
    BY <1>1, <1>2, <2>5, <2>6, <2>7, <2>14 DEF DieDispatching
  <2> QED BY <1>4, <2>9, <2>10, <2>11, <2>12, <2>13, <2>14 DEF Processes
<1> QED BY <1>3, <1>4

LEMMA SummaryStep ==
  ASSUME OutboxInv, SummaryInv, [Next]_vars
  PROVE  SummaryInv'
<1>1. TypeOK'
  BY TypesStep DEF OutboxInv
<1>2. CASE UNCHANGED vars
  <2>1. SummaryCurrent' /\ SummaryIsSent'
    BY <1>2 DEF SummaryInv, SummaryCurrent, SummaryIsSent, Of, vars
  <2> QED BY <1>1, <2>1 DEF SummaryInv
<1>3. ASSUME UNCHANGED <<punched, received, work, requeued>>,
             Summary \in DOMAIN outbox => Summary \in DOMAIN outbox' /\ outbox'[Summary] = outbox[Summary]
      PROVE  SummaryInv'
  <2>1. \A d \in Dispatchers : Of(d, Summary)' <=> Of(d, Summary)
    BY <1>3 DEF Of
  <2>2. SummaryCurrent' /\ SummaryIsSent'
    BY <1>3, <2>1 DEF SummaryInv, SummaryCurrent, SummaryIsSent
  <2> QED BY <1>1, <2>2 DEF SummaryInv
<1>4. ASSUME NEW e \in Events, EnqueueEvent(e)
      PROVE  SummaryInv'
  <2>1. e # Summary
    OBVIOUS
  <2> QED BY <1>3, <1>4, <2>1 DEF EnqueueEvent, With
<1>5. ASSUME NEW w \in Writers \cup {Cron}, ListPunches(w) \/ DieQueueing(w) \/ StartCron
      PROVE  SummaryInv'
  BY <1>3, <1>5 DEF ListPunches, DieQueueing, StartCron
<1>6. ASSUME NEW w \in Writers \cup {Cron}, NEW p \in Punches, Punch(w, p)
      PROVE  SummaryInv'
  <2>1. SummaryCurrent' /\ SummaryIsSent'
    BY <1>6 DEF Punch, SummaryCurrent, SummaryIsSent
  <2> QED BY <1>1, <2>1 DEF SummaryInv
<1>7. ASSUME NEW w \in Writers \cup {Cron}, QueueSummary(w)
      PROVE  SummaryInv'
  <2> DEFINE before == IF Summary \in DOMAIN outbox THEN outbox[Summary].attempts ELSE 0
             row == [status |-> "pending", attempts |-> before, payload |-> queue[w].payload]
  <2>1. /\ outbox' = With(outbox, Summary, row) /\ UNCHANGED <<punched, received, work>>
        /\ requeued' = WithAll(queue[w].payload)
    BY <1>7 DEF QueueSummary
  <2>2. row.status = "pending" /\ row.payload = queue[w].payload
    OBVIOUS
  <2> HIDE DEF row
  <2>3. Summary \in DOMAIN outbox' /\ outbox'[Summary] = row
    BY <2>1 DEF With
  <2>4. ASSUME requeued'
        PROVE  row.payload = punched /\ \A d \in Dispatchers : ~Of(d, Summary)
    BY <2>1, <2>2, <2>4 DEF WithAll
  <2>5. \A d \in Dispatchers : Of(d, Summary)' <=> Of(d, Summary)
    BY <2>1 DEF Of
  <2>6. SummaryCurrent'
    BY <2>1, <2>3, <2>4, <2>5 DEF SummaryCurrent
  <2>7. SummaryIsSent'
    BY <2>2, <2>3 DEF SummaryIsSent
  <2> QED BY <1>1, <2>6, <2>7 DEF SummaryInv
<1>8. ASSUME NEW d \in Dispatchers, Processes(d) \/ \E k \in Keys : Fetch(d, k)
      PROVE  SummaryInv'
  BY <1>1, <1>8, SummaryProcess DEF SummaryInv
<1> QED BY <1>2, <1>4, <1>5, <1>6, <1>7, <1>8 DEF Next, Runs, Queueing

\* For any number of punches, requests and dispatchers, once a summary of all punches was
\* queued while no dispatcher was at work on the row, the row says processed only if Frappe
\* has that summary.
THEOREM SummariesAreSent == Spec => []SummaryIsSent
<1>1. Init => SummaryInv
  <2>1. Init => OutboxInv
    BY InitOutbox
  <2> QED BY <2>1 DEF Init, OutboxInv, SummaryInv, SummaryCurrent, SummaryIsSent
<1>2. OutboxInv /\ SummaryInv /\ [Next]_vars => SummaryInv'
  BY SummaryStep
<1>3. SummaryInv => SummaryIsSent
  BY DEF SummaryInv
<1> QED BY <1>1, <1>2, <1>3, OutboxInvariant, PTL DEF Spec

-----------------------------------------------------------------------------
(* The inbox *)

\* The fields of a job are those of its place in the code.
LEMMA JobFields ==
  ASSUME InboxTyped, NEW j \in Jobs
  PROVE  /\ job[j] \in JobRecord
         /\ job[j].at = "asking" => job[j].since \subseteq Time
         /\ job[j].at = "ingesting" =>
              job[j].rows \subseteq Change /\ job[j].left \subseteq Documents /\ job[j].asked \in Time
         /\ job[j].at \in {"copying", "writing", "marking"} => job[j].rows \subseteq Nat
         /\ job[j].at = "writing" => job[j].found \in {0, 1}
         /\ job[j].at = "marking" => job[j].status \in {"processed", "failed"}
<1>1. job[j] \in JobRecord
  BY DEF InboxTyped
<1> QED BY <1>1 DEF JobRecord, Resting, Selecting

\* Inserting keeps the rows there were, and leaves the change in the inbox.
LEMMA IngestedHolds ==
  ASSUME inbox \in Seq(InboxRow), NEW from \in {"pull", "event", "name", "uuid"},
         NEW c \in Change, inbox' = Ingested(from, c)
  PROVE  /\ inbox' \in Seq(InboxRow)
         /\ \A x \in Change : Held(x) => Held(x)'
         /\ from # "name" => Held(c)'
<1> DEFINE row == [from |-> from, change |-> c, status |-> "pending"]
<1>1. CASE Duplicate(from, c)
  <2>1. inbox' = inbox
    BY <1>1 DEF Ingested
  <2> QED BY <1>1, <2>1 DEF Held, Duplicate
<1>2. CASE ~Duplicate(from, c)
  <2>1. inbox' = Append(inbox, row)
    BY <1>2 DEF Ingested
  <2>2. row \in InboxRow
    BY DEF InboxRow
  <2>3. /\ inbox' \in Seq(InboxRow) /\ Len(inbox') = Len(inbox) + 1
        /\ \A i \in 1..Len(inbox) : inbox'[i] = inbox[i]
        /\ inbox'[Len(inbox) + 1] = row
    BY <2>1, <2>2, AppendProperties
  <2>4. DOMAIN inbox = 1..Len(inbox) /\ DOMAIN inbox' = 1..(Len(inbox) + 1) /\ Len(inbox) \in Nat
    BY <2>3, LenProperties
  <2>5. \A x \in Change : Held(x) => Held(x)'
    BY <2>3, <2>4 DEF Held
  <2>6. Held(c)'
    <3>1. Len(inbox) + 1 \in DOMAIN inbox' /\ inbox'[Len(inbox) + 1].change = c
      BY <2>3, <2>4
    <3> QED BY <3>1 DEF Held
  <2> QED BY <2>3, <2>5, <2>6
<1> QED BY <1>1, <1>2

\* A step of one job that only moves it to a place with nothing to bring.
LEMMA MovesOn ==
  ASSUME InboxInv, NEW j \in Jobs, NEW record \in JobRecord, Goto(j, record),
         record.at \notin {"asking", "ingesting"},
         UNCHANGED <<clock, versions, cursor, decision>>,
         inbox' \in Seq(InboxRow), \A x \in Change : Held(x) => Held(x)',
         leave' \in [Documents -> Seq(LeaveRow)],
         passedOver \subseteq passedOver', passedOver' \subseteq Change, disturbed' \subseteq Documents
  PROVE  InboxInv'
<1>1. job' = [job EXCEPT ![j] = record] /\ job \in [Jobs -> JobRecord]
  BY DEF Goto, InboxInv, InboxTyped
<1>2. InboxTyped'
  BY <1>1 DEF InboxInv, InboxTyped
<1>3. \A k \in Jobs : k # j => job'[k] = job[k]
  BY <1>1
<1>4. job'[j] = record
  BY <1>1
<1>5. \A x \in Change : Settled(x) => Settled(x)'
  BY DEF Settled
<1>6. \A d \in Documents : \A v : Current(d, v)' <=> Current(d, v)
  BY DEF Current
<1>7. NothingAhead'
  BY <1>3, <1>4 DEF InboxInv, NothingAhead, From
<1>8. MissedOnlyWhilePulling'
  <2> SUFFICES ASSUME NEW c \in Change, Current(c.doc, c.version)'
               PROVE  Settled(c)' \/ From(c.version, cursor)'
    BY DEF MissedOnlyWhilePulling
  <2>1. Current(c.doc, c.version)
    BY DEF Current
  <2>2. Settled(c) \/ From(c.version, cursor)
    BY <2>1 DEF InboxInv, MissedOnlyWhilePulling
  <2> QED BY <2>2, <1>5 DEF From
<1>9. PullsComplete'
  <2> SUFFICES ASSUME NEW k \in Jobs, NEW c \in Change, Current(c.doc, c.version)'
               PROVE  /\ job'[k].at = "asking" => Settled(c)' \/ From(c.version, job'[k].since)
                      /\ job'[k].at = "ingesting" =>
                           \/ Settled(c)' \/ c \in job'[k].rows
                           \/ c.version >= job'[k].asked \/ c.doc \in job'[k].left
    BY DEF PullsComplete, From
  <2>1. Current(c.doc, c.version)
    BY DEF Current
  <2>2. CASE k = j
    BY <2>2, <1>4
  <2>3. CASE k # j
    BY <2>1, <2>3, <1>3, <1>5 DEF InboxInv, PullsComplete
  <2> QED BY <2>2, <2>3
<1> QED BY <1>2, <1>7, <1>8, <1>9 DEF InboxInv

LEMMA RowsTyped ==
  ASSUME InboxTyped
  PROVE  \A i \in DOMAIN inbox : Doc(i) \in Documents /\ inbox[i].change.version \in Time
<1>1. \A i \in DOMAIN inbox : inbox[i] \in InboxRow
  BY ElementOfSeq, LenProperties DEF InboxTyped
<1> QED BY <1>1 DEF InboxRow, Change, Doc

\* The rows of the inbox that a job has in its hands.
LEMMA HandledRows ==
  ASSUME InboxTyped, NEW j \in Jobs, job[j].at \in {"copying", "writing", "marking"}, NEW X
  PROVE  /\ RowsOf(j) = job[j].rows /\ job[j].rows \subseteq Nat /\ job[j].rows \ X \subseteq Nat
         /\ \A i \in DOMAIN inbox : Doc(i) \in Documents /\ inbox[i].change.version \in Time
BY JobFields, RowsTyped DEF RowsOf

LEMMA DoneTyped ==
  ASSUME InboxTyped, NEW j \in Jobs
  PROVE  {Doc(i) : i \in Done(j)} \subseteq Documents
BY RowsTyped DEF Done

LEMMA WrittenTyped ==
  ASSUME NEW rows \in Seq(LeaveRow), NEW found \in {0, 1}, NEW v \in Time
  PROVE  Written(rows, found, v) \in Seq(LeaveRow)
<1> DEFINE row == [version |-> v, decided |-> FALSE]
<1>1. row \in LeaveRow
  BY DEF LeaveRow
<1> HIDE DEF row
<1>2. CASE found # 0
  <2>1. rows \in [1..Len(rows) -> LeaveRow] /\ Len(rows) \in Nat
    BY LenProperties
  <2>2. [rows EXCEPT ![found] = row] \in [1..Len(rows) -> LeaveRow]
    BY <1>1, <2>1
  <2>3. [rows EXCEPT ![found] = row] \in Seq(LeaveRow)
    BY <2>1, <2>2, SeqDef
  <2> QED BY <1>2, <2>3 DEF Written, row
<1>3. CASE found = 0
  <2>1. Append(rows, row) \in Seq(LeaveRow)
    BY <1>1, AppendProperties
  <2> QED BY <1>3, <2>1 DEF Written, row
<1> QED BY <1>2, <1>3

LEMMA MarkHolds ==
  ASSUME inbox \in Seq(InboxRow), NEW i \in DOMAIN inbox, NEW s \in {"processed", "failed"},
         inbox' = [inbox EXCEPT ![i].status = s]
  PROVE  inbox' \in Seq(InboxRow) /\ \A x \in Change : Held(x) => Held(x)'
<1>1. inbox \in [1..Len(inbox) -> InboxRow] /\ Len(inbox) \in Nat /\ DOMAIN inbox = 1..Len(inbox)
  BY LenProperties
<1>2. inbox[i] \in InboxRow
  BY <1>1
<1>3. [inbox[i] EXCEPT !.status = s] \in InboxRow /\ [inbox[i] EXCEPT !.status = s].change = inbox[i].change
  BY <1>2 DEF InboxRow
<1>4. inbox' \in [1..Len(inbox) -> InboxRow]
  BY <1>1, <1>3
<1>5. inbox' \in Seq(InboxRow)
  BY <1>1, <1>4, SeqDef
<1>6. DOMAIN inbox' = DOMAIN inbox /\ \A k \in DOMAIN inbox : inbox'[k].change = inbox[k].change
  BY <1>1, <1>3
<1> QED BY <1>5, <1>6 DEF Held

\* Reconciliations leave every change in the inbox.
LEMMA CopyStep ==
  ASSUME InboxInv, NEW j \in Jobs, Reconciles(j) \/ DieInJob(j)
  PROVE  InboxInv'
<1>1. InboxTyped /\ inbox \in Seq(InboxRow) /\ leave \in [Documents -> Seq(LeaveRow)]
      /\ passedOver \subseteq Change /\ disturbed \subseteq Documents
  BY DEF InboxInv, InboxTyped
<1>2. CASE StartReconciling(j)
  <2>1. Selecting \in JobRecord /\ Selecting.at = "selecting"
    BY DEF JobRecord, Selecting
  <2> QED BY <1>1, <1>2, <2>1, MovesOn DEF StartReconciling, Held
<1>3. CASE Select(j)
  <2> DEFINE rows == {i \in Pending : Cardinality({k \in Pending : k < i}) < CopyLimit}
             record == [at |-> "copying", rows |-> rows]
  <2>1. rows \subseteq DOMAIN inbox /\ DOMAIN inbox \subseteq Nat
    BY <1>1, LenProperties DEF Pending
  <2>2. record \in JobRecord
    BY <2>1 DEF JobRecord
  <2>3. \A i \in DOMAIN inbox : Doc(i) \in Documents
    BY <1>1, RowsTyped
  <2>4. disturbed' \subseteq Documents
    BY <1>1, <1>3, <2>1, <2>3 DEF Select, Shared
  <2> QED BY <1>1, <1>3, <2>2, <2>4, MovesOn DEF Select, Held
<1>4. CASE LookUp(j) \/ LookUpNothing(j)
  <2>1. PICK i \in DOMAIN inbox, found \in {0, 1} :
          /\ Goto(j, [at |-> "writing", rows |-> job[j].rows, found |-> found])
          /\ disturbed' \in {disturbed, disturbed \cup {Doc(i)}}
    BY <1>4 DEF LookUp, LookUpNothing, Existing
  <2>2. job[j].at = "copying"
    BY <1>4 DEF LookUp, LookUpNothing
  <2>3. job[j].rows \subseteq Nat /\ Doc(i) \in Documents
    BY <1>1, <2>2, HandledRows
  <2>4. [at |-> "writing", rows |-> job[j].rows, found |-> found] \in JobRecord
    BY <2>3 DEF JobRecord
  <2> QED BY <1>1, <1>4, <2>1, <2>3, <2>4, MovesOn DEF LookUp, LookUpNothing, Held
<1>5. CASE Reject(j)
  <2>1. [at |-> "marking", rows |-> job[j].rows, status |-> "failed"] \in JobRecord
    BY <1>1, <1>5, HandledRows DEF JobRecord, Reject
  <2> QED BY <1>1, <1>5, <2>1, MovesOn DEF Reject, Held
<1>6. CASE Write(j)
  <2>1. PICK i \in DOMAIN inbox, status \in {"processed", "failed"} :
          /\ leave' = [leave EXCEPT ![Doc(i)] = Written(@, job[j].found, inbox[i].change.version)]
          /\ disturbed' \in {disturbed, disturbed \cup {Doc(i)}}
          /\ Goto(j, [at |-> "marking", rows |-> job[j].rows, status |-> status])
    BY <1>6 DEF Write
  <2>2. job[j].at = "writing" /\ job[j].found \in {0, 1} /\ job[j].rows \subseteq Nat
    BY <1>1, <1>6, JobFields DEF Write
  <2>3. Doc(i) \in Documents /\ inbox[i].change.version \in Time
    BY <1>1, <2>2, HandledRows
  <2>4. leave' \in [Documents -> Seq(LeaveRow)]
    <3>1. Written(leave[Doc(i)], job[j].found, inbox[i].change.version) \in Seq(LeaveRow)
      BY <1>1, <2>2, <2>3, WrittenTyped
    <3> QED BY <1>1, <2>1, <3>1
  <2>5. [at |-> "marking", rows |-> job[j].rows, status |-> status] \in JobRecord
    BY <2>2 DEF JobRecord
  <2> QED BY <1>1, <1>6, <2>1, <2>3, <2>4, <2>5, MovesOn DEF Write, Held
<1>7. CASE Mark(j)
  <2>1. PICK i \in DOMAIN inbox :
          /\ inbox' = [inbox EXCEPT ![i].status = job[j].status]
          /\ Goto(j, [at |-> "copying", rows |-> job[j].rows \ {i}])
    BY <1>7 DEF Mark
  <2>2. job[j].status \in {"processed", "failed"} /\ job[j].rows \subseteq Nat
    BY <1>1, <1>7, JobFields DEF Mark
  <2>3. inbox' \in Seq(InboxRow) /\ \A x \in Change : Held(x) => Held(x)'
    BY <1>1, <2>1, <2>2, MarkHolds
  <2>4. [at |-> "copying", rows |-> job[j].rows \ {i}] \in JobRecord
    BY <2>2 DEF JobRecord
  <2> QED BY <1>1, <1>7, <2>1, <2>3, <2>4, MovesOn DEF Mark
<1>8. CASE MissMark(j)
  <2>1. PICK i \in DOMAIN inbox :
          /\ disturbed' = disturbed \cup {Doc(i)}
          /\ Goto(j, [at |-> "copying", rows |-> job[j].rows \ {i}])
    BY <1>8 DEF MissMark
  <2>2. job[j].at = "marking"
    BY <1>8 DEF MissMark
  <2>3. job[j].rows \ {i} \subseteq Nat /\ Doc(i) \in Documents
    BY <1>1, <2>2, HandledRows
  <2>4. [at |-> "copying", rows |-> job[j].rows \ {i}] \in JobRecord
    BY <2>3 DEF JobRecord
  <2> QED BY <1>1, <1>8, <2>1, <2>3, <2>4, MovesOn DEF MissMark, Held
<1>9. CASE FinishJob(j) \/ DieInJob(j)
  <2>1. Resting \in JobRecord /\ Resting.at = "resting"
    BY DEF JobRecord, Resting
  <2>2. disturbed' \subseteq Documents
    BY <1>1, <1>9, DoneTyped DEF FinishJob, DieInJob
  <2> QED BY <1>1, <1>9, <2>1, <2>2, MovesOn DEF FinishJob, DieInJob, Held
<1> QED BY <1>2, <1>3, <1>4, <1>5, <1>6, <1>7, <1>8, <1>9 DEF Reconciles
-----------------------------------------------------------------------------
(* Pulls *)

\* Every step of a pull keeps what it must bring in sight.
LEMMA PullStep ==
  ASSUME InboxInv, NEW j \in Jobs, Pulls(j)
  PROVE  InboxInv'
<1>1. InboxTyped /\ inbox \in Seq(InboxRow) /\ leave \in [Documents -> Seq(LeaveRow)]
      /\ passedOver \subseteq Change /\ disturbed \subseteq Documents /\ clock \in Time
      /\ cursor \subseteq Time /\ job \in [Jobs -> JobRecord]
  BY DEF InboxInv, InboxTyped
<1>2. CASE StartPull(j)
  <2>1. [at |-> "asking", since |-> cursor] \in JobRecord
    BY <1>1 DEF JobRecord
  <2>2. /\ job'[j] = [at |-> "asking", since |-> cursor]
        /\ \A k \in Jobs : k # j => job'[k] = job[k]
        /\ job' \in [Jobs -> JobRecord]
    BY <1>1, <1>2, <2>1 DEF StartPull, Goto
  <2>3. InboxTyped'
    BY <1>1, <1>2, <2>2 DEF StartPull, InboxTyped
  <2>4. NothingAhead'
    BY <1>2, <2>2 DEF InboxInv, NothingAhead, StartPull, From
  <2>5. MissedOnlyWhilePulling'
    BY <1>2 DEF InboxInv, MissedOnlyWhilePulling, StartPull, From, Current, Settled, Held
  <2>6. PullsComplete'
    <3> SUFFICES ASSUME NEW k \in Jobs, NEW c \in Change, Current(c.doc, c.version)
                 PROVE  /\ job'[k].at = "asking" => Settled(c) \/ From(c.version, job'[k].since)
                        /\ job'[k].at = "ingesting" =>
                             \/ Settled(c) \/ c \in job'[k].rows
                             \/ c.version >= job'[k].asked \/ c.doc \in job'[k].left
      BY <1>2 DEF PullsComplete, From, StartPull, Current, Settled, Held
    <3>1. CASE k = j
      BY <2>2, <3>1 DEF InboxInv, MissedOnlyWhilePulling
    <3>2. CASE k # j
      BY <2>2, <3>2 DEF InboxInv, PullsComplete
    <3> QED BY <3>1, <3>2
  <2> QED BY <2>3, <2>4, <2>5, <2>6 DEF InboxInv
<1>3. CASE AskFrappe(j)
  <2> DEFINE changed == Changed(job[j].since)
  <2>1. PICK rows \in Batches(changed) :
          Goto(j, [at |-> "ingesting", rows |-> rows, asked |-> clock,
                   left |-> {c.doc : c \in changed \ rows}])
    BY <1>3 DEF AskFrappe
  <2> DEFINE record == [at |-> "ingesting", rows |-> rows, asked |-> clock,
                        left |-> {c.doc : c \in changed \ rows}]
  <2>2. rows \subseteq changed /\ changed \subseteq Change
    BY DEF Batches, Changed
  <2>3. {c.doc : c \in changed \ rows} \subseteq Documents
    BY <2>2 DEF Change
  <2>4. record \in JobRecord
    BY <1>1, <2>2, <2>3 DEF JobRecord
  <2>5. /\ job'[j] = record
        /\ \A k \in Jobs : k # j => job'[k] = job[k]
        /\ job' \in [Jobs -> JobRecord]
    BY <1>1, <2>1, <2>4 DEF Goto
  <2>6. InboxTyped'
    BY <1>1, <1>3, <2>5 DEF AskFrappe, InboxTyped
  <2>7. NothingAhead'
    <3>1. record.at = "ingesting" /\ record.asked = clock /\ clock \in Nat
      BY <1>1, InboxConstants DEF Time
    <3> QED BY <1>3, <2>5, <3>1 DEF InboxInv, NothingAhead, AskFrappe, From
  <2>8. MissedOnlyWhilePulling'
    BY <1>3 DEF InboxInv, MissedOnlyWhilePulling, AskFrappe, From, Current, Settled, Held
  <2>9. PullsComplete'
    <3> SUFFICES ASSUME NEW k \in Jobs, NEW c \in Change, Current(c.doc, c.version)
                 PROVE  /\ job'[k].at = "asking" => Settled(c) \/ From(c.version, job'[k].since)
                        /\ job'[k].at = "ingesting" =>
                             \/ Settled(c) \/ c \in job'[k].rows
                             \/ c.version >= job'[k].asked \/ c.doc \in job'[k].left
      BY <1>3 DEF PullsComplete, From, AskFrappe, Current, Settled, Held
    <3>1. CASE k = j
      <4>1. Settled(c) \/ From(c.version, job[j].since)
        BY <1>3 DEF InboxInv, PullsComplete, AskFrappe
      <4>2. From(c.version, job[j].since) => c \in rows \/ c.doc \in record.left
        BY DEF Changed
      <4> QED BY <2>5, <3>1, <4>1, <4>2
    <3>2. CASE k # j
      BY <2>5, <3>2 DEF InboxInv, PullsComplete
    <3> QED BY <3>1, <3>2
  <2> QED BY <2>6, <2>7, <2>8, <2>9 DEF InboxInv
<1>4. CASE Ingest(j)
  <2>1. PICK c \in job[j].rows :
          /\ inbox' = Ingested("pull", c)
          /\ Goto(j, [job[j] EXCEPT !.rows = @ \ {c}])
    BY <1>4 DEF Ingest
  <2> DEFINE record == [job[j] EXCEPT !.rows = @ \ {c}]
  <2>2. /\ job[j] \in [at : {"ingesting"}, rows : SUBSET Change, left : SUBSET Documents, asked : Time]
    <3>1. job[j].at = "ingesting" /\ job[j] \in JobRecord
      BY <1>1, <1>4 DEF Ingest
    <3> QED BY <3>1 DEF JobRecord, Resting, Selecting
  <2>3. /\ record \in JobRecord /\ record.at = "ingesting" /\ record.rows = job[j].rows \ {c}
        /\ record.asked = job[j].asked /\ record.left = job[j].left
    BY <2>2 DEF JobRecord
  <2>4. c \in Change
    BY <2>2
  <2>5. /\ inbox' \in Seq(InboxRow) /\ Held(c)' /\ \A x \in Change : Held(x) => Held(x)'
    BY <1>1, <2>1, <2>4, IngestedHolds
  <2>6. /\ job'[j] = record
        /\ \A k \in Jobs : k # j => job'[k] = job[k]
        /\ job' \in [Jobs -> JobRecord]
    BY <1>1, <2>1, <2>3 DEF Goto
  <2>7. Settled(c)' /\ \A x \in Change : Settled(x) => Settled(x)'
    BY <1>4, <2>5 DEF Settled, Ingest
  <2>8. InboxTyped'
    BY <1>1, <1>4, <2>5, <2>6 DEF Ingest, InboxTyped
  <2>9. NothingAhead'
    BY <1>4, <2>2, <2>3, <2>6 DEF InboxInv, NothingAhead, Ingest, From
  <2>10. MissedOnlyWhilePulling'
    BY <1>4, <2>7 DEF InboxInv, MissedOnlyWhilePulling, Ingest, From, Current
  <2>11. PullsComplete'
    <3> SUFFICES ASSUME NEW k \in Jobs, NEW x \in Change, Current(x.doc, x.version)
                 PROVE  /\ job'[k].at = "asking" => Settled(x)' \/ From(x.version, job'[k].since)
                        /\ job'[k].at = "ingesting" =>
                             \/ Settled(x)' \/ x \in job'[k].rows
                             \/ x.version >= job'[k].asked \/ x.doc \in job'[k].left
      BY <1>4 DEF PullsComplete, From, Ingest, Current
    <3>1. CASE k = j
      BY <2>2, <2>3, <2>6, <2>7, <3>1 DEF InboxInv, PullsComplete
    <3>2. CASE k # j
      BY <2>6, <2>7, <3>2 DEF InboxInv, PullsComplete
    <3> QED BY <3>1, <3>2
  <2> QED BY <2>8, <2>9, <2>10, <2>11 DEF InboxInv
<1>5. CASE Stamp(j)
  <2>1. /\ job'[j] = Selecting /\ Selecting.at = "selecting" /\ Selecting \in JobRecord
        /\ \A k \in Jobs : k # j => job'[k] = job[k]
        /\ job' \in [Jobs -> JobRecord]
    BY <1>1, <1>5 DEF Stamp, Goto, Selecting, JobRecord
  <2>2. \A c \in Change : Current(c.doc, c.version) => Settled(c)'
    <3> SUFFICES ASSUME NEW c \in Change, Current(c.doc, c.version), ~Settled(c)
                 PROVE  c \in passedOver'
      BY <1>5 DEF Settled, Stamp, Held
    <3>1. c \in job[j].rows \/ c.version >= job[j].asked \/ c.doc \in job[j].left
      BY <1>5 DEF InboxInv, PullsComplete, Stamp
    <3> QED BY <1>5, <3>1 DEF Stamp
  <2>3. InboxTyped'
    BY <1>1, <1>5, <2>1 DEF Stamp, InboxTyped
  <2>4. NothingAhead'
    BY <1>1, <1>5, <2>1, InboxConstants DEF InboxInv, NothingAhead, Stamp, From, Time
  <2>5. MissedOnlyWhilePulling'
    BY <1>5, <2>2 DEF MissedOnlyWhilePulling, Stamp, Current
  <2>6. PullsComplete'
    BY <1>5, <2>2 DEF PullsComplete, Stamp, Current
  <2> QED BY <2>3, <2>4, <2>5, <2>6 DEF InboxInv
<1>6. CASE MissStamp(j)
  <2>1. Selecting \in JobRecord /\ Selecting.at = "selecting"
    BY DEF JobRecord, Selecting
  <2> QED BY <1>1, <1>6, <2>1, MovesOn DEF MissStamp, Held
<1> QED BY <1>2, <1>3, <1>4, <1>5, <1>6 DEF Pulls

-----------------------------------------------------------------------------
(* Frappe *)

LEMMA FrappeStep ==
  ASSUME InboxInv,
         \/ TickOn \/ \E d \in Documents : ChangeDocument(d)
         \/ \E from \in {"event", "name", "uuid"}, c \in Change : Webhook(from, c)
         \/ \E d \in Documents : \E k \in DOMAIN leave[d] : Decide(d, k)
  PROVE  InboxInv'
<1>1. InboxTyped /\ inbox \in Seq(InboxRow) /\ clock \in Time /\ clock \in Nat
      /\ Time \subseteq Nat /\ versions \in [Documents -> SUBSET Time]
  BY InboxConstants DEF InboxInv, InboxTyped, Time
<1>2. CASE TickOn
  <2>1. clock' \in Time /\ clock' = clock + 1
    BY <1>1, <1>2, InboxConstants DEF TickOn, Time
  <2>2. InboxTyped'
    BY <1>1, <1>2, <2>1 DEF TickOn, InboxTyped
  <2>3. NothingAhead'
    <3>1. \A S \in SUBSET Time : From(clock, S) => From(clock + 1, S)
      BY <1>1 DEF From
    <3>2. cursor \subseteq Time /\ \A j \in Jobs : job[j].at = "asking" => job[j].since \subseteq Time
      BY <1>1, JobFields DEF InboxTyped
    <3>3. \A j \in Jobs : job[j].at = "ingesting" => job[j].asked \in Nat
      BY <1>1, JobFields
    <3>4. \A d \in Documents : versions[d] \subseteq Time
      BY <1>1
    <3>5. /\ \A d \in Documents : From(clock + 1, versions[d])
          /\ From(clock + 1, cursor)
          /\ \A j \in Jobs : job[j].at = "asking" => From(clock + 1, job[j].since)
      BY <3>1, <3>2, <3>4 DEF InboxInv, NothingAhead
    <3>6. \A j \in Jobs : job[j].at = "ingesting" => job[j].asked <= clock + 1
      BY <1>1, <3>3 DEF InboxInv, NothingAhead
    <3> QED BY <1>2, <2>1, <3>5, <3>6 DEF NothingAhead, TickOn, From
  <2>4. MissedOnlyWhilePulling'
    BY <1>2 DEF InboxInv, MissedOnlyWhilePulling, TickOn, From, Current, Settled, Held
  <2>5. PullsComplete'
    BY <1>2 DEF InboxInv, PullsComplete, TickOn, From, Current, Settled, Held
  <2> QED BY <2>2, <2>3, <2>4, <2>5 DEF InboxInv
<1>3. ASSUME NEW d \in Documents, ChangeDocument(d)
      PROVE  InboxInv'
  <2>1. versions' = [versions EXCEPT ![d] = @ \cup {clock}]
    BY <1>3 DEF ChangeDocument
  <2>2. versions' \in [Documents -> SUBSET Time] /\ versions'[d] = versions[d] \cup {clock}
        /\ \A e \in Documents : e # d => versions'[e] = versions[e]
    BY <1>1, <2>1
  <2>3. \A c \in Change : Current(c.doc, c.version)' =>
          c.version = clock \/ Current(c.doc, c.version)
    <3> SUFFICES ASSUME NEW c \in Change, Current(c.doc, c.version)', c.version # clock
                 PROVE  Current(c.doc, c.version)
      OBVIOUS
    <3>1. c.doc \in Documents
      BY DEF Change
    <3>2. CASE c.doc = d
      BY <2>2, <3>2 DEF Current
    <3>3. CASE c.doc # d
      BY <2>2, <3>1, <3>3 DEF Current
    <3> QED BY <3>2, <3>3
  <2>4. InboxTyped'
    BY <1>1, <1>3, <2>2 DEF InboxTyped, ChangeDocument
  <2>5. NothingAhead'
    <3>1. ASSUME NEW e \in Documents
          PROVE  From(clock, versions'[e])
      <4>1. From(clock, versions[e])
        BY DEF InboxInv, NothingAhead
      <4>2. \A t \in versions'[e] : t \in versions[e] \/ t = clock
        BY <2>2
      <4>3. clock >= clock
        BY <1>1
      <4> QED BY <4>1, <4>2, <4>3 DEF From
    <3> QED BY <1>3, <3>1 DEF InboxInv, NothingAhead, ChangeDocument, From
  <2>6. MissedOnlyWhilePulling'
    <3> SUFFICES ASSUME NEW c \in Change, Current(c.doc, c.version)'
                 PROVE  Settled(c) \/ From(c.version, cursor)
      BY <1>3 DEF MissedOnlyWhilePulling, From, Settled, Held, ChangeDocument
    <3> QED BY <2>3 DEF InboxInv, MissedOnlyWhilePulling, NothingAhead
  <2>7. PullsComplete'
    <3> SUFFICES ASSUME NEW k \in Jobs, NEW c \in Change, Current(c.doc, c.version)'
                 PROVE  /\ job[k].at = "asking" => Settled(c) \/ From(c.version, job[k].since)
                        /\ job[k].at = "ingesting" =>
                             \/ Settled(c) \/ c \in job[k].rows
                             \/ c.version >= job[k].asked \/ c.doc \in job[k].left
      BY <1>3 DEF PullsComplete, From, Settled, Held, ChangeDocument
    <3>1. CASE c.version = clock
      <4>1. job[k].at = "ingesting" => job[k].asked \in Nat
        BY <1>1, JobFields
      <4> QED BY <1>1, <3>1, <4>1 DEF InboxInv, NothingAhead
    <3>2. CASE Current(c.doc, c.version)
      BY <3>2 DEF InboxInv, PullsComplete
    <3> QED BY <2>3, <3>1, <3>2
  <2> QED BY <2>4, <2>5, <2>6, <2>7 DEF InboxInv
<1>4. ASSUME NEW from \in {"event", "name", "uuid"}, NEW c \in Change, Webhook(from, c)
      PROVE  InboxInv'
  <2>1. inbox' \in Seq(InboxRow) /\ \A x \in Change : Held(x) => Held(x)'
    BY <1>1, <1>4, IngestedHolds DEF Webhook
  <2>2. \A x \in Change : Settled(x) => Settled(x)'
    BY <1>4, <2>1 DEF Settled, Webhook
  <2>3. InboxTyped'
    BY <1>1, <1>4, <2>1 DEF InboxTyped, Webhook
  <2>4. NothingAhead'
    BY <1>4 DEF InboxInv, NothingAhead, Webhook, From
  <2>5. MissedOnlyWhilePulling'
    BY <1>4, <2>2 DEF InboxInv, MissedOnlyWhilePulling, Webhook, From, Current
  <2>6. PullsComplete'
    BY <1>4, <2>2 DEF InboxInv, PullsComplete, Webhook, From, Current
  <2> QED BY <2>3, <2>4, <2>5, <2>6 DEF InboxInv
<1>5. ASSUME NEW d \in Documents, NEW k \in DOMAIN leave[d], Decide(d, k)
      PROVE  InboxInv'
  <2>1. UNCHANGED <<clock, versions, inbox, cursor, job, passedOver, disturbed>>
    BY <1>5 DEF Decide
  <2>2. leave' \in [Documents -> Seq(LeaveRow)]
    <3>1. leave \in [Documents -> Seq(LeaveRow)] /\ leave' = [leave EXCEPT ![d][k].decided = TRUE]
      BY <1>1, <1>5 DEF InboxTyped, Decide
    <3>2. leave[d] \in [1..Len(leave[d]) -> LeaveRow] /\ Len(leave[d]) \in Nat
      BY <3>1, LenProperties
    <3>3. [leave[d][k] EXCEPT !.decided = TRUE] \in LeaveRow
      BY <3>2 DEF LeaveRow
    <3>4. [leave[d] EXCEPT ![k].decided = TRUE] \in [1..Len(leave[d]) -> LeaveRow]
      BY <3>2, <3>3
    <3>5. [leave[d] EXCEPT ![k].decided = TRUE] \in Seq(LeaveRow)
      BY <3>2, <3>4, SeqDef
    <3> QED BY <3>1, <3>5
  <2>3. decision' \in [Documents -> Nat]
    <3>1. PICK i \in CopiedRows(d) \cup {0} : decision' = [decision EXCEPT ![d] = i]
      BY <1>5 DEF Decide
    <3>2. i \in Nat
      BY <1>1, LenProperties DEF CopiedRows
    <3> QED BY <1>1, <3>1, <3>2 DEF InboxTyped
  <2>4. InboxTyped'
    BY <1>1, <2>1, <2>2, <2>3 DEF InboxTyped
  <2> QED BY <2>1, <2>4 DEF InboxInv, NothingAhead, PullsComplete, MissedOnlyWhilePulling, Current,
            Settled, Held, From
<1> QED BY <1>2, <1>3, <1>4, <1>5

LEMMA InboxStep == InboxInv /\ [InboxNext]_inboxVars => InboxInv'
<1> SUFFICES ASSUME InboxInv, [InboxNext]_inboxVars
             PROVE  InboxInv'
  OBVIOUS
<1>1. CASE UNCHANGED inboxVars
  BY <1>1 DEF inboxVars, InboxInv, InboxTyped, NothingAhead, PullsComplete, MissedOnlyWhilePulling,
     Current, Settled, Held, From
<1> QED BY <1>1, FrappeStep, PullStep, CopyStep DEF InboxNext

\* The inbox is typed, nothing in it is ahead of the clock, and a pull under way has in
\* its hands, or will be given, what the cursor it read obliges it to bring.
THEOREM InboxInvariant == InboxSpec => []InboxInv
<1>1. InboxInit => InboxInv
  <2> SUFFICES ASSUME InboxInit PROVE InboxInv
    OBVIOUS
  <2>1. InboxTyped
    BY InboxConstants, EmptySeq DEF InboxInit, InboxTyped, Time, JobRecord, Resting
  <2>2. NothingAhead
    BY DEF InboxInit, NothingAhead, From, Resting
  <2>3. PullsComplete
    BY DEF InboxInit, PullsComplete, Resting
  <2>4. MissedOnlyWhilePulling
    BY DEF InboxInit, MissedOnlyWhilePulling, From
  <2> QED BY <2>1, <2>2, <2>3, <2>4 DEF InboxInv
<1> QED BY <1>1, InboxStep, PTL DEF InboxSpec

\* For any number of documents, pulls and limits, a change is missed only if it was made
\* between the query and the stamp of a pull, or lay beyond the limit of its batch.
THEOREM OnlyPullsMiss == InboxSpec => []MissedOnlyWhilePulling
<1>1. InboxInv => MissedOnlyWhilePulling
  BY DEF InboxInv
<1> QED BY <1>1, InboxInvariant, PTL
-----------------------------------------------------------------------------
(* Copying *)

\* A job that moves takes no other with it.
LEMMA OneMoves ==
  ASSUME InboxTyped, NEW j \in Jobs, NEW record, Goto(j, record)
  PROVE  /\ job'[j] = record
         /\ \A k \in Jobs \ {j} : job'[k] = job[k] /\ RowsOf(k)' = RowsOf(k)
                                   /\ \A i : At(k, i)' <=> At(k, i)
<1>1. job'[j] = record /\ \A k \in Jobs \ {j} : job'[k] = job[k]
  BY DEF Goto, InboxTyped
<1> QED BY <1>1 DEF RowsOf, At

\* What is in the inbox stays as it is, and new rows are pending.
Grows ==
  /\ DOMAIN inbox \subseteq DOMAIN inbox' /\ DOMAIN inbox' \subseteq Nat
  /\ \A i \in DOMAIN inbox : inbox'[i] = inbox[i]
  /\ \A i \in DOMAIN inbox' \ DOMAIN inbox :
       inbox'[i].status = "pending" /\ \A k \in DOMAIN inbox : k < i

\* Where no row is written and the copied rows stay the same, leave keeps following them.
LEMMA LeaveStays ==
  ASSUME CopyInv, UNCHANGED <<leave, decision>>,
         \A d \in Documents \ disturbed' : /\ d \notin disturbed
                                          /\ CopiedRows(d)' = CopiedRows(d)
                                          /\ \A i \in CopiedRows(d) : inbox'[i].change = inbox[i].change
  PROVE  LeaveFollowsInbox' /\ DecisionsKnown'
<1>1. ASSUME NEW d \in Documents \ disturbed'
      PROVE  /\ IF CopiedRows(d)' = {} THEN leave'[d] = <<>>
                ELSE \E i \in CopiedRows(d)' :
                       /\ \A k \in CopiedRows(d)' : k <= i
                       /\ leave'[d] = <<[version |-> inbox'[i].change.version, decided |-> decision'[d] = i]>>
             /\ decision'[d] \in CopiedRows(d)' \cup {0}
  <2>1. /\ d \in Documents \ disturbed /\ CopiedRows(d)' = CopiedRows(d)
        /\ \A i \in CopiedRows(d) : inbox'[i].change = inbox[i].change
    BY <1>1
  <2>2. /\ IF CopiedRows(d) = {} THEN leave[d] = <<>>
           ELSE \E i \in CopiedRows(d) :
                  /\ \A k \in CopiedRows(d) : k <= i
                  /\ leave[d] = <<[version |-> inbox[i].change.version, decided |-> decision[d] = i]>>
        /\ decision[d] \in CopiedRows(d) \cup {0}
    BY <2>1 DEF CopyInv, LeaveFollowsInbox, DecisionsKnown
  <2>3. CASE CopiedRows(d) = {}
    BY <2>1, <2>2, <2>3
  <2>4. CASE CopiedRows(d) # {}
    <3>1. PICK i \in CopiedRows(d) :
            /\ \A k \in CopiedRows(d) : k <= i
            /\ leave[d] = <<[version |-> inbox[i].change.version, decided |-> decision[d] = i]>>
      BY <2>2, <2>4
    <3>2. leave'[d] = <<[version |-> inbox'[i].change.version, decided |-> decision'[d] = i]>>
      BY <2>1, <3>1
    <3> QED BY <2>1, <2>2, <2>4, <3>1, <3>2
  <2> QED BY <2>3, <2>4
<1> QED BY <1>1 DEF LeaveFollowsInbox, DecisionsKnown

LEMMA IngestedGrows ==
  ASSUME inbox \in Seq(InboxRow), NEW from \in {"pull", "event", "name", "uuid"},
         NEW c \in Change, inbox' = Ingested(from, c)
  PROVE  Grows
<1> DEFINE row == [from |-> from, change |-> c, status |-> "pending"]
<1>1. CASE Duplicate(from, c)
  BY <1>1, LenProperties DEF Ingested, Grows
<1>2. CASE ~Duplicate(from, c)
  <2>1. inbox' = Append(inbox, row)
    BY <1>2 DEF Ingested
  <2>2. row \in InboxRow
    BY DEF InboxRow
  <2>3. /\ inbox' \in Seq(InboxRow) /\ Len(inbox') = Len(inbox) + 1
        /\ \A i \in 1..Len(inbox) : inbox'[i] = inbox[i]
        /\ inbox'[Len(inbox) + 1] = row
    BY <2>1, <2>2, AppendProperties
  <2>4. DOMAIN inbox = 1..Len(inbox) /\ DOMAIN inbox' = 1..(Len(inbox) + 1) /\ Len(inbox) \in Nat
    BY <2>3, LenProperties
  <2>5. row.status = "pending"
    OBVIOUS
  <2> QED BY <2>3, <2>4, <2>5 DEF Grows
<1> QED BY <1>1, <1>2

\* Steps that take no row and copy none.
LEMMA CalmStep ==
  ASSUME InboxInv, CopyInv, Grows, UNCHANGED <<leave, decision>>, disturbed \subseteq disturbed',
         \A j \in Jobs : /\ RowsOf(j)' = RowsOf(j)
                         /\ job[j].at = "marking" /\ job[j].status = "processed" <=>
                              job'[j].at = "marking" /\ job'[j].status = "processed"
                         /\ job'[j].at \in {"writing", "marking"} => RowsOf(j) # {},
         \A j \in Jobs, i \in DOMAIN inbox : At(j, i) /\ Calm(i)' /\ job'[j].at = "writing" =>
           job'[j].found = Existing(Doc(i))
  PROVE  CopyInv'
<1>1. \A j \in Jobs : RowsOf(j) \subseteq DOMAIN inbox
  BY DEF CopyInv, HeldRows
<1>2. \A i \in DOMAIN inbox : i \in DOMAIN inbox' /\ Doc(i)' = Doc(i)
  BY DEF Grows, Doc
<1>3. \A j \in Jobs : \A i : At(j, i)' <=> At(j, i)
  BY DEF At
<1>4. \A j \in Jobs : Done(j)' = Done(j)
  BY <1>1, <1>2, <1>3 DEF Done, At
<1>5. \A j \in Jobs : Done(j) \subseteq DOMAIN inbox
  BY DEF Done
<1>6. \A i \in DOMAIN inbox : Copied(i)' <=> Copied(i)
  BY <1>4 DEF Copied, Grows
<1>7. \A i \in DOMAIN inbox' \ DOMAIN inbox : ~Copied(i)'
  BY <1>4, <1>5 DEF Copied, Grows
<1>8. \A i \in DOMAIN inbox : Calm(i)' => Calm(i)
  BY <1>2 DEF Calm
<1>9. HeldRows'
  <2>1. \A j \in Jobs : \A i \in RowsOf(j) : Calm(i)' => inbox'[i].status = "pending"
    BY <1>1, <1>8 DEF CopyInv, HeldRows, Grows
  <2>2. \A j \in Jobs : \A i \in RowsOf(j) : Calm(i)' =>
          \A k \in Jobs \ {j} : \A m \in RowsOf(k) : Doc(m)' # Doc(i)'
    <3> SUFFICES ASSUME NEW j \in Jobs, NEW i \in RowsOf(j), Calm(i)',
                        NEW k \in Jobs \ {j}, NEW m \in RowsOf(k)
                 PROVE  Doc(m)' # Doc(i)'
      OBVIOUS
    <3>1. Doc(m)' = Doc(m) /\ Doc(i)' = Doc(i) /\ Calm(i)
      BY <1>1, <1>2, <1>8
    <3> QED BY <3>1 DEF CopyInv, HeldRows
  <2>3. \A j \in Jobs : RowsOf(j) \subseteq DOMAIN inbox'
    BY <1>1, <1>2
  <2> QED BY <2>1, <2>2, <2>3 DEF HeldRows
<1>10. TakenInTurn'
  <2> SUFFICES ASSUME NEW i \in DOMAIN inbox', NEW k \in DOMAIN inbox',
                      Doc(i)' = Doc(k)', Calm(i)', inbox'[k].status = "pending"
               PROVE  /\ Copied(i)' /\ ~Copied(k)' => i < k
                      /\ \A j \in Jobs : i \in RowsOf(j) /\ k < i => k \in RowsOf(j)
    BY DEF TakenInTurn
  <2>1. CASE i \in DOMAIN inbox /\ k \in DOMAIN inbox
    <3>1. Doc(i) = Doc(k) /\ Calm(i) /\ inbox[k].status = "pending"
      BY <1>2, <1>8, <2>1 DEF Grows
    <3> QED BY <1>6, <2>1, <3>1 DEF CopyInv, TakenInTurn
  <2>2. CASE i \notin DOMAIN inbox
    BY <1>1, <1>7, <2>2
  <2>3. CASE i \in DOMAIN inbox /\ k \notin DOMAIN inbox
    <3>1. i < k /\ i \in Nat /\ k \in Nat
      BY <2>3 DEF Grows
    <3> QED BY <3>1
  <2> QED BY <2>1, <2>2, <2>3
<1>11. FoundStill'
  BY <1>1, <1>2, <1>3 DEF FoundStill, At, Existing
<1>12. LeaveFollowsInbox' /\ DecisionsKnown'
  <2>1. ASSUME NEW d \in Documents \ disturbed'
        PROVE  /\ d \notin disturbed /\ CopiedRows(d)' = CopiedRows(d)
               /\ \A i \in CopiedRows(d) : inbox'[i].change = inbox[i].change
    BY <2>1, <1>2, <1>6, <1>7 DEF CopiedRows, Grows
  <2> QED BY <2>1, LeaveStays
<1> QED BY <1>9, <1>10, <1>11, <1>12 DEF CopyInv

\* A job lets go of rows, those half copied and those it could not mark among the disturbed.
LEMMA DropStep ==
  ASSUME InboxInv, CopyInv, NEW j \in Jobs, NEW record, Goto(j, record),
         record.at \notin {"writing", "marking"}, RowsOf(j)' \subseteq RowsOf(j),
         UNCHANGED <<inbox, leave, decision>>, disturbed \subseteq disturbed',
         {Doc(i) : i \in Done(j)} \subseteq disturbed',
         \/ RowsOf(j)' = {}
         \/ \A i \in RowsOf(j) \ RowsOf(j)' : Doc(i) \in disturbed'
  PROVE  CopyInv'
<1>1. /\ job'[j] = record
      /\ \A k \in Jobs \ {j} : job'[k] = job[k] /\ RowsOf(k)' = RowsOf(k)
                                /\ \A i : At(k, i)' <=> At(k, i)
  BY OneMoves DEF InboxInv
<1>2. \A i : (Doc(i)' = Doc(i)) /\ (Calm(i)' => Calm(i))
  BY DEF Doc, Calm
<1>3. Done(j)' = {} /\ \A k \in Jobs \ {j} : Done(k)' = Done(k)
  BY <1>1 DEF Done
<1>4. \A i \in DOMAIN inbox : Calm(i)' => (Copied(i)' <=> Copied(i))
  <2> SUFFICES ASSUME NEW i \in DOMAIN inbox, Calm(i)'
               PROVE  Copied(i)' <=> Copied(i)
    OBVIOUS
  <2>1. i \notin Done(j)
    BY <1>2 DEF Calm
  <2> QED BY <2>1, <1>3 DEF Copied
<1>5. HeldRows'
  <2> SUFFICES ASSUME NEW k \in Jobs
               PROVE  /\ RowsOf(k)' \subseteq DOMAIN inbox'
                      /\ job'[k].at \in {"writing", "marking"} => RowsOf(k)' # {}
                      /\ \A i \in RowsOf(k)' : Calm(i)' =>
                           /\ inbox'[i].status = "pending"
                           /\ \A l \in Jobs \ {k} : \A m \in RowsOf(l)' : Doc(m)' # Doc(i)'
    BY DEF HeldRows
  <2>1. \A l \in Jobs : RowsOf(l)' \subseteq RowsOf(l)
    BY <1>1
  <2>2. job'[k].at \in {"writing", "marking"} => RowsOf(k)' # {}
    BY <1>1 DEF CopyInv, HeldRows
  <2> QED BY <2>1, <2>2, <1>2 DEF CopyInv, HeldRows
<1>6. TakenInTurn'
  <2> SUFFICES ASSUME NEW i \in DOMAIN inbox, NEW k \in DOMAIN inbox,
                      Doc(i) = Doc(k), Calm(i)', inbox[k].status = "pending"
               PROVE  /\ Copied(i)' /\ ~Copied(k)' => i < k
                      /\ \A l \in Jobs : i \in RowsOf(l)' /\ k < i => k \in RowsOf(l)'
    BY <1>2 DEF TakenInTurn
  <2>1. Calm(i) /\ Calm(k)'
    BY <1>2 DEF Calm
  <2>2. Copied(i)' /\ ~Copied(k)' => i < k
    BY <1>4, <2>1 DEF CopyInv, TakenInTurn
  <2>3. ASSUME NEW l \in Jobs, i \in RowsOf(l)', k < i
        PROVE  k \in RowsOf(l)'
    <3>1. CASE l # j
      BY <1>1, <2>1, <2>3, <3>1 DEF CopyInv, TakenInTurn
    <3>2. CASE l = j
      <4>1. k \in RowsOf(j)
        BY <2>1, <2>3, <3>2 DEF CopyInv, TakenInTurn
      <4>2. Doc(k) \notin disturbed'
        BY <2>1, <1>2 DEF Calm
      <4> QED BY <2>3, <3>2, <4>1, <4>2
    <3> QED BY <3>1, <3>2
  <2> QED BY <2>2, <2>3
<1>7. FoundStill'
  <2> SUFFICES ASSUME NEW k \in Jobs, NEW i \in DOMAIN inbox,
                      At(k, i)', Calm(i)', job'[k].at = "writing"
               PROVE  job'[k].found = Existing(Doc(i))
    BY <1>2 DEF FoundStill, Existing
  <2>1. k # j
    BY <1>1
  <2> QED BY <1>1, <1>2, <2>1 DEF CopyInv, FoundStill
<1>8. LeaveFollowsInbox' /\ DecisionsKnown'
  <2>1. ASSUME NEW d \in Documents \ disturbed'
        PROVE  d \notin disturbed /\ CopiedRows(d)' = CopiedRows(d)
    <3>1. \A i \in DOMAIN inbox : Doc(i) = d => Calm(i)'
      BY <2>1, <1>2 DEF Calm
    <3> QED BY <2>1, <1>2, <1>4, <3>1 DEF CopiedRows
  <2> QED BY <2>1, LeaveStays
<1> QED BY <1>5, <1>6, <1>7, <1>8 DEF CopyInv

\* The oldest pending rows are taken, so that none of them is older than one left.
LEMMA OldestTaken ==
  ASSUME inbox \in Seq(InboxRow), NEW i \in Pending, NEW k \in Pending, k < i,
         Cardinality({m \in Pending : m < i}) < CopyLimit
  PROVE  Cardinality({m \in Pending : m < k}) < CopyLimit
<1>1. Pending \subseteq 1..Len(inbox) /\ Len(inbox) \in Nat
  BY LenProperties DEF Pending
<1>2. IsFiniteSet({m \in Pending : m < i})
  <2>1. IsFiniteSet(1..Len(inbox))
    BY <1>1, FS_Interval
  <2> QED BY <1>1, <2>1, FS_Subset
<1>3. {m \in Pending : m < k} \subseteq {m \in Pending : m < i}
  <2>1. i \in Nat /\ k \in Nat /\ \A m \in Pending : m \in Nat
    BY <1>1
  <2>2. \A m \in Pending : m < k => m < i
    BY <2>1
  <2> QED BY <2>2
<1>4. /\ Cardinality({m \in Pending : m < k}) <= Cardinality({m \in Pending : m < i})
      /\ Cardinality({m \in Pending : m < k}) \in Nat /\ Cardinality({m \in Pending : m < i}) \in Nat
  BY <1>2, <1>3, FS_Subset, FS_CardinalityType
<1> QED BY <1>4, InboxConstants

LEMMA SelectStep ==
  ASSUME InboxInv, CopyInv, NEW j \in Jobs, Select(j)
  PROVE  CopyInv'
<1> DEFINE rows == {i \in Pending : Cardinality({k \in Pending : k < i}) < CopyLimit}
<1>1. /\ job[j] = Selecting /\ Goto(j, [at |-> "copying", rows |-> rows])
      /\ disturbed' = disturbed \cup Shared(j, rows) /\ UNCHANGED <<inbox, leave, decision>>
  BY DEF Select
<1>2. /\ job'[j] = [at |-> "copying", rows |-> rows]
      /\ \A k \in Jobs \ {j} : job'[k] = job[k] /\ RowsOf(k)' = RowsOf(k)
                                /\ \A i : At(k, i)' <=> At(k, i)
  BY <1>1, OneMoves DEF InboxInv
<1>3. RowsOf(j)' = rows /\ rows \subseteq DOMAIN inbox /\ \A i \in rows : inbox[i].status = "pending"
  BY <1>2 DEF RowsOf, Pending
<1>4. \A i : (Doc(i)' = Doc(i)) /\ (Calm(i)' => Calm(i))
  BY <1>1 DEF Doc, Calm
<1> HIDE DEF rows
<1>5. Done(j) = {} /\ Done(j)' = {} /\ \A k \in Jobs \ {j} : Done(k)' = Done(k)
  <2>1. job[j].at # "marking" /\ job'[j].at # "marking"
    BY <1>1, <1>2 DEF Selecting
  <2> QED BY <1>1, <1>2, <2>1 DEF Done
<1>6. \A i : Copied(i)' <=> Copied(i)
  BY <1>1, <1>5 DEF Copied
<1>7. \A i \in rows : Calm(i)' => \A k \in Jobs \ {j} : \A m \in RowsOf(k) : Doc(m) # Doc(i)
  BY <1>1, <1>4 DEF Shared, Calm
<1>8. HeldRows'
  <2> SUFFICES ASSUME NEW k \in Jobs
               PROVE  /\ RowsOf(k)' \subseteq DOMAIN inbox
                      /\ job'[k].at \in {"writing", "marking"} => RowsOf(k)' # {}
                      /\ \A i \in RowsOf(k)' : Calm(i)' =>
                           /\ inbox[i].status = "pending"
                           /\ \A l \in Jobs \ {k} : \A m \in RowsOf(l)' : Doc(m) # Doc(i)
    BY <1>1, <1>4 DEF HeldRows
  <2>1. CASE k = j
    BY <1>2, <1>3, <1>7, <2>1
  <2>2. CASE k # j
    <3>1. \A i \in RowsOf(k) : Calm(i)' => \A m \in rows : Doc(m) # Doc(i)
      BY <1>7, <2>2, <1>4 DEF Calm
    <3> QED BY <1>2, <1>3, <1>4, <2>2, <3>1 DEF CopyInv, HeldRows
  <2> QED BY <2>1, <2>2
<1>9. TakenInTurn'
  <2> SUFFICES ASSUME NEW i \in DOMAIN inbox, NEW k \in DOMAIN inbox,
                      Doc(i) = Doc(k), Calm(i)', inbox[k].status = "pending"
               PROVE  /\ Copied(i)' /\ ~Copied(k)' => i < k
                      /\ \A l \in Jobs : i \in RowsOf(l)' /\ k < i => k \in RowsOf(l)'
    BY <1>1, <1>4 DEF TakenInTurn
  <2>1. Calm(i)
    BY <1>4
  <2>2. i \in rows /\ k < i => k \in rows
    BY OldestTaken DEF rows, Pending, InboxInv, InboxTyped
  <2> QED BY <1>2, <1>3, <1>6, <2>1, <2>2 DEF CopyInv, TakenInTurn
<1>10. FoundStill'
  <2> SUFFICES ASSUME NEW k \in Jobs, NEW i \in DOMAIN inbox,
                      At(k, i)', Calm(i)', job'[k].at = "writing"
               PROVE  job'[k].found = Existing(Doc(i))
    BY <1>1, <1>4 DEF FoundStill, Existing
  <2>1. k # j
    BY <1>2
  <2> QED BY <1>2, <1>4, <2>1 DEF CopyInv, FoundStill
<1>11. LeaveFollowsInbox' /\ DecisionsKnown'
  <2>1. \A d \in Documents \ disturbed' : d \notin disturbed /\ CopiedRows(d)' = CopiedRows(d)
    BY <1>1, <1>4, <1>6 DEF CopiedRows
  <2> QED BY <1>1, <2>1, LeaveStays
<1> QED BY <1>8, <1>9, <1>10, <1>11 DEF CopyInv
\* A calm row that a job has in its hands: its own, pending, and the next of its document.
LEMMA InHand ==
  ASSUME InboxInv, CopyInv, NEW j \in Jobs, NEW i \in DOMAIN inbox, At(j, i), Calm(i)
  PROVE  /\ i \in RowsOf(j) /\ inbox[i].status = "pending" /\ i \in Nat
         /\ \A k \in Jobs \ {j} : \A m \in RowsOf(k) : Doc(m) # Doc(i)
         /\ \A k \in Jobs \ {j} : i \notin Done(k)
         /\ \A k \in DOMAIN inbox : Doc(k) = Doc(i) /\ inbox[k].status = "pending" => i <= k
<1>1. /\ i \in RowsOf(j) /\ inbox[i].status = "pending"
      /\ \A k \in Jobs \ {j} : \A m \in RowsOf(k) : Doc(m) # Doc(i)
  BY DEF At, CopyInv, HeldRows
<1>2. DOMAIN inbox \subseteq Nat
  BY LenProperties DEF InboxInv, InboxTyped
<1>3. \A k \in Jobs \ {j} : i \notin Done(k)
  BY <1>1 DEF Done, At
<1>4. ASSUME NEW k \in DOMAIN inbox, Doc(k) = Doc(i), inbox[k].status = "pending", k < i
      PROVE  FALSE
  <2>1. k \in RowsOf(j)
    BY <1>1, <1>4 DEF CopyInv, TakenInTurn
  <2> QED BY <1>2, <1>4, <2>1 DEF At, OldestFirst
<1> QED BY <1>1, <1>2, <1>3, <1>4

LEMMA WriteStep ==
  ASSUME InboxInv, CopyInv, NEW j \in Jobs, Write(j)
  PROVE  CopyInv'
<1>1. PICK i \in DOMAIN inbox, status \in {"processed", "failed"} :
        /\ At(j, i)
        /\ leave' = [leave EXCEPT ![Doc(i)] = Written(@, job[j].found, inbox[i].change.version)]
        /\ disturbed' = IF status = "failed" THEN disturbed \cup {Doc(i)} ELSE disturbed
        /\ Goto(j, [at |-> "marking", rows |-> job[j].rows, status |-> status])
  BY DEF Write
<1>2. job[j].at = "writing" /\ UNCHANGED inbox
  BY DEF Write
<1>3. /\ job'[j] = [at |-> "marking", rows |-> job[j].rows, status |-> status]
      /\ \A k \in Jobs \ {j} : job'[k] = job[k] /\ RowsOf(k)' = RowsOf(k)
                                /\ \A m : At(k, m)' <=> At(k, m)
  BY <1>1, OneMoves DEF InboxInv
<1>4. RowsOf(j)' = RowsOf(j) /\ \A m : At(j, m)' <=> At(j, m)
  <2>1. RowsOf(j)' = RowsOf(j)
    BY <1>2, <1>3 DEF RowsOf
  <2> QED BY <2>1 DEF At
<1>5. \A m : (Doc(m)' = Doc(m)) /\ (Calm(m)' => Calm(m))
  BY <1>1, <1>2 DEF Doc, Calm
<1>6. Done(j) = {} /\ \A k \in Jobs \ {j} : Done(k)' = Done(k)
  BY <1>2, <1>3 DEF Done
<1>7. Done(j)' = IF status = "processed" THEN {m \in DOMAIN inbox : At(j, m)} ELSE {}
  BY <1>2, <1>3, <1>4 DEF Done
<1>8. \A m \in DOMAIN inbox : At(j, m) => m = i
  BY <1>1, LenProperties DEF At, OldestFirst, InboxInv, InboxTyped
<1>9. Done(j)' = IF status = "processed" THEN {i} ELSE {}
  BY <1>1, <1>7, <1>8
<1>10. \A m \in DOMAIN inbox : Copied(m)' <=> Copied(m) \/ (m = i /\ status = "processed")
  BY <1>2, <1>6, <1>9 DEF Copied
<1>11. HeldRows'
  <2>1. \A k \in Jobs : RowsOf(k)' = RowsOf(k) /\ (job'[k].at \in {"writing", "marking"} => job[k].at \in {"writing", "marking"})
    BY <1>2, <1>3, <1>4
  <2> QED BY <1>2, <1>5, <2>1 DEF CopyInv, HeldRows
<1>12. TakenInTurn'
  <2> SUFFICES ASSUME NEW m \in DOMAIN inbox, NEW k \in DOMAIN inbox,
                      Doc(m) = Doc(k), Calm(m)', inbox[k].status = "pending"
               PROVE  /\ Copied(m)' /\ ~Copied(k)' => m < k
                      /\ \A l \in Jobs : m \in RowsOf(l)' /\ k < m => k \in RowsOf(l)'
    BY <1>2, <1>5 DEF TakenInTurn
  <2>1. Calm(m)
    BY <1>5
  <2>2. \A l \in Jobs : RowsOf(l)' = RowsOf(l)
    BY <1>3, <1>4
  <2>3. ASSUME m = i, status = "processed", ~Copied(k)'
        PROVE  m < k
    <3>1. i <= k /\ i # k
      BY <1>1, <1>10, <2>1, <2>3, InHand
    <3> QED BY <2>3, <3>1, LenProperties DEF InboxInv, InboxTyped
  <2> QED BY <1>10, <2>1, <2>2, <2>3 DEF CopyInv, TakenInTurn
<1>13. FoundStill'
  <2> SUFFICES ASSUME NEW k \in Jobs, NEW m \in DOMAIN inbox,
                      At(k, m)', Calm(m)', job'[k].at = "writing"
               PROVE  job'[k].found = Existing(Doc(m))'
    BY <1>2, <1>5 DEF FoundStill, Existing
  <2>1. k # j
    BY <1>3
  <2>2. At(k, m) /\ Calm(m) /\ job'[k] = job[k]
    BY <1>3, <1>5, <2>1
  <2>3. Doc(i) # Doc(m)
    BY <1>1, <2>1, <2>2, InHand DEF At
  <2>4. leave'[Doc(m)] = leave[Doc(m)]
    <3>1. Doc(m) \in Documents
      BY RowsTyped DEF InboxInv
    <3> QED BY <1>1, <2>3, <3>1 DEF InboxInv, InboxTyped
  <2> QED BY <1>5, <2>2, <2>4 DEF CopyInv, FoundStill, Existing
<1>14. LeaveFollowsInbox' /\ DecisionsKnown'
  <2>1. ASSUME NEW d \in Documents \ disturbed'
        PROVE  /\ IF CopiedRows(d)' = {} THEN leave'[d] = <<>>
                  ELSE \E m \in CopiedRows(d)' :
                         /\ \A k \in CopiedRows(d)' : k <= m
                         /\ leave'[d] = <<[version |-> inbox'[m].change.version, decided |-> decision'[d] = m]>>
               /\ decision'[d] \in CopiedRows(d)' \cup {0}
    <3> DEFINE copied == CopiedRows(d)
    <3>1. d \in Documents \ disturbed /\ decision' = decision /\ inbox' = inbox
      BY <1>1, <2>1 DEF Write
    <3>2. /\ IF copied = {} THEN leave[d] = <<>>
             ELSE \E m \in copied : /\ \A k \in copied : k <= m
                                    /\ leave[d] = <<[version |-> inbox[m].change.version, decided |-> decision[d] = m]>>
          /\ decision[d] \in copied \cup {0}
      BY <3>1 DEF CopyInv, LeaveFollowsInbox, DecisionsKnown
    <3>3. CASE Doc(i) # d
      <4>1. CopiedRows(d)' = copied
        BY <1>2, <1>5, <1>10, <3>3 DEF CopiedRows
      <4>2. leave'[d] = leave[d]
        BY <1>1, <3>3 DEF InboxInv, InboxTyped
      <4> HIDE DEF copied
      <4> QED BY <3>1, <3>2, <4>1, <4>2
    <3>4. CASE Doc(i) = d
      <4>1. status = "processed" /\ Calm(i)
        BY <1>1, <2>1, <3>1, <3>4 DEF Calm
      <4>2. CopiedRows(d)' = copied \cup {i}
        BY <1>2, <1>5, <1>10, <3>4, <4>1 DEF CopiedRows
      <4>3. ~Copied(i)
        <5>1. inbox[i].status = "pending" /\ \A k \in Jobs \ {j} : i \notin Done(k)
          BY <1>1, <4>1, InHand
        <5> QED BY <1>6, <5>1 DEF Copied
      <4>4. \A m \in copied : m < i
        <5>1. inbox[i].status = "pending"
          BY <1>1, <4>1, InHand
        <5>2. \A m \in copied : m \in DOMAIN inbox /\ Doc(m) = Doc(i) /\ Calm(m) /\ Copied(m)
          BY <3>4, <4>1 DEF Calm, CopiedRows
        <5> QED BY <4>3, <5>1, <5>2 DEF CopyInv, TakenInTurn
      <4>5. i \in Nat /\ i # 0 /\ \A m \in copied \cup {i} : m <= i
        <5>1. DOMAIN inbox \subseteq Nat \ {0}
          BY LenProperties DEF InboxInv, InboxTyped
        <5>2. copied \subseteq DOMAIN inbox
          BY DEF CopiedRows
        <5> HIDE DEF copied
        <5> QED BY <4>4, <5>1, <5>2
      <4>6. decision[d] # i
        <5>1. i \notin copied
          BY <4>3 DEF CopiedRows
        <5> QED BY <3>2, <4>5, <5>1
      <4>7. job[j].found = Existing(d)
        BY <1>1, <1>2, <3>4, <4>1 DEF CopyInv, FoundStill
      <4>8. leave'[d] = Written(leave[d], Existing(d), inbox[i].change.version)
        BY <1>1, <3>4, <4>7 DEF InboxInv, InboxTyped
      <4> DEFINE row == [version |-> inbox[i].change.version, decided |-> FALSE]
      <4>9. leave'[d] = <<row>>
        <5>1. leave[d] = <<>> \/ \E v : leave[d] = <<v>>
          BY <3>2
        <5>2. leave'[d] = Written(leave[d], Existing(d), inbox[i].change.version) /\ row.decided = FALSE
          BY <4>8
        <5>3. CASE leave[d] = <<>>
          <6>1. Existing(d) = 0
            BY <5>3 DEF Existing
          <6>2. Written(<<>>, 0, inbox[i].change.version) = Append(<<>>, row)
            <7>1. Len(<<>>) < 2
              OBVIOUS
            <7> QED BY <7>1, Zenon DEF Written
          <6> HIDE DEF row
          <6> QED BY <5>2, <5>3, <6>1, <6>2
        <5>4. ASSUME NEW v, leave[d] = <<v>>
              PROVE  leave'[d] = <<row>>
          <6>1. Existing(d) = 1
            BY <5>4 DEF Existing
          <6>2. Written(<<v>>, 1, inbox[i].change.version) = [<<v>> EXCEPT ![1] = row]
            BY DEF Written
          <6> HIDE DEF row
          <6> QED BY <5>2, <5>4, <6>1, <6>2
        <5> HIDE DEF row
        <5> QED BY <5>1, <5>3, <5>4
      <4>10. leave'[d] = <<[version |-> inbox'[i].change.version, decided |-> decision'[d] = i]>>
        <5>1. (decision'[d] = i) = FALSE
          BY <3>1, <4>6
        <5> QED BY <3>1, <4>9, <5>1
      <4> HIDE DEF copied
      <4> QED BY <3>1, <3>2, <4>2, <4>5, <4>10
    <3> QED BY <3>3, <3>4
  <2> QED BY <2>1 DEF LeaveFollowsInbox, DecisionsKnown
<1> QED BY <1>11, <1>12, <1>13, <1>14 DEF CopyInv

LEMMA MarkStep ==
  ASSUME InboxInv, CopyInv, NEW j \in Jobs, Mark(j)
  PROVE  CopyInv'
<1>1. PICK i \in DOMAIN inbox :
        /\ At(j, i)
        /\ inbox' = [inbox EXCEPT ![i].status = job[j].status]
        /\ Goto(j, [at |-> "copying", rows |-> job[j].rows \ {i}])
  BY DEF Mark
<1>2. job[j].at = "marking" /\ UNCHANGED <<leave, decision, disturbed>>
  BY DEF Mark
<1>3. /\ job'[j] = [at |-> "copying", rows |-> job[j].rows \ {i}]
      /\ \A k \in Jobs \ {j} : job'[k] = job[k] /\ RowsOf(k)' = RowsOf(k)
                                /\ \A m : At(k, m)' <=> At(k, m)
  BY <1>1, OneMoves DEF InboxInv
<1>4. RowsOf(j) = job[j].rows /\ RowsOf(j)' = RowsOf(j) \ {i} /\ i \in RowsOf(j)
  BY <1>1, <1>2, <1>3 DEF RowsOf, At
<1>5. /\ DOMAIN inbox' = DOMAIN inbox
      /\ \A m \in DOMAIN inbox : m # i => inbox'[m] = inbox[m]
      /\ inbox'[i].status = job[j].status /\ inbox'[i].change = inbox[i].change
  <2>1. inbox[i] \in InboxRow
    BY ElementOfSeq, LenProperties DEF InboxInv, InboxTyped
  <2> QED BY <1>1, <2>1 DEF InboxRow
<1>6. \A m \in DOMAIN inbox : /\ Doc(m)' = Doc(m) /\ (Calm(m)' <=> Calm(m))
                              /\ inbox'[m].change = inbox[m].change
  BY <1>2, <1>5 DEF Doc, Calm
<1>7. Done(j)' = {} /\ \A k \in Jobs \ {j} : Done(k)' = Done(k)
  BY <1>3, <1>5 DEF Done
<1>8. Done(j) = IF job[j].status = "processed" THEN {i} ELSE {}
  <2>1. \A m \in DOMAIN inbox : At(j, m) => m = i
    BY <1>1, LenProperties DEF At, OldestFirst, InboxInv, InboxTyped
  <2> QED BY <1>1, <1>2, <2>1 DEF Done
<1>9. job[j].status \in {"processed", "failed"}
  BY <1>2, JobFields DEF InboxInv
<1>10. \A m \in DOMAIN inbox : Calm(m) => (Copied(m)' <=> Copied(m))
  <2> SUFFICES ASSUME NEW m \in DOMAIN inbox, Calm(m)
               PROVE  Copied(m)' <=> Copied(m)
    OBVIOUS
  <2>1. CASE m # i
    BY <1>5, <1>7, <1>8, <2>1 DEF Copied
  <2>2. CASE m = i
    <3>1. inbox[i].status = "pending" /\ \A k \in Jobs \ {j} : i \notin Done(k)
      BY <1>1, <2>2, InHand
    <3> QED BY <1>5, <1>7, <1>8, <1>9, <2>2, <3>1 DEF Copied
  <2> QED BY <2>1, <2>2
<1>11. \A k \in Jobs : RowsOf(k)' \subseteq RowsOf(k)
  BY <1>3, <1>4
<1>12. \A k \in Jobs, m \in DOMAIN inbox : m \in RowsOf(k)' /\ Calm(m) => m # i
  BY <1>1, <1>3, <1>4, InHand
<1>13. HeldRows'
  <2> SUFFICES ASSUME NEW k \in Jobs
               PROVE  /\ RowsOf(k)' \subseteq DOMAIN inbox
                      /\ job'[k].at \in {"writing", "marking"} => RowsOf(k)' # {}
                      /\ \A m \in RowsOf(k)' : Calm(m)' =>
                           /\ inbox'[m].status = "pending"
                           /\ \A l \in Jobs \ {k} : \A n \in RowsOf(l)' : Doc(n)' # Doc(m)'
    BY <1>5 DEF HeldRows
  <2>1. RowsOf(k)' \subseteq DOMAIN inbox
    BY <1>11 DEF CopyInv, HeldRows
  <2>2. job'[k].at \in {"writing", "marking"} => RowsOf(k)' # {}
    BY <1>3 DEF CopyInv, HeldRows
  <2>3. ASSUME NEW m \in RowsOf(k)', Calm(m)'
        PROVE  inbox'[m].status = "pending"
    <3>1. m \in RowsOf(k) /\ m \in DOMAIN inbox /\ Calm(m) /\ m # i
      BY <1>6, <1>11, <1>12, <2>1, <2>3
    <3> QED BY <1>5, <3>1 DEF CopyInv, HeldRows
  <2>4. ASSUME NEW m \in RowsOf(k)', Calm(m)', NEW l \in Jobs \ {k}, NEW n \in RowsOf(l)'
        PROVE  Doc(n)' # Doc(m)'
    <3>1. m \in RowsOf(k) /\ m \in DOMAIN inbox /\ Calm(m) /\ n \in RowsOf(l)
      BY <1>6, <1>11, <2>1, <2>4
    <3>2. n \in DOMAIN inbox
      BY <3>1 DEF CopyInv, HeldRows
    <3>3. Doc(n) # Doc(m)
      BY <3>1 DEF CopyInv, HeldRows
    <3> QED BY <1>6, <3>1, <3>2, <3>3
  <2> QED BY <2>1, <2>2, <2>3, <2>4
<1>14. TakenInTurn'
  <2> SUFFICES ASSUME NEW m \in DOMAIN inbox, NEW k \in DOMAIN inbox,
                      Doc(m) = Doc(k), Calm(m), inbox'[k].status = "pending"
               PROVE  /\ Copied(m)' /\ ~Copied(k)' => m < k
                      /\ \A l \in Jobs : m \in RowsOf(l)' /\ k < m => k \in RowsOf(l)'
    BY <1>5, <1>6 DEF TakenInTurn
  <2>1. k # i /\ inbox[k].status = "pending" /\ Calm(k)
    BY <1>5, <1>9 DEF Calm
  <2>2. Copied(m)' /\ ~Copied(k)' => m < k
    BY <1>10, <2>1 DEF CopyInv, TakenInTurn
  <2>3. ASSUME NEW l \in Jobs, m \in RowsOf(l)', k < m
        PROVE  k \in RowsOf(l)'
    <3>1. k \in RowsOf(l)
      BY <1>11, <2>1, <2>3 DEF CopyInv, TakenInTurn
    <3> QED BY <1>3, <1>4, <2>1, <3>1
  <2> QED BY <2>2, <2>3
<1>15. FoundStill'
  <2> SUFFICES ASSUME NEW k \in Jobs, NEW m \in DOMAIN inbox,
                      At(k, m)', Calm(m), job'[k].at = "writing"
               PROVE  job'[k].found = Existing(Doc(m))
    BY <1>2, <1>5, <1>6 DEF FoundStill, Existing
  <2>1. k # j
    BY <1>3
  <2> QED BY <1>3, <2>1 DEF CopyInv, FoundStill
<1>16. LeaveFollowsInbox' /\ DecisionsKnown'
  <2>1. ASSUME NEW d \in Documents \ disturbed
        PROVE  /\ CopiedRows(d)' = CopiedRows(d)
               /\ \A m \in CopiedRows(d) : inbox'[m].change = inbox[m].change
    BY <1>5, <1>6, <1>10, <2>1 DEF CopiedRows, Calm
  <2> QED BY <1>2, <2>1, LeaveStays
<1> QED BY <1>13, <1>14, <1>15, <1>16 DEF CopyInv

LEMMA Decided ==
  \A v, b, t :
    /\ [[version |-> v, decided |-> b] EXCEPT !.decided = t] = [version |-> v, decided |-> t]
    /\ \A r : [<<r>> EXCEPT ![1].decided = t] = <<[r EXCEPT !.decided = t]>>
OBVIOUS

\* A decision in the portal changes the one row there is, and is noted with the last copied.
LEMMA DecideStep ==
  ASSUME InboxInv, CopyInv, NEW d \in Documents, NEW n \in DOMAIN leave[d], Decide(d, n)
  PROVE  CopyInv'
<1>1. UNCHANGED <<inbox, job, disturbed>> /\ leave' = [leave EXCEPT ![d][n].decided = TRUE]
  BY DEF Decide
<1>2. PICK i \in CopiedRows(d) \cup {0} :
        (\A m \in CopiedRows(d) : m <= i) /\ decision' = [decision EXCEPT ![d] = i]
  BY DEF Decide
<1>3. leave \in [Documents -> Seq(LeaveRow)] /\ decision \in [Documents -> Nat]
  BY DEF InboxInv, InboxTyped
<1>4. HeldRows' /\ TakenInTurn'
  BY <1>1 DEF CopyInv, HeldRows, TakenInTurn, RowsOf, Copied, Done, At, Doc, Calm
<1>5. \A x \in Documents : Existing(x)' = Existing(x)
  <2>1. \A x \in Documents : x # d => leave'[x] = leave[x]
    BY <1>1, <1>3
  <2>2. Len(leave'[d]) = Len(leave[d])
    <3>1. leave[d] \in [1..Len(leave[d]) -> LeaveRow] /\ Len(leave[d]) \in Nat
      BY <1>3, LenProperties
    <3>2. leave'[d] = [leave[d] EXCEPT ![n].decided = TRUE]
      BY <1>1, <1>3
    <3>3. DOMAIN leave'[d] = 1..Len(leave[d])
      BY <3>1, <3>2
    <3>4. leave' \in [Documents -> Seq(LeaveRow)]
      BY FrappeStep DEF InboxInv, InboxTyped
    <3>5. leave'[d] \in Seq(LeaveRow)
      BY <3>4
    <3>6. DOMAIN leave'[d] = 1..Len(leave'[d]) /\ Len(leave'[d]) \in Nat
      BY <3>5, LenProperties
    <3> QED BY <3>1, <3>3, <3>6
  <2> QED BY <2>1, <2>2 DEF Existing
<1>6. FoundStill'
  <2>1. \A i1 \in DOMAIN inbox : Doc(i1) \in Documents
    BY RowsTyped DEF InboxInv
  <2> SUFFICES ASSUME NEW k \in Jobs, NEW m \in DOMAIN inbox, At(k, m), Calm(m), job[k].at = "writing"
               PROVE  job[k].found = Existing(Doc(m))'
    BY <1>1 DEF FoundStill, At, RowsOf, Calm, Doc
  <2>2. Doc(m)' = Doc(m)
    BY <1>1 DEF Doc
  <2>3. job[k].found = Existing(Doc(m)) /\ Doc(m) \in Documents
    BY <2>1 DEF CopyInv, FoundStill
  <2>4. Existing(Doc(m))' = Existing(Doc(m))
    BY <1>5, <2>2, <2>3
  <2> QED BY <2>3, <2>4
<1>7. \A x \in Documents : CopiedRows(x)' = CopiedRows(x)
  BY <1>1 DEF CopiedRows, Copied, Done, At, RowsOf, Doc
<1>8. ASSUME NEW x \in Documents \ disturbed
      PROVE  /\ IF CopiedRows(x) = {} THEN leave'[x] = <<>>
                ELSE \E m \in CopiedRows(x) :
                       /\ \A k \in CopiedRows(x) : k <= m
                       /\ leave'[x] = <<[version |-> inbox[m].change.version, decided |-> decision'[x] = m]>>
             /\ decision'[x] \in CopiedRows(x) \cup {0}
  <2>1. /\ IF CopiedRows(x) = {} THEN leave[x] = <<>>
           ELSE \E m \in CopiedRows(x) :
                  /\ \A k \in CopiedRows(x) : k <= m
                  /\ leave[x] = <<[version |-> inbox[m].change.version, decided |-> decision[x] = m]>>
        /\ decision[x] \in CopiedRows(x) \cup {0}
    BY <1>8 DEF CopyInv, LeaveFollowsInbox, DecisionsKnown
  <2>2. CASE x # d
    <3>1. leave'[x] = leave[x] /\ decision'[x] = decision[x]
      BY <1>1, <1>2, <1>3, <2>2
    <3> QED BY <2>1, <3>1
  <2>3. CASE x = d
    <3>1. CopiedRows(d) # {}
      BY <2>1, <2>3
    <3>2. PICK m \in CopiedRows(d) :
            /\ \A k \in CopiedRows(d) : k <= m
            /\ leave[d] = <<[version |-> inbox[m].change.version, decided |-> decision[d] = m]>>
      BY <2>1, <2>3, <3>1
    <3>3. m = i
      <4>1. CopiedRows(d) \subseteq Nat \ {0}
        BY LenProperties DEF CopiedRows, InboxInv, InboxTyped
      <4> QED BY <1>2, <3>2, <4>1
    <3>4. n = 1 /\ leave'[d] = <<[version |-> inbox[m].change.version, decided |-> TRUE]>>
      <4> DEFINE made == decision[d] = m
                 row == [version |-> inbox[m].change.version, decided |-> made]
      <4> HIDE DEF made
      <4>1. [row EXCEPT !.decided = TRUE] = [version |-> inbox[m].change.version, decided |-> TRUE]
        BY Decided, Zenon
      <4>2. leave[d] = <<row>>
        BY <3>2 DEF made
      <4> HIDE DEF row
      <4>3. n = 1
        BY <4>2
      <4>4. leave'[d] = [<<row>> EXCEPT ![1].decided = TRUE]
        BY <1>1, <1>3, <4>2, <4>3
      <4>5. leave'[d] = <<[row EXCEPT !.decided = TRUE]>>
        <5>1. \A r : [<<r>> EXCEPT ![1].decided = TRUE] = <<[r EXCEPT !.decided = TRUE]>>
          BY Decided, Zenon
        <5> QED BY <4>4, <5>1, Zenon
      <4> QED BY <4>1, <4>3, <4>5
    <3>5. decision'[d] = m
      BY <1>2, <1>3, <3>3
    <3>6. (decision'[d] = m) = TRUE
      BY <3>5
    <3>7. leave'[d] = <<[version |-> inbox[m].change.version, decided |-> decision'[d] = m]>>
      BY <3>4, <3>6
    <3> QED BY <2>3, <3>1, <3>2, <3>5, <3>7
  <2> QED BY <2>2, <2>3
<1>9. LeaveFollowsInbox' /\ DecisionsKnown'
  <2>1. ASSUME NEW x \in Documents \ disturbed'
        PROVE  /\ IF CopiedRows(x)' = {} THEN leave'[x] = <<>>
                  ELSE \E m \in CopiedRows(x)' :
                         /\ \A k \in CopiedRows(x)' : k <= m
                         /\ leave'[x] = <<[version |-> inbox'[m].change.version, decided |-> decision'[x] = m]>>
               /\ decision'[x] \in CopiedRows(x)' \cup {0}
    <3>1. x \in Documents \ disturbed /\ inbox' = inbox /\ CopiedRows(x)' = CopiedRows(x)
      BY <1>1, <1>7, <2>1
    <3> QED BY <1>8, <3>1
  <2> QED BY <2>1 DEF LeaveFollowsInbox, DecisionsKnown
<1> QED BY <1>4, <1>6, <1>9 DEF CopyInv

LEMMA CopiesStep ==
  ASSUME InboxInv, CopyInv, [InboxNext]_inboxVars
  PROVE  CopyInv'
<1>1. /\ DOMAIN inbox \subseteq Nat /\ inbox \in Seq(InboxRow)
      /\ \A j \in Jobs : job[j].at \in {"writing", "marking"} => RowsOf(j) # {}
      /\ \A j \in Jobs, i \in DOMAIN inbox :
           At(j, i) /\ Calm(i) /\ job[j].at = "writing" => job[j].found = Existing(Doc(i))
  BY LenProperties DEF InboxInv, InboxTyped, CopyInv, HeldRows, FoundStill
<1>2. ASSUME UNCHANGED <<leave, decision, job, disturbed>>, Grows
      PROVE  CopyInv'
  <2>1. \A j \in Jobs : RowsOf(j)' = RowsOf(j) /\ job'[j] = job[j]
    BY <1>2 DEF RowsOf
  <2>2. \A i \in DOMAIN inbox : Calm(i)' => Calm(i)
    BY <1>2 DEF Calm, Grows, Doc
  <2> QED BY <1>1, <1>2, <2>1, <2>2, CalmStep
<1>3. CASE UNCHANGED inboxVars \/ TickOn \/ \E d \in Documents : ChangeDocument(d)
  <2>1. Grows /\ UNCHANGED <<leave, decision, job, disturbed>>
    BY <1>1, <1>3 DEF inboxVars, TickOn, ChangeDocument, Grows
  <2> QED BY <1>2, <2>1
<1>4. ASSUME NEW from \in {"event", "name", "uuid"}, NEW c \in Change, Webhook(from, c)
      PROVE  CopyInv'
  BY <1>1, <1>2, <1>4, IngestedGrows DEF Webhook
<1>5. ASSUME NEW j \in Jobs, NEW record, Goto(j, record), Grows, UNCHANGED <<leave, decision, disturbed>>,
             job[j].at \notin {"writing", "marking"}, RowsOf(j) = {},
             record.at \in {"asking", "ingesting", "selecting"}
      PROVE  CopyInv'
  <2>1. /\ job'[j] = record
        /\ \A k \in Jobs \ {j} : job'[k] = job[k] /\ RowsOf(k)' = RowsOf(k)
    BY <1>5, OneMoves DEF InboxInv
  <2>2. RowsOf(j)' = {}
    BY <1>5, <2>1 DEF RowsOf
  <2>3. \A i \in DOMAIN inbox : Calm(i)' => Calm(i)
    BY <1>5 DEF Calm, Grows, Doc
  <2> QED BY <1>1, <1>5, <2>1, <2>2, <2>3, CalmStep
<1>6. ASSUME NEW j \in Jobs, Pulls(j) \/ StartReconciling(j)
      PROVE  CopyInv'
  <2>1. RowsOf(j) = {} /\ job[j].at \notin {"writing", "marking"}
    BY <1>6 DEF Pulls, StartPull, AskFrappe, Ingest, Stamp, MissStamp, StartReconciling, RowsOf, Resting
  <2>2. UNCHANGED <<leave, decision, disturbed>>
    BY <1>6 DEF Pulls, StartPull, AskFrappe, Ingest, Stamp, MissStamp, StartReconciling
  <2>3. Grows
    <3>1. CASE Ingest(j)
      <4>1. PICK c \in job[j].rows : inbox' = Ingested("pull", c)
        BY <3>1 DEF Ingest
      <4>2. c \in Change
        BY <3>1, JobFields DEF Ingest, InboxInv
      <4> QED BY <1>1, <4>1, <4>2, IngestedGrows
    <3>2. CASE ~Ingest(j)
      BY <1>1, <1>6, <3>2 DEF Pulls, StartPull, AskFrappe, Stamp, MissStamp, StartReconciling, Grows
    <3> QED BY <3>1, <3>2
  <2>4. \E record : Goto(j, record) /\ record.at \in {"asking", "ingesting", "selecting"}
    <3>1. CASE StartPull(j)
      BY <3>1 DEF StartPull
    <3>2. CASE AskFrappe(j)
      BY <3>2 DEF AskFrappe
    <3>3. CASE Ingest(j)
      <4>1. job[j] \in [at : {"ingesting"}, rows : SUBSET Change, left : SUBSET Documents, asked : Time]
        BY <3>3, JobFields DEF JobRecord, Resting, Selecting, Ingest, InboxInv
      <4> QED BY <3>3, <4>1 DEF Ingest
    <3>4. CASE Stamp(j) \/ MissStamp(j) \/ StartReconciling(j)
      <4>1. Goto(j, Selecting) /\ Selecting.at = "selecting"
        BY <3>4 DEF Stamp, MissStamp, StartReconciling, Selecting
      <4> QED BY <4>1
    <3> QED BY <1>6, <3>1, <3>2, <3>3, <3>4 DEF Pulls
  <2> QED BY <1>5, <2>1, <2>2, <2>3, <2>4
<1>7. ASSUME NEW j \in Jobs, LookUp(j) \/ LookUpNothing(j) \/ Reject(j)
      PROVE  CopyInv'
  <2>1. Grows /\ UNCHANGED <<inbox, leave, decision>> /\ disturbed \subseteq disturbed'
    BY <1>1, <1>7 DEF LookUp, LookUpNothing, Reject, Grows
  <2>2. PICK record : Goto(j, record) /\ record.rows = job[j].rows
                      /\ record.at \in {"writing", "marking"}
                      /\ (record.at = "marking" => record.status = "failed")
    <3>1. \/ \E found : Goto(j, [at |-> "writing", rows |-> job[j].rows, found |-> found])
          \/ Goto(j, [at |-> "marking", rows |-> job[j].rows, status |-> "failed"])
      BY <1>7 DEF LookUp, LookUpNothing, Reject
    <3>2. ASSUME NEW found, Goto(j, [at |-> "writing", rows |-> job[j].rows, found |-> found])
          PROVE  \E r : Goto(j, r) /\ r.rows = job[j].rows /\ r.at \in {"writing", "marking"}
                        /\ (r.at = "marking" => r.status = "failed")
      <4> DEFINE r == [at |-> "writing", rows |-> job[j].rows, found |-> found]
      <4>1. r.rows = job[j].rows /\ r.at = "writing" /\ Goto(j, r)
        BY <3>2
      <4> QED BY <4>1
    <3>3. ASSUME Goto(j, [at |-> "marking", rows |-> job[j].rows, status |-> "failed"])
          PROVE  \E r : Goto(j, r) /\ r.rows = job[j].rows /\ r.at \in {"writing", "marking"}
                        /\ (r.at = "marking" => r.status = "failed")
      <4> DEFINE r == [at |-> "marking", rows |-> job[j].rows, status |-> "failed"]
      <4>1. r.rows = job[j].rows /\ r.at = "marking" /\ r.status = "failed" /\ Goto(j, r)
        BY <3>3
      <4> QED BY <4>1
    <3> QED BY <3>1, <3>2, <3>3
  <2>3. /\ job'[j] = record
        /\ \A k \in Jobs \ {j} : job'[k] = job[k] /\ RowsOf(k)' = RowsOf(k)
    BY <2>2, OneMoves DEF InboxInv
  <2>4. job[j].at \in {"copying", "writing"} /\ RowsOf(j)' = RowsOf(j)
    BY <1>7, <2>2, <2>3 DEF LookUp, LookUpNothing, Reject, RowsOf
  <2>5. RowsOf(j) # {}
    BY <1>7, <2>4 DEF LookUp, LookUpNothing, Reject, At, RowsOf
  <2>6. \A i \in DOMAIN inbox : Calm(i)' => Calm(i)
    BY <2>1 DEF Calm, Doc
  <2>7. \A i \in DOMAIN inbox :
          At(j, i) /\ Calm(i)' /\ record.at = "writing" => record.found = Existing(Doc(i))
    <3> SUFFICES ASSUME NEW i \in DOMAIN inbox, At(j, i), Calm(i)', record.at = "writing"
                 PROVE  record.found = Existing(Doc(i))
      OBVIOUS
    <3>1. \A m \in DOMAIN inbox : At(j, m) => m = i
      BY <1>1 DEF At, OldestFirst
    <3>2. CASE LookUp(j)
      <4>1. PICK m \in DOMAIN inbox : At(j, m) /\
              Goto(j, [at |-> "writing", rows |-> job[j].rows, found |-> Existing(Doc(m))])
        BY <3>2 DEF LookUp
      <4>2. job'[j] = [at |-> "writing", rows |-> job[j].rows, found |-> Existing(Doc(m))]
        BY <4>1, OneMoves DEF InboxInv
      <4> QED BY <2>3, <3>1, <4>1, <4>2
    <3>3. CASE LookUpNothing(j)
      <4>1. PICK m \in DOMAIN inbox : At(j, m) /\ disturbed' = disturbed \cup {Doc(m)}
        BY <3>3 DEF LookUpNothing
      <4> QED BY <2>1, <3>1, <4>1 DEF Calm, Doc
    <3>4. CASE Reject(j)
      <4>1. job'[j].at = "marking"
        <5>1. Goto(j, [at |-> "marking", rows |-> job[j].rows, status |-> "failed"])
          BY <3>4 DEF Reject
        <5> QED BY <5>1, OneMoves DEF InboxInv
      <4> QED BY <2>3, <4>1
    <3> QED BY <1>7, <3>2, <3>3, <3>4
  <2> QED BY <1>1, <2>1, <2>2, <2>3, <2>4, <2>5, <2>6, <2>7, CalmStep
<1>8. ASSUME NEW j \in Jobs, MissMark(j)
      PROVE  CopyInv'
  <2>1. PICK i \in DOMAIN inbox : At(j, i) /\ disturbed' = disturbed \cup {Doc(i)}
                                  /\ Goto(j, [at |-> "copying", rows |-> job[j].rows \ {i}])
    BY <1>8 DEF MissMark
  <2>2. job'[j] = [at |-> "copying", rows |-> job[j].rows \ {i}]
    BY <2>1, OneMoves DEF InboxInv
  <2>3. RowsOf(j)' = RowsOf(j) \ {i} /\ UNCHANGED <<inbox, leave, decision>>
    BY <1>8, <2>2 DEF MissMark, RowsOf
  <2>4. Doc(i) \in disturbed' /\ {Doc(m) : m \in Done(j)} \subseteq disturbed'
    <3>1. \A m \in Done(j) : m = i
      BY <1>1, <2>1 DEF Done, At, OldestFirst
    <3> QED BY <2>1, <3>1
  <2> QED BY <2>1, <2>3, <2>4, DropStep
<1>9. ASSUME NEW j \in Jobs, FinishJob(j) \/ DieInJob(j)
      PROVE  CopyInv'
  <2>1. Goto(j, Resting) /\ UNCHANGED <<inbox, leave, decision>> /\ Resting.at = "resting"
    BY <1>9 DEF FinishJob, DieInJob, Resting
  <2>2. job'[j] = Resting
    BY <2>1, OneMoves DEF InboxInv
  <2>3. RowsOf(j)' = {}
    BY <2>2 DEF RowsOf, Resting
  <2>4. disturbed \subseteq disturbed' /\ {Doc(m) : m \in Done(j)} \subseteq disturbed'
    BY <1>9 DEF FinishJob, DieInJob, Done
  <2> QED BY <2>1, <2>3, <2>4, DropStep
<1> QED BY <1>3, <1>4, <1>6, <1>7, <1>8, <1>9, SelectStep, WriteStep, MarkStep, DecideStep
         DEF InboxNext, Reconciles

\* Reconciliations take and copy rows of a document in the order they came, each one alone
\* with what it looked up, wherever none was disturbed.
THEOREM CopiesInTurn == InboxSpec => []CopyInv
<1>1. InboxInit => CopyInv
  <2> SUFFICES ASSUME InboxInit PROVE CopyInv
    OBVIOUS
  <2>1. DOMAIN inbox = {} /\ \A j \in Jobs : RowsOf(j) = {} /\ Done(j) = {} /\ job[j].at = "resting"
    BY DEF InboxInit, RowsOf, Done, Resting
  <2> QED BY <2>1 DEF InboxInit, CopyInv, HeldRows, TakenInTurn, FoundStill, LeaveFollowsInbox,
            DecisionsKnown, CopiedRows
<1>2. InboxInv /\ CopyInv /\ [InboxNext]_inboxVars => CopyInv'
  BY CopiesStep
<1> QED BY <1>1, <1>2, InboxInvariant, PTL DEF InboxSpec

\* For any number of documents, jobs and limits, a document none of whose rows was disturbed
\* has one row of leave, which says what the last of its copied inbox rows says, and carries a decision made in the
\* portal exactly if no row was copied after it.
THEOREM LeaveFollows == InboxSpec => []LeaveFollowsInbox
<1>1. CopyInv => LeaveFollowsInbox
  BY DEF CopyInv
<1> QED BY <1>1, CopiesInTurn, PTL
=============================================================================
