----------------------------- MODULE AccessProofs -----------------------------
(***************************************************************************)
(* The limits hold in every window, and in any interval, for any number of *)
(* requests and keys; backup codes stay in whole sets and work once.       *)
(***************************************************************************)
EXTENDS BackupCodes, FiniteSetTheorems, TLAPS

-----------------------------------------------------------------------------
(* Counting passes *)

\* The passes of a key in a window are finitely many.
LEMMA PassesFinite ==
  ASSUME IsFiniteSet(passed), NEW k, NEW w
  PROVE  IsFiniteSet(PassesIn(k, w)) /\ Cardinality(PassesIn(k, w)) \in Nat
<1>1. PassesIn(k, w) \in SUBSET passed
  BY DEF PassesIn
<1> QED BY <1>1, FS_Subset, FS_CardinalityType

\* A request that goes on to its next identity has one.
LEMMA KeysNamed ==
  ASSUME LimiterTyped, NEW r \in Requests
  PROVE  /\ Key(r) \in Keys
         /\ call[r].n < Len(KeysOf[r]) => call[r].n + 1 \in DOMAIN KeysOf[r]
<1>1. KeysOf[r] \in Seq(Keys) /\ call[r].n \in DOMAIN KeysOf[r]
  BY Identities DEF LimiterTyped
<1> QED BY <1>1 DEF Key
-----------------------------------------------------------------------------
(* LimitInv *)

\* Before any request is counted nothing is over the limit.
LEMMA LimiterBegins == LimiterInit => LimitInv
<1> SUFFICES ASSUME LimiterInit PROVE LimitInv
  OBVIOUS
<1>1. LimiterTyped
  <2>1. \A r \in Requests : 1 \in DOMAIN KeysOf[r]
    BY Identities
  <2>2. IsFiniteSet(passed)
    BY FS_EmptySet DEF LimiterInit
  <2> QED BY <2>1, <2>2 DEF LimiterInit, LimiterTyped, Call, InTransaction
<1>2. CallsInTime /\ DoomedRest
  BY DEF LimiterInit, CallsInTime, DoomedRest, InTransaction
<1>3. WindowsApart /\ PassesInWindow /\ WindowsWithinLimit
  BY DEF LimiterInit, WindowsApart, PassesInWindow, WindowsWithinLimit, PassesOf
<1> QED BY <1>1, <1>2, <1>3 DEF LimitInv

\* A step that leaves buckets and passes alone keeps what relates only them to a
\* clock that does not go back.
LEMMA WindowsStay ==
  ASSUME LimitInv, UNCHANGED <<buckets, passed>>, clock' \in Nat, clock <= clock'
  PROVE  WindowsApart' /\ PassesInWindow' /\ WindowsWithinLimit'
<1>1. \A k \in DOMAIN buckets : buckets[k].started \in Nat
  BY DEF LimitInv, LimiterTyped, Bucket
<1>2. \A p \in passed : p.window \in Nat
  BY DEF LimitInv, LimiterTyped, Pass
<1>3. clock \in Nat /\ Window \in Nat /\ Wait \in Nat
  BY Durations DEF LimitInv, LimiterTyped
<1>4. WindowsApart'
  BY <1>1, <1>2, <1>3 DEF LimitInv, WindowsApart, PassesOf
<1>5. PassesInWindow' /\ WindowsWithinLimit'
  BY DEF LimitInv, PassesInWindow, WindowsWithinLimit, PassesIn
<1> QED BY <1>4, <1>5

\* What a call does between its beginning and its end changes only the call.
LEMMA CallsKeep ==
  ASSUME LimitInv, NEW r \in Requests,
         Ask(r) \/ Clean(r) \/ Lock(r) \/ Fails(r)
  PROVE  LimitInv'
<1>1. UNCHANGED <<clock, buckets, passed>> /\ clock \in Nat /\ clock <= clock'
  BY DEF Ask, Clean, Lock, Fails, LimitInv, LimiterTyped
<1>2. LimiterTyped'
  <2>1. call' \in [Requests -> Call] /\ \A q \in Requests : call'[q].n = call[q].n
    <3>1. ASSUME Clean(r)
          PROVE  call' \in [Requests -> Call] /\ \A q \in Requests : call'[q].n = call[q].n
      <4>1. PICK doomed \in {{}, Resting(call[r].asked)} :
              call' = [call EXCEPT ![r].at = "locking", ![r].doomed = doomed]
        BY <3>1 DEF Clean
      <4>2. doomed \subseteq Keys
        BY DEF Resting, LimitInv, LimiterTyped
      <4> QED BY <4>1, <4>2 DEF LimitInv, LimiterTyped, Call, InTransaction
    <3> QED BY <3>1, <1>1 DEF Ask, Lock, Fails, Goes, Ends, LimitInv, LimiterTyped, Call, InTransaction
  <2> QED BY <1>1, <2>1 DEF LimitInv, LimiterTyped
<1>3. CallsInTime'
  BY <1>1, Durations
     DEF Ask, Clean, Lock, Fails, Goes, Ends, LimitInv, LimiterTyped, CallsInTime, Call, InTransaction
<1>4. DoomedRest'
  <2>1. CASE Clean(r)
    <3>1. PICK doomed \in {{}, Resting(call[r].asked)} :
            /\ \A q \in Requests : doomed \cap call[q].doomed = {}
            /\ call' = [call EXCEPT ![r].at = "locking", ![r].doomed = doomed]
      BY <2>1 DEF Clean
    <3>2. /\ call'[r].doomed = doomed /\ call'[r].at = "locking" /\ call'[r].asked = call[r].asked
          /\ \A q \in Requests \ {r} : call'[q] = call[q]
      BY <3>1 DEF LimitInv, LimiterTyped, Call
    <3>3. \A k \in doomed : k \in DOMAIN buckets /\ buckets[k].updated < call[r].asked - Retention
      BY DEF Resting
    <3> QED BY <1>1, <3>1, <3>2, <3>3 DEF LimitInv, DoomedRest
  <2>2. CASE Ask(r) \/ Lock(r) \/ Fails(r)
    <3>1. \A q \in Requests : call'[q].doomed \subseteq call[q].doomed
      BY <2>2 DEF Ask, Lock, Fails, Goes, Ends, LimitInv, LimiterTyped, Call
    <3>2. \A q \in Requests \ {r} : call'[q] = call[q]
      BY <2>2 DEF Ask, Lock, Fails, Goes, Ends, LimitInv, LimiterTyped
    <3>3. call'[r].doomed = {} \/ (call'[r].at \in {"locking", "counting"} /\ call'[r].asked = call[r].asked)
      BY <2>2 DEF Ask, Lock, Fails, Goes, Ends, LimitInv, LimiterTyped, Call, DoomedRest
    <3> QED BY <1>1, <3>1, <3>2, <3>3 DEF LimitInv, DoomedRest
  <2> QED BY <2>1, <2>2
<1>5. WindowsApart' /\ PassesInWindow' /\ WindowsWithinLimit'
  BY <1>1, WindowsStay
<1> QED BY <1>2, <1>3, <1>4, <1>5 DEF LimitInv

\* Time passes no call by more than it may last.
LEMMA TickKeeps == ASSUME LimitInv, Tick PROVE LimitInv'
<1>1. clock \in Nat /\ clock' = clock + 1 /\ UNCHANGED <<buckets, call, passed>>
  BY DEF Tick, LimitInv, LimiterTyped
<1>2. LimiterTyped' /\ DoomedRest'
  BY <1>1 DEF LimitInv, LimiterTyped, DoomedRest
<1>3. CallsInTime'
  <2>1. \A r \in Requests : call[r].asked \in Nat
    BY DEF LimitInv, LimiterTyped, Call
  <2> QED BY <1>1, <2>1, Durations DEF Tick, LimitInv, CallsInTime
<1>4. WindowsApart' /\ PassesInWindow' /\ WindowsWithinLimit'
  BY <1>1, WindowsStay
<1> QED BY <1>2, <1>3, <1>4 DEF LimitInv

\* What counting a request under key k at time now in a row does
CountsIn(r, k, now, left, bucket) ==
  /\ clock' = clock /\ clock \in Nat /\ now \in Nat /\ k \in Keys
  /\ now <= clock /\ clock <= now + Wait
  /\ \A q \in Requests \ {r} : call'[q] = call[q] /\ k \notin call[q].doomed
  /\ call' \in [Requests -> Call] /\ call'[r].doomed = {} /\ call'[r].at \notin InTransaction
  /\ call'[r].n \in DOMAIN KeysOf[r]
  /\ DOMAIN buckets' = left \cup {k} /\ buckets'[k] = bucket
  /\ \A x \in left \ {k} : buckets'[x] = buckets[x]
  /\ \/ passed' = passed
     \/ /\ bucket.count <= Limit
        /\ passed' = passed \cup
             {[request |-> r, key |-> k, asked |-> now, window |-> bucket.started]}

\* Counting changes one call, which ends, one bucket and at most one pass.
LEMMA CountSteps ==
  ASSUME LimitInv, NEW r \in Requests, Count(r),
         NEW k, k = Key(r), NEW now, now = call[r].asked,
         NEW left, left = DOMAIN buckets \ call[r].doomed,
         NEW bucket, bucket = Counted(left, k, now)
  PROVE  CountsIn(r, k, now, left, bucket)
<1>1. call[r].at = "counting" /\ call[r] \in Call /\ now \in Nat /\ clock \in Nat
  BY DEF Count, LimitInv, LimiterTyped, Call
<1>2. now <= clock /\ clock <= now + Wait
  BY <1>1 DEF LimitInv, CallsInTime, InTransaction
<1>3. /\ k \in Keys
      /\ call[r].n < Len(KeysOf[r]) => call[r].n + 1 \in DOMAIN KeysOf[r]
  BY KeysNamed DEF LimitInv
<1>4. Proceeds(r) \/ Ends(r, "refused")
  BY DEF Count
<1>5. call[r].n \in Nat \ {0} /\ call[r].n \in DOMAIN KeysOf[r]
  BY <1>1 DEF Call, LimitInv, LimiterTyped
<1>6. /\ call' \in [Requests -> Call] /\ call'[r].doomed = {} /\ call'[r].at \notin InTransaction
      /\ call'[r].n \in DOMAIN KeysOf[r]
      /\ \A q \in Requests \ {r} : call'[q] = call[q]
  <2>1. CASE Ends(r, "refused") \/ Ends(r, "admitted")
    BY <1>1, <1>5, <2>1 DEF Ends, LimitInv, LimiterTyped, Call, InTransaction
  <2>2. CASE /\ call[r].n < Len(KeysOf[r])
             /\ call' = [call EXCEPT ![r].at = "calling", ![r].n = @ + 1, ![r].doomed = {}]
    <3>1. call[r].n + 1 \in Nat \ {0}
      BY <1>5
    <3>2. call'[r] = [call[r] EXCEPT !.at = "calling", !.n = call[r].n + 1, !.doomed = {}]
      BY <2>2 DEF LimitInv, LimiterTyped
    <3>3. call'[r] \in Call /\ call'[r].doomed = {} /\ call'[r].at = "calling"
          /\ call'[r].n = call[r].n + 1
      BY <1>1, <3>1, <3>2 DEF Call
    <3>4. \A q \in Requests \ {r} : call'[q] = call[q]
      BY <2>2 DEF LimitInv, LimiterTyped
    <3>5. call' \in [Requests -> Call]
      BY <2>2, <3>3, <3>4 DEF LimitInv, LimiterTyped
    <3> QED BY <1>3, <2>2, <3>3, <3>4, <3>5 DEF InTransaction
  <2> QED BY <1>4, <2>1, <2>2 DEF Proceeds
<1>7. /\ DOMAIN buckets' = left \cup {k} /\ buckets'[k] = bucket
      /\ \A x \in left \ {k} : buckets'[x] = buckets[x]
  BY DEF Count
<1>8. \/ passed' = passed
      \/ /\ bucket.count <= Limit
         /\ passed' = passed \cup
              {[request |-> r, key |-> k, asked |-> now, window |-> bucket.started]}
  BY DEF Count, Allowed
<1> QED BY <1>1, <1>2, <1>3, <1>6, <1>7, <1>8 DEF Count, CountsIn

\* A row made of its parts
LEMMA BucketRow ==
  ASSUME NEW a \in Nat, NEW b \in Nat \ {0}, NEW c \in Nat
  PROVE  [started |-> a, count |-> b, updated |-> c] \in Bucket
BY DEF Bucket

\* The row a request is counted in was opened when all windows of its key before
\* were over, or is open still and counts one more.
LEMMA CountedRow ==
  ASSUME LimitInv, NEW r \in Requests, Count(r),
         NEW k, k = Key(r), NEW now, now = call[r].asked,
         NEW left, left = DOMAIN buckets \ call[r].doomed,
         NEW bucket, bucket = Counted(left, k, now)
  PROVE  \/ bucket = Fresh(now) /\ \A p \in PassesOf(k) : p.window + Window <= now
         \/ /\ k \in left /\ now < buckets[k].started + Window
            /\ bucket \in Bucket /\ bucket.started = buckets[k].started
            /\ bucket.count = buckets[k].count + 1 /\ bucket.updated = now
<1>1. /\ now <= clock /\ clock <= now + Wait /\ now \in Nat /\ clock \in Nat
      /\ Window \in Nat /\ Wait \in Nat /\ Retention \in Nat /\ Window + 2 * Wait <= Retention
  BY CountSteps, Durations DEF CountsIn
<1>2. \A x \in DOMAIN buckets : buckets[x] \in Bucket
  BY DEF LimitInv, LimiterTyped
<1>3. \A p \in passed : p.window \in Nat
  BY DEF LimitInv, LimiterTyped, Pass
<1>4. CASE k \notin left
  <2>1. bucket = Fresh(now)
    BY <1>4 DEF Counted
  <2>2. ASSUME NEW p \in PassesOf(k) PROVE p.window + Window <= now
    <3>1. p \in passed /\ p.key = k /\ p.window \in Nat
      BY <1>3 DEF PassesOf
    <3>2. CASE k \notin DOMAIN buckets
      BY <1>1, <3>1, <3>2 DEF LimitInv, WindowsApart
    <3>3. CASE k \in DOMAIN buckets
      <4>1. k \in call[r].doomed
        BY <1>4, <3>3
      <4>2. buckets[k].updated < now - Retention
        BY <4>1 DEF LimitInv, DoomedRest
      <4>3. buckets[k].started <= buckets[k].updated + Wait
        BY <3>3 DEF LimitInv, WindowsApart
      <4>4. p.window = buckets[k].started \/ p.window + Window <= buckets[k].started
        BY <2>2, <3>3 DEF LimitInv, WindowsApart
      <4>5. buckets[k].started \in Nat /\ buckets[k].updated \in Nat
        BY <1>2, <3>3 DEF Bucket
      <4> QED BY <1>1, <3>1, <4>2, <4>3, <4>4, <4>5
    <3> QED BY <3>2, <3>3
  <2> QED BY <2>1, <2>2
<1>5. CASE k \in left /\ buckets[k].started + Window <= now
  <2>1. bucket = Fresh(now)
    BY <1>5 DEF Counted
  <2>2. ASSUME NEW p \in PassesOf(k) PROVE p.window + Window <= now
    <3>1. p.window = buckets[k].started \/ p.window + Window <= buckets[k].started
      BY <1>5, <2>2 DEF LimitInv, WindowsApart
    <3>2. p.window \in Nat /\ buckets[k].started \in Nat
      BY <1>2, <1>3, <1>5 DEF PassesOf, Bucket
    <3> QED BY <1>1, <1>5, <3>1, <3>2
  <2> QED BY <2>1, <2>2
<1>6. CASE k \in left /\ ~(buckets[k].started + Window <= now)
  <2>1. bucket = [buckets[k] EXCEPT !.count = @ + 1, !.updated = now]
    BY <1>6 DEF Counted
  <2>2. buckets[k] \in Bucket
    BY <1>2, <1>6
  <2>3. bucket = [started |-> buckets[k].started, count |-> buckets[k].count + 1, updated |-> now]
    BY <2>1, <2>2 DEF Bucket
  <2>4. /\ buckets[k].started \in Nat /\ buckets[k].count + 1 \in Nat \ {0}
        /\ now < buckets[k].started + Window
    BY <1>1, <1>6, <2>2 DEF Bucket
  <2>5. bucket \in Bucket
    BY <1>1, <2>3, <2>4, BucketRow
  <2>6. /\ bucket.started = buckets[k].started /\ bucket.count = buckets[k].count + 1
        /\ bucket.updated = now
    BY <2>3
  <2> QED BY <1>6, <2>4, <2>5, <2>6
<1> QED BY <1>4, <1>5, <1>6

\* Counting, with all its waiting, keeps windows apart and within the limit.
LEMMA CountKeeps ==
  ASSUME LimitInv, NEW r \in Requests, Count(r)
  PROVE  LimitInv'
<1> SUFFICES ASSUME NEW k, k = Key(r), NEW now, now = call[r].asked,
                    NEW left, left = DOMAIN buckets \ call[r].doomed,
                    NEW bucket, bucket = Counted(left, k, now)
             PROVE  LimitInv'
  OBVIOUS
<1> DEFINE new == [request |-> r, key |-> k, asked |-> now, window |-> bucket.started]
<1>0. CountsIn(r, k, now, left, bucket)
  BY CountSteps
<1>1. /\ clock' = clock /\ clock \in Nat /\ now \in Nat /\ k \in Keys
      /\ now <= clock /\ clock <= now + Wait
  BY <1>0 DEF CountsIn
<1>2. /\ \A q \in Requests \ {r} : call'[q] = call[q] /\ k \notin call[q].doomed
      /\ call' \in [Requests -> Call] /\ call'[r].doomed = {} /\ call'[r].at \notin InTransaction
      /\ call'[r].n \in DOMAIN KeysOf[r]
  BY <1>0 DEF CountsIn
<1>3. /\ DOMAIN buckets' = left \cup {k} /\ buckets'[k] = bucket
      /\ \A x \in left \ {k} : buckets'[x] = buckets[x]
  BY <1>0 DEF CountsIn
<1>4. passed' = passed \/ (bucket.count <= Limit /\ passed' = passed \cup {new})
  BY <1>0 DEF CountsIn
<1>5. \/ bucket = Fresh(now) /\ \A p \in PassesOf(k) : p.window + Window <= now
      \/ /\ k \in left /\ now < buckets[k].started + Window
         /\ bucket \in Bucket /\ bucket.started = buckets[k].started
         /\ bucket.count = buckets[k].count + 1 /\ bucket.updated = now
  BY CountedRow
<1>6. left \subseteq DOMAIN buckets /\ DOMAIN buckets \ left = call[r].doomed \cap DOMAIN buckets
  OBVIOUS
<1>7. /\ Window \in Nat \ {0} /\ Wait \in Nat /\ Retention \in Nat /\ Limit \in Nat \ {0}
      /\ Window + 2 * Wait <= Retention
  BY Durations
<1>8. \A x \in DOMAIN buckets : buckets[x] \in Bucket /\ buckets[x].started \in Nat
                                /\ buckets[x].updated \in Nat /\ buckets[x].count \in Nat \ {0}
  BY DEF LimitInv, LimiterTyped, Bucket
<1>9. \A p \in passed : p.window \in Nat /\ p.asked \in Nat
  BY DEF LimitInv, LimiterTyped, Pass
<1>10. /\ bucket \in Bucket /\ bucket.updated = now /\ bucket.started \in Nat
       /\ bucket.started <= clock /\ bucket.started <= now + Wait /\ now < bucket.started + Window
  <2>1. CASE bucket = Fresh(now)
    <3>1. Fresh(now) = [started |-> now, count |-> 1, updated |-> now]
      BY DEF Fresh
    <3>2. bucket \in Bucket
      <4>1. [started |-> now, count |-> 1, updated |-> now] \in Bucket
        BY <1>1, BucketRow
      <4> QED BY <2>1, <3>1, <4>1
    <3>3. bucket.started = now /\ bucket.updated = now
      BY <2>1, <3>1
    <3> QED BY <1>1, <1>7, <3>2, <3>3
  <2>2. CASE k \in left /\ bucket # Fresh(now)
    <3>1. buckets[k].started <= clock /\ buckets[k].started \in Nat
      BY <1>6, <1>8, <2>2 DEF LimitInv, WindowsApart
    <3> QED BY <1>1, <1>5, <1>7, <2>2, <3>1
  <2> QED BY <1>5, <2>1, <2>2
<1>11. LimiterTyped'
  <2>1. DOMAIN buckets' \subseteq Keys /\ buckets' \in [DOMAIN buckets' -> Bucket]
    <3>1. DOMAIN buckets \subseteq Keys
      BY DEF LimitInv, LimiterTyped
    <3>2. \A x \in DOMAIN buckets' : buckets'[x] \in Bucket
      BY <1>3, <1>6, <1>8, <1>10
    <3>3. buckets' = [x \in DOMAIN buckets' |-> buckets'[x]]
      BY DEF Count
    <3> QED BY <1>1, <1>3, <1>6, <3>1, <3>2, <3>3
  <2>2. new \in Pass
    BY <1>1, <1>10 DEF Pass
  <2>3. passed' \subseteq Pass /\ IsFiniteSet(passed')
    <3>1. passed \subseteq Pass /\ IsFiniteSet(passed)
      BY DEF LimitInv, LimiterTyped
    <3>2. IsFiniteSet(passed \cup {new})
      BY <3>1, FS_AddElement
    <3> QED BY <1>4, <2>2, <3>1, <3>2
  <2>4. \A q \in Requests : call'[q].n \in DOMAIN KeysOf[q]
    BY <1>2 DEF LimitInv, LimiterTyped
  <2> QED BY <1>1, <1>2, <2>1, <2>3, <2>4 DEF LimiterTyped
<1>12. CallsInTime'
  BY <1>1, <1>2 DEF LimitInv, CallsInTime
<1>13. DoomedRest'
  <2>1. ASSUME NEW q \in Requests, NEW x \in call'[q].doomed
        PROVE  /\ call'[q].at \in {"locking", "counting"}
               /\ x \in DOMAIN buckets' /\ buckets'[x].updated < call'[q].asked - Retention
    <3>1. q # r /\ call'[q] = call[q] /\ x # k
      BY <1>2, <2>1
    <3>2. /\ call[q].at \in {"locking", "counting"} /\ x \in DOMAIN buckets
          /\ buckets[x].updated < call[q].asked - Retention /\ x \notin call[r].doomed
      BY <2>1, <3>1 DEF LimitInv, DoomedRest
    <3>3. x \in left \ {k}
      BY <1>6, <3>1, <3>2
    <3> QED BY <1>3, <3>1, <3>2, <3>3
  <2>2. \A q, s \in Requests : q # s => call'[q].doomed \cap call'[s].doomed = {}
    BY <1>2 DEF LimitInv, DoomedRest
  <2> QED BY <2>1, <2>2 DEF DoomedRest
\* Windows of the key end before the new row's, or are the new row's.
<1>14. \A p \in PassesOf(k) : p.window = bucket.started \/ p.window + Window <= bucket.started
  <2>1. CASE bucket = Fresh(now) /\ \A p \in PassesOf(k) : p.window + Window <= now
    <3>1. bucket.started = now
      BY <2>1 DEF Fresh
    <3> QED BY <2>1, <3>1
  <2>2. CASE k \in left /\ bucket.started = buckets[k].started
    BY <1>6, <2>2 DEF LimitInv, WindowsApart
  <2> QED BY <1>5, <2>1, <2>2
<1>15. \A x : PassesOf(x)' \subseteq PassesOf(x) \cup {new}
  BY <1>4 DEF PassesOf
<1>16. \A x : x # k => PassesOf(x)' = PassesOf(x)
  BY <1>4 DEF PassesOf
<1>17. WindowsApart'
  <2>1. ASSUME NEW x \in DOMAIN buckets'
        PROVE  /\ buckets'[x].started <= buckets'[x].updated + Wait /\ buckets'[x].started <= clock'
               /\ \A p \in PassesOf(x)' :
                    p.window = buckets'[x].started \/ p.window + Window <= buckets'[x].started
    <3>1. CASE x = k
      <4>1. buckets'[x] = bucket
        BY <1>3, <3>1
      <4>2. bucket.started <= bucket.updated + Wait /\ bucket.started <= clock'
        BY <1>1, <1>10
      <4>3. \A p \in PassesOf(x)' :
              p.window = bucket.started \/ p.window + Window <= bucket.started
        <5>1. PassesOf(k)' \subseteq PassesOf(k) \cup {new} /\ new.window = bucket.started
          BY <1>15
        <5> HIDE DEF new
        <5> QED BY <1>14, <3>1, <5>1
      <4> QED BY <4>1, <4>2, <4>3
    <3>2. CASE x # k
      <4>1. x \in left \ {k} /\ buckets'[x] = buckets[x] /\ x \in DOMAIN buckets
        BY <1>3, <1>6, <2>1, <3>2
      <4> QED BY <1>1, <1>16, <3>2, <4>1 DEF LimitInv, WindowsApart
    <3> QED BY <3>1, <3>2
  <2>2. ASSUME NEW p \in passed', p.key \notin DOMAIN buckets'
        PROVE  p.window + Window + Wait <= clock'
    <3>1. p \in passed /\ p.key \notin left /\ p.key # k
      BY <1>3, <1>4, <2>2
    <3>2. CASE p.key \notin DOMAIN buckets
      BY <1>1, <3>1, <3>2 DEF LimitInv, WindowsApart
    <3>3. CASE p.key \in DOMAIN buckets
      <4> DEFINE b == buckets[p.key]
      <4>1. p.key \in call[r].doomed
        BY <1>6, <3>1, <3>3
      <4>2. b.updated < now - Retention
        BY <4>1 DEF LimitInv, DoomedRest
      <4>3. b.started <= b.updated + Wait
        BY <3>3 DEF LimitInv, WindowsApart
      <4>4. p.window = b.started \/ p.window + Window <= b.started
        BY <3>1, <3>3 DEF LimitInv, WindowsApart, PassesOf
      <4>5. b.started \in Nat /\ b.updated \in Nat /\ p.window \in Nat
        BY <1>8, <1>9, <3>1, <3>3
      <4> HIDE DEF b
      <4> QED BY <1>1, <1>7, <4>2, <4>3, <4>4, <4>5
    <3> QED BY <3>2, <3>3
  <2>3. ASSUME NEW p \in passed', NEW q \in passed', p.key = q.key
        PROVE  p.window = q.window \/ p.window + Window <= q.window
                                   \/ q.window + Window <= p.window
    <3>1. CASE p \in passed /\ q \in passed
      BY <2>3, <3>1 DEF LimitInv, WindowsApart
    <3>2. CASE p = new /\ q \in passed
      BY <1>14, <2>3, <3>2 DEF PassesOf
    <3>3. CASE p \in passed /\ q = new
      BY <1>14, <2>3, <3>3 DEF PassesOf
    <3>4. CASE p = new /\ q = new
      BY <3>4
    <3> QED BY <1>4, <2>3, <3>1, <3>2, <3>3, <3>4
  <2> QED BY <2>1, <2>2, <2>3 DEF WindowsApart
<1>18. PassesInWindow'
  <2>1. new.window <= new.asked + Wait /\ new.asked < new.window + Window
    BY <1>10
  <2>2. \A p \in passed' : p \in passed \/ p = new
    BY <1>4
  <2> QED BY <2>1, <2>2 DEF LimitInv, PassesInWindow
<1>19. WindowsWithinLimit'
  <2>1. IsFiniteSet(passed)
    BY DEF LimitInv, LimiterTyped
  <2>2. \A x, w : <<x, w>> # <<k, bucket.started>> => PassesIn(x, w)' = PassesIn(x, w)
    BY <1>4 DEF PassesIn
  <2>3. Cardinality(PassesIn(k, bucket.started)') <= bucket.count
    <3> DEFINE before == PassesIn(k, bucket.started)
    <3>1. IsFiniteSet(before) /\ Cardinality(before) \in Nat
      BY <2>1, PassesFinite
    <3>2. before' = before \/ before' = before \cup {new}
      BY <1>4 DEF PassesIn
    <3>3. Cardinality(before') <= Cardinality(before) + 1
      <4>1. Cardinality(before \cup {new}) <= Cardinality(before) + 1
        <5> HIDE DEF before, new
        <5>1. Cardinality(before \cup {new}) =
                IF new \in before THEN Cardinality(before) ELSE Cardinality(before) + 1
          BY <3>1, FS_AddElement
        <5> QED BY <3>1, <5>1
      <4>2. Cardinality(before) <= Cardinality(before) + 1
        BY <3>1
      <4> HIDE DEF before
      <4> QED BY <3>2, <4>1, <4>2
    <3>4. Cardinality(before) + 1 <= bucket.count
      <4>1. CASE bucket = Fresh(now) /\ \A p \in PassesOf(k) : p.window + Window <= now
        <5>1. bucket.started = now /\ bucket.count = 1
          BY <4>1 DEF Fresh
        <5>2. before = {}
          BY <1>1, <1>7, <1>9, <4>1, <5>1 DEF PassesIn, PassesOf
        <5> QED BY <5>1, <5>2, FS_EmptySet
      <4>2. CASE k \in left /\ bucket.started = buckets[k].started /\ bucket.count = buckets[k].count + 1
        <5>1. Cardinality(before) <= buckets[k].count
          BY <1>6, <4>2 DEF LimitInv, WindowsWithinLimit
        <5> QED BY <1>6, <1>8, <3>1, <4>2, <5>1
      <4> QED BY <1>5, <4>1, <4>2
    <3>5. IsFiniteSet(before') /\ Cardinality(before') \in Nat
      <4>1. IsFiniteSet(before \cup {new})
        BY <3>1, FS_AddElement
      <4>2. IsFiniteSet(before')
        BY <3>1, <3>2, <4>1
      <4> HIDE DEF before
      <4> QED BY <4>2, FS_CardinalityType
    <3>6. bucket.count \in Nat
      BY <1>10 DEF Bucket
    <3> QED BY <3>1, <3>3, <3>4, <3>5, <3>6
  <2>4. ASSUME NEW p \in passed' PROVE Cardinality(PassesIn(p.key, p.window)') <= Limit
    <3>1. CASE <<p.key, p.window>> # <<k, bucket.started>>
      <4>1. p \in passed
        BY <1>4, <2>4, <3>1
      <4> QED BY <2>2, <3>1, <4>1 DEF LimitInv, WindowsWithinLimit
    <3>2. CASE p.key = k /\ p.window = bucket.started /\ passed' = passed
      <4>1. PassesIn(p.key, p.window)' = PassesIn(p.key, p.window)
        BY <3>2 DEF PassesIn
      <4> QED BY <2>4, <3>2, <4>1 DEF LimitInv, WindowsWithinLimit
    <3>3. CASE p.key = k /\ p.window = bucket.started /\ bucket.count <= Limit
      <4>1. PassesIn(p.key, p.window)' = PassesIn(k, bucket.started)'
        BY <3>3 DEF PassesIn
      <4>2. IsFiniteSet(passed')
        BY <1>11 DEF LimiterTyped
      <4>3. PassesIn(k, bucket.started)' \in SUBSET passed'
        BY DEF PassesIn
      <4>4. Cardinality(PassesIn(k, bucket.started)') \in Nat
        BY <4>2, <4>3, FS_Subset, FS_CardinalityType
      <4>5. bucket.count \in Nat
        BY <1>10 DEF Bucket
      <4> QED BY <1>7, <2>3, <3>3, <4>1, <4>4, <4>5
    <3> QED BY <1>4, <3>1, <3>2, <3>3
  <2>5. ASSUME NEW x \in DOMAIN buckets'
        PROVE  Cardinality(PassesIn(x, buckets[x].started)') <= buckets'[x].count
    <3>1. CASE x = k
      <4>1. PassesIn(x, buckets[x].started)' = PassesIn(k, bucket.started)'
        BY <1>3, <3>1 DEF PassesIn
      <4> QED BY <1>3, <2>3, <3>1, <4>1
    <3>2. CASE x # k
      <4>1. buckets'[x] = buckets[x] /\ x \in DOMAIN buckets
        BY <1>3, <1>6, <2>5, <3>2
      <4>2. PassesIn(x, buckets[x].started)' = PassesIn(x, buckets[x].started)
        BY <1>4, <3>2, <4>1 DEF PassesIn
      <4> QED BY <4>1, <4>2 DEF LimitInv, WindowsWithinLimit
    <3> QED BY <3>1, <3>2
  <2>6. \A x \in DOMAIN buckets' : Cardinality(PassesIn(x, buckets[x].started))' <= buckets'[x].count
    BY <2>5
  <2>7. \A p \in passed' : Cardinality(PassesIn(p.key, p.window))' <= Limit
    BY <2>4
  <2> QED BY <2>6, <2>7 DEF WindowsWithinLimit
<1> QED BY <1>11, <1>12, <1>13, <1>17, <1>18, <1>19 DEF LimitInv

\* The limiter (check_api_rate_limit) keeps to its limit in every window, for any
\* number of requests and keys, whoever cleans up, waits or fails.
THEOREM LimitsHold == Spec => []LimitInv
<1>1. Init => LimitInv
  BY LimiterBegins DEF Init
<1>2. LimitInv /\ [Next]_vars => LimitInv'
  <2> SUFFICES ASSUME LimitInv, [Next]_vars PROVE LimitInv'
    OBVIOUS
  <2>1. CASE UNCHANGED limiter
    <3>1. UNCHANGED <<clock, buckets, call, passed>>
      BY <2>1 DEF limiter
    <3>2. LimiterTyped' /\ CallsInTime' /\ DoomedRest'
      BY <3>1 DEF LimitInv, LimiterTyped, CallsInTime, DoomedRest
    <3>3. clock' \in Nat /\ clock <= clock'
      BY <3>1 DEF LimitInv, LimiterTyped
    <3> QED BY <3>1, <3>2, <3>3, WindowsStay DEF LimitInv
  <2>2. CASE LimiterNext
    BY <2>2, CallsKeep, CountKeeps, TickKeeps DEF LimiterNext, Works, Break
  <2>3. ASSUME NEW r \in Requests, Handles(r) PROVE UNCHANGED limiter
    BY <2>3 DEF Handles, Authenticate, ReadCodes, MarkCode, DeleteCodes, InsertCodes,
                FailReplacement, FindCodes, RemoveCodes
  <2> QED BY <2>1, <2>2, <2>3 DEF Next, LimiterStep, vars, limiter
<1> QED BY <1>1, <1>2, PTL DEF Spec

-----------------------------------------------------------------------------
(* FewInAnyInterval *)

\* The passes of an interval shorter than a window lie in two windows: three
\* windows, that start in less than two windows' time, would not lie apart.
LEMMA TwoWindows ==
  ASSUME LimitInv, NEW p \in passed, NEW u \in passed, NEW q \in passed,
         u.key = p.key, q.key = p.key,
         p.asked <= u.asked, u.asked <= p.asked + Window - Wait,
         p.asked <= q.asked, q.asked <= p.asked + Window - Wait,
         u.window # p.window
  PROVE  q.window = p.window \/ q.window = u.window
<1>1. /\ Window \in Nat \ {0} /\ Wait \in Nat
      /\ \A x \in passed : x.window \in Nat /\ x.asked \in Nat
      /\ \A x \in passed : x.window <= x.asked + Wait /\ x.asked < x.window + Window
  BY Durations DEF LimitInv, LimiterTyped, Pass, PassesInWindow
<1>2. \A x, y \in {p, u, q} :
        x.window = y.window \/ x.window + Window <= y.window \/ y.window + Window <= x.window
  BY DEF LimitInv, WindowsApart
<1>3. \A x \in {p, u, q} : x.window <= p.asked + Window /\ p.asked < x.window + Window
  <2>1. ASSUME NEW x \in passed, p.asked <= x.asked, x.asked <= p.asked + Window - Wait
        PROVE  x.window <= p.asked + Window /\ p.asked < x.window + Window
    BY <1>1, <2>1
  <2>2. p.window <= p.asked + Window /\ p.asked < p.window + Window
    <3>1. Wait <= Window
      BY <1>1
    <3> QED BY <1>1, <3>1
  <2> QED BY <2>1, <2>2
<1> DEFINE a == p.window  b == u.window  c == q.window  t == p.asked
<1>4. a \in Nat /\ b \in Nat /\ c \in Nat /\ t \in Nat
  BY <1>1
<1>5. /\ a <= t + Window /\ b <= t + Window /\ c <= t + Window
      /\ t < a + Window /\ t < b + Window /\ t < c + Window
  BY <1>3
<1>6. /\ a = b \/ a + Window <= b \/ b + Window <= a
      /\ a = c \/ a + Window <= c \/ c + Window <= a
      /\ b = c \/ b + Window <= c \/ c + Window <= b
  BY <1>2
<1> HIDE DEF a, b, c, t
<1>7. a # b => c = a \/ c = b
  BY <1>1, <1>4, <1>5, <1>6
<1> QED BY <1>7 DEF a, b, c

\* However the interval lies to the windows, at most twice the limit passes in it.
THEOREM FewInIntervals == Spec => []FewInAnyInterval
<1>1. LimitInv => FewInAnyInterval
  <2> SUFFICES ASSUME LimitInv, NEW p \in passed
               PROVE  Cardinality({q \in PassesOf(p.key) :
                        p.asked <= q.asked /\ q.asked <= p.asked + Window - Wait}) <= 2 * Limit
    BY DEF FewInAnyInterval
  <2> DEFINE S == {q \in PassesOf(p.key) :
                     p.asked <= q.asked /\ q.asked <= p.asked + Window - Wait}
             P(x) == PassesIn(x.key, x.window)
  <2>1. IsFiniteSet(passed) /\ Limit \in Nat
    BY Durations DEF LimitInv, LimiterTyped
  <2>2. \A x \in passed : /\ IsFiniteSet(P(x)) /\ Cardinality(P(x)) \in Nat
                          /\ Cardinality(P(x)) <= Limit
    BY <2>1, PassesFinite DEF LimitInv, WindowsWithinLimit
  <2>3. CASE \A q \in S : q.window = p.window
    <3>1. S \in SUBSET P(p)
      BY <2>3 DEF PassesOf, PassesIn
    <3>2. IsFiniteSet(P(p)) /\ Cardinality(P(p)) \in Nat /\ Cardinality(P(p)) <= Limit
      BY <2>2
    <3> HIDE DEF S, P
    <3>3. Cardinality(S) <= Cardinality(P(p)) /\ Cardinality(S) \in Nat
      BY <3>1, <3>2, FS_Subset, FS_CardinalityType
    <3>4. Cardinality(S) <= 2 * Limit
      BY <2>1, <3>2, <3>3
    <3> QED BY <3>4 DEF S
  <2>4. CASE \E u \in S : u.window # p.window
    <3>1. PICK u \in S : u.window # p.window
      BY <2>4
    <3>2. \A q \in S : q \in passed /\ q.key = p.key
      BY DEF PassesOf
    <3>3. ASSUME NEW q \in S PROVE q.window = p.window \/ q.window = u.window
      BY <3>1, <3>2, <3>3, TwoWindows
    <3>4. S \in SUBSET (P(p) \cup P(u))
      BY <3>1, <3>2, <3>3 DEF PassesIn
    <3>5. /\ IsFiniteSet(P(p)) /\ Cardinality(P(p)) \in Nat /\ Cardinality(P(p)) <= Limit
          /\ IsFiniteSet(P(u)) /\ Cardinality(P(u)) \in Nat /\ Cardinality(P(u)) <= Limit
      BY <2>2, <3>1, <3>2
    <3> HIDE DEF S, P
    <3>6. /\ IsFiniteSet(P(p) \cup P(u)) /\ Cardinality(P(p) \cup P(u)) \in Nat
          /\ Cardinality(P(p) \cap P(u)) \in Nat
          /\ Cardinality(P(p) \cup P(u)) =
               Cardinality(P(p)) + Cardinality(P(u)) - Cardinality(P(p) \cap P(u))
      <4>1. P(p) \cap P(u) \in SUBSET P(p)
        OBVIOUS
      <4>2. IsFiniteSet(P(p) \cap P(u))
        BY <3>5, <4>1, FS_Subset
      <4> QED BY <3>5, <4>2, FS_Union, FS_CardinalityType
    <3>7. Cardinality(S) <= Cardinality(P(p) \cup P(u)) /\ Cardinality(S) \in Nat
      BY <3>4, <3>6, FS_Subset, FS_CardinalityType
    <3>8. Cardinality(S) <= 2 * Limit
      BY <2>1, <3>5, <3>6, <3>7
    <3> QED BY <3>8 DEF S
  <2> QED BY <2>3, <2>4
<1> QED BY <1>1, LimitsHold, PTL

-----------------------------------------------------------------------------
(* CodesInv *)

\* Two sets have no code in common, and a code says which set it is of.
LEMMA SetsApart ==
  /\ \A n \in Nat : \A c \in SetOf(n) : c[1] = n
  /\ \A m, n \in Nat : m # n => SetOf(m) \cap SetOf(n) = {}
  /\ \A n \in 1..MaxSets : SetOf(n) \subseteq Code
BY Sizes DEF SetOf, Code

\* A step that leaves the rows alone, and finds at most the rows there are.
LEMMA WorkStep ==
  ASSUME CodesInv, LimiterTyped', NEW r \in Requests,
         DOMAIN codes' = DOMAIN codes, codes' \in [DOMAIN codes -> BOOLEAN], sets' = sets,
         honoured' \subseteq Honour,
         NEW task \in Task, work' = [work EXCEPT ![r] = task],
         task.at = "removing" => task.rows = DOMAIN codes,
         task.at = "replacing" => task.rows = DOMAIN codes /\ Replacing = {}
  PROVE  CodesInv'
<1>1. work' \in [Requests -> Task] /\ work'[r] = task
      /\ \A q \in Requests \ {r} : work'[q] = work[q]
  BY DEF CodesInv, TypeOK
<1>2. TypeOK'
  BY <1>1 DEF CodesInv, TypeOK
<1>3. OneWholeSet'
  BY DEF CodesInv, OneWholeSet, SetOf
<1>4. FoundWhole'
  <2>1. \A q \in Requests : work'[q].at = "replacing" => work'[q].rows = DOMAIN codes'
    BY <1>1 DEF CodesInv, FoundWhole
  <2>2. DOMAIN codes \in {{}} \cup {SetOf(n) : n \in 1..sets}
    BY DEF CodesInv, TypeOK, OneWholeSet
  <2>3. \A q \in Requests :
          work'[q].at = "removing" => work'[q].rows \in {{}} \cup {SetOf(n) : n \in 1..sets}
    BY <1>1, <2>2 DEF CodesInv, FoundWhole
  <2>4. \A q, s \in Replacing' : q = s
    BY <1>1 DEF CodesInv, FoundWhole, Replacing
  <2> QED BY <2>1, <2>3, <2>4 DEF FoundWhole, SetOf
<1> QED BY <1>2, <1>3, <1>4 DEF CodesInv

\* A request that is done
LEMMA DoneStep ==
  ASSUME TypeOK, NEW r \in Requests, Turns(r, "done")
  PROVE  /\ work' \in [Requests -> Task] /\ work'[r].at = "done"
         /\ \A q \in Requests \ {r} : work'[q] = work[q]
<1>1. work' = [work EXCEPT ![r] = [work[r] EXCEPT !.at = "done"]]
  BY DEF Turns, TypeOK
<1>2. [work[r] EXCEPT !.at = "done"] \in Task /\ [work[r] EXCEPT !.at = "done"].at = "done"
  <2>1. work[r] \in Task /\ "done" \in Steps
    BY DEF TypeOK, Steps
  <2> QED BY <2>1 DEF Task
<1> QED BY <1>1, <1>2 DEF TypeOK

\* A request that turns to a step without rows of its own.
LEMMA TurnStep ==
  ASSUME CodesInv, LimiterTyped', NEW r \in Requests, NEW at \in {"done", "verified"},
         Turns(r, at), DOMAIN codes' = DOMAIN codes, codes' \in [DOMAIN codes -> BOOLEAN],
         sets' = sets, honoured' \subseteq Honour
  PROVE  CodesInv'
<1>1. work' = [work EXCEPT ![r] = [work[r] EXCEPT !.at = at]]
  BY DEF Turns, CodesInv, TypeOK
<1>2. [work[r] EXCEPT !.at = at] \in Task /\ [work[r] EXCEPT !.at = at].at = at
  <2>1. work[r] \in Task /\ at \in Steps
    BY DEF CodesInv, TypeOK, Steps
  <2> QED BY <2>1 DEF Task
<1> HIDE DEF Turns
<1> QED BY <1>1, <1>2, WorkStep

\* The first set is whole, and no statement has found rows yet.
LEMMA CodesBegin == CodesInit /\ LimiterTyped => CodesInv
<1> SUFFICES ASSUME CodesInit, LimiterTyped PROVE CodesInv
  OBVIOUS
<1>1. 1 \in 1..MaxSets /\ <<1, 1>> \in Code
  BY Sizes DEF Code
<1>2. codes = [c \in SetOf(1) |-> FALSE] /\ sets = 1 /\ honoured = {}
  BY DEF CodesInit
<1>3. PICK kindOf \in [Requests -> Kinds] : work = [r \in Requests |-> NewTask(kindOf[r])]
  BY DEF CodesInit
<1>4. work \in [Requests -> Task] /\ \A r \in Requests : work[r].at = "idle"
  BY <1>1, <1>3 DEF NewTask, Task, Steps
<1>5. TypeOK
  BY <1>1, <1>2, <1>4, SetsApart DEF TypeOK
<1>6. OneWholeSet /\ FoundWhole
  BY <1>2, <1>4 DEF OneWholeSet, FoundWhole, Replacing
<1> QED BY <1>5, <1>6 DEF CodesInv

\* A replacement leaves the new set, whole, and nothing else.
LEMMA InsertStep ==
  ASSUME CodesInv, LimiterTyped', NEW r \in Requests, InsertCodes(r)
  PROVE  CodesInv' /\ DOMAIN codes' = SetOf(sets + 1) /\ \A c \in SetOf(sets + 1) : codes'[c] = FALSE
<1>1. /\ sets' = sets + 1 /\ sets < MaxSets /\ sets \in 1..MaxSets /\ honoured' = honoured
      /\ work[r].at = "replacing" /\ Turns(r, "done")
  BY DEF InsertCodes, At, CodesInv, TypeOK
<1>2. work[r].rows = DOMAIN codes
  BY <1>1 DEF CodesInv, FoundWhole
<1>3. DOMAIN codes' = SetOf(sets + 1) /\ \A c \in SetOf(sets + 1) : codes'[c] = FALSE
  <2> DEFINE new == SetOf(sets + 1)
  <2>1. codes' = [c \in (DOMAIN codes \ work[r].rows) \cup new |-> IF c \in new THEN FALSE ELSE codes[c]]
    BY DEF InsertCodes
  <2>2. (DOMAIN codes \ work[r].rows) \cup new = new
    BY <1>2
  <2> HIDE DEF new
  <2>3. DOMAIN codes' = new /\ \A c \in new : codes'[c] = FALSE
    BY <2>1, <2>2
  <2> QED BY <2>3 DEF new
<1>4. sets + 1 \in 1..MaxSets
  BY <1>1, Sizes
<1>5. /\ work' \in [Requests -> Task] /\ work'[r].at = "done"
      /\ \A q \in Requests \ {r} : work'[q] = work[q]
  BY <1>1, DoneStep DEF CodesInv
<1>6. TypeOK'
  <2>1. DOMAIN codes' \subseteq Code
    BY <1>3, <1>4, SetsApart
  <2>2. codes' \in [DOMAIN codes' -> BOOLEAN]
    <3>1. codes' = [c \in DOMAIN codes' |-> codes'[c]]
      BY DEF InsertCodes
    <3> QED BY <1>3, <3>1
  <2> QED BY <1>1, <1>4, <1>5, <2>1, <2>2 DEF CodesInv, TypeOK
<1>7. OneWholeSet'
  BY <1>1, <1>3 DEF OneWholeSet, SetOf
<1>8. FoundWhole'
  <2>1. \A q \in Requests : work'[q].at # "replacing"
    BY <1>1, <1>5 DEF CodesInv, FoundWhole, Replacing
  <2>2. \A q \in Requests :
          work'[q].at = "removing" => work'[q].rows \in {{}} \cup {SetOf(n) : n \in 1..sets + 1}
    BY <1>1, <1>5 DEF CodesInv, FoundWhole
  <2> QED BY <1>1, <2>1, <2>2 DEF FoundWhole, SetOf, Replacing
<1> QED BY <1>3, <1>6, <1>7, <1>8 DEF CodesInv

\* A recovery leaves all the rows there are or none, and none of a replacement's.
LEMMA RemoveStep ==
  ASSUME CodesInv, LimiterTyped', NEW r \in Requests, RemoveCodes(r)
  PROVE  /\ CodesInv' /\ DOMAIN codes' \subseteq DOMAIN codes
         /\ \A c \in DOMAIN codes' : codes'[c] = codes[c]
<1>1. /\ sets' = sets /\ sets \in 1..MaxSets /\ honoured' = honoured
      /\ work[r].at = "removing" /\ Turns(r, "done")
      /\ codes' = [c \in DOMAIN codes \ work[r].rows |-> codes[c]]
  BY DEF RemoveCodes, At, CodesInv, TypeOK
<1>2. DOMAIN codes' = DOMAIN codes \ work[r].rows /\ \A c \in DOMAIN codes' : codes'[c] = codes[c]
  BY <1>1
<1>3. /\ work' \in [Requests -> Task] /\ work'[r].at = "done"
      /\ \A q \in Requests \ {r} : work'[q] = work[q]
  BY <1>1, DoneStep DEF CodesInv
<1>4. TypeOK'
  <2>1. codes' \in [DOMAIN codes' -> BOOLEAN]
    BY <1>1, <1>2 DEF CodesInv, TypeOK
  <2> QED BY <1>1, <1>2, <1>3, <2>1 DEF CodesInv, TypeOK
<1>5. DOMAIN codes' = DOMAIN codes \/ DOMAIN codes' = {}
  <2>1. work[r].rows \in {{}} \cup {SetOf(n) : n \in 1..sets}
    BY <1>1 DEF CodesInv, FoundWhole
  <2>2. CASE work[r].rows = {}
    BY <1>2, <2>2
  <2>3. ASSUME NEW n \in 1..sets, work[r].rows = SetOf(n)
        PROVE  DOMAIN codes' = DOMAIN codes \/ DOMAIN codes' = {}
    <3>1. DOMAIN codes = SetOf(sets) \/ DOMAIN codes = {}
      BY DEF CodesInv, OneWholeSet
    <3>2. n # sets => SetOf(sets) \cap SetOf(n) = {}
      BY <1>1, <2>3, SetsApart
    <3> QED BY <1>2, <2>3, <3>1, <3>2
  <2> QED BY <2>1, <2>2, <2>3
<1>6. OneWholeSet'
  BY <1>1, <1>5 DEF CodesInv, OneWholeSet, SetOf
<1>7. FoundWhole'
  <2>1. ASSUME NEW q \in Requests, work'[q].at = "replacing"
        PROVE  work'[q].rows = DOMAIN codes'
    <3>1. q # r /\ work'[q] = work[q] /\ work[q].rows = DOMAIN codes
      BY <1>3, <2>1 DEF CodesInv, FoundWhole
    <3>2. work[q].rows \cap work[r].rows = {}
      BY <2>1, <3>1 DEF RemoveCodes, Locked
    <3> QED BY <1>2, <3>1, <3>2
  <2>2. \A q \in Requests :
          work'[q].at = "removing" => work'[q].rows \in {{}} \cup {SetOf(n) : n \in 1..sets}
    BY <1>3 DEF CodesInv, FoundWhole
  <2>3. \A q, s \in Replacing' : q = s
    BY <1>3 DEF CodesInv, FoundWhole, Replacing
  <2> QED BY <1>1, <2>1, <2>2, <2>3 DEF FoundWhole, SetOf
<1> QED BY <1>2, <1>4, <1>6, <1>7 DEF CodesInv

\* What a request does before it replaces or removes, and its failing, changes no row
\* but the one it marks.
LEMMA HandlerStep ==
  ASSUME CodesInv, LimiterTyped', NEW r \in Requests, Handles(r)
  PROVE  CodesInv'
<1> USE DEF CodesInv
<1>1. CASE Authenticate(r)
  <2>1. Turns(r, "done") \/ Turns(r, "verified")
    BY <1>1 DEF Authenticate, Verified
  <2> QED BY <1>1, <2>1, TurnStep DEF Authenticate, TypeOK
<1>2. CASE ReadCodes(r)
  <2>1. CASE Turns(r, "done")
    BY <1>2, <2>1, TurnStep DEF ReadCodes, TypeOK
  <2>2. ASSUME NEW c \in DOMAIN codes, work' = [work EXCEPT ![r].at = "matched", ![r].code = c]
        PROVE  CodesInv'
    <3> DEFINE task == [work[r] EXCEPT !.at = "matched", !.code = c]
    <3>1. task \in Task /\ task.at = "matched"
      <4>1. c \in Code /\ "matched" \in Steps /\ work[r] \in Task
        BY DEF TypeOK, Steps
      <4> QED BY <4>1 DEF Task
    <3>2. work' = [work EXCEPT ![r] = task]
      BY <2>2 DEF TypeOK
    <3> HIDE DEF task
    <3> QED BY <1>2, <3>1, <3>2, WorkStep DEF ReadCodes, TypeOK
  <2> QED BY <1>2, <2>1, <2>2 DEF ReadCodes
<1>3. CASE MarkCode(r)
  <2>1. Turns(r, "done") \/ Turns(r, "verified")
    BY <1>3 DEF MarkCode, Verified
  <2>2. DOMAIN codes' = DOMAIN codes /\ codes' \in [DOMAIN codes -> BOOLEAN] /\ sets' = sets
    BY <1>3 DEF MarkCode, TypeOK
  <2>3. honoured' \subseteq Honour
    BY <1>3 DEF MarkCode, TypeOK, Honour, Task
  <2> QED BY <2>1, <2>2, <2>3, TurnStep
<1>4. CASE DeleteCodes(r)
  <2> DEFINE task == [work[r] EXCEPT !.at = "replacing", !.rows = DOMAIN codes]
  <2>1. task \in Task /\ task.at = "replacing" /\ task.rows = DOMAIN codes
    <3>1. DOMAIN codes \in SUBSET Code /\ "replacing" \in Steps /\ work[r] \in Task
      BY DEF TypeOK, Steps
    <3> QED BY <3>1 DEF Task
  <2>2. work' = [work EXCEPT ![r] = task]
    BY <1>4 DEF DeleteCodes, TypeOK
  <2> HIDE DEF task
  <2> QED BY <1>4, <2>1, <2>2, WorkStep DEF DeleteCodes, TypeOK
<1>5. CASE InsertCodes(r)
  BY <1>5, InsertStep
<1>6. CASE FailReplacement(r)
  BY <1>6, TurnStep DEF FailReplacement, TypeOK
<1>7. CASE FindCodes(r)
  <2> DEFINE task == [work[r] EXCEPT !.at = "removing", !.rows = DOMAIN codes]
  <2>1. task \in Task /\ task.at = "removing" /\ task.rows = DOMAIN codes
    <3>1. DOMAIN codes \in SUBSET Code /\ "removing" \in Steps /\ work[r] \in Task
      BY DEF TypeOK, Steps
    <3> QED BY <3>1 DEF Task
  <2>2. work' = [work EXCEPT ![r] = task]
    BY <1>7 DEF FindCodes, TypeOK
  <2> HIDE DEF task
  <2> QED BY <1>7, <2>1, <2>2, WorkStep DEF FindCodes, TypeOK
<1>8. CASE RemoveCodes(r)
  BY <1>8, RemoveStep
<1> QED BY <1>1, <1>2, <1>3, <1>4, <1>5, <1>6, <1>7, <1>8 DEF Handles

\* With the limiter or not, every step keeps the codes in whole sets.
LEMMA CodesStep ==
  ASSUME CodesInv, LimitInv', [Next]_vars
  PROVE  CodesInv'
<1>1. LimiterTyped'
  BY DEF LimitInv
<1>2. CASE UNCHANGED <<codes, sets, work, honoured>>
  BY <1>1, <1>2 DEF CodesInv, TypeOK, OneWholeSet, FoundWhole, SetOf, Replacing
<1>3. CASE \E r \in Requests : Handles(r)
  BY <1>1, <1>3, HandlerStep
<1> QED BY <1>2, <1>3 DEF Next, LimiterStep, vars

\* replace_backup_codes, consuming and recovery leave whole sets, however they
\* interleave.
THEOREM SetsStayWhole == Spec => []CodesInv
<1>1. Init => CodesInv
  BY LimiterBegins, CodesBegin DEF Init, LimitInv
<1>2. CodesInv /\ LimitInv' /\ [Next]_vars => CodesInv'
  BY CodesStep
<1> QED BY <1>1, <1>2, LimitsHold, PTL DEF Spec

-----------------------------------------------------------------------------
(* CodeWorksOnce *)

\* A code that let a request in is of a set made before, and marked if it is
\* still stored.
HonouredUsed ==
  \A h \in honoured : h.code[1] <= sets /\ (h.code \in DOMAIN codes => codes[h.code])

OnceInv == CodeWorksOnce /\ HonouredUsed

\* A code that is honoured was stored and not used, and therefore was never
\* honoured before.
LEMMA MarkStep ==
  ASSUME CodesInv, OnceInv, NEW r \in Requests, MarkCode(r)
  PROVE  OnceInv'
<1> DEFINE c == work[r].code
<1>1. sets' = sets /\ sets \in Nat
  BY DEF MarkCode, CodesInv, TypeOK
<1>2. CASE UNCHANGED <<codes, honoured>>
  BY <1>1, <1>2 DEF OnceInv, CodeWorksOnce, HonouredUsed
<1>3. CASE Unused(c) /\ codes' = [codes EXCEPT ![c] = TRUE]
  <2>1. /\ c \in DOMAIN codes /\ ~codes[c] /\ codes'[c] = TRUE /\ DOMAIN codes' = DOMAIN codes
        /\ \A d \in DOMAIN codes : d # c => codes'[d] = codes[d]
    BY <1>3 DEF Unused
  <2>2. c[1] = sets
    BY <1>1, <2>1, SetsApart DEF CodesInv, OneWholeSet
  <2>3. \A h \in honoured : h.code # c
    BY <2>1 DEF OnceInv, HonouredUsed
  <2>4. \A h \in honoured' : h \in honoured \/ (h.code = c /\ h.latest = sets)
    BY <1>3 DEF MarkCode
  <2>5. \A g, h \in honoured' : g \notin honoured /\ h \notin honoured => g = h
    BY <1>3 DEF MarkCode
  <2> HIDE DEF c
  <2>6. CodeWorksOnce'
    BY <2>2, <2>3, <2>4, <2>5 DEF OnceInv, CodeWorksOnce
  <2>7. HonouredUsed'
    BY <1>1, <2>1, <2>2, <2>4 DEF OnceInv, HonouredUsed
  <2> QED BY <2>6, <2>7 DEF OnceInv
<1> QED BY <1>2, <1>3 DEF MarkCode

\* consumeBackupCodeAtomically honours a code once, and not after its replacement.
THEOREM CodesWorkOnce == Spec => []CodeWorksOnce
<1>1. Init => OnceInv
  BY DEF Init, CodesInit, OnceInv, CodeWorksOnce, HonouredUsed
<1>2. CodesInv /\ OnceInv /\ LimitInv' /\ [Next]_vars => OnceInv'
  <2> SUFFICES ASSUME CodesInv, OnceInv, LimitInv', [Next]_vars PROVE OnceInv'
    OBVIOUS
  <2>1. LimiterTyped'
    BY DEF LimitInv
  <2>2. CASE UNCHANGED <<codes, sets, honoured>>
    BY <2>2 DEF OnceInv, CodeWorksOnce, HonouredUsed
  <2>3. ASSUME NEW r \in Requests, Handles(r) PROVE OnceInv'
    <3>1. CASE MarkCode(r)
      BY <3>1, MarkStep
    <3>2. CASE InsertCodes(r)
      <4>1. /\ DOMAIN codes' = SetOf(sets + 1) /\ sets' = sets + 1 /\ honoured' = honoured
            /\ sets \in Nat
        <5>1. DOMAIN codes' = SetOf(sets + 1)
          BY <2>1, <3>2, InsertStep
        <5>2. sets' = sets + 1 /\ honoured' = honoured
          BY <3>2 DEF InsertCodes
        <5>3. sets \in Nat
          BY DEF CodesInv, TypeOK
        <5> QED BY <5>1, <5>2, <5>3
      <4>2. \A d \in SetOf(sets + 1) : d[1] = sets + 1
        BY <4>1, SetsApart
      <4>3. ASSUME NEW h \in honoured
            PROVE  h.code[1] <= sets + 1 /\ h.code \notin SetOf(sets + 1)
        <5>1. h.code[1] <= sets /\ h.code[1] \in Nat
          BY <4>3 DEF OnceInv, HonouredUsed, CodesInv, TypeOK, Honour, Code
        <5> QED BY <4>1, <4>2, <5>1
      <4> QED BY <4>1, <4>3 DEF OnceInv, CodeWorksOnce, HonouredUsed
    <3>3. CASE RemoveCodes(r)
      <4>1. /\ DOMAIN codes' \subseteq DOMAIN codes /\ \A d \in DOMAIN codes' : codes'[d] = codes[d]
        BY <2>1, <3>3, RemoveStep
      <4>2. UNCHANGED <<sets, honoured>>
        BY <3>3 DEF RemoveCodes
      <4> QED BY <4>1, <4>2 DEF OnceInv, CodeWorksOnce, HonouredUsed
    <3>4. CASE ~(MarkCode(r) \/ InsertCodes(r) \/ RemoveCodes(r))
      BY <2>2, <2>3, <3>4 DEF Handles, Authenticate, ReadCodes, DeleteCodes, FailReplacement, FindCodes
    <3> QED BY <3>1, <3>2, <3>3, <3>4
  <2> QED BY <2>2, <2>3 DEF Next, LimiterStep, vars
<1>3. OnceInv => CodeWorksOnce
  BY DEF OnceInv
<1> QED BY <1>1, <1>2, <1>3, LimitsHold, SetsStayWhole, PTL DEF Spec
=============================================================================
