------------------------------- MODULE RateLimit -------------------------------
(***************************************************************************)
(* The shared limiter of requests.  A request is counted under each of its *)
(* identities (user, address), one after the other, by a database function *)
(* that runs in a transaction of its own under an advisory lock, and goes  *)
(* on if every count is within the limit.  Buckets that rest are deleted   *)
(* now and then by whichever call happens to.                              *)
(***************************************************************************)
EXTENDS Integers, Sequences, FiniteSets

CONSTANTS
  Requests,
  Keys,       \* scope and identity
  KeysOf,     \* the identities of each request, in the order they are counted
  Limit,
  Window,     \* length of a window
  Retention,  \* a bucket may be deleted when it was not updated for so long
  Wait,       \* external: the database ends a call that takes longer
  MaxTime,    \* bound: the clock stops here
  Faults      \* whether calls may fail

ASSUME Identities ==
  /\ IsFiniteSet(Requests)
  /\ KeysOf \in [Requests -> Seq(Keys)] /\ \A r \in Requests : KeysOf[r] # <<>>
  /\ \A r \in Requests : \A m, n \in DOMAIN KeysOf[r] : KeysOf[r][m] = KeysOf[r][n] => m = n
ASSUME Durations ==
  /\ Limit \in Nat \ {0} /\ Window \in Nat \ {0} /\ Retention \in Nat /\ Wait \in Nat
  /\ Window + 2 * Wait <= Retention

VARIABLES
  clock,
  buckets,  \* api_rate_limit_buckets: key -> row
  call,     \* what each request is about to ask of the limiter
  passed    \* history: the counts that were within the limit

limiter == <<clock, buckets, call, passed>>

Bucket == [started : Nat, count : Nat \ {0}, updated : Nat]
Pass == [request : Requests, key : Keys, asked : Nat, window : Nat]

\* In a transaction, asked is the time it began at and doomed the rows it has
\* deleted.
InTransaction == {"cleaning", "locking", "counting"}
Call == [at : {"calling", "admitted", "refused"} \cup InTransaction, n : Nat \ {0},
         asked : Nat, doomed : SUBSET Keys]

LimiterTyped ==
  /\ clock \in Nat
  /\ DOMAIN buckets \subseteq Keys /\ buckets \in [DOMAIN buckets -> Bucket]
  /\ call \in [Requests -> Call]
  /\ \A r \in Requests : call[r].n \in DOMAIN KeysOf[r]
  /\ passed \subseteq Pass /\ IsFiniteSet(passed)

LimiterInit ==
  /\ clock = 0 /\ buckets = <<>> /\ passed = {}
  /\ call = [r \in Requests |-> [at |-> "calling", n |-> 1, asked |-> 0, doomed |-> {}]]

Key(r) == KeysOf[r][call[r].n]
Goes(r, at) == call' = [call EXCEPT ![r].at = at]
\* A transaction that ends gives up its locks.
Ends(r, at) == call' = [call EXCEPT ![r].at = at, ![r].doomed = {}]

-----------------------------------------------------------------------------
(* check_api_rate_limit *)

\* v_now is read before anything is waited for.
Ask(r) ==
  /\ call[r].at = "calling"
  /\ call' = [call EXCEPT ![r].at = "cleaning", ![r].asked = clock]
  /\ UNCHANGED <<clock, buckets, passed>>

\* Mutated form: whatever was not updated in this instant is resting.
RestingAtOnce(now) == {k \in DOMAIN buckets : buckets[k].updated < now}

Resting(now) == {k \in DOMAIN buckets : buckets[k].updated < now - Retention}

\* Buckets at rest are deleted, or, most of the time, not.  The deletion waits
\* for others of the same rows.
Clean(r) ==
  /\ call[r].at = "cleaning"
  /\ \E doomed \in {{}, Resting(call[r].asked)} :
       /\ \A q \in Requests : doomed \cap call[q].doomed = {}
       /\ call' = [call EXCEPT ![r].at = "locking", ![r].doomed = doomed]
  /\ UNCHANGED <<clock, buckets, passed>>

\* Mutated form: the lock belongs to the session.
HoldersOfSession(k) == {q \in Requests : call[q].at \in {"counting", "refused"} /\ Key(q) = k}

\* The calls that hold the advisory lock of a key, until they end
Holders(k) == {q \in Requests : call[q].at = "counting" /\ Key(q) = k}

Lock(r) ==
  /\ call[r].at = "locking" /\ Holders(Key(r)) = {}
  /\ Goes(r, "counting")
  /\ UNCHANGED <<clock, buckets, passed>>

Fresh(now) == [started |-> now, count |-> 1, updated |-> now]

\* The row of a key among those left, after one more request at time now
Counted(left, k, now) ==
  IF k \notin left \/ buckets[k].started + Window <= now THEN Fresh(now)
  ELSE [buckets[k] EXCEPT !.count = @ + 1, !.updated = now]

Allowed(bucket) == bucket.count <= Limit

\* The next identity is asked for, or all have been.
Proceeds(r) ==
  IF call[r].n < Len(KeysOf[r])
  THEN call' = [call EXCEPT ![r].at = "calling", ![r].n = @ + 1, ![r].doomed = {}]
  ELSE Ends(r, "admitted")

\* Counting and commit; the row is waited for while another call has it deleted.
\* The answer may be lost.
Count(r) ==
  LET k      == Key(r)
      now    == call[r].asked
      left   == DOMAIN buckets \ call[r].doomed
      bucket == Counted(left, k, now)
  IN  /\ call[r].at = "counting"
      /\ \A q \in Requests \ {r} : k \notin call[q].doomed
      /\ buckets' = [x \in left \cup {k} |-> IF x = k THEN bucket ELSE buckets[x]]
      /\ IF Allowed(bucket)
         THEN /\ passed' = passed \cup
                   {[request |-> r, key |-> k, asked |-> now, window |-> bucket.started]}
              /\ \/ Proceeds(r)
                 \/ Faults /\ Ends(r, "refused")
         ELSE UNCHANGED passed /\ Ends(r, "refused")
      /\ UNCHANGED clock

\* The call fails, and the request with it.
Fails(r) ==
  /\ call[r].at \in InTransaction
  /\ Ends(r, "refused")
  /\ UNCHANGED <<clock, buckets, passed>>

\* r waits for a lock that q holds.
Waits(r, q) ==
  /\ q # r
  /\ \/ call[r].at = "locking" /\ q \in Holders(Key(r))
     \/ call[r].at = "counting" /\ Key(r) \in call[q].doomed

\* A call that waits for itself is cancelled by the database.
Deadlocked(r) ==
  \E S \in SUBSET Requests : r \in S /\ \A p \in S : \E q \in S : Waits(p, q)

Break(r) == Deadlocked(r) /\ Fails(r)

Tick ==
  /\ clock < MaxTime
  /\ \A r \in Requests : call[r].at \in InTransaction => clock < call[r].asked + Wait
  /\ clock' = clock + 1
  /\ UNCHANGED <<buckets, call, passed>>

Works(r) == Clean(r) \/ Lock(r) \/ Count(r) \/ Break(r)

LimiterNext ==
  \/ \E r \in Requests : Ask(r) \/ Works(r) \/ (Faults /\ Fails(r))
  \/ Tick

-----------------------------------------------------------------------------
(* Properties *)

PassesOf(k) == {p \in passed : p.key = k}
PassesIn(k, window) == {p \in passed : p.key = k /\ p.window = window}

\* A transaction lasts no longer than Wait.
CallsInTime ==
  \A r \in Requests : call[r].at \in InTransaction =>
    call[r].asked <= clock /\ clock <= call[r].asked + Wait

\* Rows that are deleted but not committed yet were at rest, and are deleted once.
DoomedRest ==
  /\ \A r \in Requests : \A k \in call[r].doomed :
       /\ call[r].at \in {"locking", "counting"}
       /\ k \in DOMAIN buckets /\ buckets[k].updated < call[r].asked - Retention
  /\ \A r, q \in Requests : r # q => call[r].doomed \cap call[q].doomed = {}

\* A bucket was updated about when its window started or later, and knows of
\* every pass in its window; the windows of a key lie apart.
WindowsApart ==
  /\ \A k \in DOMAIN buckets :
       /\ buckets[k].started <= buckets[k].updated + Wait /\ buckets[k].started <= clock
       /\ \A p \in PassesOf(k) :
            p.window = buckets[k].started \/ p.window + Window <= buckets[k].started
  /\ \A p \in passed : p.key \notin DOMAIN buckets => p.window + Window + Wait <= clock
  /\ \A p, q \in passed :
       p.key = q.key => p.window = q.window \/ p.window + Window <= q.window
                                            \/ q.window + Window <= p.window

\* A pass was asked for in its window, or shortly before it was opened.
PassesInWindow ==
  \A p \in passed : p.window <= p.asked + Wait /\ p.asked < p.window + Window

\* In a window no more requests pass than are counted, and no more than the limit.
WindowsWithinLimit ==
  /\ \A p \in passed : Cardinality(PassesIn(p.key, p.window)) <= Limit
  /\ \A k \in DOMAIN buckets :
       Cardinality(PassesIn(k, buckets[k].started)) <= buckets[k].count

\* The limiter keeps to its limit in every window, through waiting calls, calls
\* that lose their answer and buckets deleted under the calls that use them.
LimitInv ==
  /\ LimiterTyped /\ CallsInTime /\ DoomedRest
  /\ WindowsApart /\ PassesInWindow /\ WindowsWithinLimit

\* Whenever one looks, in a time as long as a window (less what a call may wait)
\* at most twice the limit passes under one identity.
FewInAnyInterval ==
  \A p \in passed :
    Cardinality({q \in PassesOf(p.key) : p.asked <= q.asked /\ q.asked <= p.asked + Window - Wait})
      <= 2 * Limit
================================================================================
