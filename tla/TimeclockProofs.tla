---------------------------- MODULE TimeclockProofs ----------------------------
(***************************************************************************)
(* For all durations that let a nonce outlive the acceptance of its QR     *)
(* code, and for any number of handlers, a ticket punches at most once.    *)
(* For any time that a request may take, a device's chain forks only       *)
(* between requests that overlap, and punches further apart alternate.     *)
(***************************************************************************)
EXTENDS Timeclock, NaturalOrder, TLAPS

\* A nonempty set of indices has a last one.
LEMMA LastIndex ==
  ASSUME NEW n \in Nat, NEW indices \in SUBSET (1..n)
  PROVE  /\ LatestOf(indices) \in Nat
         /\ LatestOf(indices) # 0 => LatestOf(indices) \in indices
         /\ \A i \in indices : i <= LatestOf(indices)
<1>1. CASE indices = {}
  BY <1>1 DEF LatestOf
<1>2. CASE indices # {}
  <2>1. \E m \in indices : \A i \in indices : i <= m
    BY <1>2, indices \subseteq 0..n, GreatestNatural
  <2>2. \E m \in indices : \A i \in indices : m >= i
    BY <2>1
  <2>3. Max(indices) = CHOOSE x \in indices : \A y \in indices : x >= y
    BY DEF Max
  <2>4. Max(indices) \in indices /\ \A i \in indices : Max(indices) >= i
    BY <2>2, <2>3, Zenon
  <2>5. LatestOf(indices) = Max(indices)
    BY <1>2, Zenon DEF LatestOf
  <2>6. LatestOf(indices) \in indices /\ \A i \in indices : LatestOf(indices) >= i
    BY <2>4, <2>5, Zenon
  <2>7. \A i \in indices : i \in Nat
    OBVIOUS
  <2>8. LatestOf(indices) \in Nat
    BY <2>6, <2>7, Zenon
  <2> QED BY <2>6, <2>7, <2>8
<1> QED BY <1>1, <1>2

\* What an index of events tells of its event.
LEMMA EventFields ==
  ASSUME TypeOK, NEW i \in DOMAIN events
  PROVE  i \in 1..Len(events) /\ events[i] \in Event
BY DEF TypeOK

-----------------------------------------------------------------------------
(* Types *)

\* A request in progress has the fields of its kind.
LEMMA RequestFields ==
  ASSUME TypeOK, NEW h \in Handlers
  PROVE  /\ work[h].at \in {"limiting", "replacing", "storing"} => work[h] \in IssueRecord
         /\ work[h].at \in QrSteps => work[h] \in Request(QrSteps, Qrs)
         /\ work[h].at \in CodeSteps => work[h] \in Request(CodeSteps, Codes)
         /\ work[h].at \in PunchSteps => work[h] \in Request(PunchSteps, Qrs)
                                         \/ work[h] \in Request(PunchSteps, Codes)
<1>1. work[h] \in Works
  BY DEF TypeOK
<1>2. CASE work[h] = Idle
  BY <1>2 DEF Idle, QrSteps, CodeSteps, PunchSteps
<1>3. CASE work[h] \in IssueRecord
  BY <1>3 DEF IssueRecord, QrSteps, CodeSteps, PunchSteps
<1>4. CASE work[h] \in Request(QrSteps \cup PunchSteps, Qrs)
  BY <1>4 DEF Request, QrSteps, CodeSteps, PunchSteps
<1>5. CASE work[h] \in Request(CodeSteps \cup PunchSteps, Codes)
  BY <1>5 DEF Request, QrSteps, CodeSteps, PunchSteps
<1> QED BY <1>1, <1>2, <1>3, <1>4, <1>5 DEF Works

\* A handler's next step is typed when its new request is.
LEMMA WorkFrame ==
  ASSUME work \in [Handlers -> Works], NEW h \in Handlers, NEW w \in Works,
         work' = [work EXCEPT ![h] = w]
  PROVE  work' \in [Handlers -> Works]
OBVIOUS

\* Moving on to another step of the same kind keeps the request typed.
LEMMA StepFrame ==
  /\ \A w \in IssueRecord : \A at \in {"limiting", "replacing", "storing"} :
       [w EXCEPT !.at = at] \in Works
  /\ \A w \in Request(QrSteps \cup PunchSteps, Qrs) : \A at \in QrSteps \cup PunchSteps :
       [w EXCEPT !.at = at] \in Works
  /\ \A w \in Request(CodeSteps \cup PunchSteps, Codes) : \A at \in CodeSteps \cup PunchSteps :
       [w EXCEPT !.at = at] \in Works
BY DEF Works, IssueRecord, Request

\* A request and a later one of the same handler differ in what it has read.
SameRequest(v, w) ==
  v.ticket = w.ticket /\ v.device = w.device /\ v.employee = w.employee /\ v.started = w.started

\* Reading the chain takes over the hash of the last event, unless the read is on record
\* as failed.
LEMMA ChainIsRead ==
  ASSUME TypeOK, NEW h \in Handlers, ReadChain(h)
  PROVE  LET w == work'[h]
             last == LatestOf({i \in DOMAIN events : events[i].device = work[h].device})
         IN /\ w \in Works /\ work' = [work EXCEPT ![h] = w]
            /\ w.at = "pairing" /\ SameRequest(w, work[h]) /\ w.type = work[h].type
            /\ w.prev \in Nat /\ ("hash" \in w.unread \/ w.prev = last)
            /\ work[h].unread \subseteq w.unread
<1> DEFINE last == LatestOf({i \in DOMAIN events : events[i].device = work[h].device})
<1>1. last \in Nat
  <2>1. DOMAIN events = 1..Len(events) /\ Len(events) \in Nat
    BY DEF TypeOK
  <2> QED BY <2>1, LastIndex
<1>2. PICK found \in Found(last) :
        work' = [work EXCEPT ![h].at = "pairing", ![h].prev = found,
                   ![h].unread = IF found = last THEN @ ELSE @ \cup {"hash"}]
  BY DEF ReadChain
<1> HIDE DEF last
<1>3. found \in Nat
  BY <1>1 DEF Found
<1>4. \/ work[h] \in Request(QrSteps \cup PunchSteps, Qrs)
      \/ work[h] \in Request(CodeSteps \cup PunchSteps, Codes)
  BY RequestFields DEF ReadChain, PunchSteps, Request
<1> DEFINE unread == IF found = last THEN work[h].unread ELSE work[h].unread \cup {"hash"}
           w == [work[h] EXCEPT !.at = "pairing", !.prev = found, !.unread = unread]
<1>5. work' = [work EXCEPT ![h] = w] /\ work'[h] = w
  BY <1>2 DEF TypeOK
<1>6. unread \in SUBSET Reads /\ work[h].unread \subseteq unread /\ ("hash" \in unread \/ found = last)
  BY <1>4 DEF Request, Reads
<1> HIDE DEF unread
<1>7. /\ w \in Works /\ w.at = "pairing" /\ w.ticket = work[h].ticket /\ w.device = work[h].device
      /\ w.employee = work[h].employee /\ w.started = work[h].started /\ w.type = work[h].type
      /\ w.prev = found /\ w.unread = unread
  BY <1>3, <1>4, <1>6 DEF Request, Works, PunchSteps
<1> HIDE DEF w
<1> QED BY <1>3, <1>5, <1>6, <1>7 DEF last, SameRequest

\* Reading the last punch derives the next one from it, unless the read is on record as
\* failed.
LEMMA PunchIsRead ==
  ASSUME TypeOK, NEW h \in Handlers, ReadPunch(h)
  PROVE  LET w == work'[h]
             last == LatestOf({i \in Today : events[i].employee = work[h].employee})
         IN /\ w \in Works /\ work' = [work EXCEPT ![h] = w]
            /\ w.at = "looking" /\ SameRequest(w, work[h]) /\ w.prev = work[h].prev
            /\ \/ "punch" \in w.unread
               \/ w.type = IF last # 0 /\ events[last].type = "IN" THEN "OUT" ELSE "IN"
            /\ work[h].unread \subseteq w.unread
<1> DEFINE last == LatestOf({i \in Today : events[i].employee = work[h].employee})
<1>2. PICK found \in Found(last) :
        work' = [work EXCEPT ![h].at = "looking",
                   ![h].type = IF found # 0 /\ events[found].type = "IN" THEN "OUT" ELSE "IN",
                   ![h].unread = IF found = last THEN @ ELSE @ \cup {"punch"}]
  BY DEF ReadPunch
<1> HIDE DEF last
<1>4. \/ work[h] \in Request(QrSteps \cup PunchSteps, Qrs)
      \/ work[h] \in Request(CodeSteps \cup PunchSteps, Codes)
  BY RequestFields DEF ReadPunch, PunchSteps, Request
<1> DEFINE unread == IF found = last THEN work[h].unread ELSE work[h].unread \cup {"punch"}
           type == IF found # 0 /\ events[found].type = "IN" THEN "OUT" ELSE "IN"
           w == [work[h] EXCEPT !.at = "looking", !.type = type, !.unread = unread]
<1>5. work' = [work EXCEPT ![h] = w] /\ work'[h] = w
  BY <1>2 DEF TypeOK
<1>6. unread \in SUBSET Reads /\ work[h].unread \subseteq unread /\ ("punch" \in unread \/ found = last)
  BY <1>4 DEF Request, Reads
<1>8. type \in Types
  BY DEF Types
<1> HIDE DEF unread, type
<1>7. /\ w \in Works /\ w.at = "looking" /\ w.ticket = work[h].ticket /\ w.device = work[h].device
      /\ w.employee = work[h].employee /\ w.started = work[h].started /\ w.prev = work[h].prev
      /\ w.type = type /\ w.unread = unread
  BY <1>4, <1>6, <1>8 DEF Request, Works, PunchSteps
<1> HIDE DEF w
<1>9. found = last => type = IF last # 0 /\ events[last].type = "IN" THEN "OUT" ELSE "IN"
  BY DEF type
<1> QED BY <1>5, <1>6, <1>7, <1>9 DEF last, SameRequest

\* The event that a request inserts.
LEMMA EventOfPunch ==
  ASSUME TypeOK, NEW h \in Handlers, work[h].at = "inserting", NEW answered \in BOOLEAN
  PROVE  \E ev \in Event :
           /\ Punch(work[h], answered) = Append(events, ev)
           /\ ev.ticket = work[h].ticket /\ ev.device = work[h].device
           /\ ev.employee = work[h].employee /\ ev.type = work[h].type /\ ev.at = now
           /\ ev.prev = work[h].prev /\ ev.unread = work[h].unread /\ ev.answered = answered
<1> DEFINE w == work[h]
           ev == [ticket |-> w.ticket, device |-> w.device, employee |-> w.employee, type |-> w.type,
                  at |-> now, prev |-> w.prev, unread |-> w.unread, answered |-> answered]
<1>1. w \in Request(PunchSteps, Qrs) \/ w \in Request(PunchSteps, Codes)
  BY RequestFields DEF PunchSteps
<1>2. ev \in Event
  BY <1>1 DEF TypeOK, Event, Request
<1>3. Punch(w, answered) = Append(events, ev)
  BY DEF Punch
<1> QED BY <1>2, <1>3

\* Variables and handlers keep their types.
LEMMA TypesStep ==
  ASSUME TypeOK, [Next]_vars
  PROVE  TypeOK'
<1> USE Durations, Tickets
<1>1. CASE UNCHANGED vars
  BY <1>1 DEF TypeOK, vars, NoncesTyped, CodesTyped, LimitsTyped
<1>2. CASE Tick
  BY <1>2 DEF Tick, TypeOK, NoncesTyped, CodesTyped, LimitsTyped
<1>3. ASSUME NEW h \in Handlers, Handles(h)
      PROVE  TypeOK'
  <2>0. Idle \in Works
    BY DEF Works
  <2>e. Ends(h) => work' \in [Handlers -> Works]
    BY <2>0, WorkFrame DEF Ends, TypeOK
  <2>g. ASSUME NEW at, [work[h] EXCEPT !.at = at] \in Works, Goes(h, at)
        PROVE  work' \in [Handlers -> Works]
    BY <2>g, WorkFrame DEF Goes, TypeOK
  <2>b. ASSUME NEW w \in Works, Begin(h, w)
        PROVE  work' \in [Handlers -> Works]
    BY <2>b, WorkFrame DEF Begin, TypeOK
  <2>i. work[h].at \in {"limiting", "replacing", "storing"} => work[h] \in IssueRecord
    BY RequestFields
  <2>q. work[h].at \in QrSteps => work[h] \in Request(QrSteps \cup PunchSteps, Qrs)
    BY RequestFields DEF Request
  <2>c. work[h].at \in CodeSteps => work[h] \in Request(CodeSteps \cup PunchSteps, Codes)
    BY RequestFields DEF Request
  <2>p. work[h].at \in PunchSteps => work[h] \in Request(QrSteps \cup PunchSteps, Qrs)
                                     \/ work[h] \in Request(CodeSteps \cup PunchSteps, Codes)
    BY RequestFields DEF Request
  <2>s. /\ work[h].at \in {"limiting", "replacing"} => [work[h] EXCEPT !.at = "replacing"] \in Works
        /\ work[h].at \in {"limiting", "replacing"} => [work[h] EXCEPT !.at = "storing"] \in Works
    BY <2>i, StepFrame
  <2>t. /\ work[h].at = "purging" => [work[h] EXCEPT !.at = "claiming"] \in Works
        /\ work[h].at \in {"claiming", "checking"} => [work[h] EXCEPT !.at = "chaining"] \in Works
    BY <2>q, <2>c, StepFrame DEF QrSteps, CodeSteps, PunchSteps
  <2>u. work[h].at \in PunchSteps =>
          /\ [work[h] EXCEPT !.at = "inserting"] \in Works
          /\ [work[h] EXCEPT !.at = "releasing"] \in Works
          /\ work[h].ticket \in Codes => [work[h] EXCEPT !.at = "deleting"] \in Works
    BY <2>p, StepFrame DEF PunchSteps, CodeSteps, Request
  <2> HIDE DEF PunchSteps, QrSteps, CodeSteps
  <2>1. ASSUME NEW d \in Devices, AskForCode(h, d) PROVE TypeOK'
    <3>1. [at |-> "limiting", device |-> d, started |-> now] \in Works
      BY DEF TypeOK, Works, IssueRecord
    <3> QED BY <2>1, <3>1, <2>b DEF AskForCode, TypeOK, NoncesTyped, CodesTyped, LimitsTyped
  <2>2. CASE ClaimLimit(h)
    <3>1. work[h] \in IssueRecord
      BY <2>2, <2>i DEF ClaimLimit
    <3>2. LimitsTyped'
      BY <2>2, <3>1 DEF ClaimLimit, IssueRecord, TypeOK, LimitsTyped
    <3>3. work' \in [Handlers -> Works]
      BY <2>2, <2>e, <2>g, <2>s DEF ClaimLimit
    <3> QED BY <2>2, <3>2, <3>3 DEF ClaimLimit, TypeOK, NoncesTyped, CodesTyped
  <2>3. CASE ReplaceCode(h)
    <3>1. CodesTyped'
      BY <2>3 DEF ReplaceCode, TypeOK, CodesTyped
    <3>2. work' \in [Handlers -> Works]
      BY <2>3, <2>g, <2>s DEF ReplaceCode
    <3> QED BY <2>3, <3>1, <3>2 DEF ReplaceCode, TypeOK, NoncesTyped, LimitsTyped
  <2>4. CASE StoreCode(h)
    <3>1. work[h] \in IssueRecord
      BY <2>4, <2>i DEF StoreCode
    <3>2. [device |-> work[h].device, used |-> Nobody, expires |-> work[h].started + CodeLife] \in CodeRow
      BY <3>1 DEF IssueRecord, CodeRow
    <3>3. CodesTyped'
      BY <2>4, <3>2 DEF StoreCode, TypeOK, CodesTyped, Drawable
    <3> QED BY <2>4, <3>3, <2>e DEF StoreCode, TypeOK, NoncesTyped, LimitsTyped
  <2>5. ASSUME NEW e \in Employees, NEW q \in Qrs, Scan(h, q, e) PROVE TypeOK'
    <3>1. [at |-> "purging", ticket |-> q, device |-> DeviceOf[q], employee |-> e,
           started |-> now, prev |-> 0, type |-> "IN", unread |-> {}] \in Works
      BY DEF TypeOK, Works, Request, QrSteps, Types
    <3> QED BY <2>5, <3>1, <2>b DEF Scan, TypeOK, NoncesTyped, CodesTyped, LimitsTyped
  <2>6. ASSUME NEW e \in Employees, NEW c \in DOMAIN codes, Submit(h, c, e) PROVE TypeOK'
    <3>1. [at |-> "checking", ticket |-> c, device |-> codes[c].device, employee |-> e,
           started |-> now, prev |-> 0, type |-> "IN", unread |-> {}] \in Works
      BY DEF TypeOK, CodesTyped, CodeRow, Works, Request, CodeSteps, Types
    <3>2. CodesTyped'
      BY <2>6 DEF Submit, TypeOK, CodesTyped, CodeRow
    <3> QED BY <2>6, <3>1, <3>2, <2>b DEF Submit, TypeOK, NoncesTyped, LimitsTyped
  <2>7. CASE PurgeNonces(h)
    <3>1. NoncesTyped'
      BY <2>7 DEF PurgeNonces, TypeOK, NoncesTyped
    <3>2. work' \in [Handlers -> Works]
      BY <2>7, <2>g, <2>t DEF PurgeNonces
    <3> QED BY <2>7, <3>1, <3>2 DEF PurgeNonces, TypeOK, CodesTyped, LimitsTyped
  <2>8. CASE ClaimNonce(h)
    <3>1. work[h].ticket \in Qrs
      BY <2>8, <2>q DEF ClaimNonce, QrSteps, Request
    <3>2. NoncesTyped'
      <4>1. KeptUntil \in Nat
        BY DEF KeptUntil, TypeOK
      <4>2. CASE work[h].ticket \in DOMAIN nonces
        BY <2>8, <4>2 DEF ClaimNonce, TypeOK, NoncesTyped
      <4>3. CASE work[h].ticket \notin DOMAIN nonces
        BY <2>8, <3>1, <4>1, <4>3 DEF ClaimNonce, TypeOK, NoncesTyped
      <4> QED BY <4>2, <4>3
    <3>3. work' \in [Handlers -> Works]
      BY <2>8, <2>e, <2>g, <2>t DEF ClaimNonce
    <3> QED BY <2>8, <3>2, <3>3 DEF ClaimNonce, TypeOK, CodesTyped, LimitsTyped
  <2>9. CASE CheckCode(h)
    BY <2>9, <2>e, <2>g, <2>t DEF CheckCode, TypeOK, NoncesTyped, CodesTyped, LimitsTyped
  <2>10. CASE DeleteCode(h)
    <3>1. CodesTyped'
      BY <2>10 DEF DeleteCode, TypeOK, CodesTyped
    <3> QED BY <2>10, <3>1, <2>e DEF DeleteCode, TypeOK, NoncesTyped, LimitsTyped
  <2>11. CASE ReadChain(h)
    <3>1. work'[h] \in Works /\ work' = [work EXCEPT ![h] = work'[h]]
      BY <2>11, ChainIsRead
    <3>2. work' \in [Handlers -> Works]
      BY <3>1, WorkFrame DEF TypeOK
    <3> QED BY <2>11, <3>2 DEF ReadChain, TypeOK, NoncesTyped, CodesTyped, LimitsTyped
  <2>12. CASE ReadPunch(h)
    <3>1. work'[h] \in Works /\ work' = [work EXCEPT ![h] = work'[h]]
      BY <2>12, PunchIsRead
    <3>2. work' \in [Handlers -> Works]
      BY <3>1, WorkFrame DEF TypeOK
    <3> QED BY <2>12, <3>2 DEF ReadPunch, TypeOK, NoncesTyped, CodesTyped, LimitsTyped
  <2>13. CASE ReadRecent(h)
    <3>1. work[h].at \in PunchSteps
      BY <2>13 DEF ReadRecent, PunchSteps
    <3> QED BY <2>13, <3>1, <2>e, <2>g, <2>u
            DEF ReadRecent, TypeOK, NoncesTyped, CodesTyped, LimitsTyped
  <2>14. CASE InsertPunch(h)
    <3>1. work[h].at \in PunchSteps
      BY <2>14 DEF InsertPunch, PunchSteps
    <3>2. PICK ev \in Event : events' = Append(events, ev)
      BY <2>14, EventOfPunch DEF InsertPunch
    <3>3. events' \in Seq(Event)
      BY <3>2 DEF TypeOK
    <3>4. work' \in [Handlers -> Works]
      BY <2>14, <3>1, <2>e, <2>g, <2>u DEF InsertPunch
    <3> QED BY <2>14, <3>3, <3>4 DEF InsertPunch, TypeOK, NoncesTyped, CodesTyped, LimitsTyped
  <2>15. CASE FailPunch(h)
    <3>1. work[h].at \in PunchSteps
      BY <2>15 DEF FailPunch, PunchSteps
    <3>2. events' = events \/ events' = Punch(work[h], FALSE)
      BY <2>15 DEF FailPunch
    <3>3. events' = events \/ \E ev \in Event : events' = Append(events, ev)
      BY <2>15, <3>2, EventOfPunch DEF FailPunch
    <3>4. events' \in Seq(Event)
      <4>1. events \in Seq(Event)
        BY DEF TypeOK
      <4>2. \A ev \in Event : Append(events, ev) \in Seq(Event)
        BY <4>1
      <4> QED BY <3>3, <4>1, <4>2, Zenon
    <3> QED BY <2>15, <3>1, <3>4, <2>g, <2>u DEF FailPunch, TypeOK, NoncesTyped, CodesTyped, LimitsTyped
  <2>16. CASE Release(h)
    <3>1. CodesTyped'
      BY <2>16 DEF Release, TypeOK, CodesTyped, CodeRow
    <3>2. NoncesTyped'
      BY <2>16 DEF Release, TypeOK, NoncesTyped
    <3> QED BY <2>16, <3>1, <3>2, <2>e DEF Release, TypeOK, LimitsTyped
  <2>17. CASE Die(h)
    BY <2>17, <2>e DEF Die, TypeOK, NoncesTyped, CodesTyped, LimitsTyped
  <2> QED BY <1>3, <2>1, <2>2, <2>3, <2>4, <2>5, <2>6, <2>7, <2>8, <2>9, <2>10, <2>11, <2>12,
             <2>13, <2>14, <2>15, <2>16, <2>17 DEF Handles
<1> QED BY <1>1, <1>2, <1>3 DEF Next

-----------------------------------------------------------------------------
(* One punch per ticket *)

\* An insertion that takes effect, whether or not its request learns of it.
Inserts(h, answered) == work[h].at = "inserting" /\ events' = Punch(work[h], answered)

\* A handler leaves the others alone.
LEMMA OthersStay ==
  ASSUME TypeOK, NEW h \in Handlers, Handles(h)
  PROVE  /\ now' = now /\ \A g \in Handlers \ {h} : work'[g] = work[g]
         /\ events' = events \/ InsertPunch(h) \/ (FailPunch(h) /\ Inserts(h, FALSE))
<1>1. CASE ReadChain(h) \/ ReadPunch(h)
  <2>1. work' = [work EXCEPT ![h] = work'[h]]
    BY <1>1, ChainIsRead, PunchIsRead
  <2>2. \A g \in Handlers \ {h} : work'[g] = work[g]
    BY <2>1 DEF TypeOK
  <2>3. now' = now /\ events' = events
    BY <1>1 DEF ReadChain, ReadPunch
  <2> QED BY <2>2, <2>3
<1>2. CASE FailPunch(h)
  BY <1>2 DEF FailPunch, Inserts, Goes, TypeOK
<1>3. CASE ~ReadChain(h) /\ ~ReadPunch(h) /\ ~FailPunch(h)
  BY <1>3 DEF Handles, TypeOK, Begin, Goes, Ends, AskForCode, ClaimLimit, ReplaceCode, StoreCode,
       Scan, Submit, PurgeNonces, ClaimNonce, CheckCode, DeleteCode, ReadRecent, InsertPunch,
       Release, Die
<1> QED BY <1>1, <1>2, <1>3

\* Moving on changes the step and not the ticket.
LEMMA Moving ==
  ASSUME TypeOK, NEW h \in Handlers
  PROVE  /\ Ends(h) => work'[h] = Idle
         /\ \A at : Goes(h, at) => work'[h].at = at /\ work'[h].ticket = work[h].ticket
<1>1. work[h] \in Works /\ h \in DOMAIN work
  BY DEF TypeOK
<1>2. ASSUME NEW w \in Works
      PROVE  \A at : [w EXCEPT !.at = at].at = at /\ [w EXCEPT !.at = at].ticket = w.ticket
  BY <1>2 DEF Works, Idle, IssueRecord, Request
<1>5. ASSUME NEW at, Goes(h, at)
      PROVE  work'[h] = [work[h] EXCEPT !.at = at]
  BY <1>1, <1>5 DEF Goes
<1>6. Ends(h) => work'[h] = Idle
  BY <1>1 DEF Ends
<1>7. ASSUME NEW at, Goes(h, at)
      PROVE  work'[h].at = at /\ work'[h].ticket = work[h].ticket
  <2>1. [work[h] EXCEPT !.at = at].at = at /\ [work[h] EXCEPT !.at = at].ticket = work[h].ticket
    BY <1>1, <1>2, Zenon
  <2>2. work'[h] = [work[h] EXCEPT !.at = at]
    BY <1>5, <1>7, Zenon
  <2> QED BY <2>1, <2>2, Zenon
<1> QED BY <1>6, <1>7

\* Where a request goes from its insertion.
LEMMA AfterInserting ==
  ASSUME NEW h \in Handlers
  PROVE  /\ InsertPunch(h) => /\ work[h].at = "inserting"
                              /\ (work[h].ticket \in Codes => Goes(h, "deleting"))
                              /\ (work[h].ticket \notin Codes => Ends(h))
         /\ FailPunch(h) => work[h].at = "inserting" /\ Goes(h, "releasing")
BY Zenon DEF InsertPunch, FailPunch

\* A handler comes to hold a ticket by reserving it.
LEMMA NewHolder ==
  ASSUME TypeOK, NEW h \in Handlers, Handles(h), NEW t, Holds(h, t)'
  PROVE  \/ Holds(h, t)
         \/ ClaimNonce(h) /\ work[h].ticket = t /\ t \notin DOMAIN nonces
         \/ \E e \in Employees : t \in DOMAIN codes /\ Submit(h, t, e)
<1>0. work[h].at \in {"idle", "limiting", "replacing", "storing"} \cup QrSteps \cup CodeSteps \cup PunchSteps
  BY DEF TypeOK, Works, Idle, IssueRecord, Request
<1> USE DEF Holds, PunchSteps
<1>1. ASSUME NEW d \in Devices PROVE ~AskForCode(h, d)
  BY <1>1 DEF AskForCode, Begin, TypeOK
<1>2. ~ClaimLimit(h) /\ ~ReplaceCode(h) /\ ~StoreCode(h)
  BY Moving DEF ClaimLimit, ReplaceCode, StoreCode, Idle
<1>3. ASSUME NEW e \in Employees, NEW q \in Qrs PROVE ~Scan(h, q, e)
  BY <1>3 DEF Scan, Begin, TypeOK
<1>4. ASSUME NEW e \in Employees, NEW c \in DOMAIN codes, Submit(h, c, e) PROVE c = t
  BY <1>4 DEF Submit, Begin, TypeOK
<1>5. ~PurgeNonces(h) /\ ~DeleteCode(h) /\ ~Release(h) /\ ~Die(h)
  BY Moving DEF PurgeNonces, DeleteCode, Release, Die, Idle
<1>6. ~InsertPunch(h)
  BY Moving, AfterInserting DEF Idle
<1>7. ClaimNonce(h) => work[h].ticket = t /\ t \notin DOMAIN nonces
  BY Moving DEF ClaimNonce, Idle
<1>8. CheckCode(h) \/ ReadRecent(h) \/ FailPunch(h) => Holds(h, t)
  BY Moving, AfterInserting DEF CheckCode, ReadRecent, Idle
<1>9. ReadChain(h) \/ ReadPunch(h) => Holds(h, t)
  <2>1. ASSUME ReadChain(h) PROVE Holds(h, t)
    BY <2>1, ChainIsRead DEF ReadChain, SameRequest
  <2>2. ASSUME ReadPunch(h) PROVE Holds(h, t)
    BY <2>2, PunchIsRead DEF ReadPunch, SameRequest
  <2> QED BY <2>1, <2>2
<1> QED BY <1>1, <1>2, <1>3, <1>4, <1>5, <1>6, <1>7, <1>8, <1>9 DEF Handles

\* A nonce stays until it expires or its holder gives it back.
LEMMA NonceStays ==
  ASSUME TypeOK, NEW h \in Handlers, Handles(h), NEW q \in DOMAIN nonces
  PROVE  \/ q \in DOMAIN nonces' /\ nonces'[q] = nonces[q]
         \/ nonces[q] < now
         \/ work[h].at = "releasing" /\ work[h].ticket = q /\ work'[h] = Idle
<1> USE DEF TypeOK, NoncesTyped
<1>1. CASE PurgeNonces(h)
  BY <1>1 DEF PurgeNonces
<1>2. CASE ClaimNonce(h)
  BY <1>2 DEF ClaimNonce
<1>3. CASE Release(h)
  BY <1>3 DEF Release, Ends
<1>4. CASE UNCHANGED nonces
  BY <1>4
<1> QED BY <1>1, <1>2, <1>3, <1>4 DEF Handles, AskForCode, ClaimLimit, ReplaceCode, StoreCode, Scan,
       Submit, CheckCode, DeleteCode, ReadChain, ReadPunch, ReadRecent, InsertPunch, FailPunch, Die

\* A used code stays as it is until its holder gives it back or deletes it.
LEMMA UsedCodeStays ==
  ASSUME TypeOK, NEW h \in Handlers, Handles(h), NEW c \in DOMAIN codes, codes[c].used # Nobody
  PROVE  \/ c \in DOMAIN codes' /\ codes'[c].used = codes[c].used
         \/ work[h].at \in {"releasing", "deleting"} /\ work[h].ticket = c /\ work'[h] = Idle
<1> USE DEF TypeOK, CodesTyped, CodeRow
<1>1. CASE ReplaceCode(h)
  BY <1>1 DEF ReplaceCode
<1>2. CASE StoreCode(h)
  BY <1>2 DEF StoreCode, Drawable
<1>3. ASSUME NEW e \in Employees, NEW x \in DOMAIN codes, Submit(h, x, e)
      PROVE  c \in DOMAIN codes' /\ codes'[c].used = codes[c].used
  BY <1>3 DEF Submit, Unused
<1>4. CASE DeleteCode(h)
  BY <1>4 DEF DeleteCode, Ends
<1>5. CASE Release(h)
  BY <1>5 DEF Release, Ends
<1>6. CASE UNCHANGED codes
  BY <1>6
<1> QED BY <1>1, <1>2, <1>3, <1>4, <1>5, <1>6 DEF Handles, AskForCode, ClaimLimit, Scan, PurgeNonces,
       ClaimNonce, CheckCode, ReadChain, ReadPunch, ReadRecent, InsertPunch, FailPunch, Die

\* An unused code was unused before, or is new, or is given back by its holder.
LEMMA UnusedCode ==
  ASSUME TypeOK, NEW h \in Handlers, Handles(h), NEW c \in DOMAIN codes', codes'[c].used = Nobody
  PROVE  \/ c \in DOMAIN codes /\ codes[c].used = Nobody
         \/ c \in Drawable /\ events' = events
         \/ Holds(h, c) /\ events' = events
<1> USE DEF TypeOK, CodesTyped, CodeRow
<1>1. CASE ReplaceCode(h)
  BY <1>1 DEF ReplaceCode
<1>2. CASE StoreCode(h)
  <2>1. CASE UNCHANGED codes
    BY <2>1
  <2>2. ASSUME NEW x \in Drawable, NEW row,
               codes' = [y \in DOMAIN codes \cup {x} |-> IF y = x THEN row ELSE codes[y]]
        PROVE  c \in Drawable \/ (c \in DOMAIN codes /\ codes[c].used = Nobody)
    <3>1. CASE c = x
      BY <3>1, <2>2
    <3>2. CASE c # x
      BY <3>2, <2>2
    <3> QED BY <3>1, <3>2
  <2> QED BY <1>2, <2>1, <2>2 DEF StoreCode
<1>3. ASSUME NEW e \in Employees, NEW x \in DOMAIN codes, Submit(h, x, e)
      PROVE  c \in DOMAIN codes /\ codes[c].used = Nobody
  BY <1>3, Tickets DEF Submit, Unused
<1>4. CASE DeleteCode(h)
  BY <1>4 DEF DeleteCode
<1>5. CASE Release(h)
  BY <1>5 DEF Release, Holds, PunchSteps
<1>6. CASE UNCHANGED codes
  BY <1>6
<1> QED BY <1>1, <1>2, <1>3, <1>4, <1>5, <1>6 DEF Handles, AskForCode, ClaimLimit, Scan, PurgeNonces,
       ClaimNonce, CheckCode, ReadChain, ReadPunch, ReadRecent, InsertPunch, FailPunch, Die

\* A request starts now, or goes on as it was; only a fresh one is at a QR code's steps.
LEMMA Advance ==
  ASSUME TypeOK, NEW h \in Handlers, Handles(h), work'[h] # Idle
  PROVE  \/ /\ work'[h].started = now
            /\ work'[h].at \in QrSteps =>
                 LET shown == IssuedAt[work'[h].ticket]
                 IN now <= shown + Skew /\ shown - Skew <= now
         \/ /\ work[h] # Idle /\ work'[h].started = work[h].started
            /\ work'[h].at \in QrSteps =>
                 work[h].at \in QrSteps /\ work'[h].ticket = work[h].ticket
<1> USE Durations, Tickets
<1> DEFINE Fresh == /\ work'[h].started = now
                    /\ work'[h].at \in QrSteps =>
                         LET shown == IssuedAt[work'[h].ticket]
                         IN now <= shown + Skew /\ shown - Skew <= now
           Same == /\ work[h] # Idle /\ work'[h].started = work[h].started
                   /\ work'[h].at \in QrSteps =>
                        work[h].at \in QrSteps /\ work'[h].ticket = work[h].ticket
<1>1. ASSUME NEW d \in Devices, AskForCode(h, d) PROVE Fresh
  BY <1>1 DEF AskForCode, Begin, TypeOK, QrSteps
<1>2. ASSUME NEW e \in Employees, NEW q \in Qrs, Scan(h, q, e) PROVE Fresh
  BY <1>2 DEF Scan, Begin, TypeOK
<1>3. ASSUME NEW e \in Employees, NEW c \in DOMAIN codes, Submit(h, c, e) PROVE Fresh
  BY <1>3 DEF Submit, Begin, TypeOK, QrSteps
<1>4. ASSUME NEW w \in Works \ {Idle}
      PROVE  \A at, v : /\ [w EXCEPT !.at = at].started = w.started
                        /\ [w EXCEPT !.at = at, !.prev = v].started = w.started
                        /\ [w EXCEPT !.at = at, !.type = v].started = w.started
  BY <1>4 DEF Works, IssueRecord, Request
<1>5. ASSUME NEW at, Goes(h, at), work[h] # Idle PROVE work'[h].started = work[h].started
  <2>1. work'[h] = [work[h] EXCEPT !.at = at] /\ work[h] \in Works \ {Idle}
    BY <1>5 DEF Goes, TypeOK
  <2> QED BY <2>1, <1>4
<1>6. work[h].at # "idle" => work[h] # Idle
  BY DEF Idle
<1>7. ASSUME NEW at, Goes(h, at), at \notin QrSteps, work[h].at # "idle" PROVE Same
  BY <1>5, <1>6, <1>7, Moving
<1>8. ASSUME PurgeNonces(h) PROVE Same
  BY <1>5, <1>6, <1>8, Moving DEF PurgeNonces, QrSteps
<1>9. ASSUME ReadChain(h) PROVE Same
  <2>1. work'[h].at = "pairing" /\ work'[h].started = work[h].started
    BY <1>9, ChainIsRead DEF SameRequest
  <2>4. work[h] # Idle
    BY <1>9 DEF ReadChain, Idle
  <2> QED BY <2>1, <2>4 DEF QrSteps
<1>10. ASSUME ReadPunch(h) PROVE Same
  <2>1. work'[h].at = "looking" /\ work'[h].started = work[h].started
    BY <1>10, PunchIsRead DEF SameRequest
  <2>4. work[h] # Idle
    BY <1>10 DEF ReadPunch, Idle
  <2> QED BY <2>1, <2>4 DEF QrSteps
<1>11. ClaimLimit(h) \/ ReplaceCode(h) => Same
  BY <1>7, Moving DEF ClaimLimit, ReplaceCode, QrSteps
<1>12. ClaimNonce(h) \/ CheckCode(h) => Same
  BY <1>7, Moving DEF ClaimNonce, CheckCode, QrSteps
<1>13. ReadRecent(h) \/ InsertPunch(h) \/ FailPunch(h) => Same
  BY <1>7, Moving DEF ReadRecent, InsertPunch, FailPunch, QrSteps
<1>14. ~StoreCode(h) /\ ~DeleteCode(h) /\ ~Release(h) /\ ~Die(h)
  BY Moving DEF StoreCode, DeleteCode, Release, Die
<1> HIDE DEF Fresh, Same
<1>15. Fresh \/ Same
  BY <1>1, <1>2, <1>3, <1>8, <1>9, <1>10, <1>11, <1>12, <1>13, <1>14 DEF Handles
<1> QED BY <1>15 DEF Fresh, Same

\* Nothing that the invariant speaks of changes with the clock, and the time that a
\* handler may take passes before a nonce is deleted.
LEMMA InTimeStep ==
  ASSUME TypeOK, InTime, [Next]_vars
  PROVE  InTime'
<1> USE Durations, Tickets
<1>1. CASE UNCHANGED vars
  BY <1>1 DEF vars, InTime, Busy
<1>2. CASE Tick
  <2>1. work' = work /\ now' = now + 1 /\ now \in Nat
    BY <1>2 DEF Tick, TypeOK
  <2>2. ASSUME NEW h \in Handlers, work[h] # Idle
        PROVE  /\ work[h].started \in Nat /\ now < work[h].started + Handling
               /\ work[h].started <= now
    <3>1. work[h] \in Works \ {Idle}
      BY <2>2 DEF TypeOK
    <3>2. work[h].started \in Nat
      BY <3>1 DEF Works, IssueRecord, Request
    <3> QED BY <3>2, <2>2, <1>2 DEF Tick, InTime, Busy
  <2> QED BY <2>1, <2>2 DEF InTime, Busy
<1>3. ASSUME NEW h \in Handlers, Handles(h)
      PROVE  InTime'
  <2>1. ASSUME NEW g \in Handlers, g # h, work'[g] # Idle
        PROVE  /\ work'[g].started <= now' /\ now' <= work'[g].started + Handling
               /\ work'[g].at \in QrSteps =>
                    LET shown == IssuedAt[work'[g].ticket]
                    IN work'[g].started <= shown + Skew /\ shown - Skew <= work'[g].started
    BY <2>1, <1>3, OthersStay DEF InTime, Busy
  <2>2. ASSUME work'[h] # Idle
        PROVE  /\ work'[h].started <= now' /\ now' <= work'[h].started + Handling
               /\ work'[h].at \in QrSteps =>
                    LET shown == IssuedAt[work'[h].ticket]
                    IN work'[h].started <= shown + Skew /\ shown - Skew <= work'[h].started
    <3>1. CASE work'[h].started = now /\ (work'[h].at \in QrSteps =>
                 LET shown == IssuedAt[work'[h].ticket]
                 IN now <= shown + Skew /\ shown - Skew <= now)
      <4>1. now' = now /\ now \in Nat
        BY <1>3, OthersStay DEF TypeOK
      <4> QED BY <3>1, <4>1
    <3>2. CASE /\ work[h] # Idle /\ work'[h].started = work[h].started
               /\ work'[h].at \in QrSteps =>
                    work[h].at \in QrSteps /\ work'[h].ticket = work[h].ticket
      BY <3>2, <1>3, OthersStay DEF InTime, Busy
    <3> QED BY <2>2, <1>3, <3>1, <3>2, Advance
  <2> QED BY <2>1, <2>2 DEF InTime, Busy
<1> QED BY <1>1, <1>2, <1>3 DEF Next

\* A request at the steps of a QR code is for a QR code, with its nonce yet to expire.
LEMMA NonceLive ==
  ASSUME TicketInv, NEW h \in Handlers, work[h].at \in QrSteps
  PROVE  /\ work[h].ticket \in Qrs
         /\ now <= IssuedAt[work[h].ticket] - Skew + Lifetime
         /\ IssuedAt[work[h].ticket] - Skew <= now
<1>1. work[h].ticket \in Qrs /\ work[h].started \in Nat /\ h \in Busy
  BY RequestFields DEF TicketInv, Request, Busy, Idle, QrSteps
<1> DEFINE shown == IssuedAt[work[h].ticket]
<1>2. shown \in Nat /\ now \in Nat
  BY <1>1, Tickets DEF TicketInv, TypeOK
<1>3. /\ work[h].started <= now /\ now <= work[h].started + Handling
      /\ work[h].started <= shown + Skew /\ shown - Skew <= work[h].started
  BY <1>1 DEF TicketInv, InTime
<1> HIDE DEF shown
<1>4. Skew \in Nat /\ Handling \in Nat /\ Lifetime \in Nat /\ 2 * Skew + Handling <= Lifetime
  BY Durations
<1>5. now <= shown - Skew + Lifetime /\ shown - Skew <= now
  BY <1>1, <1>2, <1>3, <1>4
<1> QED BY <1>1, <1>5 DEF shown

\* A ticket that is about to be held has neither a holder nor a punch.
LEMMA FreshTicket ==
  ASSUME TicketInv, NEW h \in Handlers, Handles(h), NEW t, Holds(h, t)', ~Holds(h, t)
  PROVE  /\ t \in Qrs \cup Codes /\ ~Punched(t) /\ \A g \in Handlers : ~Holds(g, t)
         /\ events' = events
         /\ t \in Qrs => t \in DOMAIN nonces' /\ nonces'[t] >= IssuedAt[t] - Skew + Lifetime
         /\ t \in Codes => t \in DOMAIN codes' /\ codes'[t].used = h
<1>1. CASE ClaimNonce(h) /\ work[h].ticket = t /\ t \notin DOMAIN nonces
  <2>1. work[h].at \in QrSteps
    BY <1>1 DEF ClaimNonce, QrSteps
  <2>2. t \in Qrs /\ now <= IssuedAt[t] - Skew + Lifetime /\ IssuedAt[t] - Skew <= now
    BY <1>1, <2>1, NonceLive
  <2>3. now \in Nat /\ IssuedAt[t] \in Nat /\ Skew \in Nat /\ Lifetime \in Nat
    BY <2>2, Tickets, Durations DEF TicketInv, TypeOK
  <2>4. ~Punched(t) /\ \A g \in Handlers : ~Holds(g, t)
    BY <1>1, <2>2, <2>3 DEF TicketInv, NoncesLast
  <2>5. t \in DOMAIN nonces' /\ nonces'[t] = now + Lifetime /\ events' = events
    BY <1>1 DEF ClaimNonce, KeptUntil
  <2>6. now + Lifetime >= IssuedAt[t] - Skew + Lifetime
    BY <2>2, <2>3
  <2> QED BY <2>2, <2>4, <2>5, <2>6, Tickets
<1>2. ASSUME NEW e \in Employees, t \in DOMAIN codes, Submit(h, t, e)
      PROVE  /\ t \in Codes /\ ~Punched(t) /\ \A g \in Handlers : ~Holds(g, t)
             /\ events' = events /\ t \in DOMAIN codes' /\ codes'[t].used = h
  <2>1. t \in Codes /\ codes[t].used = Nobody
    BY <1>2 DEF Submit, Unused, TicketInv, TypeOK, CodesTyped
  <2>2. ~Punched(t) /\ \A g \in Handlers : ~Holds(g, t)
    BY <1>2, <2>1, Tickets DEF TicketInv, CodesMarked
  <2>3. codes[t] \in CodeRow
    BY <1>2 DEF TicketInv, TypeOK, CodesTyped
  <2>4. codes' = [codes EXCEPT ![t] = [codes[t] EXCEPT !.used = h]] /\ events' = events
    BY <1>2 DEF Submit
  <2>5. [codes[t] EXCEPT !.used = h].used = h
    BY <2>3 DEF CodeRow
  <2> QED BY <1>2, <2>1, <2>2, <2>4, <2>5
<1> QED BY <1>1, <1>2, NewHolder, Tickets DEF TicketInv

\* A punch uses up the ticket that its handler holds.
LEMMA Punching ==
  ASSUME TypeOK, NEW h \in Handlers, InsertPunch(h)
  PROVE  /\ Holds(h, work[h].ticket) /\ \A t : ~Holds(h, t)'
         /\ DOMAIN events' = DOMAIN events \cup {Len(events) + 1}
         /\ events'[Len(events) + 1].ticket = work[h].ticket
         /\ \A i \in DOMAIN events : events'[i] = events[i]
         /\ \A t : Punched(t)' <=> Punched(t) \/ t = work[h].ticket
         /\ work[h].ticket \in Codes => work'[h].at = "deleting" /\ work'[h].ticket = work[h].ticket
         /\ work[h].ticket \notin Codes => work'[h] = Idle
<1>1. work'[h].at \in {"idle", "deleting"}
  BY Moving DEF InsertPunch, Idle
<1>2. /\ DOMAIN events' = DOMAIN events \cup {Len(events) + 1}
      /\ events'[Len(events) + 1].ticket = work[h].ticket /\ events'[Len(events) + 1].answered
      /\ \A i \in DOMAIN events : events'[i] = events[i]
  <2>1. PICK ev \in Event : /\ events' = Append(events, ev)
                            /\ ev.ticket = work[h].ticket /\ ev.answered = TRUE
    BY EventOfPunch DEF InsertPunch
  <2> QED BY <2>1 DEF TypeOK
<1>3. \A t : Punched(t)' <=> Punched(t) \/ t = work[h].ticket
  BY <1>2 DEF Punched
<1>4. Holds(h, work[h].ticket) /\ \A t : ~Holds(h, t)'
  BY <1>1 DEF InsertPunch, Holds, PunchSteps
<1>5. /\ work[h].ticket \in Codes => work'[h].at = "deleting" /\ work'[h].ticket = work[h].ticket
      /\ work[h].ticket \notin Codes => work'[h] = Idle
  BY Moving DEF InsertPunch
<1> QED BY <1>2, <1>3, <1>4, <1>5

\* An insertion that its request knows nothing of leaves the ticket unpunched.
LEMMA Unpunched ==
  ASSUME TypeOK, NEW h \in Handlers, Handles(h), ~InsertPunch(h)
  PROVE  \A t : Punched(t)' <=> Punched(t)
<1>1. CASE events' = events
  BY <1>1 DEF Punched
<1>2. CASE Inserts(h, FALSE)
  <2>1. PICK ev \in Event : events' = Append(events, ev) /\ ev.answered = FALSE
    BY <1>2, EventOfPunch DEF Inserts
  <2>2. /\ DOMAIN events' = DOMAIN events \cup {Len(events) + 1}
        /\ ~events'[Len(events) + 1].answered
        /\ \A i \in DOMAIN events : events'[i] = events[i]
    BY <2>1 DEF TypeOK
  <2> QED BY <2>2 DEF Punched
<1> QED BY <1>1, <1>2, OthersStay

\* A code is only deleted after its punch.
LEMMA OnlyPunchDeletes ==
  ASSUME TypeOK, NEW h \in Handlers, Handles(h), work'[h].at = "deleting"
  PROVE  InsertPunch(h)
<1>1. ASSUME NEW d \in Devices PROVE ~AskForCode(h, d)
  BY <1>1 DEF AskForCode, Begin, TypeOK
<1>2. ASSUME NEW e \in Employees, NEW q \in Qrs PROVE ~Scan(h, q, e)
  BY <1>2 DEF Scan, Begin, TypeOK
<1>3. ASSUME NEW e \in Employees, NEW c \in DOMAIN codes PROVE ~Submit(h, c, e)
  BY <1>3 DEF Submit, Begin, TypeOK
<1>4. ~ClaimLimit(h) /\ ~ReplaceCode(h) /\ ~StoreCode(h) /\ ~PurgeNonces(h) /\ ~ClaimNonce(h)
  BY Moving DEF ClaimLimit, ReplaceCode, StoreCode, PurgeNonces, ClaimNonce, Idle
<1>5. ~CheckCode(h) /\ ~DeleteCode(h) /\ ~ReadRecent(h) /\ ~FailPunch(h) /\ ~Release(h) /\ ~Die(h)
  BY Moving, AfterInserting DEF CheckCode, DeleteCode, ReadRecent, Release, Die, Idle
<1>6. ~ReadChain(h)
  BY ChainIsRead
<1>7. ~ReadPunch(h)
  BY PunchIsRead
<1> QED BY <1>1, <1>2, <1>3, <1>4, <1>5, <1>6, <1>7 DEF Handles

\* The handlers that hold a ticket after a step of one of them.
LEMMA Holders ==
  ASSUME TypeOK, NEW h \in Handlers, Handles(h), NEW g \in Handlers, g # h, NEW t
  PROVE  Holds(g, t)' <=> Holds(g, t)
BY OthersStay DEF Holds

\* Only one handler holds a ticket, and only until it has punched.
LEMMA HeldOnceStep ==
  ASSUME TicketInv, NEW h \in Handlers, Handles(h)
  PROVE  HeldOnce'
<1>1. SUFFICES ASSUME NEW g \in Handlers, NEW t \in Qrs \cup Codes, Holds(g, t)'
               PROVE  ~Punched(t)' /\ \A f \in Handlers : Holds(f, t)' => f = g
  BY DEF HeldOnce
<1>2. CASE g = h /\ ~Holds(h, t)
  BY <1>1, <1>2, FreshTicket, Holders DEF TicketInv, Punched
<1>3. CASE Holds(g, t)
  <2>1. ~Punched(t) /\ \A f \in Handlers : Holds(f, t) => f = g
    BY <1>1, <1>3 DEF TicketInv, HeldOnce
  <2>2. \A f \in Handlers : Holds(f, t)' => f = g
    <3>1. SUFFICES ASSUME NEW f \in Handlers, Holds(f, t)', f # g PROVE FALSE
      OBVIOUS
    <3>2. f = h /\ ~Holds(h, t)
      BY <2>1, <3>1, Holders DEF TicketInv
    <3> QED BY <1>3, <3>1, <3>2, FreshTicket
  <2>3. ~Punched(t)'
    <3>1. CASE InsertPunch(h)
      <4>1. g # h /\ Holds(h, work[h].ticket)
        BY <1>1, <3>1, Punching DEF TicketInv
      <4>2. t # work[h].ticket
        BY <2>1, <4>1
      <4> QED BY <2>1, <3>1, <4>2, Punching DEF TicketInv
    <3>2. CASE ~InsertPunch(h)
      BY <2>1, <3>2, Unpunched DEF TicketInv
    <3> QED BY <3>1, <3>2
  <2> QED BY <2>2, <2>3
<1> QED BY <1>1, <1>2, <1>3, Holders DEF TicketInv

\* No ticket punches a second time.
LEMMA OnceStep ==
  ASSUME TicketInv, NEW h \in Handlers, Handles(h)
  PROVE  TicketPunchesOnce'
<1>0. TypeOK /\ TicketPunchesOnce
  BY DEF TicketInv
<1>1. ASSUME NEW answered \in BOOLEAN, Inserts(h, answered) PROVE TicketPunchesOnce'
  <2>2. Holds(h, work[h].ticket) /\ work[h].ticket \in Qrs \cup Codes
    BY <1>0, <1>1, RequestFields DEF Inserts, Holds, PunchSteps, Request
  <2>3. \A i \in DOMAIN events : events[i].ticket = work[h].ticket => ~events[i].answered
    BY <2>2 DEF TicketInv, HeldOnce, Punched
  <2>4. PICK ev \in Event : events' = Append(events, ev) /\ ev.ticket = work[h].ticket
    BY <1>0, <1>1, EventOfPunch DEF Inserts
  <2>5. /\ DOMAIN events' = DOMAIN events \cup {Len(events) + 1}
        /\ DOMAIN events = 1..Len(events) /\ Len(events) \in Nat
        /\ events'[Len(events) + 1].ticket = work[h].ticket
        /\ \A i \in DOMAIN events : events'[i] = events[i]
    BY <1>0, <2>4 DEF TypeOK
  <2> QED BY <1>0, <2>3, <2>5 DEF TicketPunchesOnce
<1>2. CASE events' = events
  BY <1>2 DEF TicketInv, TicketPunchesOnce
<1>3. InsertPunch(h) => Inserts(h, TRUE)
  BY DEF InsertPunch, Inserts
<1> QED BY <1>0, <1>1, <1>2, <1>3, OthersStay

\* The nonce of a QR code outlives every handler that could accept the code.
LEMMA NoncesLastStep ==
  ASSUME TicketInv, NEW h \in Handlers, Handles(h)
  PROVE  NoncesLast'
<1>1. SUFFICES ASSUME NEW q \in Qrs, Punched(q)' \/ \E g \in Handlers : Holds(g, q)'
               PROVE  \/ q \in DOMAIN nonces' /\ nonces'[q] >= IssuedAt[q] - Skew + Lifetime
                      \/ now' > IssuedAt[q] - Skew + Lifetime
  BY DEF NoncesLast
<1>2. TypeOK /\ now' = now
  BY OthersStay DEF TicketInv
<1>3. CASE Holds(h, q)' /\ ~Holds(h, q)
  BY <1>3, FreshTicket
<1>4. CASE ~(Holds(h, q)' /\ ~Holds(h, q))
  <2>1. Punched(q) \/ \E g \in Handlers : Holds(g, q)
    <3>1. CASE InsertPunch(h)
      BY <1>1, <1>2, <1>4, <3>1, Punching, Holders
    <3>2. CASE ~InsertPunch(h)
      BY <1>1, <1>2, <1>4, <3>2, Holders, Unpunched
    <3> QED BY <3>1, <3>2
  <2>2. \/ q \in DOMAIN nonces /\ nonces[q] >= IssuedAt[q] - Skew + Lifetime
        \/ now > IssuedAt[q] - Skew + Lifetime
    BY <2>1 DEF TicketInv, NoncesLast
  <2>3. ~(work[h].at = "releasing" /\ work[h].ticket = q /\ work'[h] = Idle)
    <3>1. SUFFICES ASSUME work[h].at = "releasing", work[h].ticket = q, work'[h] = Idle
                   PROVE  FALSE
      OBVIOUS
    <3>2. Holds(h, q) /\ ~Holds(h, q)' /\ ~InsertPunch(h)
      BY <3>1 DEF Holds, PunchSteps, Idle, InsertPunch
    <3>3. ~Punched(q) /\ \A g \in Handlers : Holds(g, q) => g = h
      BY <3>2 DEF TicketInv, HeldOnce
    <3>4. ~Punched(q)'
      BY <1>2, <3>2, <3>3, Unpunched
    <3> QED BY <1>1, <1>2, <3>2, <3>3, <3>4, Holders
  <2>4. CASE q \in DOMAIN nonces /\ nonces[q] >= IssuedAt[q] - Skew + Lifetime
    <3>1. nonces[q] \in Nat /\ now \in Nat /\ IssuedAt[q] \in Nat /\ Skew \in Nat /\ Lifetime \in Nat
      BY <1>2, <2>4, Tickets, Durations DEF TypeOK, NoncesTyped
    <3> QED BY <1>2, <2>3, <2>4, <3>1, NonceStays
  <2> QED BY <1>2, <2>2, <2>4
<1> QED BY <1>3, <1>4

\* A code stays marked for as long as its handler needs it, and once it has punched.
LEMMA CodesMarkedStep ==
  ASSUME TicketInv, NEW h \in Handlers, Handles(h)
  PROVE  CodesMarked'
<1>0. TypeOK /\ CodesMarked /\ HeldOnce
  BY DEF TicketInv
<1> DEFINE Needs(g, c) == Holds(g, c) \/ (work[g].at = "deleting" /\ work[g].ticket = c)
<1>1. ASSUME NEW g \in Handlers, NEW c \in Codes, Needs(g, c)'
      PROVE  c \in DOMAIN codes' /\ codes'[c].used = g
  <2>1. CASE g = h /\ Holds(h, c)' /\ ~Holds(h, c)
    BY <2>1, FreshTicket
  <2>2. CASE Needs(g, c)
    <3>1. c \in DOMAIN codes /\ codes[c].used = g /\ g # Nobody
      BY <1>0, <2>2, Tickets DEF CodesMarked
    <3>2. ~(work[h].at \in {"releasing", "deleting"} /\ work[h].ticket = c /\ work'[h] = Idle)
      <4>1. SUFFICES ASSUME work[h].at \in {"releasing", "deleting"}, work[h].ticket = c,
                            work'[h] = Idle
                     PROVE  FALSE
        OBVIOUS
      <4>2. codes[c].used = h
        BY <1>0, <4>1 DEF CodesMarked, Holds, PunchSteps
      <4> QED BY <1>1, <3>1, <4>1, <4>2 DEF Holds, PunchSteps, Idle
    <3> QED BY <1>0, <3>1, <3>2, UsedCodeStays
  <2>3. g # h => Needs(g, c)
    BY <1>0, <1>1, Holders, OthersStay
  <2>4. CASE g = h /\ ~Needs(h, c) /\ ~(Holds(h, c)' /\ ~Holds(h, c))
    <3>1. work'[h].at = "deleting" /\ work'[h].ticket = c
      BY <1>1, <2>4
    <3>2. InsertPunch(h)
      BY <1>0, <3>1, OnlyPunchDeletes
    <3>3. Holds(h, c)
      BY <1>0, <3>1, <3>2, Punching, Moving, AfterInserting DEF Idle
    <3> QED BY <2>4, <3>3
  <2> QED BY <2>1, <2>2, <2>3, <2>4
<1>2. ASSUME NEW c \in DOMAIN codes', Punched(c)', codes'[c].used = Nobody
      PROVE  FALSE
  <2>1. CASE c \in DOMAIN codes /\ codes[c].used = Nobody
    <3>1. ~Punched(c)
      BY <1>0, <2>1 DEF CodesMarked
    <3>2. InsertPunch(h) /\ work[h].ticket = c
      BY <1>0, <1>2, <3>1, Punching, Unpunched
    <3>3. Holds(h, c) /\ c \in Codes
      BY <1>0, <2>1, <3>2, Punching DEF TypeOK, CodesTyped
    <3> QED BY <1>0, <2>1, <3>3, Tickets DEF CodesMarked
  <2>2. CASE c \in Drawable /\ events' = events
    BY <1>2, <2>2 DEF Drawable, Punched
  <2>3. CASE Holds(h, c) /\ events' = events
    <3>1. c \in Codes
      BY <1>2, <1>0, TypesStep DEF Next, TypeOK, CodesTyped
    <3> QED BY <1>0, <1>2, <2>3, <3>1 DEF HeldOnce, Punched
  <2> QED BY <1>0, <1>2, <2>1, <2>2, <2>3, UnusedCode
<1> QED BY <1>1, <1>2 DEF CodesMarked

-----------------------------------------------------------------------------
(* What a handler has read.  The event that it inserts differs from the one   *)
(* it would insert now only by the events since its request started.          *)

Chained == {"pairing", "looking", "inserting"}
Derived == {"looking", "inserting"}

\* The type of a punch that follows the last of some events.
Following(es, last) == IF last # 0 /\ es[last].type = "IN" THEN "OUT" ELSE "IN"

OfDay(es, k, e, day) == {j \in 1..k : es[j].employee = e /\ es[j].at \div Day = day}

\* The device's events that the request leaves out of its chain are younger than it.
ChainSince(es, w) ==
  \A j \in DOMAIN es : es[j].device = w.device /\ j > w.prev => es[j].at >= w.started

\* The type is that of some moment of the request, and the events since are younger than it.
TypeSince(es, n, w) ==
  \E k \in 0..Len(es), r \in w.started..n :
    /\ \A j \in DOMAIN es : j > k => es[j].at >= w.started
    /\ w.type = Following(es, LatestOf(OfDay(es, k, w.employee, r \div Day)))

PunchReads ==
  \A h \in Handlers :
    /\ work[h].at \in Chained => "hash" \in work[h].unread \/ ChainSince(events, work[h])
    /\ work[h].at \in Derived => "punch" \in work[h].unread \/ TypeSince(events, now, work[h])

PunchInv == TypeOK /\ InTime /\ PunchReads /\ ChainForksOnlyInOverlap /\ ApartPunchesAlternate

\* Two times within a request are of the same day unless midnight is between them.
LEMMA SameDay ==
  ASSUME NEW d \in Nat \ {0}, NEW n \in Nat, NEW r \in Nat, NEW length \in Nat,
         r <= n, n <= r + length, n % d >= length
  PROVE  r \div d = n \div d
<1> DEFINE q == n \div d
<1>1. n = d * q + (n % d) /\ q \in Nat /\ n % d < d /\ n % d \in Nat
  OBVIOUS
<1>2. d * q <= r /\ r < d * q + d
  <2> HIDE DEF q
  <2>1. d * q \in Nat
    BY <1>1
  <2> QED BY <1>1, <2>1
<1> HIDE DEF q
<1>3. r \div d = q
  BY <1>1, <1>2
<1> QED BY <1>3 DEF q

\* A handler that has read the chain or the last punch has just done so, or goes on to insert.
LEMMA Reading ==
  ASSUME TypeOK, NEW h \in Handlers, Handles(h), work'[h].at \in Chained
  PROVE  \/ ReadChain(h) \/ ReadPunch(h)
         \/ work[h].at = "looking" /\ work' = [work EXCEPT ![h].at = "inserting"] /\ events' = events
<1> USE DEF Chained
<1>1. ASSUME NEW d \in Devices PROVE ~AskForCode(h, d)
  BY <1>1 DEF AskForCode, Begin, TypeOK
<1>2. ASSUME NEW e \in Employees, NEW q \in Qrs PROVE ~Scan(h, q, e)
  BY <1>2 DEF Scan, Begin, TypeOK
<1>3. ASSUME NEW e \in Employees, NEW c \in DOMAIN codes PROVE ~Submit(h, c, e)
  BY <1>3 DEF Submit, Begin, TypeOK
<1>4. ~ClaimLimit(h) /\ ~ReplaceCode(h) /\ ~StoreCode(h) /\ ~PurgeNonces(h) /\ ~ClaimNonce(h)
  BY Moving DEF ClaimLimit, ReplaceCode, StoreCode, PurgeNonces, ClaimNonce, Idle
<1>5. ~CheckCode(h) /\ ~DeleteCode(h) /\ ~InsertPunch(h) /\ ~FailPunch(h) /\ ~Release(h) /\ ~Die(h)
  BY Moving, AfterInserting DEF CheckCode, DeleteCode, Release, Die, Idle
<1>6. ReadRecent(h) => /\ work[h].at = "looking" /\ events' = events
                       /\ work' = [work EXCEPT ![h].at = "inserting"]
  BY Moving DEF ReadRecent, Goes, Idle
<1> QED BY <1>1, <1>2, <1>3, <1>4, <1>5, <1>6 DEF Handles

\* The fields of a request at the steps of a punch, which it keeps when it goes on.
LEMMA PunchFields ==
  ASSUME NEW w, w \in Request(PunchSteps, Qrs) \/ w \in Request(PunchSteps, Codes)
  PROVE  /\ w.device \in Devices /\ w.employee \in Employees
         /\ w.started \in Nat /\ w.prev \in Nat /\ w.type \in Types
         /\ \A at : /\ [w EXCEPT !.at = at].device = w.device
                    /\ [w EXCEPT !.at = at].employee = w.employee
                    /\ [w EXCEPT !.at = at].started = w.started
                    /\ [w EXCEPT !.at = at].prev = w.prev
                    /\ [w EXCEPT !.at = at].type = w.type
                    /\ [w EXCEPT !.at = at].unread = w.unread
BY DEF Request

\* A new event is in no set of earlier ones.
LEMMA OfDayGrown ==
  ASSUME NEW es \in Seq(Event), NEW ev \in Event, NEW k \in 0..Len(es), NEW e, NEW day
  PROVE  /\ OfDay(Append(es, ev), k, e, day) = OfDay(es, k, e, day)
         /\ Following(Append(es, ev), LatestOf(OfDay(es, k, e, day)))
              = Following(es, LatestOf(OfDay(es, k, e, day)))
<1>1. \A j \in 1..k : Append(es, ev)[j] = es[j]
  OBVIOUS
<1>2. OfDay(Append(es, ev), k, e, day) = OfDay(es, k, e, day)
  BY <1>1 DEF OfDay
<1>3. OfDay(es, k, e, day) \in SUBSET (1..k)
  BY DEF OfDay
<1> DEFINE last == LatestOf(OfDay(es, k, e, day))
<1>4. last # 0 => last \in 1..k
  BY <1>3, LastIndex, k \in Nat
<1> HIDE DEF last
<1>5. last # 0 => Append(es, ev)[last] = es[last]
  BY <1>1, <1>4
<1>6. Following(Append(es, ev), last) = Following(es, last)
  BY <1>5 DEF Following
<1> QED BY <1>2, <1>6 DEF last

\* What a handler has read stays as good when an event is inserted that is younger than it.
LEMMA ReadsGrow ==
  ASSUME NEW es \in Seq(Event), NEW ev \in Event, NEW n, NEW w, ev.at >= w.started
  PROVE  /\ ChainSince(es, w) => ChainSince(Append(es, ev), w)
         /\ TypeSince(es, n, w) => TypeSince(Append(es, ev), n, w)
<1>1. /\ DOMAIN Append(es, ev) = DOMAIN es \cup {Len(es) + 1}
      /\ Append(es, ev)[Len(es) + 1] = ev /\ \A j \in DOMAIN es : Append(es, ev)[j] = es[j]
      /\ Len(Append(es, ev)) = Len(es) + 1 /\ Len(es) \in Nat
  OBVIOUS
<1>2. ChainSince(es, w) => ChainSince(Append(es, ev), w)
  BY <1>1 DEF ChainSince
<1>3. ASSUME TypeSince(es, n, w) PROVE TypeSince(Append(es, ev), n, w)
  <2>1. PICK k \in 0..Len(es), r \in w.started..n :
          /\ \A j \in DOMAIN es : j > k => es[j].at >= w.started
          /\ w.type = Following(es, LatestOf(OfDay(es, k, w.employee, r \div Day)))
    BY <1>3 DEF TypeSince
  <2>2. \A j \in DOMAIN Append(es, ev) : j > k => Append(es, ev)[j].at >= w.started
    BY <1>1, <2>1
  <2>3. w.type = Following(Append(es, ev),
                           LatestOf(OfDay(Append(es, ev), k, w.employee, r \div Day)))
    BY <2>1, OfDayGrown
  <2>4. k \in 0..Len(Append(es, ev))
    BY <1>1
  <2> QED BY <2>2, <2>3, <2>4 DEF TypeSince
<1> QED BY <1>2, <1>3

\* A handler that reads sees every event.
LEMMA ReadingNow ==
  ASSUME TypeOK, InTime, NEW h \in Handlers
  PROVE  /\ ReadChain(h) => "hash" \in work'[h].unread \/ ChainSince(events, work'[h])
         /\ ReadPunch(h) =>
              /\ "punch" \in work'[h].unread \/ TypeSince(events, now, work'[h])
              /\ ("hash" \in work[h].unread \/ ChainSince(events, work[h])
                   => "hash" \in work'[h].unread \/ ChainSince(events, work'[h]))
<1>0. DOMAIN events = 1..Len(events) /\ Len(events) \in Nat /\ now \in Nat /\ h \in DOMAIN work
  BY DEF TypeOK
<1>1. ASSUME ReadChain(h), "hash" \notin work'[h].unread PROVE ChainSince(events, work'[h])
  <2> DEFINE mine == {i \in DOMAIN events : events[i].device = work[h].device}
             prev == LatestOf(mine)
  <2>1. (\A i \in mine : i <= prev) /\ prev \in Nat
    BY <1>0, LastIndex
  <2>2. work'[h].device = work[h].device /\ work'[h].prev = prev
    BY <1>1, ChainIsRead DEF SameRequest
  <2> HIDE DEF prev
  <2> QED BY <1>0, <2>1, <2>2 DEF ChainSince
<1>2. ASSUME ReadPunch(h), "punch" \notin work'[h].unread PROVE TypeSince(events, now, work'[h])
  <2> DEFINE today == OfDay(events, Len(events), work[h].employee, now \div Day)
             type == Following(events, LatestOf(today))
  <2>1. {i \in Today : events[i].employee = work[h].employee} = today
    BY <1>0 DEF Today, OfDay
  <2>2. work'[h].type = type
    BY <1>2, <2>1, PunchIsRead DEF Following
  <2>3. work'[h].started = work[h].started /\ work'[h].employee = work[h].employee
    BY <1>2, PunchIsRead DEF SameRequest
  <2>4. work[h].started <= now /\ work[h].started \in Nat
    <3>1. work[h].started \in Nat
      BY <1>2, RequestFields DEF ReadPunch, PunchSteps, Request
    <3> QED BY <1>2, <3>1 DEF InTime, Busy, ReadPunch, Idle
  <2>5. \A j \in DOMAIN events : ~(j > Len(events))
    BY <1>0
  <2>6. now \in work'[h].started..now /\ Len(events) \in 0..Len(events)
    BY <1>0, <2>3, <2>4
  <2>7. work'[h].type = Following(events,
                           LatestOf(OfDay(events, Len(events), work'[h].employee, now \div Day)))
    BY <2>2, <2>3
  <2> QED BY <2>5, <2>6, <2>7 DEF TypeSince
<1>3. ASSUME ReadPunch(h), ChainSince(events, work[h]) PROVE ChainSince(events, work'[h])
  <2>1. /\ work'[h].device = work[h].device /\ work'[h].prev = work[h].prev
        /\ work'[h].started = work[h].started
    BY <1>3, PunchIsRead DEF SameRequest
  <2> QED BY <1>3, <2>1 DEF ChainSince
<1>4. ReadPunch(h) => work[h].unread \subseteq work'[h].unread
  BY PunchIsRead
<1> QED BY <1>1, <1>2, <1>3, <1>4

\* What handlers have read stays as good as it was.
LEMMA PunchReadsStep ==
  ASSUME TypeOK, InTime, PunchReads, TypeOK', NEW h \in Handlers, Handles(h)
  PROVE  PunchReads'
<1>0. /\ events \in Seq(Event) /\ h \in DOMAIN work /\ now' = now /\ now \in Nat
      /\ \A g \in Handlers \ {h} : work'[g] = work[g]
  BY OthersStay DEF TypeOK
<1>1. ASSUME NEW g \in Handlers, work[g].at \in Chained
      PROVE  work[g] \in Request(PunchSteps, Qrs) \/ work[g] \in Request(PunchSteps, Codes)
  BY <1>1, RequestFields DEF Chained, PunchSteps
<1>2. ASSUME NEW g \in Handlers, g # h
      PROVE  /\ work[g].at \in Chained => "hash" \in work[g].unread \/ ChainSince(events', work[g])
             /\ work[g].at \in Derived =>
                  "punch" \in work[g].unread \/ TypeSince(events', now, work[g])
  <2>1. CASE events' = events
    BY <2>1, <1>2 DEF PunchReads
  <2>2. ASSUME NEW answered \in BOOLEAN, Inserts(h, answered), work[g].at \in Chained
        PROVE  /\ ChainSince(events, work[g]) => ChainSince(events', work[g])
               /\ TypeSince(events, now, work[g]) => TypeSince(events', now, work[g])
    <3>1. PICK ev \in Event : events' = Append(events, ev) /\ ev.at = now
      BY <2>2, EventOfPunch DEF Inserts
    <3>3. ev.at >= work[g].started
      <4>1. work[g].started <= now /\ work[g].started \in Nat
        BY <1>1, <2>2, PunchFields DEF InTime, Busy, Idle, Chained
      <4> QED BY <1>0, <3>1, <4>1
    <3> QED BY <1>0, <3>1, <3>3, ReadsGrow
  <2>3. InsertPunch(h) => Inserts(h, TRUE)
    BY Zenon DEF InsertPunch, Inserts
  <2>4. events' = events \/ Inserts(h, TRUE) \/ Inserts(h, FALSE)
    BY <2>3, OthersStay
  <2>5. CASE Inserts(h, TRUE) \/ Inserts(h, FALSE)
    <3>1. work[g].at \in Chained =>
            /\ ChainSince(events, work[g]) => ChainSince(events', work[g])
            /\ TypeSince(events, now, work[g]) => TypeSince(events', now, work[g])
      BY <2>2, <2>5
    <3> QED BY <3>1 DEF PunchReads, Chained, Derived
  <2> QED BY <2>1, <2>4, <2>5
<1>3. ASSUME work'[h].at \in Chained
      PROVE  /\ events' = events
             /\ "hash" \in work'[h].unread \/ ChainSince(events, work'[h])
             /\ work'[h].at \in Derived =>
                  "punch" \in work'[h].unread \/ TypeSince(events, now, work'[h])
  <2>1. CASE ReadChain(h)
    <3>1. work'[h].at = "pairing"
      BY <2>1, ChainIsRead
    <3> QED BY <2>1, <3>1, ReadingNow DEF ReadChain, Derived
  <2>2. CASE ReadPunch(h)
    BY <2>2, ReadingNow DEF ReadPunch, PunchReads, Chained
  <2>3. CASE /\ work[h].at = "looking" /\ work' = [work EXCEPT ![h].at = "inserting"] /\ events' = events
    <3>1. work'[h] = [work[h] EXCEPT !.at = "inserting"]
      BY <1>0, <2>3
    <3>2. /\ work'[h].device = work[h].device /\ work'[h].employee = work[h].employee
          /\ work'[h].started = work[h].started /\ work'[h].prev = work[h].prev
          /\ work'[h].type = work[h].type /\ work'[h].unread = work[h].unread
      BY <1>1, <2>3, <3>1, PunchFields DEF Chained
    <3>3. /\ "hash" \in work[h].unread \/ ChainSince(events, work[h])
          /\ "punch" \in work[h].unread \/ TypeSince(events, now, work[h])
      BY <2>3 DEF PunchReads, Chained, Derived
    <3> QED BY <2>3, <3>2, <3>3 DEF ChainSince, TypeSince
  <2> QED BY <1>3, <2>1, <2>2, <2>3, Reading
<1> QED BY <1>0, <1>2, <1>3 DEF PunchReads, Chained, Derived

\* An event leaves out of its chain only events that are younger than its request.
LEMMA ForksStep ==
  ASSUME TypeOK, InTime, PunchReads, ChainForksOnlyInOverlap, NEW h \in Handlers,
         NEW answered \in BOOLEAN, Inserts(h, answered)
  PROVE  ChainForksOnlyInOverlap'
<1> USE Durations
<1>1. /\ DOMAIN events' = DOMAIN events \cup {Len(events) + 1}
      /\ DOMAIN events = 1..Len(events) /\ Len(events) \in Nat
      /\ events'[Len(events) + 1].device = work[h].device
      /\ events'[Len(events) + 1].prev = work[h].prev /\ events'[Len(events) + 1].at = now
      /\ events'[Len(events) + 1].unread = work[h].unread
      /\ \A i \in DOMAIN events : events'[i] = events[i] /\ events[i] \in Event
  <2>1. PICK ev \in Event : /\ events' = Append(events, ev) /\ ev.device = work[h].device /\ ev.at = now
                            /\ ev.prev = work[h].prev /\ ev.unread = work[h].unread
    BY EventOfPunch DEF Inserts
  <2> QED BY <2>1 DEF TypeOK
<1>2. ("hash" \in work[h].unread \/ ChainSince(events, work[h])) /\ h \in Busy
  BY DEF Inserts, PunchReads, Chained, Busy, Idle
<1>3. /\ work[h].started \in Nat /\ now <= work[h].started + Handling /\ now \in Nat
  <2>1. work[h] \in Request(PunchSteps, Qrs) \/ work[h] \in Request(PunchSteps, Codes)
    BY RequestFields DEF Inserts, PunchSteps
  <2> QED BY <1>2, <2>1 DEF InTime, Request, TypeOK
<1>4. ASSUME NEW j \in DOMAIN events, events[j].device = work[h].device, work[h].prev < j,
             "hash" \notin work[h].unread
      PROVE  events[j].at + Handling >= now
  <2>1. events[j].at >= work[h].started /\ events[j].at \in Nat
    <3>1. work[h].prev \in Nat
      BY RequestFields DEF Inserts, PunchSteps, Request
    <3>2. j \in Nat /\ j > work[h].prev
      BY <1>1, <1>4, <3>1
    <3> QED BY <1>1, <1>2, <1>4, <3>2 DEF ChainSince, Event
  <2> QED BY <1>3, <2>1
<1>5. SUFFICES ASSUME NEW i \in DOMAIN events', NEW j \in DOMAIN events',
                      events'[i].device = events'[j].device, events'[i].prev < j, j < i,
                      "hash" \notin events'[i].unread
               PROVE  events'[j].at + Handling >= events'[i].at
  BY DEF ChainForksOnlyInOverlap
<1>6. j \in DOMAIN events
  BY <1>1, <1>5
<1>7. CASE i = Len(events) + 1
  BY <1>1, <1>4, <1>5, <1>6, <1>7
<1>8. CASE i \in DOMAIN events
  BY <1>1, <1>5, <1>6, <1>8 DEF ChainForksOnlyInOverlap
<1> QED BY <1>1, <1>7, <1>8

\* A punch apart from the earlier ones was derived from all of them and of no later ones.
LEMMA ApartStep ==
  ASSUME TypeOK, InTime, PunchReads, ApartPunchesAlternate, NEW h \in Handlers,
         NEW answered \in BOOLEAN, Inserts(h, answered)
  PROVE  ApartPunchesAlternate'
<1> USE Durations
<1>1. /\ DOMAIN events' = DOMAIN events \cup {Len(events) + 1}
      /\ DOMAIN events = 1..Len(events) /\ Len(events) \in Nat
      /\ events'[Len(events) + 1].employee = work[h].employee
      /\ events'[Len(events) + 1].type = work[h].type /\ events'[Len(events) + 1].at = now
      /\ events'[Len(events) + 1].unread = work[h].unread
      /\ \A i \in DOMAIN events : events'[i] = events[i] /\ events[i] \in Event
  <2>1. PICK ev \in Event :
          /\ events' = Append(events, ev) /\ ev.employee = work[h].employee /\ ev.at = now
          /\ ev.type = work[h].type /\ ev.unread = work[h].unread
    BY EventOfPunch DEF Inserts
  <2> QED BY <2>1 DEF TypeOK
<1>2. ("punch" \in work[h].unread \/ TypeSince(events, now, work[h])) /\ h \in Busy
  BY DEF Inserts, PunchReads, Derived, Busy, Idle
<1>3. work[h].started \in Nat /\ now <= work[h].started + Handling /\ now \in Nat
  <2>1. work[h] \in Request(PunchSteps, Qrs) \/ work[h] \in Request(PunchSteps, Codes)
    BY RequestFields DEF Inserts, PunchSteps
  <2> QED BY <1>2, <2>1 DEF InTime, Request, TypeOK
<1> DEFINE Before(es, i) == {j \in 1..(i - 1) : es[j].employee = es[i].employee
                                                /\ es[j].at \div Day = es[i].at \div Day}
           Apart(es, i) == /\ "punch" \notin es[i].unread /\ es[i].at % Day >= Handling
                           /\ \A j \in Before(es, i) : es[j].at + Handling < es[i].at
<1>4. SUFFICES ASSUME NEW i \in DOMAIN events', Apart(events', i)
               PROVE  events'[i].type = Following(events', LatestOf(Before(events', i)))
  BY DEF ApartPunchesAlternate, Following
<1>5. Before(events', i) \in SUBSET (1..(i - 1)) /\ i - 1 \in Nat
  BY <1>1
<1>6. /\ Before(events', i) \subseteq DOMAIN events
      /\ LatestOf(Before(events', i)) # 0 => LatestOf(Before(events', i)) \in DOMAIN events
  <2> HIDE DEF Before
  <2>1. LatestOf(Before(events', i)) # 0 => LatestOf(Before(events', i)) \in Before(events', i)
    BY <1>5, LastIndex
  <2>2. 1..(i - 1) \subseteq DOMAIN events
    BY <1>1
  <2> QED BY <1>5, <2>1, <2>2
<1>7. CASE i \in DOMAIN events
  <2>1. Before(events', i) = Before(events, i)
    BY <1>1, <1>7
  <2>2. Apart(events, i)
    <3>1. events'[i] = events[i]
      BY <1>1, <1>7
    <3>2. \A j \in Before(events', i) : events'[j] = events[j]
      BY <1>1, <1>6, Zenon
    <3> HIDE DEF Before
    <3> QED BY <1>4, <2>1, <3>1, <3>2
  <2>3. events[i].type = Following(events, LatestOf(Before(events, i)))
    BY <1>7, <2>2 DEF ApartPunchesAlternate, Following
  <2> HIDE DEF Before
  <2> QED BY <1>1, <1>6, <1>7, <2>1, <2>3 DEF Following
<1>8. CASE i = Len(events) + 1
  <2>1. PICK k \in 0..Len(events), r \in work[h].started..now :
          /\ \A j \in DOMAIN events : j > k => events[j].at >= work[h].started
          /\ work[h].type = Following(events, LatestOf(OfDay(events, k, work[h].employee, r \div Day)))
    BY <1>1, <1>2, <1>4, <1>8 DEF TypeSince
  <2>2. r \div Day = now \div Day
    <3>1. now % Day >= Handling
      BY <1>1, <1>4, <1>8
    <3>2. r \in Nat /\ r <= now /\ now <= r + Handling
      BY <1>3
    <3> QED BY <1>3, <3>1, <3>2, SameDay
  <2>3. ASSUME NEW j \in Before(events', i) PROVE j \in 1..k
    <3>1. j \in DOMAIN events /\ events'[j] = events[j] /\ events[j].at \in Nat
      BY <1>1, <1>8 DEF Event
    <3>2. events[j].at + Handling < now
      BY <1>1, <1>4, <1>8, <3>1
    <3>3. ~(events[j].at >= work[h].started)
      BY <1>3, <3>1, <3>2
    <3> QED BY <1>1, <2>1, <3>1, <3>3
  <2>4. Before(events', i) = OfDay(events, k, work[h].employee, r \div Day)
    <3>1. \A j \in 1..k : j \in 1..(i - 1) /\ events'[j] = events[j]
      <4>1. k <= Len(events) /\ k \in Nat /\ i - 1 = Len(events)
        BY <1>1, <1>8
      <4>2. 1..k \subseteq DOMAIN events /\ DOMAIN events = 1..(i - 1)
        <5> QED BY <1>1, <4>1
      <4>3. \A j \in DOMAIN events : events'[j] = events[j]
        BY <1>1
      <4> QED BY <4>2, <4>3, Zenon
    <3>2. \A j \in 1..k : j \in Before(events', i) <=> j \in OfDay(events, k, work[h].employee, r \div Day)
      BY <1>1, <1>8, <2>2, <3>1 DEF OfDay
    <3> QED BY <2>3, <3>2 DEF OfDay
  <2> HIDE DEF Before
  <2> QED BY <1>1, <1>6, <1>8, <2>1, <2>4 DEF Following
<1> QED BY <1>1, <1>7, <1>8

\* The invariant that says what handlers have read is kept by every step.
LEMMA PunchStep ==
  ASSUME PunchInv, [Next]_vars
  PROVE  PunchInv'
<1>1. TypeOK' /\ InTime'
  BY TypesStep, InTimeStep DEF PunchInv
<1>2. CASE UNCHANGED vars
  BY <1>1, <1>2 DEF vars, PunchInv, PunchReads, ChainForksOnlyInOverlap, ApartPunchesAlternate
<1>3. CASE Tick
  <2>1. work' = work /\ events' = events /\ now' = now + 1 /\ now \in Nat
    BY <1>3 DEF Tick, PunchInv, TypeOK
  <2>2. ASSUME NEW h \in Handlers, TypeSince(events, now, work[h]), work[h].at \in Derived
        PROVE  TypeSince(events, now + 1, work[h])
    <3>1. work[h].started \in Nat
      BY <2>2, RequestFields DEF PunchInv, Derived, PunchSteps, Request
    <3>2. work[h].started..now \subseteq work[h].started..(now + 1)
      BY <2>1, <3>1
    <3> QED BY <2>2, <3>2 DEF TypeSince
  <2>3. PunchReads'
    BY <2>1, <2>2 DEF PunchInv, PunchReads
  <2> QED BY <1>1, <2>1, <2>3 DEF PunchInv, ChainForksOnlyInOverlap, ApartPunchesAlternate
<1>4. ASSUME NEW h \in Handlers, Handles(h) PROVE PunchInv'
  <2>1. PunchReads'
    BY <1>1, <1>4, PunchReadsStep DEF PunchInv
  <2>2. ASSUME NEW answered \in BOOLEAN, Inserts(h, answered) PROVE PunchInv'
    BY <1>1, <2>1, <2>2, ForksStep, ApartStep DEF PunchInv
  <2>3. CASE events' = events
    BY <1>1, <2>1, <2>3 DEF PunchInv, ChainForksOnlyInOverlap, ApartPunchesAlternate
  <2>4. InsertPunch(h) => Inserts(h, TRUE)
    BY Zenon DEF InsertPunch, Inserts
  <2> QED BY <1>4, <2>2, <2>3, <2>4, OthersStay DEF PunchInv
<1> QED BY <1>2, <1>3, <1>4 DEF Next

-----------------------------------------------------------------------------
(* Theorems *)

\* The invariant holds at the start, and every request and the clock keep it.
THEOREM TicketInvariant == Spec => []TicketInv
<1>1. Init => TicketInv
  <2>1. ASSUME Init PROVE TypeOK
    BY <2>1 DEF Init, TypeOK, NoncesTyped, CodesTyped, LimitsTyped, Works
  <2>2. ASSUME Init PROVE \A h \in Handlers : work[h] = Idle /\ \A t : ~Holds(h, t)
    BY <2>2 DEF Init, Holds, Idle, PunchSteps
  <2>3. ASSUME Init PROVE \A t : ~Punched(t)
    BY <2>3 DEF Init, Punched
  <2> QED BY <2>1, <2>2, <2>3
          DEF Init, TicketInv, InTime, Busy, NoncesLast, CodesMarked, HeldOnce, TicketPunchesOnce, Idle
<1>2. TicketInv /\ [Next]_vars => TicketInv'
  <2> SUFFICES ASSUME TicketInv, [Next]_vars PROVE TicketInv'
    OBVIOUS
  <2>1. TypeOK' /\ InTime'
    BY TypesStep, InTimeStep DEF TicketInv
  <2>2. CASE UNCHANGED vars
    BY <2>1, <2>2 DEF vars, TicketInv, NoncesLast, CodesMarked, HeldOnce, TicketPunchesOnce, Holds, Punched
  <2>3. CASE Tick
    <3>1. UNCHANGED <<nonces, codes, events, work>> /\ now' = now + 1
      BY <2>3 DEF Tick
    <3>2. NoncesLast'
      <4>1. ASSUME NEW q \in Qrs PROVE now \in Nat /\ IssuedAt[q] - Skew + Lifetime \in Int
        BY Tickets, Durations DEF TicketInv, TypeOK
      <4>2. \A q \in Qrs : now > IssuedAt[q] - Skew + Lifetime => now' > IssuedAt[q] - Skew + Lifetime
        BY <3>1, <4>1
      <4> QED BY <3>1, <4>2 DEF TicketInv, NoncesLast, Holds, Punched
    <3>3. CodesMarked' /\ HeldOnce' /\ TicketPunchesOnce'
      BY <3>1 DEF TicketInv, CodesMarked, HeldOnce, TicketPunchesOnce, Holds, Punched
    <3> QED BY <2>1, <3>2, <3>3 DEF TicketInv
  <2>4. ASSUME NEW h \in Handlers, Handles(h) PROVE TicketInv'
    BY <2>1, <2>4, NoncesLastStep, CodesMarkedStep, HeldOnceStep, OnceStep DEF TicketInv
  <2> QED BY <2>2, <2>3, <2>4 DEF Next
<1> QED BY <1>1, <1>2, PTL DEF Spec

\* A QR code or a manual code never punches twice: for any number of handlers, and for
\* all durations by which a nonce outlives the acceptance of its QR code.
THEOREM TicketsPunchOnce == Spec => []TicketPunchesOnce
<1>1. TicketInv => TicketPunchesOnce
  BY DEF TicketInv
<1> QED BY <1>1, TicketInvariant, PTL

\* What a handler has read is as good when it inserts its punch as when it read it, but for
\* the events since its request started.
THEOREM PunchInvariant == Spec => []PunchInv
<1>1. Init => PunchInv
  <2>1. ASSUME Init PROVE TypeOK
    BY <2>1 DEF Init, TypeOK, NoncesTyped, CodesTyped, LimitsTyped, Works
  <2>2. ASSUME Init PROVE \A h \in Handlers : work[h] = Idle /\ work[h].at = "idle"
    BY <2>2 DEF Init, Idle
  <2>3. ASSUME Init PROVE DOMAIN events = {}
    BY <2>3 DEF Init
  <2> QED BY <2>1, <2>2, <2>3 DEF PunchInv, InTime, Busy, PunchReads, Chained, Derived,
             ChainForksOnlyInOverlap, ApartPunchesAlternate
<1>2. PunchInv /\ [Next]_vars => PunchInv'
  BY PunchStep
<1> QED BY <1>1, <1>2, PTL DEF Spec

\* The chain of a device forks only between requests that overlap: for any number of
\* devices, employees and handlers, and for any time a request may take.
THEOREM ForksOverlap == Spec => []ChainForksOnlyInOverlap
<1>1. PunchInv => ChainForksOnlyInOverlap
  BY DEF PunchInv
<1> QED BY <1>1, PunchInvariant, PTL

\* Punches further apart than a request may take alternate between IN and OUT, and the first
\* of a day is IN: for any number of devices, employees and handlers, and any length of the day.
THEOREM PunchesAlternate == Spec => []ApartPunchesAlternate
<1>1. PunchInv => ApartPunchesAlternate
  BY DEF PunchInv
<1> QED BY <1>1, PunchInvariant, PTL
=============================================================================
