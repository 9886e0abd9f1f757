------------------------------- MODULE Timeclock -------------------------------
(***************************************************************************)
(* Punching in and out with a QR code that a device shows, or with a code  *)
(* of eight digits that stands in for it.  A handler reserves the ticket   *)
(* first, derives the punch from the events it reads, and inserts it.      *)
(***************************************************************************)
EXTENDS Integers, Sequences, FiniteSets, FiniteSetsExt

CONSTANTS
  Qrs,        \* QR codes, each with a nonce of its own
  Codes,      \* manual codes
  Devices,
  DeviceOf,   \* the device of each QR code
  IssuedAt,   \* the time in each QR code
  Employees,
  Handlers,   \* requests in progress, each serving one after the other
  Nobody,
  Skew,       \* a QR code is accepted so long before and after its time
  Lifetime,   \* a nonce is kept so long after it is reserved
  Window,     \* a second punch at a device is blocked for so long
  CodeLife,   \* a manual code is good for so long
  Interval,   \* a device may ask for a manual code so often
  Day,        \* length of a day
  Handling,   \* external: the platform ends a request that takes longer
  MaxActive,  \* bound: requests in progress at the same time
  MaxTime,    \* bound: the clock stops here
  MaxMissed,  \* bound: requests that missed something, in progress or in the events
  Faults      \* whether handlers may die, and reads and inserts may fail

ASSUME Tickets ==
  /\ Qrs \cap Codes = {} /\ Nobody \notin Handlers
  /\ DeviceOf \in [Qrs -> Devices] /\ IssuedAt \in [Qrs -> Nat]
ASSUME Durations ==
  /\ {Skew, Lifetime, Window, CodeLife, Interval, Handling} \subseteq Nat /\ Day \in Nat \ {0}
  /\ 2 * Skew + Handling <= Lifetime

VARIABLES
  now,
  nonces,  \* timeclock_qr_nonces: QR code -> expires_at
  codes,   \* timeclock_manual_codes: code -> row
  limits,  \* timeclock_device_manual_code_limits: device -> next_allowed_at
  events,  \* timeclock_events in the order of scanned_at; the hash is the index
  work     \* what each handler is about to do

vars == <<now, nonces, codes, limits, events, work>>

Types == {"IN", "OUT"}

\* Reads whose failure nobody looks at: of the last hash and of the last punch.
Reads == {"hash", "punch"}
CodeRow == [device : Devices, used : Handlers \cup {Nobody}, expires : Nat]
Event == [ticket : Qrs \cup Codes, device : Devices, employee : Employees,
          type : Types, at : Nat, prev : Nat,
          unread : SUBSET Reads, \* history: what its request missed as a read failed
          answered : BOOLEAN]    \* history: whether its request knew of the insertion

QrSteps == {"purging", "claiming"}
PunchSteps == {"chaining", "pairing", "looking", "inserting", "releasing"}
CodeSteps == {"checking", "deleting"}

Idle == [at |-> "idle"]
Request(steps, tickets) ==
  [at : steps, ticket : tickets, device : Devices, employee : Employees,
   started : Nat, prev : Nat, type : Types, unread : SUBSET Reads]
IssueRecord == [at : {"limiting", "replacing", "storing"}, device : Devices, started : Nat]

NoncesTyped == DOMAIN nonces \subseteq Qrs /\ nonces \in [DOMAIN nonces -> Nat]
CodesTyped == DOMAIN codes \subseteq Codes /\ codes \in [DOMAIN codes -> CodeRow]
LimitsTyped == DOMAIN limits \subseteq Devices /\ limits \in [DOMAIN limits -> Nat]
Works == {Idle} \cup IssueRecord \cup Request(QrSteps \cup PunchSteps, Qrs)
         \cup Request(CodeSteps \cup PunchSteps, Codes)

TypeOK ==
  /\ now \in Nat /\ NoncesTyped /\ CodesTyped /\ LimitsTyped
  /\ events \in Seq(Event) /\ work \in [Handlers -> Works]

Busy == {h \in Handlers : work[h] # Idle}

Init ==
  /\ now = 0 /\ nonces = <<>> /\ codes = <<>> /\ limits = <<>> /\ events = <<>>
  /\ work = [h \in Handlers |-> Idle]

Begin(h, request) ==
  /\ work[h] = Idle /\ Cardinality(Busy) < MaxActive
  /\ work' = [work EXCEPT ![h] = request]
Goes(h, at) == work' = [work EXCEPT ![h].at = at]
Ends(h) == work' = [work EXCEPT ![h] = Idle]

-----------------------------------------------------------------------------
(* POST /api/timeclock/devices/manual-code *)

AskForCode(h, d) ==
  /\ Begin(h, [at |-> "limiting", device |-> d, started |-> now])
  /\ UNCHANGED <<now, nonces, codes, limits, events>>

\* claimRateLimit
ClaimLimit(h) ==
  LET d == work[h].device
  IN /\ work[h].at = "limiting"
     /\ IF d \in DOMAIN limits /\ limits[d] > work[h].started
        THEN Ends(h) /\ UNCHANGED limits
        ELSE /\ limits' = [x \in DOMAIN limits \cup {d} |->
                             IF x = d THEN work[h].started + Interval ELSE limits[x]]
             /\ Goes(h, "replacing")
     /\ UNCHANGED <<now, nonces, codes, events>>

\* Unused codes of the device are deleted.
ReplaceCode(h) ==
  /\ work[h].at = "replacing"
  /\ codes' = [c \in {x \in DOMAIN codes : codes[x].device # work[h].device
                                            \/ codes[x].used # Nobody} |-> codes[c]]
  /\ Goes(h, "storing")
  /\ UNCHANGED <<now, nonces, limits, events>>

\* The digits of a code that has punched are not drawn again.
Drawable == {c \in Codes \ DOMAIN codes : \A i \in DOMAIN events : events[i].ticket # c}

StoreCode(h) ==
  /\ work[h].at = "storing"
  /\ \/ \E c \in Drawable :
          codes' = [x \in DOMAIN codes \cup {c} |->
                      IF x = c THEN [device |-> work[h].device, used |-> Nobody,
                                     expires |-> work[h].started + CodeLife]
                      ELSE codes[x]]
     \/ codes # <<>> /\ UNCHANGED codes
  /\ Ends(h)
  /\ UNCHANGED <<now, nonces, limits, events>>

-----------------------------------------------------------------------------
(* POST /api/timeclock/scan: reserving the QR code *)

Scan(h, q, e) ==
  /\ now - IssuedAt[q] <= Skew /\ IssuedAt[q] - now <= Skew
  /\ Begin(h, [at |-> "purging", ticket |-> q, device |-> DeviceOf[q], employee |-> e,
               started |-> now, prev |-> 0, type |-> "IN", unread |-> {}])
  /\ UNCHANGED <<now, nonces, codes, limits, events>>

PurgeNonces(h) ==
  /\ work[h].at = "purging"
  /\ nonces' = [q \in {x \in DOMAIN nonces : DeviceOf[x] # work[h].device
                                             \/ nonces[x] >= now} |-> nonces[q]]
  /\ Goes(h, "claiming")
  /\ UNCHANGED <<now, codes, limits, events>>

\* Mistake: the nonce is kept for as long as the QR code is accepted.
KeptForSkew == now + Skew

KeptUntil == now + Lifetime

ClaimNonce(h) ==
  LET q == work[h].ticket
  IN /\ work[h].at = "claiming"
     /\ IF q \in DOMAIN nonces
        THEN Ends(h) /\ UNCHANGED nonces
        ELSE /\ nonces' = [x \in DOMAIN nonces \cup {q} |-> IF x = q THEN KeptUntil ELSE nonces[x]]
             /\ Goes(h, "chaining")
     /\ UNCHANGED <<now, codes, limits, events>>

-----------------------------------------------------------------------------
(* POST /api/timeclock/manual-entry/submit: claiming the code *)

Unused(c) == codes[c].used = Nobody

Submit(h, c, e) ==
  /\ Unused(c)
  /\ Begin(h, [at |-> "checking", ticket |-> c, device |-> codes[c].device, employee |-> e,
               started |-> now, prev |-> 0, type |-> "IN", unread |-> {}])
  /\ codes' = [codes EXCEPT ![c].used = h]
  /\ UNCHANGED <<now, nonces, limits, events>>

\* An expired code stays claimed.
CheckCode(h) ==
  /\ work[h].at = "checking"
  /\ IF now > codes[work[h].ticket].expires THEN Ends(h) ELSE Goes(h, "chaining")
  /\ UNCHANGED <<now, nonces, codes, limits, events>>

DeleteCode(h) ==
  /\ work[h].at = "deleting"
  /\ codes' = [c \in DOMAIN codes \ {work[h].ticket} |-> codes[c]]
  /\ Ends(h)
  /\ UNCHANGED <<now, nonces, limits, events>>

-----------------------------------------------------------------------------
(* The punch, in both handlers *)

LatestOf(indices) == IF indices = {} THEN 0 ELSE Max(indices)

\* Whether another request may miss something as a read or an insertion fails.
MayMiss ==
  /\ Faults
  /\ Cardinality({i \in DOMAIN events : events[i].unread # {} \/ ~events[i].answered})
     + Cardinality({h \in Busy : "unread" \in DOMAIN work[h] /\ work[h].unread # {}}) < MaxMissed

\* What a read of the latest of some events finds: nothing if it fails.
Found(last) == {last} \cup (IF MayMiss THEN {0} ELSE {})

\* Mistake: the last event of the employee.
ReadOwnChain(h) ==
  LET last == LatestOf({i \in DOMAIN events : events[i].employee = work[h].employee})
  IN /\ work[h].at = "chaining"
     /\ \E found \in Found(last) :
          work' = [work EXCEPT ![h].at = "pairing", ![h].prev = found,
                     ![h].unread = IF found = last THEN @ ELSE @ \cup {"hash"}]
     /\ UNCHANGED <<now, nonces, codes, limits, events>>

\* The last event of the device, whose hash the new one takes over.
ReadChain(h) ==
  LET last == LatestOf({i \in DOMAIN events : events[i].device = work[h].device})
  IN /\ work[h].at = "chaining"
     /\ \E found \in Found(last) :
          work' = [work EXCEPT ![h].at = "pairing", ![h].prev = found,
                     ![h].unread = IF found = last THEN @ ELSE @ \cup {"hash"}]
     /\ UNCHANGED <<now, nonces, codes, limits, events>>

\* Mistake: punches of earlier days count.
EveryDay == DOMAIN events

Today == {i \in DOMAIN events : events[i].at \div Day = now \div Day}

ReadPunch(h) ==
  LET last == LatestOf({i \in Today : events[i].employee = work[h].employee})
  IN /\ work[h].at = "pairing"
     /\ \E found \in Found(last) :
          work' = [work EXCEPT ![h].at = "looking",
                     ![h].type = IF found # 0 /\ events[found].type = "IN" THEN "OUT" ELSE "IN",
                     ![h].unread = IF found = last THEN @ ELSE @ \cup {"punch"}]
     /\ UNCHANGED <<now, nonces, codes, limits, events>>

Recent(h) ==
  \E i \in DOMAIN events :
    /\ events[i].employee = work[h].employee /\ events[i].device = work[h].device
    /\ events[i].at >= now - Window

\* The ticket of a blocked punch stays reserved; a read that fails blocks none.
ReadRecent(h) ==
  /\ work[h].at = "looking"
  /\ \/ Recent(h) /\ Ends(h)
     \/ (~Recent(h) \/ MayMiss) /\ Goes(h, "inserting")
  /\ UNCHANGED <<now, nonces, codes, limits, events>>

Punch(w, answered) ==
  Append(events, [ticket |-> w.ticket, device |-> w.device, employee |-> w.employee, type |-> w.type,
                  at |-> now, prev |-> w.prev, unread |-> w.unread, answered |-> answered])

InsertPunch(h) ==
  /\ work[h].at = "inserting"
  /\ events' = Punch(work[h], TRUE)
  /\ IF work[h].ticket \in Codes THEN Goes(h, "deleting") ELSE Ends(h)
  /\ UNCHANGED <<now, nonces, codes, limits>>

\* The insertion fails, before or after it took effect.
FailPunch(h) ==
  /\ Faults /\ work[h].at = "inserting"
  /\ events' \in {events} \cup (IF MayMiss THEN {Punch(work[h], FALSE)} ELSE {})
  /\ Goes(h, "releasing")
  /\ UNCHANGED <<now, nonces, codes, limits>>

\* The ticket may be used again.
Release(h) ==
  LET t == work[h].ticket
  IN /\ work[h].at = "releasing"
     /\ nonces' = [q \in DOMAIN nonces \ {t} |-> nonces[q]]
     /\ codes' = [c \in DOMAIN codes |-> IF c = t /\ codes[c].used = h
                                         THEN [codes[c] EXCEPT !.used = Nobody] ELSE codes[c]]
     /\ Ends(h)
     /\ UNCHANGED <<now, limits, events>>

Die(h) ==
  /\ Faults /\ h \in Busy
  /\ Ends(h)
  /\ UNCHANGED <<now, nonces, codes, limits, events>>

\* A request that takes too long has been ended before the clock moves on.
Tick ==
  /\ now < MaxTime
  /\ \A h \in Busy : now < work[h].started + Handling
  /\ now' = now + 1
  /\ UNCHANGED <<nonces, codes, limits, events, work>>

Handles(h) ==
  \/ \E d \in Devices : AskForCode(h, d)
  \/ ClaimLimit(h) \/ ReplaceCode(h) \/ StoreCode(h)
  \/ \E e \in Employees : \/ \E q \in Qrs : Scan(h, q, e)
                          \/ \E c \in DOMAIN codes : Submit(h, c, e)
  \/ PurgeNonces(h) \/ ClaimNonce(h) \/ CheckCode(h) \/ DeleteCode(h)
  \/ ReadChain(h) \/ ReadPunch(h) \/ ReadRecent(h) \/ InsertPunch(h) \/ FailPunch(h)
  \/ Release(h) \/ Die(h)

Next == Tick \/ \E h \in Handlers : Handles(h)

Spec == Init /\ [][Next]_vars

-----------------------------------------------------------------------------
(* Properties *)

\* A ticket has punched as far as its handler knows.
Punched(t) == \E i \in DOMAIN events : events[i].ticket = t /\ events[i].answered

\* The handlers that hold a ticket and know of no punch with it.
Holds(h, t) ==
  work[h].at \in PunchSteps \cup {"checking"} /\ work[h].ticket = t

\* A handler is ended in time, and accepts no QR code out of its time.
InTime ==
  \A h \in Busy :
    /\ work[h].started <= now /\ now <= work[h].started + Handling
    /\ work[h].at \in QrSteps =>
         LET shown == IssuedAt[work[h].ticket]
         IN work[h].started <= shown + Skew /\ shown - Skew <= work[h].started

\* The nonce of a QR code that is held or has punched is there for as long as a
\* handler could still accept the code.
NoncesLast ==
  \A q \in Qrs :
    (Punched(q) \/ \E h \in Handlers : Holds(h, q))
      => \/ q \in DOMAIN nonces /\ nonces[q] >= IssuedAt[q] - Skew + Lifetime
         \/ now > IssuedAt[q] - Skew + Lifetime

\* A code that is held, or was just punched with, is marked as used by its handler.
CodesMarked ==
  /\ \A h \in Handlers, c \in Codes :
       Holds(h, c) \/ (work[h].at = "deleting" /\ work[h].ticket = c)
         => c \in DOMAIN codes /\ codes[c].used = h
  /\ \A c \in DOMAIN codes : Punched(c) => codes[c].used # Nobody

\* A ticket has one holder, and none once it has punched.
HeldOnce ==
  \A h \in Handlers, t \in Qrs \cup Codes : Holds(h, t) =>
    ~Punched(t) /\ \A g \in Handlers : Holds(g, t) => g = h

\* Each QR code and each manual code punches at most once, however its scans and
\* submissions overlap, although nonces expire and are given back on a failure, and
\* although they are given back when only the answer to the insertion was lost: such a
\* punch may be followed by another one, and no other.
TicketPunchesOnce ==
  \A i, j \in DOMAIN events : events[i].ticket = events[j].ticket /\ i < j => ~events[i].answered

\* The inductive invariant behind TicketPunchesOnce.
TicketInv == TypeOK /\ InTime /\ NoncesLast /\ CodesMarked /\ HeldOnce /\ TicketPunchesOnce

\* The hash chain of a device forks only where requests overlap: an event that another
\* leaves out of its chain was inserted while the other's request was running, or the
\* other's read of the last hash failed.
ChainForksOnlyInOverlap ==
  \A i, j \in DOMAIN events :
    /\ events[i].device = events[j].device
    /\ events[i].prev < j /\ j < i
    => events[j].at + Handling >= events[i].at \/ "hash" \in events[i].unread

\* Punches further apart than a request may take alternate, whichever devices and kinds
\* of ticket they come from, and the first of a day is IN unless midnight overtakes it;
\* only a punch whose request failed to read the last one may repeat it.
ApartPunchesAlternate ==
  \A i \in DOMAIN events :
    LET before == {j \in 1..(i - 1) : events[j].employee = events[i].employee
                                      /\ events[j].at \div Day = events[i].at \div Day}
        apart == /\ "punch" \notin events[i].unread /\ events[i].at % Day >= Handling
                 /\ \A j \in before : events[j].at + Handling < events[i].at
        last == LatestOf(before)
    IN apart => events[i].type = IF last # 0 /\ events[last].type = "IN" THEN "OUT" ELSE "IN"
=============================================================================
