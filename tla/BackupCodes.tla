------------------------------ MODULE BackupCodes ------------------------------
(***************************************************************************)
(* The backup codes of one employee, behind the limiter.  An admitted      *)
(* request consumes a code, replaces the whole set after a fresh second    *)
(* factor (which may itself be a code), or is an administrator's recovery  *)
(* that deletes the set.  Consuming reads the rows, compares hashes and    *)
(* marks the row in separate steps; replacing is one transaction.          *)
(***************************************************************************)
EXTENDS RateLimit

CONSTANTS
  Size,    \* codes in a set
  MaxSets  \* bound: sets ever made

ASSUME Sizes == Size \in Nat \ {0} /\ MaxSets \in Nat \ {0}

VARIABLES
  codes,    \* backup_codes: code -> used
  sets,     \* sets made so far
  work,     \* what each request does with codes once it is admitted
  honoured  \* history: which request was let in by which code, and the set of that time

vars == <<limiter, codes, sets, work, honoured>>

Code == (1..MaxSets) \X (1..Size)
SetOf(n) == {n} \X (1..Size)
Kinds == {"consume", "generate", "recover", "other"}
Steps == {"idle", "matched", "verified", "replacing", "removing", "done"}
Task == [kind : Kinds, at : Steps, code : Code, rows : SUBSET Code]
Honour == [request : Requests, code : Code, latest : 1..MaxSets]

TypeOK ==
  /\ LimiterTyped
  /\ sets \in 1..MaxSets
  /\ DOMAIN codes \subseteq Code /\ codes \in [DOMAIN codes -> BOOLEAN]
  /\ work \in [Requests -> Task]
  /\ honoured \subseteq Honour

NewTask(kind) == [kind |-> kind, at |-> "idle", code |-> <<1, 1>>, rows |-> {}]

CodesInit ==
  /\ codes = [c \in SetOf(1) |-> FALSE] /\ sets = 1 /\ honoured = {}
  /\ \E kindOf \in [Requests -> Kinds] : work = [r \in Requests |-> NewTask(kindOf[r])]

Init == LimiterInit /\ CodesInit

At(r, at) == call[r].at = "admitted" /\ work[r].at = at
Turns(r, at) == work' = [work EXCEPT ![r].at = at]
\* A request whose second factor is verified goes on to what it is for.
Verified(r) == Turns(r, IF work[r].kind = "consume" THEN "done" ELSE "verified")
\* The rows of a set that a transaction has deleted and not committed yet
Locked(rows) == \E q \in Requests : work[q].at = "replacing" /\ work[q].rows \cap rows # {}

-----------------------------------------------------------------------------
(* verifyFreshSecondFactor *)

\* An authenticator's code, or, for an administrator, a code of their own
Authenticate(r) ==
  /\ At(r, "idle") /\ work[r].kind \in {"generate", "recover"}
  /\ Verified(r) \/ Turns(r, "done")
  /\ UNCHANGED <<limiter, codes, sets, honoured>>

\* The rows are read; the code entered may match one that is not used.
ReadCodes(r) ==
  /\ At(r, "idle") /\ work[r].kind \in {"consume", "generate"}
  /\ \/ \E c \in DOMAIN codes :
          /\ ~codes[c]
          /\ work' = [work EXCEPT ![r].at = "matched", ![r].code = c]
     \/ Turns(r, "done")
  /\ UNCHANGED <<limiter, codes, sets, honoured>>

\* Mutated form: the update relies on what was read.
UnusedWhenRead(c) == c \in DOMAIN codes

Unused(c) == c \in DOMAIN codes /\ ~codes[c]

\* update ... where used = false, which decides anew.  It may fail before or after its
\* effect; no other row matches the code.
MarkCode(r) ==
  LET c == work[r].code IN
  /\ At(r, "matched") /\ ~Locked({c})
  /\ \/ /\ Unused(c)
        /\ codes' = [codes EXCEPT ![c] = TRUE]
        /\ \/ /\ honoured' = honoured \cup {[request |-> r, code |-> c, latest |-> sets]}
              /\ Verified(r)
           \/ Faults /\ Turns(r, "done") /\ UNCHANGED honoured
     \/ /\ Faults \/ ~Unused(c)
        /\ Turns(r, "done") /\ UNCHANGED <<codes, honoured>>
  /\ UNCHANGED <<limiter, sets>>

-----------------------------------------------------------------------------
(* replace_backup_codes *)

\* Mutated form: there is no lock.
ReplacingUnlocked == {}

\* The replacements that hold the advisory lock of the employee
Replacing == {q \in Requests : work[q].at = "replacing"}

DeleteCodes(r) ==
  /\ At(r, "verified") /\ work[r].kind = "generate"
  /\ Replacing = {}
  /\ work' = [work EXCEPT ![r].at = "replacing", ![r].rows = DOMAIN codes]
  /\ UNCHANGED <<limiter, codes, sets, honoured>>

\* The new set is inserted, and all is committed; the answer does not matter here.
InsertCodes(r) ==
  /\ At(r, "replacing") /\ sets < MaxSets
  /\ sets' = sets + 1
  /\ codes' = [c \in (DOMAIN codes \ work[r].rows) \cup SetOf(sets + 1) |->
                 IF c \in SetOf(sets + 1) THEN FALSE ELSE codes[c]]
  /\ Turns(r, "done")
  /\ UNCHANGED <<limiter, honoured>>

\* The transaction is rolled back (also at the bound).
FailReplacement(r) ==
  /\ At(r, "replacing") /\ (Faults \/ sets = MaxSets)
  /\ Turns(r, "done")
  /\ UNCHANGED <<limiter, codes, sets, honoured>>

-----------------------------------------------------------------------------
(* The recovery deletes the codes without that lock.                       *)

\* The statement sees the rows there are now ...
FindCodes(r) ==
  /\ At(r, "verified") /\ work[r].kind = "recover"
  /\ work' = [work EXCEPT ![r].at = "removing", ![r].rows = DOMAIN codes]
  /\ UNCHANGED <<limiter, codes, sets, honoured>>

\* ... and waits for those that a replacement has deleted.
RemoveCodes(r) ==
  /\ At(r, "removing") /\ ~Locked(work[r].rows)
  /\ codes' = [c \in DOMAIN codes \ work[r].rows |-> codes[c]]
  /\ Turns(r, "done")
  /\ UNCHANGED <<limiter, sets, honoured>>

-----------------------------------------------------------------------------
Handles(r) ==
  \/ Authenticate(r) \/ ReadCodes(r) \/ MarkCode(r)
  \/ DeleteCodes(r) \/ InsertCodes(r) \/ FailReplacement(r)
  \/ FindCodes(r) \/ RemoveCodes(r)

LimiterStep == LimiterNext /\ UNCHANGED <<codes, sets, work, honoured>>

Next == LimiterStep \/ \E r \in Requests : Handles(r)

\* A request that was begun is carried on: by the database, and by the handler
\* that asks for the next identity.
Continues(r) == call[r].n > 1 /\ Ask(r)
Fairness ==
  \A r \in Requests :
    /\ WF_limiter((Works(r) \/ Continues(r)) /\ UNCHANGED <<codes, sets, work, honoured>>)
    /\ WF_vars(Handles(r))

Spec == Init /\ [][Next]_vars
LiveSpec == Spec /\ Fairness

-----------------------------------------------------------------------------
(* Properties *)

\* What is stored is one whole set, the last one made, or nothing after a
\* recovery: never parts of a set, nor codes of two.
OneWholeSet == DOMAIN codes \in {SetOf(sets), {}}

\* The rows a statement has found are a whole set; a replacement still has all.
FoundWhole ==
  /\ \A r \in Requests :
       /\ work[r].at = "removing" => work[r].rows \in {{}} \cup {SetOf(n) : n \in 1..sets}
       /\ work[r].at = "replacing" => work[r].rows = DOMAIN codes
  /\ \A r, q \in Replacing : r = q

\* Replacing and removing at once never mix two sets, however their statements
\* wait for each other.
CodesInv == TypeOK /\ OneWholeSet /\ FoundWhole

\* A code lets one request in, once, and never after its set was replaced: also
\* when requests read it before, or it is replaced between reading and marking.
CodeWorksOnce ==
  /\ \A g, h \in honoured : g.code = h.code => g = h
  /\ \A h \in honoured : h.code[1] = h.latest

\* A request that asked the limiter gets an answer, whoever cleans up meanwhile.
Answered(r) ==
  \/ call[r].at = "refused"
  \/ call[r].at = "admitted" /\ (work[r].at = "done" \/ work[r].kind = "other")
EveryRequestEnds == \A r \in Requests : call[r].at \in InTransaction ~> Answered(r)
================================================================================
