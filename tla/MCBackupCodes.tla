----------------------------- MODULE MCBackupCodes -----------------------------
(***************************************************************************)
(* Three requests under one key, one of which is counted under a second    *)
(* identity too.  Either they are about to ask the limiter and have no     *)
(* more to do, or all have passed, in windows of their own, and work on    *)
(* the codes together.                                                     *)
(***************************************************************************)
EXTENDS BackupCodes, TLC

CONSTANTS r1, r2, r3, user, address

MCRequests == {r1, r2, r3}
MCKeys == {user, address}
MCKeysOf == [r \in MCRequests |-> IF r = r1 THEN <<user, address>> ELSE <<user>>]

AskTogether ==
  /\ LimiterInit /\ CodesInit
  /\ \A r \in Requests : work[r].kind = "other"

PassedAt(r) == CASE r = r1 -> 0 [] r = r2 -> Window [] OTHER -> 2 * Window
Row(now) == [started |-> now, count |-> 1, updated |-> now]

WorkTogether ==
  /\ CodesInit /\ \A r \in Requests : work[r].kind # "other"
  /\ clock = MaxTime
  /\ buckets = (user :> Row(PassedAt(r3))) @@ (address :> Row(PassedAt(r1)))
  /\ call = [r \in Requests |->
       [at |-> "admitted", n |-> Len(KeysOf[r]), asked |-> PassedAt(r), doomed |-> {}]]
  /\ passed = UNION {{[request |-> r, key |-> KeysOf[r][n], asked |-> PassedAt(r),
                       window |-> PassedAt(r)] : n \in DOMAIN KeysOf[r]} : r \in Requests}

MCInit == AskTogether \/ WorkTogether
MCSpec == MCInit /\ [][Next]_vars /\ Fairness
================================================================================
