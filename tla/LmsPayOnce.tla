------------------------------ MODULE LmsPayOnce ------------------------------
(***************************************************************************)
(* What the idempotency keys of the loan ledger promise: a key posts at    *)
(* most one payment, and a clerk who is told that a payment was recorded   *)
(* is told of the one posted under the key, at the amount asked for.       *)
(***************************************************************************)
CONSTANTS Keys, Amounts, None

VARIABLES
  posted,  \* key -> amount posted under it, or None
  told     \* key -> amount the clerk believes recorded, or None

Init == posted = [k \in Keys |-> None] /\ told = [k \in Keys |-> None]

Post(k, amount) ==
  /\ posted[k] = None
  /\ posted' = [posted EXCEPT ![k] = amount]
  /\ UNCHANGED told

Tell(k) ==
  /\ posted[k] # None
  /\ told' = [told EXCEPT ![k] = posted[k]]
  /\ UNCHANGED posted

Next == \E k \in Keys : Tell(k) \/ \E amount \in Amounts : Post(k, amount)

Spec == Init /\ [][Next]_<<posted, told>>
=============================================================================
