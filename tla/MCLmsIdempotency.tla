--------------------------- MODULE MCLmsIdempotency ---------------------------
(***************************************************************************)
(* LmsIdempotency for TLC: attempts under few keys, clocks that tell one   *)
(* attempt from the next, and a date outside the clock's values.           *)
(***************************************************************************)
EXTENDS LmsIdempotency

MCDates == {100}
=============================================================================
