----------------------------- MODULE MCTimeclock -----------------------------
(* One device, a QR code of two days each, and a manual code.                *)
EXTENDS Timeclock, TLC

CONSTANTS q1, q2, d1

MCDeviceOf == [q \in Qrs |-> d1]
MCIssuedAt == [q \in Qrs |-> IF q = q1 THEN 1 ELSE 5]
MCSymmetry == Permutations(Handlers) \cup Permutations(Employees)
=============================================================================
