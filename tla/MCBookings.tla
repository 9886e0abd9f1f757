------------------------------ MODULE MCBookings ------------------------------
(* Up to three creations, two of them under one key, and two or three starting *)
(* times of which neighbours overlap.                                          *)
EXTENDS Bookings, TLC

CONSTANTS c1, c2, c3, k1, k2

MCKeyOf == [c \in Creates |-> IF c = c3 THEN k2 ELSE k1]
MCOneKey == [c \in Creates |-> k1]
MCSymmetry == Permutations({c1, c2})
MCOwnKey == [c \in Creates |-> c]
=============================================================================
