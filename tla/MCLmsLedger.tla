----------------------------- MODULE MCLmsLedger -----------------------------
(***************************************************************************)
(* LmsLedger for TLC: either the accounts of two customers with one-row    *)
(* plans on one day, or the two-row plans of one loan from one day to the  *)
(* next.  All amounts are multiples of 2, so every share of a two-row plan *)
(* is a whole number.                                                      *)
(***************************************************************************)
EXTENDS LmsLedger, FiniteSets, TLC

CONSTANTS c1, c2

MCDebtAmounts == {4}
MCPayAmounts  == {2, 4}

VARIABLE scene

OneRowPlans ==
  /\ \A l \in DOMAIN loans' : loans'[l].term = 1
  /\ \A key \in DOMAIN inst' : key[2] = 1 /\ inst'[key].due = 0
  /\ UNCHANGED today
OneLoan == Cardinality(customers') <= 1 /\ nextLoan' <= 2 /\ UNCHANGED migration

LedgerInit == Init /\ scene \in {"accounts", "plan"}
LedgerNext ==
  /\ Next /\ UNCHANGED scene
  /\ scene = "accounts" => OneRowPlans
  /\ scene = "plan" => OneLoan
LedgerSpec == LedgerInit /\ [][LedgerNext]_<<vars, scene>>

MCSymmetry == Permutations({c1, c2})
=============================================================================
