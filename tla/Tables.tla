-------------------------------- MODULE Tables --------------------------------
(***************************************************************************)
(* Database tables and the sums that queries and routes take over them.  A *)
(* table is a function from the ids of the rows it holds.                  *)
(***************************************************************************)
EXTENDS Integers

Table(table, ids, rows) ==
  DOMAIN table \subseteq ids /\ \A k \in DOMAIN table : table[k] \in rows

Put(table, id, row) ==
  [k \in DOMAIN table \cup {id} |-> IF k = id THEN row ELSE table[k]]

Without(table, ids) == [k \in DOMAIN table \ ids |-> table[k]]

\* The rows of extra are inserted into table.
With(table, extra) ==
  [k \in DOMAIN table \cup DOMAIN extra |->
     IF k \in DOMAIN extra THEN extra[k] ELSE table[k]]

\* f[1] + ... + f[m]
SumTo(f, m) ==
  LET upTo[n \in 0..m] == IF n = 0 THEN 0 ELSE upTo[n - 1] + f[n]
  IN  upTo[m]
=============================================================================
