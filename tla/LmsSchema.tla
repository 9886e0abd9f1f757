------------------------------ MODULE LmsSchema ------------------------------
(***************************************************************************)
(* The rows of the loan management tables and the two functions every      *)
(* ledger RPC ends with: lms_recalculate_loan, which derives a loan's      *)
(* balance from its transactions, and lms_sync_installment_plan, which     *)
(* rebuilds an installment plan from the payments recorded against it.     *)
(*                                                                         *)
(* Row ids are handed out in insertion order and never reused (the code's  *)
(* uuids with created_at as the order).  An installment is identified by   *)
(* its unique key <<service transaction, installment number>>.  Amounts    *)
(* are naturals in a unit every plan length divides, so that the exact     *)
(* numeric division of the code stays exact here.  A Day is a due date or  *)
(* the current date; consecutive installments fall on consecutive days.    *)
(***************************************************************************)
EXTENDS Tables, FiniteSets

CONSTANTS
  Customers,      \* the customers the office may register
  MaxLoans,       \* loan rows ever inserted
  MaxTx,          \* transaction rows ever inserted
  MaxTerm,        \* longest installment plan
  DefaultTerm,    \* term of a loan opened without a plan (12 in the code)
  DebtAmounts,    \* amounts of services and fees
  PayAmounts,     \* amounts of payments and deposits
  Penny,          \* what the total of a plan may be off (0.01 in the code)
  MaxDay,         \* last day of the calendar
  Maintenance     \* the maintenance jobs that are run

ASSUME LmsBounds ==
  /\ MaxLoans \in Nat \ {0} /\ MaxTx \in Nat \ {0} /\ MaxTerm \in Nat \ {0}
  /\ DefaultTerm \in 1..MaxTerm /\ MaxDay \in Nat
ASSUME LmsAmounts ==
  /\ DebtAmounts \subseteq Nat \ {0}
  /\ PayAmounts \subseteq Nat \ {0} /\ Penny \in Nat
ASSUME LmsJobs == Maintenance \subseteq {"backfill", "migration"}

LoanId == 1..MaxLoans
TxId   == 1..MaxTx
InstNo == 1..MaxTerm
Day    == 0..MaxDay
InstKey == TxId \X InstNo

\* The installment_id or service_transaction_id of a row that has none.
None == 0

Loan == [customer : Customers, balance : Nat, total : Nat,
         status : {"Active", "Paid Off"}, term : InstNo]
Tx   == [loan : LoanId, type : {"service", "fee", "payment"}, amount : Nat \ {0},
         service : TxId \cup {None}, number : InstNo \cup {None}]
Installment ==
  [due : Nat, amount : Nat, paid : Nat,
   status : {"pending", "partial", "overdue", "paid", "skipped"}]

-----------------------------------------------------------------------------
(* Sums over the transactions.                                             *)

\* select sum(amount) ... where: f gives the amount of each transaction id
\* that qualifies, and 0 for the others.
Total(f) == SumTo(f, MaxTx)

Debt(tx, l) ==
  Total([t \in TxId |->
    IF t \in DOMAIN tx /\ tx[t].loan = l /\ tx[t].type \in {"service", "fee"}
    THEN tx[t].amount ELSE 0])

Paid(tx, l) ==
  Total([t \in TxId |->
    IF t \in DOMAIN tx /\ tx[t].loan = l /\ tx[t].type = "payment"
    THEN tx[t].amount ELSE 0])

\* Payments recorded against service transaction s.
PaidForService(tx, s) ==
  Total([t \in TxId |->
    IF t \in DOMAIN tx /\ tx[t].service = s /\ tx[t].type = "payment"
    THEN tx[t].amount ELSE 0])

\* Payments recorded against installment n of service s.
PaidForInstallment(tx, s, n) ==
  Total([t \in TxId |->
    IF t \in DOMAIN tx /\ tx[t].service = s /\ tx[t].number = n /\ tx[t].type = "payment"
    THEN tx[t].amount ELSE 0])

AtLeastZero(x) == IF x > 0 THEN x ELSE 0

Balance(tx, l) == AtLeastZero(Debt(tx, l) - Paid(tx, l))

LoanStatus(balance) == IF balance <= 0 THEN "Paid Off" ELSE "Active"

\* lms_recalculate_loan: the loans table after l is derived again from tx.
Recalculated(loans, tx, l) ==
  [loans EXCEPT ![l].balance = Balance(tx, l),
                ![l].total   = Debt(tx, l),
                ![l].status  = LoanStatus(Balance(tx, l))]

-----------------------------------------------------------------------------
(* Installment plans.                                                      *)

PlanOf(inst, s) == {k \in DOMAIN inst : k[1] = s}

Closed == {"paid", "skipped"}

OpenIn(inst, s) == {k \in PlanOf(inst, s) : inst[k].status \notin Closed}

\* What is still owed on service s.
Owed(tx, s) == AtLeastZero(tx[s].amount - PaidForService(tx, s))

\* Mutated form: a covered row is paid before it is skipped.
StatusPaidFirst(row, today) ==
  LET covered == row.paid >= row.amount /\ row.amount > 0
  IN  CASE covered                                               -> "paid"
        [] ~covered /\ row.status = "skipped"                    -> "skipped"
        [] row.status # "skipped" /\ ~covered /\ row.paid > 0    -> "partial"
        [] OTHER -> IF row.due < today THEN "overdue" ELSE "pending"

StatusOf(row, today) ==
  LET covered == row.paid >= row.amount /\ row.amount > 0
  IN  CASE row.status = "skipped"                               -> "skipped"
        [] row.status # "skipped" /\ covered                    -> "paid"
        [] row.status # "skipped" /\ ~covered /\ row.paid > 0   -> "partial"
        [] OTHER -> IF row.due < today THEN "overdue" ELSE "pending"

Restatused(inst, s, today) ==
  [k \in DOMAIN inst |->
     IF k[1] = s THEN [inst[k] EXCEPT !.status = StatusOf(inst[k], today)]
                 ELSE inst[k]]

Repaid(inst, tx, s) ==
  [k \in DOMAIN inst |->
     IF k[1] = s THEN [inst[k] EXCEPT !.paid = PaidForInstallment(tx, s, k[2])]
                 ELSE inst[k]]

\* Mutated form: a row's own payments are not added to its share.
RedistributedWithoutPaid(inst, tx, s) ==
  LET open  == OpenIn(inst, s)
      share == Owed(tx, s) \div Cardinality(open)
  IN  [k \in DOMAIN inst |->
         IF k \in open THEN [inst[k] EXCEPT !.amount = share] ELSE inst[k]]

\* The debt left on s, shared out equally over the rows still open.
Redistributed(inst, tx, s) ==
  LET open  == OpenIn(inst, s)
      share == Owed(tx, s) \div Cardinality(open)
  IN  [k \in DOMAIN inst |->
         IF k \in open THEN [inst[k] EXCEPT !.amount = inst[k].paid + share]
                       ELSE inst[k]]

\* Mutated form: no second pass over the statuses.
SyncedOnce(inst, tx, s, today) ==
  Redistributed(Restatused(Repaid(inst, tx, s), s, today), tx, s)

\* lms_sync_installment_plan: the installments after the plan of s is rebuilt
\* from tx.  The statuses that decide which rows share the debt are computed
\* before the amounts change, and once more after.
Synced(inst, tx, s, today) ==
  LET first == Restatused(Repaid(inst, tx, s), s, today)
  IN  Restatused(Redistributed(first, tx, s), s, today)
=============================================================================
