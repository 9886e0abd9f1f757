------------------------------ MODULE LmsLedger ------------------------------
(***************************************************************************)
(* The loan ledger: customers, their loans, the service, fee and payment   *)
(* transactions of each loan, and the installment plan of each service.    *)
(*                                                                         *)
(* Every lms_* function runs in one database transaction, so an action     *)
(* here is one whole RPC that succeeds; a call the function rejects raises *)
(* an exception, which rolls everything back, and is no step at all.       *)
(* Row locks are left out: they order the calls and change no result.      *)
(* Calls that carry an idempotency key are modelled in LmsIdempotency.     *)
(***************************************************************************)
EXTENDS LmsSchema

VARIABLES
  customers,  \* ids of the loan_customers rows
  loans,      \* loan id -> row
  tx,         \* transaction id -> row
  inst,       \* <<service transaction, number>> -> installment row
  nextLoan,   \* next loan id
  nextTx,     \* next transaction id
  today,      \* current_date
  backfill,   \* services the maintenance backfill read and has yet to visit
  migration,  \* rows the amount migration read and has yet to write
  unsynced    \* history: services whose plan changed outside a sync since its last sync

vars == <<customers, loans, tx, inst, nextLoan, nextTx, today, backfill, migration, unsynced>>

BackfillJob == [service : TxId, amount : Nat, balance : Nat, term : InstNo]
MigrationJob == [key : InstKey, amount : Nat]

TypeOK ==
  /\ customers \subseteq Customers
  /\ Table(loans, LoanId, Loan)
  /\ Table(tx, TxId, Tx)
  /\ Table(inst, InstKey, Installment)
  /\ nextLoan \in 1..MaxLoans + 1
  /\ nextTx \in 1..MaxTx + 1
  /\ today \in Day
  /\ backfill \subseteq BackfillJob
  /\ migration \subseteq MigrationJob
  /\ unsynced \subseteq TxId

Init ==
  /\ customers = {}
  /\ loans = <<>> /\ tx = <<>> /\ inst = <<>>
  /\ nextLoan = 1 /\ nextTx = 1
  /\ today = 0
  /\ backfill = {} /\ migration = {} /\ unsynced = {}

-----------------------------------------------------------------------------
NewLoan(c, balance, total, term) ==
  [customer |-> c, balance |-> balance, total |-> total,
   status |-> LoanStatus(balance), term |-> term]

\* A service or fee row, and a payment row on loan l.
Charge(l, type, amount) ==
  [loan |-> l, type |-> type, amount |-> amount, service |-> None, number |-> None]
Payment(l, amount, s, n) ==
  [loan |-> l, type |-> "payment", amount |-> amount, service |-> s, number |-> n]

Services(table) == {t \in DOMAIN table : table[t].type = "service"}
Payments(table) == {t \in DOMAIN table : table[t].type = "payment"}

\* The plan of s is rebuilt from the transactions tx' and the rows base.
SyncPlan(s, base) ==
  /\ inst' = Synced(base, tx', s, today)
  /\ unsynced' = unsynced \ {s}

-----------------------------------------------------------------------------
\* lms_create_customer without an initial transaction.
CreateCustomer(c) ==
  /\ c \notin customers
  /\ customers' = customers \cup {c}
  /\ UNCHANGED <<loans, tx, inst, nextLoan, nextTx, today, backfill, migration, unsynced>>

\* lms_create_customer with an initial service or fee: a loan of that amount
\* and one transaction, and no installments.
CreateCustomerWithDebt(c, type, amount) ==
  /\ c \notin customers
  /\ nextLoan <= MaxLoans /\ nextTx <= MaxTx
  /\ customers' = customers \cup {c}
  /\ loans' = Put(loans, nextLoan, NewLoan(c, amount, amount, DefaultTerm))
  /\ tx' = Put(tx, nextTx, Charge(nextLoan, type, amount))
  /\ nextLoan' = nextLoan + 1 /\ nextTx' = nextTx + 1
  /\ UNCHANGED <<inst, today, backfill, migration, unsynced>>

\* Installment n of a plan of s: the row lms_add_service inserts.
NewInstallment(due, amount) ==
  [due |-> due, amount |-> amount, paid |-> 0, status |-> "pending"]

\* The rows of an equal split of amount over term installments.
EqualPlan(s, amount, term, first) ==
  [k \in {s} \X (1..term) |-> NewInstallment(first + k[2] - 1, amount \div term)]

\* A plan as the caller gives it: its rows add up to the amount, give or take a penny.
ExplicitPlans(s, amount, first) ==
  {[k \in {s} \X (1..2) |-> NewInstallment(first + k[2] - 1, rows[k[2]])] :
     rows \in {r \in PayAmounts \X (1..amount + Penny) :
                 MaxTerm >= 2 /\ r[1] + r[2] - amount \in -Penny..Penny}}

\* lms_add_service: a loan with its service transaction, a plan over what the
\* deposit leaves, and the deposit as a payment against the service.
AddService(c, amount, deposit, term, first) ==
  LET l == nextLoan
      s == nextTx
      remaining == amount - deposit
      plans == IF remaining > 0
               THEN {EqualPlan(s, remaining, term, first)} \cup ExplicitPlans(s, remaining, first)
               ELSE {<<>>}
      depositTx == IF deposit > 0
                   THEN Put(<<>>, s + 1, Payment(l, deposit, s, None))
                   ELSE <<>>
  IN  /\ c \in customers
      /\ deposit <= amount
      /\ nextTx' = IF deposit > 0 THEN s + 2 ELSE s + 1
      /\ l <= MaxLoans /\ nextTx' <= MaxTx + 1
      /\ loans' = Put(loans, l, NewLoan(c, remaining, amount, term))
      /\ tx' = With(Put(tx, s, Charge(l, "service", amount)), depositTx)
      /\ \E plan \in plans : inst' = With(inst, plan)
      /\ nextLoan' = l + 1
      /\ UNCHANGED <<customers, today, backfill, migration, unsynced>>

\* lms_add_fee on a loan given by id.
AddFee(l, amount) ==
  /\ l \in DOMAIN loans
  /\ nextTx <= MaxTx
  /\ tx' = Put(tx, nextTx, Charge(l, "fee", amount))
  /\ loans' = Recalculated(loans, tx', l)
  /\ nextTx' = nextTx + 1
  /\ UNCHANGED <<customers, inst, nextLoan, today, backfill, migration, unsynced>>

LoansOf(c) == {l \in DOMAIN loans : loans[l].customer = c}

\* lms_add_fee on a customer: the latest loan, or a new empty one.
AddCustomerFee(c, amount) ==
  /\ c \in customers
  /\ nextTx <= MaxTx
  /\ \/ /\ LoansOf(c) # {}
        /\ \E l \in LoansOf(c) :
             /\ \A m \in LoansOf(c) : m <= l
             /\ AddFee(l, amount)
     \/ /\ LoansOf(c) = {}
        /\ nextLoan <= MaxLoans
        /\ tx' = Put(tx, nextTx, Charge(nextLoan, "fee", amount))
        /\ loans' = Recalculated(Put(loans, nextLoan, NewLoan(c, 0, 0, DefaultTerm)),
                                 tx', nextLoan)
        /\ nextLoan' = nextLoan + 1 /\ nextTx' = nextTx + 1
        /\ UNCHANGED <<customers, inst, today, backfill, migration, unsynced>>

\* lms_record_payment: a payment on the loan as a whole.
RecordPayment(l, amount) ==
  /\ l \in DOMAIN loans
  /\ nextTx <= MaxTx
  /\ tx' = Put(tx, nextTx, Payment(l, amount, None, None))
  /\ loans' = Recalculated(loans, tx', l)
  /\ nextTx' = nextTx + 1
  /\ UNCHANGED <<customers, inst, nextLoan, today, backfill, migration, unsynced>>

\* Earlier installments that are still pending are skipped by a payment for n.
SkippedBefore(s, n) ==
  [k \in DOMAIN inst |->
     IF k[1] = s /\ k[2] < n /\ inst[k].status = "pending"
     THEN [inst[k] EXCEPT !.status = "skipped", !.paid = 0]
     ELSE inst[k]]

\* Mutated form: the service is not checked to be one of the loan.
RecordInstallmentPaymentOnAnyLoan(l, s, n, temporary, amount) ==
  /\ l \in DOMAIN loans
  /\ s \in Services(tx)
  /\ temporary \/ <<s, n>> \in DOMAIN inst
  /\ nextTx <= MaxTx
  /\ tx' = Put(tx, nextTx, Payment(l, amount, s, IF temporary THEN None ELSE n))
  /\ SyncPlan(s, SkippedBefore(s, n))
  /\ loans' = Recalculated(loans, tx', l)
  /\ nextTx' = nextTx + 1
  /\ UNCHANGED <<customers, nextLoan, today, backfill, migration>>

\* lms_record_installment_payment.  The page may show a service without stored
\* installments a computed schedule; a payment for its row n carries no
\* installment id (temporary).
RecordInstallmentPayment(l, s, n, temporary, amount) ==
  /\ l \in DOMAIN loans
  /\ s \in Services(tx) /\ tx[s].loan = l
  /\ temporary \/ <<s, n>> \in DOMAIN inst
  /\ nextTx <= MaxTx
  /\ tx' = Put(tx, nextTx, Payment(l, amount, s, IF temporary THEN None ELSE n))
  /\ SyncPlan(s, SkippedBefore(s, n))
  /\ loans' = Recalculated(loans, tx', l)
  /\ nextTx' = nextTx + 1
  /\ UNCHANGED <<customers, nextLoan, today, backfill, migration>>

\* The plan a changed payment belongs to, if any, follows it.
PlanFollows(payment) ==
  IF payment.service # None
  THEN SyncPlan(payment.service, inst)
  ELSE UNCHANGED <<inst, unsynced>>

\* lms_update_payment
UpdatePayment(t, amount) ==
  /\ t \in Payments(tx)
  /\ tx' = [tx EXCEPT ![t].amount = amount]
  /\ PlanFollows(tx[t])
  /\ loans' = Recalculated(loans, tx', tx[t].loan)
  /\ UNCHANGED <<customers, nextLoan, nextTx, today, backfill, migration>>

\* Mutated forms: the loan, or the plan, is not derived again.
DeletePaymentOnly(t) ==
  /\ t \in Payments(tx)
  /\ tx' = Without(tx, {t})
  /\ PlanFollows(tx[t])
  /\ UNCHANGED <<customers, loans, nextLoan, nextTx, today, backfill, migration>>
DeletePaymentBesidePlan(t) ==
  /\ t \in Payments(tx)
  /\ tx' = Without(tx, {t})
  /\ loans' = Recalculated(loans, tx', tx[t].loan)
  /\ UNCHANGED <<customers, inst, nextLoan, nextTx, today, backfill, migration, unsynced>>

\* lms_delete_payment
DeletePayment(t) ==
  /\ t \in Payments(tx)
  /\ tx' = Without(tx, {t})
  /\ PlanFollows(tx[t])
  /\ loans' = Recalculated(loans, tx', tx[t].loan)
  /\ UNCHANGED <<customers, nextLoan, nextTx, today, backfill, migration>>

\* lms_delete_installment_plan: the service transaction goes with its plan.
DeleteInstallmentPlan(s) ==
  /\ s \in Services(tx)
  /\ \A t \in Payments(tx) : tx[t].service # s
  /\ tx' = Without(tx, {s})
  /\ inst' = Without(inst, PlanOf(inst, s))
  /\ loans' = Recalculated(loans, tx', tx[s].loan)
  /\ unsynced' = unsynced \ {s}
  /\ UNCHANGED <<customers, nextLoan, nextTx, today, backfill, migration>>

\* lms_skip_installment
SkipInstallment(k) ==
  /\ k \in DOMAIN inst
  /\ UNCHANGED tx
  /\ SyncPlan(k[1], [inst EXCEPT ![k].status = "skipped", ![k].paid = 0])
  /\ loans' = Recalculated(loans, tx, tx[k[1]].loan)
  /\ UNCHANGED <<customers, nextLoan, nextTx, today, backfill, migration>>

\* lms_update_installments: a batch of rows gets new dates and amounts; no
\* status, no other row and no loan follows.
UpdateInstallments(change) ==
  /\ DOMAIN change # {} /\ DOMAIN change \subseteq DOMAIN inst
  /\ inst' = [k \in DOMAIN inst |->
                IF k \in DOMAIN change
                THEN [inst[k] EXCEPT !.due = change[k].due, !.amount = change[k].amount]
                ELSE inst[k]]
  /\ unsynced' = unsynced \cup {k[1] : k \in DOMAIN change}
  /\ UNCHANGED <<customers, loans, tx, nextLoan, nextTx, today, backfill, migration>>

\* lms_delete_customer: the customer's whole graph.
DeleteCustomer(c) ==
  LET gone == {t \in DOMAIN tx : tx[t].loan \in LoansOf(c)}
  IN  /\ c \in customers
      /\ customers' = customers \ {c}
      /\ loans' = Without(loans, LoansOf(c))
      /\ tx' = Without(tx, gone)
      /\ inst' = Without(inst, {k \in DOMAIN inst : k[1] \in gone})
      /\ unsynced' = unsynced \ gone
      /\ UNCHANGED <<nextLoan, nextTx, today, backfill, migration>>

\* lms_clear_all_data
ClearAllData ==
  /\ customers # {}
  /\ customers' = {} /\ loans' = <<>> /\ tx' = <<>> /\ inst' = <<>>
  /\ unsynced' = {}
  /\ UNCHANGED <<nextLoan, nextTx, today, backfill, migration>>

\* lms_wipe_installments: installment_id of the payments becomes null.
WipeInstallments ==
  /\ DOMAIN inst # {}
  /\ inst' = <<>>
  /\ tx' = [t \in DOMAIN tx |-> [tx[t] EXCEPT !.number = None]]
  /\ unsynced' = {}
  /\ UNCHANGED <<customers, loans, nextLoan, nextTx, today, backfill, migration>>

-----------------------------------------------------------------------------
(* POST /api/admin/create-installments: reads every service with its loan, *)
(* then visits them one by one, interleaved with the RPCs.                 *)

BackfillRead ==
  /\ "backfill" \in Maintenance
  /\ backfill = {} /\ Services(tx) # {}
  /\ backfill' = {[service |-> s, amount |-> tx[s].amount,
                   balance |-> loans[tx[s].loan].balance,
                   term |-> loans[tx[s].loan].term] : s \in Services(tx)}
  /\ UNCHANGED <<customers, loans, tx, inst, nextLoan, nextTx, today, migration, unsynced>>

\* The amount the plan is drawn up for: a balance of 0 is falsy.
BackfillAmount(job) == IF job.balance # 0 THEN job.balance ELSE job.amount

\* A service that has installments by now is skipped, and the insert fails on
\* its foreign key when the service is gone.
BackfillVisit(job, first) ==
  /\ job \in backfill
  /\ backfill' = backfill \ {job}
  /\ \/ /\ PlanOf(inst, job.service) # {} \/ job.service \notin DOMAIN tx
        /\ UNCHANGED <<inst, unsynced>>
     \/ /\ PlanOf(inst, job.service) = {} /\ job.service \in DOMAIN tx
        /\ inst' = With(inst, EqualPlan(job.service, BackfillAmount(job), job.term, first))
        /\ unsynced' = unsynced \cup {job.service}
  /\ UNCHANGED <<customers, loans, tx, nextLoan, nextTx, today, migration>>

(* POST /api/admin/migrate-installment-amounts: reads every installment,   *)
(* then writes the amounts of the closed ones, one by one.                 *)

MigratedAmount(row) == IF row.status = "paid" THEN row.paid ELSE 0

MigrationRead ==
  /\ "migration" \in Maintenance
  /\ migration = {} /\ DOMAIN inst # {}
  /\ migration' =
       {[key |-> k, amount |-> MigratedAmount(inst[k])] : k \in
          {j \in DOMAIN inst : /\ \/ inst[j].status = "paid" /\ inst[j].paid > 0
                                 \/ inst[j].status = "skipped"
                              /\ inst[j].amount # MigratedAmount(inst[j])}}
  /\ UNCHANGED <<customers, loans, tx, inst, nextLoan, nextTx, today, backfill, unsynced>>

\* A row that is gone by now is updated to no effect.
MigrationWrite(job) ==
  /\ job \in migration
  /\ migration' = migration \ {job}
  /\ inst' = [k \in DOMAIN inst |->
                IF k = job.key THEN [inst[k] EXCEPT !.amount = job.amount] ELSE inst[k]]
  /\ unsynced' = IF job.key \in DOMAIN inst THEN unsynced \cup {job.key[1]} ELSE unsynced
  /\ UNCHANGED <<customers, loans, tx, nextLoan, nextTx, today, backfill>>

NextDay ==
  /\ today < MaxDay
  /\ today' = today + 1
  /\ UNCHANGED <<customers, loans, tx, inst, nextLoan, nextTx, backfill, migration, unsynced>>

-----------------------------------------------------------------------------
Changes(keys) == [keys -> [due : Day, amount : DebtAmounts]]

Next ==
  \/ \E c \in Customers : CreateCustomer(c) \/ DeleteCustomer(c)
  \/ \E c \in Customers, type \in {"service", "fee"}, amount \in DebtAmounts :
       CreateCustomerWithDebt(c, type, amount)
  \/ \E c \in Customers, amount \in DebtAmounts, deposit \in PayAmounts \cup {0},
        term \in InstNo, first \in Day : AddService(c, amount, deposit, term, first)
  \/ \E l \in LoanId, amount \in DebtAmounts : AddFee(l, amount)
  \/ \E c \in Customers, amount \in DebtAmounts : AddCustomerFee(c, amount)
  \/ \E l \in LoanId, amount \in PayAmounts : RecordPayment(l, amount)
  \/ \E l \in LoanId, s \in TxId, n \in InstNo, temporary \in BOOLEAN, amount \in PayAmounts :
       RecordInstallmentPayment(l, s, n, temporary, amount)
  \/ \E t \in TxId, amount \in PayAmounts : UpdatePayment(t, amount)
  \/ \E t \in TxId : DeletePayment(t) \/ DeleteInstallmentPlan(t)
  \/ \E k \in InstKey : SkipInstallment(k)
  \/ \E keys \in SUBSET (DOMAIN inst) : \E change \in Changes(keys) : UpdateInstallments(change)
  \/ ClearAllData \/ WipeInstallments
  \/ BackfillRead \/ \E job \in backfill, first \in Day : BackfillVisit(job, first)
  \/ MigrationRead \/ \E job \in migration : MigrationWrite(job)
  \/ NextDay

Spec == Init /\ [][Next]_vars

-----------------------------------------------------------------------------
(* Correctness.                                                            *)

Derived(table, rows, l) ==
  /\ table[l].balance = Balance(rows, l)
  /\ table[l].total = Debt(rows, l)
  /\ table[l].status = LoanStatus(Balance(rows, l))

\* The stored balance, debt and status of a loan are those its transactions
\* give, whichever RPC touched it last (lms_recalculate_loan).
LoanMatchesLedger == \A l \in DOMAIN loans : Derived(loans, tx, l)

\* amount_paid of an installment is the sum of the payments that name it: "edits
\* and deletes cannot leave the schedule stale" (lms_sync_installment_plan).
InstallmentMatchesLedger ==
  \A k \in DOMAIN inst : inst[k].paid = PaidForInstallment(tx, k[1], k[2])

\* What the open installments of a service still ask for is exactly what is
\* owed on the service, unless its amounts were edited since the last sync; only
\* a plan that nobody has paid or skipped yet may be the penny off that
\* lms_add_service tolerates.
StillAsked(s) ==
  SumTo([n \in InstNo |-> IF <<s, n>> \in OpenIn(inst, s)
                          THEN inst[<<s, n>>].amount - inst[<<s, n>>].paid ELSE 0],
        MaxTerm)
Untouched(s) == \A k \in PlanOf(inst, s) : inst[k].status = "pending" /\ inst[k].paid = 0
OpenRowsCarryDebt ==
  \A s \in Services(tx) \ unsynced :
    OpenIn(inst, s) # {} =>
      \/ StillAsked(s) = Owed(tx, s)
      \/ Untouched(s) /\ StillAsked(s) - Owed(tx, s) \in -Penny..Penny

\* An installment is shown as paid only when the ledger covers it, and a
\* covered one is never left open, unless its amount was edited since.
PaidMeansCovered ==
  \A k \in DOMAIN inst :
    k[1] \notin unsynced /\ inst[k].status # "skipped" =>
      (inst[k].status = "paid" <=> inst[k].paid >= inst[k].amount /\ inst[k].amount > 0)

\* The foreign keys, and the one no constraint declares: a payment for a
\* service is a payment on that service's own loan.
References ==
  /\ \A l \in DOMAIN loans : loans[l].customer \in customers
  /\ \A t \in DOMAIN tx :
       /\ tx[t].loan \in DOMAIN loans
       /\ tx[t].service # None =>
            /\ tx[t].service \in Services(tx)
            /\ tx[tx[t].service].loan = tx[t].loan
       /\ tx[t].number # None => <<tx[t].service, tx[t].number>> \in DOMAIN inst
  /\ \A k \in DOMAIN inst : k[1] \in Services(tx)

\* Every id in use was handed out before the next one, so that a new loan never
\* inherits an older transaction (the code's fresh uuids).
FreshIds ==
  /\ \A l \in DOMAIN loans : l < nextLoan
  /\ \A t \in DOMAIN tx : t < nextTx

\* Only payments point at a service, and what the backfill has yet to visit
\* was a service when it was read.
OnlyPaymentsPoint ==
  /\ \A t \in DOMAIN tx : tx[t].type # "payment" => tx[t].service = None /\ tx[t].number = None
  /\ \A job \in backfill :
       job.service < nextTx /\ (job.service \in DOMAIN tx => job.service \in Services(tx))

\* The inductive invariant.  Types need the references (a plan is rebuilt from
\* the service its payment names), and the loans need the fresh ids.
LedgerInv == TypeOK /\ FreshIds /\ References /\ OnlyPaymentsPoint /\ LoanMatchesLedger

\* A skipped installment never comes back, whatever is later paid, edited or
\* deleted ("preserving an intentional skipped status").
SkippedStaysSkipped ==
  [][\A k \in DOMAIN inst \cap DOMAIN inst' :
       inst[k].status = "skipped" => inst'[k].status = "skipped"]_vars
=============================================================================
