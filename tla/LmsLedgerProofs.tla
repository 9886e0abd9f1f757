--------------------------- MODULE LmsLedgerProofs ---------------------------
(***************************************************************************)
(* What holds of the loan ledger for every number of customers, loans,     *)
(* transactions and installments, and for all amounts; what the open       *)
(* installments ask for, for the amounts every plan length divides.        *)
(***************************************************************************)
EXTENDS LmsLedger, TLAPS, NaturalOrder, FiniteSetTheorems

-----------------------------------------------------------------------------
(* The sums over the transaction table.                                    *)

LEMMA LedgerType ==
  ASSUME NEW rows, Table(rows, TxId, Tx), NEW l
  PROVE  Debt(rows, l) \in Nat /\ Paid(rows, l) \in Nat /\ Balance(rows, l) \in Nat
<1> DEFINE debts == [t \in TxId |->
             IF t \in DOMAIN rows /\ rows[t].loan = l /\ rows[t].type \in {"service", "fee"}
             THEN rows[t].amount ELSE 0]
           paids == [t \in TxId |->
             IF t \in DOMAIN rows /\ rows[t].loan = l /\ rows[t].type = "payment"
             THEN rows[t].amount ELSE 0]
<1>1. debts \in [1..MaxTx -> Nat] /\ paids \in [1..MaxTx -> Nat] /\ MaxTx \in Nat
  BY LmsBounds DEF Table, Tx, TxId
<1>2. SumTo(debts, MaxTx) \in Nat /\ SumTo(paids, MaxTx) \in Nat
  <2> HIDE DEF debts, paids
  <2> QED BY <1>1, SumToType
<1>3. Debt(rows, l) = SumTo(debts, MaxTx) /\ Paid(rows, l) = SumTo(paids, MaxTx)
  BY DEF Debt, Paid, Total
<1> HIDE DEF debts, paids
<1> QED BY <1>2, <1>3 DEF Balance, AtLeastZero

\* Two tables hold the same transactions of loan l.
SameRows(a, b, l) ==
  \A t \in TxId :
    /\ (t \in DOMAIN a /\ a[t].loan = l) <=> (t \in DOMAIN b /\ b[t].loan = l)
    /\ t \in DOMAIN a /\ a[t].loan = l => a[t].type = b[t].type /\ a[t].amount = b[t].amount

\* Two tables with the same rows for a loan give it the same debt and payments.
LEMMA LedgerSame ==
  ASSUME NEW a, NEW b, NEW l, SameRows(a, b, l)
  PROVE  Debt(a, l) = Debt(b, l) /\ Paid(a, l) = Paid(b, l) /\ Balance(a, l) = Balance(b, l)
<1> DEFINE debts(rows) == [t \in TxId |->
             IF t \in DOMAIN rows /\ rows[t].loan = l /\ rows[t].type \in {"service", "fee"}
             THEN rows[t].amount ELSE 0]
           paids(rows) == [t \in TxId |->
             IF t \in DOMAIN rows /\ rows[t].loan = l /\ rows[t].type = "payment"
             THEN rows[t].amount ELSE 0]
<1>1. debts(a) = debts(b) /\ paids(a) = paids(b)
  BY DEF SameRows
<1>2. /\ Debt(a, l) = Total(debts(a)) /\ Debt(b, l) = Total(debts(b))
      /\ Paid(a, l) = Total(paids(a)) /\ Paid(b, l) = Total(paids(b))
  BY DEF Debt, Paid
<1> HIDE DEF debts, paids
<1> QED BY <1>1, <1>2 DEF Balance

\* A loan with one charge owes it.
LEMMA OneCharge ==
  ASSUME NEW rows, Table(rows, TxId, Tx), NEW l, NEW s \in DOMAIN rows, rows[s].loan = l,
         rows[s].type \in {"service", "fee"},
         \A t \in DOMAIN rows : t # s /\ rows[t].loan = l => rows[t].type = "payment"
  PROVE  Debt(rows, l) = rows[s].amount
<1> DEFINE debts == [t \in TxId |->
             IF t \in DOMAIN rows /\ rows[t].loan = l /\ rows[t].type \in {"service", "fee"}
             THEN rows[t].amount ELSE 0]
<1>1. debts \in [1..MaxTx -> Nat] /\ MaxTx \in Nat /\ s \in 1..MaxTx
  BY LmsBounds DEF Table, Tx, TxId
<1>2. debts[s] = rows[s].amount /\ \A t \in 1..MaxTx : t # s => debts[t] = 0
  BY <1>1 DEF TxId
<1>3. Debt(rows, l) = SumTo(debts, MaxTx)
  BY DEF Debt, Total
<1> HIDE DEF debts
<1> QED BY <1>1, <1>2, <1>3, SumToPoint

\* What has been paid on a loan with one payment, and on a loan with none.
LEMMA OnePayment ==
  ASSUME NEW rows, Table(rows, TxId, Tx), NEW l, NEW p \in DOMAIN rows, rows[p].loan = l,
         rows[p].type = "payment",
         \A t \in DOMAIN rows : t # p /\ rows[t].loan = l => rows[t].type # "payment"
  PROVE  Paid(rows, l) = rows[p].amount
<1> DEFINE paids == [t \in TxId |->
             IF t \in DOMAIN rows /\ rows[t].loan = l /\ rows[t].type = "payment"
             THEN rows[t].amount ELSE 0]
<1>1. paids \in [1..MaxTx -> Nat] /\ MaxTx \in Nat /\ p \in 1..MaxTx
  BY LmsBounds DEF Table, Tx, TxId
<1>2. paids[p] = rows[p].amount /\ \A t \in 1..MaxTx : t # p => paids[t] = 0
  BY <1>1 DEF TxId
<1>3. Paid(rows, l) = SumTo(paids, MaxTx)
  BY DEF Paid, Total
<1> HIDE DEF paids
<1> QED BY <1>1, <1>2, <1>3, SumToPoint

LEMMA NoPayment ==
  ASSUME NEW rows, NEW l, \A t \in DOMAIN rows : rows[t].loan = l => rows[t].type # "payment"
  PROVE  Paid(rows, l) = 0
<1> DEFINE paids == [t \in TxId |->
             IF t \in DOMAIN rows /\ rows[t].loan = l /\ rows[t].type = "payment"
             THEN rows[t].amount ELSE 0]
<1>1. paids \in [1..MaxTx -> Nat] /\ MaxTx \in Nat \ {0} /\ \A t \in 1..MaxTx : paids[t] = 0
  BY LmsBounds DEF TxId
<1>2. Paid(rows, l) = SumTo(paids, MaxTx)
  BY DEF Paid, Total
<1> HIDE DEF paids
<1> QED BY <1>1, <1>2, SumToZero

LEMMA InstallmentSumType ==
  ASSUME NEW rows, Table(rows, TxId, Tx), NEW s, NEW n
  PROVE  PaidForInstallment(rows, s, n) \in Nat /\ PaidForService(rows, s) \in Nat
<1> DEFINE byRow == [t \in TxId |->
             IF t \in DOMAIN rows /\ rows[t].service = s /\ rows[t].number = n
                /\ rows[t].type = "payment"
             THEN rows[t].amount ELSE 0]
           byPlan == [t \in TxId |->
             IF t \in DOMAIN rows /\ rows[t].service = s /\ rows[t].type = "payment"
             THEN rows[t].amount ELSE 0]
<1>1. byRow \in [1..MaxTx -> Nat] /\ byPlan \in [1..MaxTx -> Nat] /\ MaxTx \in Nat
  BY LmsBounds DEF Table, Tx, TxId
<1>2. SumTo(byRow, MaxTx) \in Nat /\ SumTo(byPlan, MaxTx) \in Nat
  <2> HIDE DEF byRow, byPlan
  <2> QED BY <1>1, SumToType
<1>3. /\ PaidForInstallment(rows, s, n) = SumTo(byRow, MaxTx)
      /\ PaidForService(rows, s) = SumTo(byPlan, MaxTx)
  BY DEF PaidForInstallment, PaidForService, Total
<1> HIDE DEF byRow, byPlan
<1> QED BY <1>2, <1>3

-----------------------------------------------------------------------------
(* Operations on tables keep their types.                                  *)

LEMMA PutType ==
  ASSUME NEW table, NEW ids, NEW rows, Table(table, ids, rows),
         NEW id \in ids, NEW row \in rows
  PROVE  Table(Put(table, id, row), ids, rows)
BY DEF Table, Put

LEMMA WithoutType ==
  ASSUME NEW table, NEW ids, NEW rows, Table(table, ids, rows), NEW gone
  PROVE  Table(Without(table, gone), ids, rows)
BY DEF Table, Without

LEMMA WithType ==
  ASSUME NEW table, NEW extra, NEW ids, NEW rows,
         Table(table, ids, rows), Table(extra, ids, rows)
  PROVE  Table(With(table, extra), ids, rows)
BY DEF Table, With

LEMMA RecalculatedType ==
  ASSUME NEW table, Table(table, LoanId, Loan), NEW rows, Table(rows, TxId, Tx),
         NEW l \in LoanId
  PROVE  Table(Recalculated(table, rows, l), LoanId, Loan)
<1>1. Debt(rows, l) \in Nat /\ Balance(rows, l) \in Nat
  BY LedgerType
<1> QED BY <1>1 DEF Table, Loan, Recalculated, LoanStatus

LEMMA DivNat ==
  ASSUME NEW a \in Nat, NEW b \in Nat \ {0}
  PROVE  a \div b \in Nat
OBVIOUS

LEMMA RestatusedType ==
  ASSUME NEW table, Table(table, InstKey, Installment), NEW s, NEW day
  PROVE  Table(Restatused(table, s, day), InstKey, Installment)
<1>1. \A row \in Installment :
        StatusOf(row, day) \in {"pending", "partial", "overdue", "paid", "skipped"}
  BY DEF StatusOf
<1> QED BY <1>1 DEF Table, Installment, Restatused

LEMMA RepaidType ==
  ASSUME NEW table, Table(table, InstKey, Installment),
         NEW rows, Table(rows, TxId, Tx), NEW s
  PROVE  Table(Repaid(table, rows, s), InstKey, Installment)
<1>1. \A n : PaidForInstallment(rows, s, n) \in Nat
  BY InstallmentSumType
<1> QED BY <1>1 DEF Table, Installment, Repaid

LEMMA RedistributedType ==
  ASSUME NEW table, Table(table, InstKey, Installment),
         NEW rows, Table(rows, TxId, Tx), NEW s \in DOMAIN rows
  PROVE  Table(Redistributed(table, rows, s), InstKey, Installment)
<1> DEFINE open == OpenIn(table, s)
<1>1. IsFiniteSet(open)
  <2>1. IsFiniteSet(TxId) /\ IsFiniteSet(InstNo)
    BY LmsBounds, FS_Interval DEF TxId, InstNo
  <2>2. IsFiniteSet(InstKey)
    BY <2>1, FS_Product DEF InstKey
  <2>3. open \in SUBSET InstKey
    BY DEF Table, OpenIn, PlanOf
  <2> QED BY <2>2, <2>3, FS_Subset
<1>2. Owed(rows, s) \in Nat
  BY InstallmentSumType DEF Owed, AtLeastZero, Table, Tx
<1>3. CASE open = {}
  BY <1>3 DEF Table, Redistributed
<1>4. CASE open # {}
  <2>1. Cardinality(open) \in Nat \ {0}
    BY <1>1, <1>4, FS_CardinalityType, FS_EmptySet
  <2>2. Owed(rows, s) \div Cardinality(open) \in Nat
    BY <1>2, <2>1, DivNat
  <2>3. \A k \in open : k \in DOMAIN table
    BY DEF OpenIn, PlanOf
  <2> HIDE DEF open
  <2>4. Redistributed(table, rows, s) =
          [k \in DOMAIN table |->
             IF k \in open
             THEN [table[k] EXCEPT !.amount = table[k].paid + (Owed(rows, s) \div Cardinality(open))]
             ELSE table[k]]
    BY DEF Redistributed, open
  <2>5. \A k \in open :
          table[k].paid + (Owed(rows, s) \div Cardinality(open)) \in Nat
    BY <2>2, <2>3 DEF Table, Installment
  <2> QED BY <2>4, <2>5 DEF Table, Installment
<1> QED BY <1>3, <1>4

LEMMA SyncedType ==
  ASSUME NEW table, Table(table, InstKey, Installment),
         NEW rows, Table(rows, TxId, Tx), NEW s \in DOMAIN rows, NEW day
  PROVE  Table(Synced(table, rows, s, day), InstKey, Installment)
BY RepaidType, RestatusedType, RedistributedType DEF Synced

-----------------------------------------------------------------------------
(* Loans that a change of the transactions leaves in step with them.       *)

\* A loan that keeps its row and its transactions stays derived.
LEMMA OthersKept ==
  ASSUME NEW before, NEW a, NEW after, NEW b, NEW m,
         Derived(before, a, m), after[m] = before[m], SameRows(a, b, m)
  PROVE  Derived(after, b, m)
BY LedgerSame DEF Derived

\* Deriving loan l again puts its row in step with the transactions, and leaves
\* the other rows alone.
LEMMA RecalculatedRow ==
  ASSUME NEW before, Table(before, LoanId, Loan), NEW rows, NEW l \in DOMAIN before
  PROVE  LET after == Recalculated(before, rows, l)
         IN  /\ DOMAIN after = DOMAIN before
             /\ \A m \in DOMAIN before : m # l => after[m] = before[m]
             /\ Derived(after, rows, l) /\ after[l].customer = before[l].customer
<1> DEFINE after == Recalculated(before, rows, l)
<1>1. DOMAIN after = DOMAIN before /\ \A m \in DOMAIN before : m # l => after[m] = before[m]
  BY DEF Recalculated
<1>2. /\ after[l].balance = Balance(rows, l) /\ after[l].total = Debt(rows, l)
      /\ after[l].status = LoanStatus(Balance(rows, l))
      /\ after[l].customer = before[l].customer
  BY DEF Recalculated, Table, Loan
<1> HIDE DEF after
<1>3. Derived(after, rows, l)
  BY <1>2 DEF Derived
<1> QED BY <1>1, <1>2, <1>3 DEF after

\* An RPC that changes transactions of one loan only, and derives that loan
\* again, leaves every loan in step.
LEMMA RecalculatedStep ==
  ASSUME LedgerInv, NEW l \in DOMAIN loans, \A m : m # l => SameRows(tx, tx', m),
         loans' = Recalculated(loans, tx', l)
  PROVE  /\ DOMAIN loans' = DOMAIN loans
         /\ \A m \in DOMAIN loans' : loans'[m].customer = loans[m].customer
         /\ LoanMatchesLedger'
<1>1. /\ DOMAIN loans' = DOMAIN loans
      /\ \A m \in DOMAIN loans : m # l => loans'[m] = loans[m]
      /\ Derived(loans', tx', l) /\ loans'[l].customer = loans[l].customer
  BY RecalculatedRow DEF LedgerInv, TypeOK
<1>2. \A m \in DOMAIN loans : m # l => Derived(loans', tx', m)
  BY <1>1, OthersKept DEF LedgerInv, LoanMatchesLedger
<1> QED BY <1>1, <1>2 DEF LoanMatchesLedger

\* What inserting one transaction does to the table.
LEMMA PostedRow ==
  ASSUME LedgerInv, NEW row \in Tx, nextTx <= MaxTx, tx' = Put(tx, nextTx, row)
  PROVE  /\ nextTx \in TxId /\ nextTx \notin DOMAIN tx
         /\ DOMAIN tx' = DOMAIN tx \cup {nextTx}
         /\ tx'[nextTx] = row
         /\ \A t \in DOMAIN tx : tx'[t] = tx[t]
         /\ Table(tx', TxId, Tx)
         /\ \A m : m # row.loan => SameRows(tx, tx', m)
<1>1. nextTx \in TxId /\ nextTx \notin DOMAIN tx
  BY LmsBounds DEF LedgerInv, TypeOK, FreshIds, Table, TxId
<1>2. /\ DOMAIN tx' = DOMAIN tx \cup {nextTx} /\ tx'[nextTx] = row
      /\ \A t \in DOMAIN tx : tx'[t] = tx[t]
  BY <1>1 DEF Put
<1>3. Table(tx', TxId, Tx)
  BY <1>1, PutType DEF LedgerInv, TypeOK
<1>4. \A m : m # row.loan => SameRows(tx, tx', m)
  BY <1>1, <1>2 DEF SameRows
<1> QED BY <1>1, <1>2, <1>3, <1>4

-----------------------------------------------------------------------------
(* Each action keeps the invariant.                                        *)

LEMMA CreateCustomerStep ==
  ASSUME LedgerInv, NEW c \in Customers, CreateCustomer(c)
  PROVE  LedgerInv'
<1> USE DEF LedgerInv, CreateCustomer
<1>1. TypeOK'
  BY DEF TypeOK
<1>2. FreshIds' /\ References'
  BY DEF FreshIds, References, Services
<1>3. OnlyPaymentsPoint' /\ LoanMatchesLedger'
  BY DEF OnlyPaymentsPoint, LoanMatchesLedger, Services
<1> QED BY <1>1, <1>2, <1>3

\* A transaction of an existing loan is inserted, the loan is derived again, and
\* the rows of the installment table stay the same rows: the common part of
\* lms_add_fee, lms_record_payment and lms_record_installment_payment.
LEMMA PostedStep ==
  ASSUME LedgerInv, NEW l \in DOMAIN loans, NEW row \in Tx, row.loan = l,
         row.type # "payment" => row.service = None /\ row.number = None,
         row.service # None => row.service \in Services(tx) /\ tx[row.service].loan = l,
         row.number # None => <<row.service, row.number>> \in DOMAIN inst,
         nextTx <= MaxTx, tx' = Put(tx, nextTx, row),
         loans' = Recalculated(loans, tx', l), nextTx' = nextTx + 1,
         DOMAIN inst' = DOMAIN inst, Table(inst', InstKey, Installment),
         unsynced' \subseteq TxId,
         UNCHANGED <<customers, nextLoan, today, backfill, migration>>
  PROVE  LedgerInv'
<1> USE DEF LedgerInv
<1>1. /\ nextTx \in TxId /\ nextTx \notin DOMAIN tx
      /\ DOMAIN tx' = DOMAIN tx \cup {nextTx} /\ tx'[nextTx] = row
      /\ \A t \in DOMAIN tx : tx'[t] = tx[t]
      /\ Table(tx', TxId, Tx)
      /\ \A m : m # row.loan => SameRows(tx, tx', m)
  BY PostedRow
<1>2. l \in LoanId /\ Table(loans, LoanId, Loan)
  BY DEF TypeOK, Table
<1>3. TypeOK'
  <2>1. Table(loans', LoanId, Loan)
    BY <1>1, <1>2, RecalculatedType
  <2>2. nextTx' \in 1..MaxTx + 1
    BY <1>1, LmsBounds DEF TxId
  <2> QED BY <1>1, <2>1, <2>2 DEF TypeOK
<1>4. /\ DOMAIN loans' = DOMAIN loans
      /\ \A m \in DOMAIN loans' : loans'[m].customer = loans[m].customer
  BY <1>1, RecalculatedStep
<1>5. LoanMatchesLedger'
  BY <1>1, RecalculatedStep
<1>6. FreshIds'
  BY <1>1, <1>4 DEF FreshIds, TxId, TypeOK, Table
<1>7. Services(tx) \subseteq Services(tx')
  BY <1>1 DEF Services
<1>8. References'
  <2>1. \A m \in DOMAIN loans' : loans'[m].customer \in customers'
    BY <1>4 DEF References
  <2>2. \A t \in DOMAIN tx : tx'[t].loan \in DOMAIN loans'
    BY <1>1, <1>4 DEF References
  <2>3. \A t \in DOMAIN tx' : tx'[t].service # None =>
          tx'[t].service \in Services(tx') /\ tx'[tx'[t].service].loan = tx'[t].loan
    <3>1. \A t \in DOMAIN tx' : tx'[t].service # None =>
            tx'[t].service \in Services(tx) /\ tx[tx'[t].service].loan = tx'[t].loan
      BY <1>1 DEF References
    <3>2. Services(tx) \subseteq DOMAIN tx
      BY DEF Services
    <3> QED BY <1>1, <1>7, <3>1, <3>2
  <2>4. \A t \in DOMAIN tx' : tx'[t].number # None => <<tx'[t].service, tx'[t].number>> \in DOMAIN inst'
    BY <1>1 DEF References
  <2>5. \A k \in DOMAIN inst' : k[1] \in Services(tx')
    BY <1>7 DEF References
  <2> QED BY <1>1, <1>4, <2>1, <2>2, <2>3, <2>4, <2>5 DEF References
<1>9. OnlyPaymentsPoint'
  <2>1. \A t \in DOMAIN tx' : tx'[t].type # "payment" => tx'[t].service = None /\ tx'[t].number = None
    BY <1>1 DEF OnlyPaymentsPoint
  <2>2. \A job \in backfill' : job.service < nextTx' /\ (job.service \in DOMAIN tx' => job.service \in Services(tx'))
    BY <1>1, <1>7 DEF OnlyPaymentsPoint, TypeOK, BackfillJob, TxId
  <2> QED BY <2>1, <2>2 DEF OnlyPaymentsPoint
<1> QED BY <1>3, <1>5, <1>6, <1>8, <1>9

LEMMA AddFeeStep ==
  ASSUME LedgerInv, NEW l \in LoanId, NEW amount \in DebtAmounts, AddFee(l, amount)
  PROVE  LedgerInv'
<1>1. Charge(l, "fee", amount) \in Tx
  BY LmsAmounts DEF Charge, Tx
<1>2. UNCHANGED <<customers, inst, nextLoan, today, backfill, migration, unsynced>>
  BY DEF AddFee
<1>3. Table(inst', InstKey, Installment) /\ unsynced' \subseteq TxId
  BY <1>2 DEF LedgerInv, TypeOK
<1> QED BY <1>1, <1>2, <1>3, PostedStep DEF AddFee, Charge

LEMMA RecordPaymentStep ==
  ASSUME LedgerInv, NEW l \in LoanId, NEW amount \in PayAmounts, RecordPayment(l, amount)
  PROVE  LedgerInv'
<1>1. Payment(l, amount, None, None) \in Tx
  BY LmsAmounts DEF Payment, Tx
<1>2. UNCHANGED <<customers, inst, nextLoan, today, backfill, migration, unsynced>>
  BY DEF RecordPayment
<1>3. Table(inst', InstKey, Installment) /\ unsynced' \subseteq TxId
  BY <1>2 DEF LedgerInv, TypeOK
<1> QED BY <1>1, <1>2, <1>3, PostedStep DEF RecordPayment, Payment

LEMMA SkippedBeforeType ==
  ASSUME LedgerInv, NEW s, NEW n
  PROVE  Table(SkippedBefore(s, n), InstKey, Installment) /\ DOMAIN SkippedBefore(s, n) = DOMAIN inst
BY DEF LedgerInv, TypeOK, Table, Installment, SkippedBefore

LEMMA SyncedDomain ==
  ASSUME NEW table, NEW rows, NEW s, NEW day
  PROVE  DOMAIN Synced(table, rows, s, day) = DOMAIN table
<1>1. \A t : DOMAIN Repaid(t, rows, s) = DOMAIN t /\ DOMAIN Redistributed(t, rows, s) = DOMAIN t
  BY DEF Repaid, Redistributed
<1>2. \A t : DOMAIN Restatused(t, s, day) = DOMAIN t
  BY DEF Restatused
<1> QED BY <1>1, <1>2 DEF Synced

LEMMA RecordInstallmentPaymentStep ==
  ASSUME LedgerInv, NEW l \in LoanId, NEW s \in TxId, NEW n \in InstNo,
         NEW temporary \in BOOLEAN, NEW amount \in PayAmounts,
         RecordInstallmentPayment(l, s, n, temporary, amount)
  PROVE  LedgerInv'
<1> DEFINE row == Payment(l, amount, s, IF temporary THEN None ELSE n)
<1>1. row \in Tx
  BY LmsAmounts DEF Payment, Tx
<1>2. /\ l \in DOMAIN loans /\ s \in Services(tx) /\ tx[s].loan = l
      /\ temporary \/ <<s, n>> \in DOMAIN inst
      /\ nextTx <= MaxTx /\ tx' = Put(tx, nextTx, row)
      /\ inst' = Synced(SkippedBefore(s, n), tx', s, today) /\ unsynced' = unsynced \ {s}
      /\ loans' = Recalculated(loans, tx', l) /\ nextTx' = nextTx + 1
      /\ UNCHANGED <<customers, nextLoan, today, backfill, migration>>
  BY DEF RecordInstallmentPayment, SyncPlan
<1>3. /\ row.loan = l /\ row.type = "payment" /\ row.service = s
      /\ row.number # None => row.number = n /\ <<s, n>> \in DOMAIN inst
  BY <1>2 DEF Payment
<1> HIDE DEF row
<1>4. Table(tx', TxId, Tx) /\ s \in DOMAIN tx'
  BY <1>1, <1>2, PostedRow DEF Services
<1>5. Table(inst', InstKey, Installment) /\ DOMAIN inst' = DOMAIN inst
  BY <1>2, <1>4, SkippedBeforeType, SyncedType, SyncedDomain
<1>6. unsynced' \subseteq TxId
  BY <1>2 DEF LedgerInv, TypeOK
<1> QED BY <1>1, <1>2, <1>3, <1>5, <1>6, PostedStep

\* Transaction t changes its amount, or goes, or stays; its loan is derived again
\* and the installment table may lose rows nothing points at: the common part of
\* lms_update_payment, lms_delete_payment, lms_delete_installment_plan and
\* lms_skip_installment.
LEMMA RevisedStep ==
  ASSUME LedgerInv, NEW t \in DOMAIN tx, NEW l, l = tx[t].loan,
         Table(tx', TxId, Tx), DOMAIN tx' \subseteq DOMAIN tx, DOMAIN tx \ {t} \subseteq DOMAIN tx',
         \A u \in DOMAIN tx' :
           /\ u # t => tx'[u] = tx[u]
           /\ tx'[u].loan = tx[u].loan /\ tx'[u].type = tx[u].type
           /\ tx'[u].service = tx[u].service /\ tx'[u].number = tx[u].number,
         loans' = Recalculated(loans, tx', l),
         Table(inst', InstKey, Installment), unsynced' \subseteq TxId,
         DOMAIN inst' \subseteq DOMAIN inst,
         \A k \in DOMAIN inst' : k[1] \in DOMAIN tx',
         \A u \in DOMAIN tx' :
           /\ tx[u].service # None => tx[u].service \in DOMAIN tx'
           /\ tx[u].number # None => <<tx[u].service, tx[u].number>> \in DOMAIN inst',
         UNCHANGED <<customers, nextLoan, nextTx, today, backfill, migration>>
  PROVE  LedgerInv'
<1>1. l \in DOMAIN loans
  BY DEF LedgerInv, References
<1>2. l \in LoanId /\ Table(loans, LoanId, Loan)
  BY <1>1 DEF LedgerInv, TypeOK, Table
<1>3. \A m : m # l => SameRows(tx, tx', m)
  BY DEF SameRows
<1>4. /\ DOMAIN loans' = DOMAIN loans
      /\ \A m \in DOMAIN loans' : loans'[m].customer = loans[m].customer
  BY <1>1, <1>3, RecalculatedStep
<1>5. TypeOK'
  <2>1. Table(loans', LoanId, Loan)
    BY <1>2, RecalculatedType
  <2> QED BY <2>1 DEF LedgerInv, TypeOK
<1>6. FreshIds'
  BY <1>4 DEF LedgerInv, FreshIds
<1>7. LoanMatchesLedger'
  BY <1>1, <1>3, RecalculatedStep
<1>8. Services(tx') = Services(tx) \cap DOMAIN tx'
  BY DEF Services
<1>9. References'
  <2>1. \A m \in DOMAIN loans' : loans'[m].customer \in customers'
    BY <1>4 DEF References, LedgerInv
  <2>2. \A u \in DOMAIN tx' : tx'[u].loan \in DOMAIN loans'
    BY <1>4 DEF References, LedgerInv
  <2>3. \A u \in DOMAIN tx' : tx'[u].service # None =>
          tx'[u].service \in Services(tx') /\ tx'[tx'[u].service].loan = tx'[u].loan
    <3>1. \A u \in DOMAIN tx' : tx'[u].service # None =>
            tx'[u].service \in Services(tx') /\ tx[tx'[u].service].loan = tx[u].loan
      BY <1>8 DEF References, LedgerInv
    <3>2. Services(tx') \subseteq DOMAIN tx'
      BY DEF Services
    <3> QED BY <3>1, <3>2
  <2>4. \A u \in DOMAIN tx' : tx'[u].number # None => <<tx'[u].service, tx'[u].number>> \in DOMAIN inst'
    OBVIOUS
  <2>5. \A k \in DOMAIN inst' : k[1] \in Services(tx')
    BY <1>8 DEF References, LedgerInv
  <2> QED BY <2>1, <2>2, <2>3, <2>4, <2>5 DEF References
<1>10. OnlyPaymentsPoint'
  BY <1>8 DEF OnlyPaymentsPoint, LedgerInv
<1> QED BY <1>5, <1>6, <1>7, <1>9, <1>10 DEF LedgerInv

\* The plan a changed payment belongs to is rebuilt, or nothing happens to it.
LEMMA PlanFollowsType ==
  ASSUME LedgerInv, NEW t \in Payments(tx), Table(tx', TxId, Tx), DOMAIN tx \ {t} \subseteq DOMAIN tx',
         PlanFollows(tx[t])
  PROVE  Table(inst', InstKey, Installment) /\ DOMAIN inst' = DOMAIN inst /\ unsynced' \subseteq TxId
<1>1. CASE tx[t].service = None
  BY <1>1 DEF PlanFollows, LedgerInv, TypeOK
<1>2. CASE tx[t].service # None
  <2>1. tx[t].service \in DOMAIN tx'
    BY <1>2 DEF LedgerInv, References, Services, Payments
  <2>2. inst' = Synced(inst, tx', tx[t].service, today) /\ unsynced' \subseteq unsynced
    BY <1>2 DEF PlanFollows, SyncPlan
  <2>3. Table(inst, InstKey, Installment) /\ unsynced \subseteq TxId
    BY DEF LedgerInv, TypeOK
  <2> QED BY <2>1, <2>2, <2>3, SyncedType, SyncedDomain
<1> QED BY <1>1, <1>2

LEMMA UpdatePaymentStep ==
  ASSUME LedgerInv, NEW t \in TxId, NEW amount \in PayAmounts, UpdatePayment(t, amount)
  PROVE  LedgerInv'
<1>1. t \in DOMAIN tx /\ t \in Payments(tx) /\ Table(tx, TxId, Tx)
  BY DEF UpdatePayment, Payments, LedgerInv, TypeOK
<1>2. Table(tx', TxId, Tx) /\ DOMAIN tx' = DOMAIN tx
  BY <1>1, LmsAmounts DEF UpdatePayment, Table, Tx
<1>3. \A u \in DOMAIN tx' :
        /\ u # t => tx'[u] = tx[u]
        /\ tx'[u].loan = tx[u].loan /\ tx'[u].type = tx[u].type
        /\ tx'[u].service = tx[u].service /\ tx'[u].number = tx[u].number
  BY <1>1 DEF UpdatePayment, Table, Tx
<1>4. Table(inst', InstKey, Installment) /\ DOMAIN inst' = DOMAIN inst /\ unsynced' \subseteq TxId
  BY <1>1, <1>2, PlanFollowsType DEF UpdatePayment
<1>5. /\ \A k \in DOMAIN inst' : k[1] \in DOMAIN tx'
      /\ \A u \in DOMAIN tx' :
           /\ tx[u].service # None => tx[u].service \in DOMAIN tx'
           /\ tx[u].number # None => <<tx[u].service, tx[u].number>> \in DOMAIN inst'
  BY <1>2, <1>4 DEF LedgerInv, References, Services
<1> QED BY <1>1, <1>2, <1>3, <1>4, <1>5, RevisedStep DEF UpdatePayment

LEMMA DeletePaymentStep ==
  ASSUME LedgerInv, NEW t \in TxId, DeletePayment(t)
  PROVE  LedgerInv'
<1>1. t \in DOMAIN tx /\ t \in Payments(tx) /\ Table(tx, TxId, Tx)
  BY DEF DeletePayment, Payments, LedgerInv, TypeOK
<1>2. /\ Table(tx', TxId, Tx) /\ DOMAIN tx' = DOMAIN tx \ {t}
      /\ \A u \in DOMAIN tx' : tx'[u] = tx[u]
  BY <1>1 DEF DeletePayment, Table, Without
<1>3. Table(inst', InstKey, Installment) /\ DOMAIN inst' = DOMAIN inst /\ unsynced' \subseteq TxId
  BY <1>1, <1>2, PlanFollowsType DEF DeletePayment
<1>4. /\ \A k \in DOMAIN inst' : k[1] \in DOMAIN tx'
      /\ \A u \in DOMAIN tx' :
           /\ tx[u].service # None => tx[u].service \in DOMAIN tx'
           /\ tx[u].number # None => <<tx[u].service, tx[u].number>> \in DOMAIN inst'
  BY <1>1, <1>2, <1>3 DEF LedgerInv, References, Services, Payments
<1> QED BY <1>1, <1>2, <1>3, <1>4, RevisedStep DEF DeletePayment

LEMMA DeleteInstallmentPlanStep ==
  ASSUME LedgerInv, NEW s \in TxId, DeleteInstallmentPlan(s)
  PROVE  LedgerInv'
<1>1. s \in DOMAIN tx /\ Table(tx, TxId, Tx) /\ Table(inst, InstKey, Installment)
  BY DEF DeleteInstallmentPlan, Services, LedgerInv, TypeOK
<1>2. /\ Table(tx', TxId, Tx) /\ DOMAIN tx' = DOMAIN tx \ {s}
      /\ \A u \in DOMAIN tx' : tx'[u] = tx[u]
  BY <1>1 DEF DeleteInstallmentPlan, Table, Without
<1>3. /\ Table(inst', InstKey, Installment) /\ unsynced' \subseteq TxId
      /\ DOMAIN inst' = {k \in DOMAIN inst : k[1] # s}
  BY <1>1 DEF DeleteInstallmentPlan, Table, Without, PlanOf, LedgerInv, TypeOK
<1>4. \A u \in DOMAIN tx' : tx[u].service # s
  BY <1>2 DEF DeleteInstallmentPlan, Payments, LedgerInv, OnlyPaymentsPoint, None, TxId
<1>5. \A u \in DOMAIN tx' :
        /\ tx[u].service # None => tx[u].service \in DOMAIN tx'
        /\ tx[u].number # None => <<tx[u].service, tx[u].number>> \in DOMAIN inst'
  BY <1>2, <1>3, <1>4 DEF LedgerInv, References, Services
<1>6. \A k \in DOMAIN inst' : k[1] \in DOMAIN tx'
  BY <1>2, <1>3 DEF LedgerInv, References, Services
<1> QED BY <1>1, <1>2, <1>3, <1>5, <1>6, RevisedStep DEF DeleteInstallmentPlan

LEMMA SkipInstallmentStep ==
  ASSUME LedgerInv, NEW k \in InstKey, SkipInstallment(k)
  PROVE  LedgerInv'
<1> DEFINE base == [inst EXCEPT ![k].status = "skipped", ![k].paid = 0]
<1>1. k[1] \in DOMAIN tx /\ Table(tx, TxId, Tx) /\ Table(inst, InstKey, Installment)
  BY DEF SkipInstallment, Services, LedgerInv, TypeOK, References
<1>2. Table(base, InstKey, Installment) /\ DOMAIN base = DOMAIN inst
  BY <1>1 DEF Table, Installment
<1>3. inst' = Synced(base, tx', k[1], today) /\ unsynced' \subseteq unsynced /\ tx' = tx
  BY DEF SkipInstallment, SyncPlan
<1> HIDE DEF base
<1>4. Table(inst', InstKey, Installment) /\ DOMAIN inst' = DOMAIN inst /\ unsynced' \subseteq TxId
  BY <1>1, <1>2, <1>3, SyncedType, SyncedDomain DEF LedgerInv, TypeOK
<1>5. /\ \A j \in DOMAIN inst' : j[1] \in DOMAIN tx'
      /\ \A u \in DOMAIN tx' :
           /\ tx[u].service # None => tx[u].service \in DOMAIN tx'
           /\ tx[u].number # None => <<tx[u].service, tx[u].number>> \in DOMAIN inst'
  BY <1>3, <1>4 DEF LedgerInv, References, Services
<1> QED BY <1>1, <1>3, <1>4, <1>5, RevisedStep DEF SkipInstallment

\* A loan is opened with transactions and installments of its own: the common
\* part of lms_create_customer, lms_add_service and lms_add_fee.
LEMMA OpenedStep ==
  ASSUME LedgerInv, nextLoan <= MaxLoans, nextLoan' = nextLoan + 1,
         DOMAIN loans' = DOMAIN loans \cup {nextLoan},
         \A m \in DOMAIN loans : loans'[m] = loans[m],
         loans'[nextLoan] \in Loan, loans'[nextLoan].customer \in customers',
         customers \subseteq customers', customers' \subseteq Customers,
         Derived(loans', tx', nextLoan),
         Table(tx', TxId, Tx), DOMAIN tx \subseteq DOMAIN tx',
         \A t \in DOMAIN tx : tx'[t] = tx[t],
         \A t \in DOMAIN tx' \ DOMAIN tx :
           /\ nextTx <= t /\ t < nextTx' /\ tx'[t].loan = nextLoan /\ tx'[t].number = None
           /\ tx'[t].type # "payment" => tx'[t].service = None
           /\ tx'[t].service # None => tx'[t].service \in Services(tx') \ DOMAIN tx,
         nextTx <= nextTx', nextTx' \in 1..MaxTx + 1,
         Table(inst', InstKey, Installment), DOMAIN inst \subseteq DOMAIN inst',
         \A k \in DOMAIN inst' \ DOMAIN inst : k[1] \in Services(tx'),
         UNCHANGED <<today, backfill, migration, unsynced>>
  PROVE  LedgerInv'
<1>1. nextLoan \in LoanId /\ nextLoan \notin DOMAIN loans
  BY LmsBounds DEF LedgerInv, TypeOK, FreshIds, LoanId, Table
<1>2. Services(tx) \subseteq Services(tx') /\ Services(tx') \subseteq DOMAIN tx'
  BY DEF Services
<1>3. TypeOK'
  <2>1. Table(loans', LoanId, Loan)
    BY <1>1 DEF Table, LedgerInv, TypeOK
  <2>2. nextLoan' \in 1..MaxLoans + 1
    BY <1>1, LmsBounds DEF LoanId
  <2> QED BY <2>1, <2>2 DEF LedgerInv, TypeOK
<1>4. FreshIds'
  BY <1>1 DEF FreshIds, LedgerInv, TypeOK, LoanId, Table, TxId
<1>5. References'
  <2>1. \A m \in DOMAIN loans' : loans'[m].customer \in customers'
    BY DEF References, LedgerInv
  <2>2. \A t \in DOMAIN tx' : tx'[t].loan \in DOMAIN loans'
    BY DEF References, LedgerInv
  <2>3. \A t \in DOMAIN tx' : tx'[t].service # None =>
          tx'[t].service \in Services(tx') /\ tx'[tx'[t].service].loan = tx'[t].loan
    <3>1. ASSUME NEW t \in DOMAIN tx, tx[t].service # None
          PROVE  tx[t].service \in Services(tx') /\ tx'[tx[t].service].loan = tx[t].loan
      <4>1. tx[t].service \in Services(tx) /\ tx[tx[t].service].loan = tx[t].loan
        BY <3>1 DEF References, LedgerInv
      <4>2. tx[t].service \in DOMAIN tx
        BY <4>1 DEF Services
      <4> QED BY <4>1, <4>2, <1>2
    <3>2. ASSUME NEW t \in DOMAIN tx' \ DOMAIN tx, tx'[t].service # None
          PROVE  tx'[t].service \in Services(tx') /\ tx'[tx'[t].service].loan = tx'[t].loan
      BY <1>2, <3>2
    <3> QED BY <3>1, <3>2
  <2>4. \A t \in DOMAIN tx' : tx'[t].number # None => <<tx'[t].service, tx'[t].number>> \in DOMAIN inst'
    BY DEF References, LedgerInv
  <2>5. \A k \in DOMAIN inst' : k[1] \in Services(tx')
    BY <1>2 DEF References, LedgerInv
  <2> QED BY <2>1, <2>2, <2>3, <2>4, <2>5 DEF References
<1>6. OnlyPaymentsPoint'
  <2>1. \A t \in DOMAIN tx' : tx'[t].type # "payment" => tx'[t].service = None /\ tx'[t].number = None
    BY DEF OnlyPaymentsPoint, LedgerInv
  <2>2. \A job \in backfill' : job.service \in Nat /\ job.service < nextTx
    BY DEF OnlyPaymentsPoint, LedgerInv, TypeOK, BackfillJob, TxId
  <2>3. \A job \in backfill' : job.service < nextTx'
    BY <2>2, LmsBounds DEF LedgerInv, TypeOK
  <2>4. \A job \in backfill' : job.service \in DOMAIN tx' => job.service \in DOMAIN tx
    BY <2>2, LmsBounds DEF LedgerInv, TypeOK, Table, TxId
  <2> QED BY <1>2, <2>1, <2>3, <2>4 DEF OnlyPaymentsPoint, LedgerInv
<1>7. LoanMatchesLedger'
  <2>1. \A m \in DOMAIN loans : SameRows(tx, tx', m)
    BY <1>1 DEF SameRows
  <2>2. \A m \in DOMAIN loans : Derived(loans', tx', m)
    BY <2>1, OthersKept DEF LedgerInv, LoanMatchesLedger
  <2> QED BY <2>2 DEF LoanMatchesLedger
<1> QED BY <1>3, <1>4, <1>5, <1>6, <1>7 DEF LedgerInv

LEMMA CreateCustomerWithDebtStep ==
  ASSUME LedgerInv, NEW c \in Customers, NEW type \in {"service", "fee"},
         NEW amount \in DebtAmounts, CreateCustomerWithDebt(c, type, amount)
  PROVE  LedgerInv'
<1> DEFINE row == Charge(nextLoan, type, amount)
<1>1. nextLoan \in LoanId /\ amount \in Nat \ {0} /\ row \in Tx
  BY LmsBounds, LmsAmounts DEF LedgerInv, TypeOK, LoanId, Charge, Tx, CreateCustomerWithDebt
<1>2. /\ nextTx \in TxId /\ nextTx \notin DOMAIN tx
      /\ DOMAIN tx' = DOMAIN tx \cup {nextTx} /\ tx'[nextTx] = row
      /\ \A t \in DOMAIN tx : tx'[t] = tx[t]
      /\ Table(tx', TxId, Tx)
  BY <1>1, PostedRow DEF CreateCustomerWithDebt
<1>3. /\ nextLoan <= MaxLoans /\ nextLoan' = nextLoan + 1
      /\ DOMAIN loans' = DOMAIN loans \cup {nextLoan}
      /\ nextLoan \notin DOMAIN loans
      /\ \A m \in DOMAIN loans : loans'[m] = loans[m]
      /\ loans'[nextLoan] = NewLoan(c, amount, amount, DefaultTerm)
  BY DEF CreateCustomerWithDebt, Put, LedgerInv, TypeOK, FreshIds, LoanId, Table
<1>4. NewLoan(c, amount, amount, DefaultTerm) \in Loan
  BY <1>1, LmsBounds DEF NewLoan, Loan, LoanStatus, InstNo
<1>5. Derived(loans', tx', nextLoan)
  <2>1. \A t \in DOMAIN tx' : t # nextTx => tx'[t].loan # nextLoan
    <3>1. \A t \in DOMAIN tx : tx[t].loan \in DOMAIN loans
      BY DEF LedgerInv, References
    <3>2. nextLoan \notin DOMAIN loans
      BY <1>3
    <3>3. \A t \in DOMAIN tx' : t # nextTx => t \in DOMAIN tx /\ tx'[t] = tx[t]
      BY <1>2
    <3> HIDE DEF row
    <3> QED BY <3>1, <3>2, <3>3
  <2>2. Debt(tx', nextLoan) = amount
    BY <1>2, <2>1, OneCharge DEF Charge
  <2>3. Paid(tx', nextLoan) = 0
    BY <1>2, <2>1, NoPayment DEF Charge
  <2>4. Balance(tx', nextLoan) = amount
    BY <1>1, <2>2, <2>3 DEF Balance, AtLeastZero
  <2> QED BY <1>3, <2>2, <2>4 DEF Derived, NewLoan
<1>6. /\ UNCHANGED <<inst, today, backfill, migration, unsynced>> /\ nextTx' = nextTx + 1
      /\ customers' = customers \cup {c}
  BY DEF CreateCustomerWithDebt
<1>7. Table(inst', InstKey, Installment) /\ customers' \subseteq Customers
  BY <1>6 DEF LedgerInv, TypeOK
<1>8. /\ \A t \in DOMAIN tx' \ DOMAIN tx :
           /\ nextTx <= t /\ t < nextTx' /\ tx'[t].loan = nextLoan /\ tx'[t].number = None
           /\ tx'[t].service = None
      /\ nextTx <= nextTx' /\ nextTx' \in 1..MaxTx + 1
  BY <1>2, <1>6, LmsBounds DEF Charge, TxId
<1>9. loans'[nextLoan].customer \in customers'
  BY <1>3, <1>6 DEF NewLoan
<1> QED BY <1>2, <1>3, <1>4, <1>5, <1>6, <1>7, <1>8, <1>9, OpenedStep

\* The plans a service can be given.
LEMMA EqualPlanType ==
  ASSUME NEW s \in TxId, NEW amount \in Nat, NEW term \in InstNo, NEW first \in Nat
  PROVE  /\ Table(EqualPlan(s, amount, term, first), InstKey, Installment)
         /\ \A k \in DOMAIN EqualPlan(s, amount, term, first) : k[1] = s
<1>1. term \in Nat \ {0} /\ amount \div term \in Nat
  BY LmsBounds, DivNat DEF InstNo
<1>2. \A n \in 1..term : n \in InstNo /\ first + n - 1 \in Nat
  BY LmsBounds DEF InstNo
<1>3. \A k \in {s} \X (1..term) :
        /\ k \in InstKey /\ k[1] = s
        /\ NewInstallment(first + k[2] - 1, amount \div term) \in Installment
  BY <1>1, <1>2 DEF InstKey, NewInstallment, Installment
<1> QED BY <1>3 DEF EqualPlan, Table

\* The two rows of a plan that a caller gives, a penny off the amount at most.
ExplicitPlan(s, amount, first, plan, a, b) ==
  /\ MaxTerm >= 2 /\ a + b - amount \in -Penny..Penny
  /\ plan = [k \in {s} \X (1..2) |->
               NewInstallment(first + k[2] - 1, IF k[2] = 1 THEN a ELSE b)]

LEMMA ExplicitRows ==
  ASSUME NEW s, NEW amount \in Nat, NEW first, NEW plan \in ExplicitPlans(s, amount, first)
  PROVE  \E a \in Nat, b \in Nat : ExplicitPlan(s, amount, first, plan, a, b)
<1>1. PICK rows \in PayAmounts \X (1..(amount + Penny)) :
        /\ MaxTerm >= 2 /\ rows[1] + rows[2] - amount \in -Penny..Penny
        /\ plan = [k \in {s} \X (1..2) |-> NewInstallment(first + k[2] - 1, rows[k[2]])]
  BY DEF ExplicitPlans
<1>2. rows[1] \in Nat /\ rows[2] \in Nat
  <2>1. rows[1] \in PayAmounts /\ rows[2] \in 1..(amount + Penny)
    OBVIOUS
  <2>2. PayAmounts \subseteq Nat /\ amount + Penny \in Nat
    BY LmsAmounts
  <2>3. rows[1] \in Nat
    BY <2>1, <2>2
  <2>4. rows[2] \in Nat
    BY <2>1, <2>2
  <2> QED BY <2>3, <2>4
<1>3. \A n \in 1..2 : rows[n] = IF n = 1 THEN rows[1] ELSE rows[2]
  OBVIOUS
<1>4. plan = [k \in {s} \X (1..2) |->
                NewInstallment(first + k[2] - 1, IF k[2] = 1 THEN rows[1] ELSE rows[2])]
  BY <1>1, <1>3
<1> QED BY <1>1, <1>2, <1>4 DEF ExplicitPlan

LEMMA ExplicitPlanType ==
  ASSUME NEW s \in TxId, NEW amount \in Nat, NEW first \in Nat,
         NEW plan \in ExplicitPlans(s, amount, first)
  PROVE  /\ Table(plan, InstKey, Installment)
         /\ \A k \in DOMAIN plan : k[1] = s
<1>0. PICK a \in Nat, b \in Nat : ExplicitPlan(s, amount, first, plan, a, b)
  BY ExplicitRows
<1>1. /\ MaxTerm >= 2
      /\ plan = [k \in {s} \X (1..2) |->
                   NewInstallment(first + k[2] - 1, IF k[2] = 1 THEN a ELSE b)]
  BY <1>0 DEF ExplicitPlan
<1>3. \A n \in 1..2 : n \in InstNo /\ first + n - 1 \in Nat
  BY <1>1, LmsBounds DEF InstNo
<1>4. \A k \in {s} \X (1..2) :
        /\ k \in InstKey /\ k[1] = s
        /\ NewInstallment(first + k[2] - 1, IF k[2] = 1 THEN a ELSE b) \in Installment
  BY <1>3 DEF InstKey, NewInstallment, Installment
<1> QED BY <1>1, <1>4 DEF Table

\* The rows that lms_add_service inserts.
LEMMA ServiceRows ==
  ASSUME LedgerInv, NEW c \in Customers, NEW amount \in DebtAmounts,
         NEW deposit \in PayAmounts \cup {0}, NEW term \in InstNo, NEW first \in Day,
         AddService(c, amount, deposit, term, first)
  PROVE  /\ amount \in Nat \ {0} /\ deposit \in Nat /\ amount - deposit \in Nat /\ first \in Nat
         /\ nextTx \in TxId /\ nextTx \notin DOMAIN tx /\ nextTx + 1 \notin DOMAIN tx
         /\ DOMAIN tx' = DOMAIN tx \cup {nextTx} \cup (IF deposit > 0 THEN {nextTx + 1} ELSE {})
         /\ \A t \in DOMAIN tx : tx'[t] = tx[t]
         /\ tx'[nextTx] = Charge(nextLoan, "service", amount)
         /\ deposit > 0 => tx'[nextTx + 1] = Payment(nextLoan, deposit, nextTx, None)
         /\ Table(tx', TxId, Tx)
<1> DEFINE l == nextLoan
           s == nextTx
           remaining == amount - deposit
           service == Charge(l, "service", amount)
           paidIn == Payment(l, deposit, s, None)
<1>1. /\ amount \in Nat \ {0} /\ deposit \in Nat /\ deposit <= amount /\ remaining \in Nat
      /\ l \in LoanId /\ s \in TxId /\ s \in Nat /\ nextTx' \in 1..MaxTx + 1 /\ first \in Nat
      /\ nextTx' = (IF deposit > 0 THEN s + 2 ELSE s + 1)
  BY LmsAmounts, LmsBounds DEF AddService, LedgerInv, TypeOK, LoanId, TxId, Day
<1>2. service \in Tx /\ (deposit > 0 => paidIn \in Tx)
  BY <1>1 DEF Charge, Payment, Tx
<1>3. tx' = With(Put(tx, s, service), IF deposit > 0 THEN Put(<<>>, s + 1, paidIn) ELSE <<>>)
  BY DEF AddService
<1>4. \A t \in DOMAIN tx : t < s /\ t \in Nat
  BY DEF LedgerInv, TypeOK, FreshIds, TxId, Table
<1>5. s \notin DOMAIN tx /\ s + 1 \notin DOMAIN tx /\ s + 1 # s
  BY <1>1, <1>4
<1> HIDE DEF service, paidIn, remaining
<1>6. /\ DOMAIN tx' = DOMAIN tx \cup {s} \cup (IF deposit > 0 THEN {s + 1} ELSE {})
      /\ \A t \in DOMAIN tx : tx'[t] = tx[t]
      /\ tx'[s] = service /\ (deposit > 0 => tx'[s + 1] = paidIn)
  <2>1. CASE deposit > 0
    <3> DEFINE extra == Put(<<>>, s + 1, paidIn)
    <3>1. DOMAIN extra = {s + 1} /\ extra[s + 1] = paidIn
      BY DEF Put
    <3>2. DOMAIN Put(tx, s, service) = DOMAIN tx \cup {s} /\ Put(tx, s, service)[s] = service
          /\ \A t \in DOMAIN tx : Put(tx, s, service)[t] = tx[t]
      BY <1>5 DEF Put
    <3>3. tx' = With(Put(tx, s, service), extra)
      BY <1>3, <2>1
    <3> HIDE DEF extra
    <3> QED BY <1>5, <2>1, <3>1, <3>2, <3>3 DEF With
  <2>2. CASE ~ (deposit > 0)
    <3>1. tx' = With(Put(tx, s, service), <<>>)
      BY <1>3, <2>2
    <3> QED BY <1>5, <2>2, <3>1 DEF With, Put
  <2> QED BY <2>1, <2>2
<1>7. Table(tx', TxId, Tx)
  <2>1. deposit > 0 => s + 1 \in TxId
    BY <1>1, LmsBounds DEF TxId
  <2> QED BY <1>1, <1>2, <1>6, <2>1 DEF LedgerInv, TypeOK, Table
<1> QED BY <1>1, <1>5, <1>6, <1>7 DEF service, paidIn, remaining

\* The plan that it inserts, split equally or as the caller gives it.
LEMMA ServicePlan ==
  ASSUME LedgerInv, NEW c \in Customers, NEW amount \in DebtAmounts,
         NEW deposit \in PayAmounts \cup {0}, NEW term \in InstNo, NEW first \in Day,
         AddService(c, amount, deposit, term, first)
  PROVE  \E plan :
           /\ inst' = With(inst, plan)
           /\ Table(plan, InstKey, Installment) /\ \A k \in DOMAIN plan : k[1] = nextTx
           /\ \/ plan = EqualPlan(nextTx, amount - deposit, term, first) /\ amount # deposit
              \/ plan \in ExplicitPlans(nextTx, amount - deposit, first)
              \/ plan = <<>> /\ amount = deposit
<1> DEFINE remaining == amount - deposit
<1>1. amount \in Nat /\ deposit \in Nat /\ remaining \in Nat /\ first \in Nat /\ nextTx \in TxId
  BY ServiceRows
<1>2. PICK plan :
        /\ inst' = With(inst, plan)
        /\ \/ plan = EqualPlan(nextTx, remaining, term, first) /\ remaining > 0
           \/ plan \in ExplicitPlans(nextTx, remaining, first)
           \/ plan = <<>> /\ ~(remaining > 0)
  BY DEF AddService
<1>3. Table(plan, InstKey, Installment) /\ \A k \in DOMAIN plan : k[1] = nextTx
  <2> HIDE DEF remaining
  <2>1. CASE plan = EqualPlan(nextTx, remaining, term, first)
    BY <1>1, <2>1, EqualPlanType
  <2>2. CASE plan \in ExplicitPlans(nextTx, remaining, first)
    BY <1>1, <2>2, ExplicitPlanType
  <2>3. CASE plan = <<>>
    BY <2>3 DEF Table
  <2> QED BY <1>2, <2>1, <2>2, <2>3
<1>4. (remaining > 0 => amount # deposit) /\ (~(remaining > 0) => amount = deposit)
  BY <1>1
<1> QED BY <1>2, <1>3, <1>4

LEMMA AddServiceStep ==
  ASSUME LedgerInv, NEW c \in Customers, NEW amount \in DebtAmounts,
         NEW deposit \in PayAmounts \cup {0}, NEW term \in InstNo, NEW first \in Day,
         AddService(c, amount, deposit, term, first)
  PROVE  LedgerInv'
<1> DEFINE l == nextLoan
           s == nextTx
           remaining == amount - deposit
           service == Charge(l, "service", amount)
           paidIn == Payment(l, deposit, s, None)
<1>1. /\ amount \in Nat \ {0} /\ deposit \in Nat /\ remaining \in Nat
      /\ l <= MaxLoans /\ nextLoan' = l + 1 /\ l \in LoanId
      /\ s \in TxId /\ s \in Nat /\ nextTx' \in 1..MaxTx + 1
      /\ nextTx' = (IF deposit > 0 THEN s + 2 ELSE s + 1)
  <2>1. /\ amount \in Nat \ {0} /\ deposit \in Nat /\ remaining \in Nat
        /\ s \in TxId
    BY ServiceRows
  <2> QED BY <2>1, LmsBounds DEF AddService, LedgerInv, TypeOK, LoanId, TxId
<1>2. /\ UNCHANGED <<customers, today, backfill, migration, unsynced>> /\ c \in customers
      /\ loans' = Put(loans, l, NewLoan(c, remaining, amount, term))
  BY DEF AddService
<1>3. /\ l \notin DOMAIN loans /\ \A t \in DOMAIN tx : t < s /\ t \in Nat /\ tx[t].loan # l
  <2>1. l \notin DOMAIN loans
    BY <1>1 DEF LedgerInv, TypeOK, FreshIds, LoanId, Table
  <2>2. \A t \in DOMAIN tx : t < s /\ t \in Nat
    BY DEF LedgerInv, TypeOK, FreshIds, TxId, Table
  <2>3. \A t \in DOMAIN tx : tx[t].loan \in DOMAIN loans
    BY DEF LedgerInv, References
  <2> QED BY <2>1, <2>2, <2>3
<1>4. /\ DOMAIN tx' = DOMAIN tx \cup {s} \cup (IF deposit > 0 THEN {s + 1} ELSE {})
      /\ \A t \in DOMAIN tx : tx'[t] = tx[t]
      /\ tx'[s] = service /\ (deposit > 0 => tx'[s + 1] = paidIn)
      /\ Table(tx', TxId, Tx)
  BY ServiceRows
<1> HIDE DEF service, paidIn, remaining
<1>5. /\ DOMAIN loans' = DOMAIN loans \cup {l} /\ \A m \in DOMAIN loans : loans'[m] = loans[m]
      /\ loans'[l] = NewLoan(c, remaining, amount, term)
  BY <1>2, <1>3 DEF Put
<1>6. loans'[l] \in Loan /\ loans'[l].customer \in customers'
  <2>1. remaining \in Nat /\ LoanStatus(remaining) \in {"Active", "Paid Off"}
    BY <1>1 DEF LoanStatus
  <2>2. NewLoan(c, remaining, amount, term) \in Loan
    BY <1>1, <2>1 DEF NewLoan, Loan
  <2>3. NewLoan(c, remaining, amount, term).customer = c
    BY DEF NewLoan
  <2> QED BY <1>2, <1>5, <2>2, <2>3
<1>7. Derived(loans', tx', l)
  <2>1. \A t \in DOMAIN tx' : t # s /\ tx'[t].loan = l => deposit > 0 /\ t = s + 1
    BY <1>3, <1>4
  <2>2. Debt(tx', l) = amount
    BY <1>4, <2>1, OneCharge DEF service, paidIn, Charge, Payment
  <2>3. Paid(tx', l) = deposit
    <3>1. CASE deposit > 0
      <4>1. \A t \in DOMAIN tx' : t # s + 1 /\ tx'[t].loan = l => tx'[t].type # "payment"
        BY <1>4, <2>1 DEF service, Charge
      <4> QED BY <1>4, <3>1, <4>1, OnePayment DEF paidIn, Payment
    <3>2. CASE ~ (deposit > 0)
      <4>1. \A t \in DOMAIN tx' : tx'[t].loan = l => tx'[t].type # "payment"
        BY <1>4, <2>1, <3>2 DEF service, Charge
      <4>2. deposit = 0
        BY <1>1, <3>2
      <4> QED BY <4>1, <4>2, NoPayment
    <3> QED BY <3>1, <3>2
  <2>4. Balance(tx', l) = remaining
    BY <1>1, <2>2, <2>3 DEF Balance, AtLeastZero, remaining
  <2> QED BY <1>5, <2>2, <2>4 DEF Derived, NewLoan
<1>8. /\ Table(inst', InstKey, Installment) /\ DOMAIN inst \subseteq DOMAIN inst'
      /\ \A k \in DOMAIN inst' \ DOMAIN inst : k[1] = s
  <2>1. PICK plan :
          /\ inst' = With(inst, plan)
          /\ Table(plan, InstKey, Installment) /\ \A k \in DOMAIN plan : k[1] = s
    BY ServicePlan
  <2>2. Table(inst', InstKey, Installment)
    BY <2>1, WithType DEF LedgerInv, TypeOK
  <2> QED BY <2>1, <2>2 DEF With
<1>9. s \in Services(tx') /\ s \notin DOMAIN tx
  BY <1>1, <1>3, <1>4 DEF Services, service, Charge
<1>10. /\ \A t \in DOMAIN tx' \ DOMAIN tx :
            /\ nextTx <= t /\ t < nextTx' /\ tx'[t].loan = nextLoan /\ tx'[t].number = None
            /\ tx'[t].type # "payment" => tx'[t].service = None
            /\ tx'[t].service # None => tx'[t].service = s
       /\ nextTx <= nextTx'
  BY <1>1, <1>4 DEF service, paidIn, Charge, Payment
<1>11. customers \subseteq customers' /\ customers' \subseteq Customers
  BY <1>2 DEF LedgerInv, TypeOK
<1>12. \A k \in DOMAIN inst' \ DOMAIN inst : k[1] \in Services(tx')
  BY <1>8, <1>9
<1> QED BY <1>1, <1>2, <1>4, <1>5, <1>6, <1>7, <1>8, <1>9, <1>10, <1>11, <1>12, OpenedStep

LEMMA AddCustomerFeeStep ==
  ASSUME LedgerInv, NEW c \in Customers, NEW amount \in DebtAmounts, AddCustomerFee(c, amount)
  PROVE  LedgerInv'
<1>1. CASE LoansOf(c) # {}
  <2>1. PICK l \in LoansOf(c) : AddFee(l, amount)
    BY <1>1 DEF AddCustomerFee
  <2>2. l \in LoanId
    BY DEF LoansOf, LedgerInv, TypeOK, Table
  <2> QED BY <2>1, <2>2, AddFeeStep
<1>2. CASE LoansOf(c) = {}
  <2> DEFINE row == Charge(nextLoan, "fee", amount)
             opened == Put(loans, nextLoan, NewLoan(c, 0, 0, DefaultTerm))
  <2>1. /\ c \in customers /\ nextTx <= MaxTx /\ nextLoan <= MaxLoans
        /\ tx' = Put(tx, nextTx, row)
        /\ loans' = Recalculated(opened, tx', nextLoan)
        /\ nextLoan' = nextLoan + 1 /\ nextTx' = nextTx + 1
        /\ UNCHANGED <<customers, inst, today, backfill, migration, unsynced>>
    BY <1>2 DEF AddCustomerFee
  <2>2. nextLoan \in LoanId /\ row \in Tx
    BY <2>1, LmsBounds, LmsAmounts DEF LedgerInv, TypeOK, LoanId, Charge, Tx
  <2>3. row.loan = nextLoan /\ row.type = "fee" /\ row.service = None /\ row.number = None
    BY DEF Charge
  <2>4. NewLoan(c, 0, 0, DefaultTerm) \in Loan /\ NewLoan(c, 0, 0, DefaultTerm).customer = c
    BY LmsBounds DEF NewLoan, Loan, LoanStatus, InstNo
  <2>5. /\ Table(opened, LoanId, Loan) /\ DOMAIN opened = DOMAIN loans \cup {nextLoan}
        /\ opened[nextLoan].customer = c /\ nextLoan \notin DOMAIN loans
        /\ \A m \in DOMAIN loans : opened[m] = loans[m]
    <3>1. nextLoan \notin DOMAIN loans
      BY DEF LedgerInv, TypeOK, FreshIds, LoanId, Table
    <3>2. Table(opened, LoanId, Loan)
      BY <2>2, <2>4, PutType DEF LedgerInv, TypeOK
    <3> QED BY <2>4, <3>1, <3>2 DEF Put
  <2> HIDE DEF row, opened
  <2>6. /\ nextTx \in TxId /\ nextTx \notin DOMAIN tx
        /\ DOMAIN tx' = DOMAIN tx \cup {nextTx} /\ tx'[nextTx] = row
        /\ \A t \in DOMAIN tx : tx'[t] = tx[t]
        /\ Table(tx', TxId, Tx)
    BY <2>1, <2>2, PostedRow
  <2>7. /\ DOMAIN loans' = DOMAIN loans \cup {nextLoan}
        /\ \A m \in DOMAIN loans : loans'[m] = loans[m]
        /\ Derived(loans', tx', nextLoan)
        /\ loans'[nextLoan].customer = c
    BY <2>1, <2>5, RecalculatedRow
  <2>8. loans'[nextLoan] \in Loan
    BY <2>1, <2>2, <2>5, <2>6, <2>7, RecalculatedType DEF Table
  <2>9. /\ \A t \in DOMAIN tx' \ DOMAIN tx :
             /\ nextTx <= t /\ t < nextTx' /\ tx'[t].loan = nextLoan /\ tx'[t].number = None
             /\ tx'[t].service = None
        /\ nextTx <= nextTx' /\ nextTx' \in 1..MaxTx + 1
    BY <2>1, <2>3, <2>6, LmsBounds DEF TxId
  <2>10. Table(inst', InstKey, Installment) /\ customers' \subseteq Customers
    BY <2>1 DEF LedgerInv, TypeOK
  <2> QED BY <2>1, <2>6, <2>7, <2>8, <2>9, <2>10, OpenedStep
<1> QED BY <1>1, <1>2

LEMMA UpdateInstallmentsStep ==
  ASSUME LedgerInv, NEW keys \in SUBSET (DOMAIN inst), NEW change \in Changes(keys),
         UpdateInstallments(change)
  PROVE  LedgerInv'
<1>1. DOMAIN change \subseteq DOMAIN inst
  BY DEF UpdateInstallments
<1>2. \A k \in DOMAIN change : change[k].due \in Nat /\ change[k].amount \in Nat
  <2>1. \A k \in DOMAIN change : change[k] \in [due : Day, amount : DebtAmounts]
    BY DEF Changes
  <2>2. Day \subseteq Nat /\ DebtAmounts \subseteq Nat
    BY LmsBounds, LmsAmounts DEF Day
  <2> QED BY <2>1, <2>2
<1>3. Table(inst', InstKey, Installment) /\ DOMAIN inst' = DOMAIN inst
  BY <1>2 DEF UpdateInstallments, LedgerInv, TypeOK, Table, Installment
<1>4. unsynced' \subseteq TxId
  BY <1>1 DEF UpdateInstallments, LedgerInv, TypeOK, Table, InstKey
<1>5. UNCHANGED <<customers, loans, tx, nextLoan, nextTx, today, backfill, migration>>
  BY DEF UpdateInstallments
<1>6. TypeOK'
  BY <1>3, <1>4, <1>5 DEF LedgerInv, TypeOK
<1>7. FreshIds' /\ OnlyPaymentsPoint' /\ LoanMatchesLedger'
  BY <1>5 DEF LedgerInv, FreshIds, OnlyPaymentsPoint, LoanMatchesLedger, Services
<1>8. References'
  BY <1>3, <1>5 DEF LedgerInv, References, Services
<1> QED BY <1>6, <1>7, <1>8 DEF LedgerInv

\* The graph of a customer goes as a whole: no row that stays points into it.
LEMMA DeleteCustomerStep ==
  ASSUME LedgerInv, NEW c \in Customers, DeleteCustomer(c)
  PROVE  LedgerInv'
<1> DEFINE gone == {t \in DOMAIN tx : tx[t].loan \in LoansOf(c)}
<1>1. /\ customers' = customers \ {c}
      /\ DOMAIN loans' = DOMAIN loans \ LoansOf(c) /\ \A l \in DOMAIN loans' : loans'[l] = loans[l]
      /\ DOMAIN tx' = DOMAIN tx \ gone /\ \A t \in DOMAIN tx' : tx'[t] = tx[t]
      /\ DOMAIN inst' = {k \in DOMAIN inst : k[1] \notin gone}
      /\ \A k \in DOMAIN inst' : inst'[k] = inst[k]
      /\ unsynced' \subseteq unsynced
      /\ UNCHANGED <<nextLoan, nextTx, today, backfill, migration>>
  BY DEF DeleteCustomer, Without
<1>2. \A t \in DOMAIN tx : t \in gone <=> tx[t].loan \in LoansOf(c)
  OBVIOUS
<1> HIDE DEF gone
<1>3. TypeOK'
  BY <1>1 DEF LedgerInv, TypeOK, Table
<1>4. FreshIds'
  BY <1>1 DEF LedgerInv, FreshIds
<1>5. Services(tx') = Services(tx) \ gone
  BY <1>1 DEF Services
<1>6. References'
  <2>1. \A l \in DOMAIN loans' : loans'[l].customer \in customers'
    BY <1>1 DEF LedgerInv, References, LoansOf
  <2>2. \A t \in DOMAIN tx' : tx'[t].loan \in DOMAIN loans'
    BY <1>1, <1>2 DEF LedgerInv, References
  <2>3. ASSUME NEW t \in DOMAIN tx', tx'[t].service # None
        PROVE  /\ tx'[t].service \in Services(tx') /\ tx'[tx'[t].service].loan = tx'[t].loan
               /\ tx'[t].service \notin gone
    <3>1. /\ t \in DOMAIN tx /\ tx'[t] = tx[t] /\ tx[t].service \in Services(tx)
          /\ tx[tx[t].service].loan = tx[t].loan
      BY <1>1, <2>3 DEF LedgerInv, References
    <3>2. tx[t].service \in DOMAIN tx
      BY <3>1 DEF Services
    <3>3. tx[t].service \notin gone
      BY <1>1, <1>2, <3>1, <3>2
    <3> QED BY <1>1, <1>5, <3>1, <3>2, <3>3
  <2>4. \A t \in DOMAIN tx' : tx'[t].number # None => <<tx'[t].service, tx'[t].number>> \in DOMAIN inst'
    <3>1. ASSUME NEW t \in DOMAIN tx', tx'[t].number # None
          PROVE  <<tx'[t].service, tx'[t].number>> \in DOMAIN inst'
      <4>1. <<tx'[t].service, tx'[t].number>> \in DOMAIN inst
        BY <1>1, <3>1 DEF LedgerInv, References
      <4>2. tx'[t].service # None
        BY <4>1 DEF LedgerInv, TypeOK, Table, InstKey, TxId, None
      <4> QED BY <1>1, <2>3, <4>1, <4>2
    <3> QED BY <3>1
  <2>5. \A k \in DOMAIN inst' : k[1] \in Services(tx')
    BY <1>1, <1>5 DEF LedgerInv, References
  <2> QED BY <2>1, <2>2, <2>3, <2>4, <2>5 DEF References
<1>7. OnlyPaymentsPoint'
  BY <1>1, <1>5 DEF LedgerInv, OnlyPaymentsPoint
<1>8. LoanMatchesLedger'
  <2>1. \A l \in DOMAIN loans' : SameRows(tx, tx', l)
    BY <1>1, <1>2 DEF SameRows
  <2> QED BY <1>1, <2>1, OthersKept DEF LedgerInv, LoanMatchesLedger
<1> QED BY <1>3, <1>4, <1>6, <1>7, <1>8 DEF LedgerInv

LEMMA ClearAllDataStep ==
  ASSUME LedgerInv, ClearAllData
  PROVE  LedgerInv'
<1> USE DEF LedgerInv, ClearAllData
<1>1. TypeOK' /\ FreshIds'
  BY DEF TypeOK, FreshIds, Table
<1>2. References' /\ OnlyPaymentsPoint' /\ LoanMatchesLedger'
  BY DEF References, OnlyPaymentsPoint, LoanMatchesLedger
<1> QED BY <1>1, <1>2

LEMMA WipeInstallmentsStep ==
  ASSUME LedgerInv, WipeInstallments
  PROVE  LedgerInv'
<1>1. /\ DOMAIN tx' = DOMAIN tx
      /\ \A t \in DOMAIN tx' :
           /\ tx'[t] \in Tx /\ tx'[t].number = None
           /\ tx'[t].loan = tx[t].loan /\ tx'[t].type = tx[t].type
           /\ tx'[t].amount = tx[t].amount /\ tx'[t].service = tx[t].service
  BY DEF WipeInstallments, LedgerInv, TypeOK, Table, Tx
<1>2. inst' = <<>> /\ unsynced' = {} /\ UNCHANGED <<customers, loans, nextLoan, nextTx, today, backfill, migration>>
  BY DEF WipeInstallments
<1>3. TypeOK'
  BY <1>1, <1>2 DEF LedgerInv, TypeOK, Table
<1>4. FreshIds'
  BY <1>1, <1>2 DEF LedgerInv, FreshIds
<1>5. Services(tx') = Services(tx) /\ Services(tx) \subseteq DOMAIN tx
  BY <1>1 DEF Services
<1>6. OnlyPaymentsPoint'
  BY <1>1, <1>2, <1>5 DEF LedgerInv, OnlyPaymentsPoint
<1>7. References'
  <2>1. ASSUME NEW t \in DOMAIN tx', tx'[t].service # None
        PROVE  tx'[t].service \in Services(tx') /\ tx'[tx'[t].service].loan = tx'[t].loan
    <3>1. tx[t].service \in Services(tx) /\ tx[tx[t].service].loan = tx[t].loan
      BY <1>1, <2>1 DEF LedgerInv, References
    <3> QED BY <1>1, <1>5, <3>1
  <2>2. /\ \A l \in DOMAIN loans' : loans'[l].customer \in customers'
        /\ \A t \in DOMAIN tx' : tx'[t].loan \in DOMAIN loans'
    BY <1>1, <1>2 DEF LedgerInv, References
  <2> QED BY <1>1, <1>2, <2>1, <2>2 DEF References
<1>8. \A l : SameRows(tx, tx', l)
  BY <1>1 DEF SameRows
<1>9. LoanMatchesLedger'
  BY <1>2, <1>8, OthersKept DEF LedgerInv, LoanMatchesLedger
<1> QED BY <1>3, <1>4, <1>6, <1>7, <1>9 DEF LedgerInv

LEMMA BackfillReadStep ==
  ASSUME LedgerInv, BackfillRead
  PROVE  LedgerInv'
<1>1. UNCHANGED <<customers, loans, tx, inst, nextLoan, nextTx, today, migration, unsynced>>
  BY DEF BackfillRead
<1>2. \A s \in Services(tx) : s \in DOMAIN tx /\ s \in TxId /\ tx[s] \in Tx /\ loans[tx[s].loan] \in Loan
  BY DEF Services, LedgerInv, TypeOK, Table, References
<1>3. \A job \in backfill' : job \in BackfillJob /\ job.service \in Services(tx)
  <2>1. \A s \in Services(tx) : /\ tx[s].amount \in Nat /\ loans[tx[s].loan].balance \in Nat
                               /\ loans[tx[s].loan].term \in InstNo
    BY <1>2 DEF Tx, Loan
  <2> QED BY <1>2, <2>1 DEF BackfillRead, BackfillJob
<1>4. TypeOK' /\ FreshIds'
  BY <1>1, <1>3 DEF LedgerInv, TypeOK, FreshIds
<1>5. References' /\ LoanMatchesLedger'
  BY <1>1 DEF LedgerInv, References, LoanMatchesLedger, Services
<1>6. OnlyPaymentsPoint'
  BY <1>1, <1>2, <1>3 DEF LedgerInv, OnlyPaymentsPoint, FreshIds, Services
<1> QED BY <1>4, <1>5, <1>6 DEF LedgerInv

LEMMA BackfillVisitStep ==
  ASSUME LedgerInv, NEW job \in backfill, NEW first \in Day, BackfillVisit(job, first)
  PROVE  LedgerInv'
<1>1. /\ UNCHANGED <<customers, loans, tx, nextLoan, nextTx, today, migration>> /\ backfill' \subseteq backfill
      /\ job.service \in TxId /\ BackfillAmount(job) \in Nat /\ job.term \in InstNo /\ first \in Nat
  BY LmsBounds DEF BackfillVisit, BackfillAmount, BackfillJob, LedgerInv, TypeOK, Day
<1>2. /\ Table(inst', InstKey, Installment) /\ unsynced' \subseteq TxId
      /\ DOMAIN inst \subseteq DOMAIN inst'
      /\ \A k \in DOMAIN inst' \ DOMAIN inst : k[1] \in Services(tx)
  <2>1. CASE UNCHANGED <<inst, unsynced>>
    BY <2>1 DEF LedgerInv, TypeOK
  <2>2. CASE /\ job.service \in DOMAIN tx
             /\ inst' = With(inst, EqualPlan(job.service, BackfillAmount(job), job.term, first))
             /\ unsynced' = unsynced \cup {job.service}
    <3> DEFINE plan == EqualPlan(job.service, BackfillAmount(job), job.term, first)
    <3>1. Table(plan, InstKey, Installment) /\ \A k \in DOMAIN plan : k[1] = job.service
      BY <1>1, EqualPlanType
    <3> HIDE DEF plan
    <3>2. inst' = With(inst, plan)
      BY <2>2 DEF plan
    <3>3. Table(inst', InstKey, Installment)
      BY <3>1, <3>2, WithType DEF LedgerInv, TypeOK
    <3>4. job.service \in Services(tx)
      BY <2>2 DEF LedgerInv, OnlyPaymentsPoint
    <3>5. DOMAIN inst' = DOMAIN inst \cup DOMAIN plan
      BY <3>2 DEF With
    <3>6. unsynced' \subseteq TxId
      BY <1>1, <2>2 DEF LedgerInv, TypeOK
    <3> QED BY <3>1, <3>3, <3>4, <3>5, <3>6
  <2> QED BY <2>1, <2>2 DEF BackfillVisit
<1>3. TypeOK' /\ FreshIds'
  BY <1>1, <1>2 DEF LedgerInv, TypeOK, FreshIds
<1>4. References'
  BY <1>1, <1>2 DEF LedgerInv, References, Services
<1>5. LoanMatchesLedger' /\ OnlyPaymentsPoint'
  BY <1>1 DEF LedgerInv, LoanMatchesLedger, OnlyPaymentsPoint, Services
<1> QED BY <1>3, <1>4, <1>5 DEF LedgerInv

LEMMA MigrationReadStep ==
  ASSUME LedgerInv, MigrationRead
  PROVE  LedgerInv'
<1>1. UNCHANGED <<customers, loans, tx, inst, nextLoan, nextTx, today, backfill, unsynced>>
  BY DEF MigrationRead
<1>2. \A k \in DOMAIN inst : k \in InstKey /\ MigratedAmount(inst[k]) \in Nat
  BY DEF MigratedAmount, LedgerInv, TypeOK, Table, Installment
<1>3. migration' \subseteq MigrationJob
  BY <1>2 DEF MigrationRead, MigrationJob
<1>4. TypeOK' /\ FreshIds'
  BY <1>1, <1>3 DEF LedgerInv, TypeOK, FreshIds
<1>5. References' /\ LoanMatchesLedger' /\ OnlyPaymentsPoint'
  BY <1>1 DEF LedgerInv, References, LoanMatchesLedger, OnlyPaymentsPoint, Services
<1> QED BY <1>4, <1>5 DEF LedgerInv

LEMMA MigrationWriteStep ==
  ASSUME LedgerInv, NEW job \in migration, MigrationWrite(job)
  PROVE  LedgerInv'
<1>1. UNCHANGED <<customers, loans, tx, nextLoan, nextTx, today, backfill>> /\ migration' \subseteq migration
  BY DEF MigrationWrite
<1>2. job.key[1] \in TxId /\ job.amount \in Nat
  BY DEF LedgerInv, TypeOK, MigrationJob, InstKey
<1>3. Table(inst', InstKey, Installment) /\ DOMAIN inst' = DOMAIN inst
  BY <1>2 DEF MigrationWrite, LedgerInv, TypeOK, Table, Installment
<1>4. unsynced' \subseteq TxId
  BY <1>2 DEF MigrationWrite, LedgerInv, TypeOK
<1>5. TypeOK' /\ FreshIds'
  BY <1>1, <1>3, <1>4 DEF LedgerInv, TypeOK, FreshIds
<1>6. References' /\ LoanMatchesLedger' /\ OnlyPaymentsPoint'
  BY <1>1, <1>3 DEF LedgerInv, References, LoanMatchesLedger, OnlyPaymentsPoint, Services
<1> QED BY <1>5, <1>6 DEF LedgerInv

LEMMA QuietStep ==
  ASSUME LedgerInv, UNCHANGED <<customers, loans, tx, inst, nextLoan, nextTx, backfill, migration, unsynced>>,
         today' \in Day
  PROVE  LedgerInv'
<1>1. TypeOK' /\ FreshIds'
  BY DEF LedgerInv, TypeOK, FreshIds
<1>2. References' /\ LoanMatchesLedger' /\ OnlyPaymentsPoint'
  BY DEF LedgerInv, References, LoanMatchesLedger, OnlyPaymentsPoint, Services
<1> QED BY <1>1, <1>2 DEF LedgerInv

-----------------------------------------------------------------------------
(* Installment plans that are rebuilt.                                     *)

\* Two tables hold the same payments for service s.
SamePayments(a, b, s) ==
  \A t \in TxId :
    /\ (t \in DOMAIN a /\ a[t].service = s /\ a[t].type = "payment")
         <=> (t \in DOMAIN b /\ b[t].service = s /\ b[t].type = "payment")
    /\ t \in DOMAIN a /\ a[t].service = s /\ a[t].type = "payment" =>
         a[t].number = b[t].number /\ a[t].amount = b[t].amount

\* The same payments pay as much of the service and of each installment.
LEMMA PaymentsSame ==
  ASSUME NEW a, NEW b, NEW s, SamePayments(a, b, s)
  PROVE  /\ PaidForService(a, s) = PaidForService(b, s)
         /\ \A n : PaidForInstallment(a, s, n) = PaidForInstallment(b, s, n)
<1> DEFINE byPlan(rows) == [t \in TxId |->
             IF t \in DOMAIN rows /\ rows[t].service = s /\ rows[t].type = "payment"
             THEN rows[t].amount ELSE 0]
           byRow(rows, n) == [t \in TxId |->
             IF t \in DOMAIN rows /\ rows[t].service = s /\ rows[t].number = n
                /\ rows[t].type = "payment"
             THEN rows[t].amount ELSE 0]
<1>1. byPlan(a) = byPlan(b)
  BY DEF SamePayments
<1>2. \A n : byRow(a, n) = byRow(b, n)
  BY DEF SamePayments
<1>3. /\ PaidForService(a, s) = Total(byPlan(a)) /\ PaidForService(b, s) = Total(byPlan(b))
      /\ \A n : /\ PaidForInstallment(a, s, n) = Total(byRow(a, n))
                /\ PaidForInstallment(b, s, n) = Total(byRow(b, n))
  BY DEF PaidForService, PaidForInstallment
<1> HIDE DEF byPlan, byRow
<1> QED BY <1>1, <1>2, <1>3

\* Without a payment that names it nothing is paid of an installment.
LEMMA NothingPaid ==
  ASSUME NEW rows, NEW s, NEW n, \A t \in DOMAIN rows : rows[t].service = s => rows[t].number # n
  PROVE  PaidForInstallment(rows, s, n) = 0
<1> DEFINE byRow == [t \in TxId |->
             IF t \in DOMAIN rows /\ rows[t].service = s /\ rows[t].number = n
                /\ rows[t].type = "payment"
             THEN rows[t].amount ELSE 0]
<1>1. byRow \in [1..MaxTx -> Nat] /\ MaxTx \in Nat \ {0} /\ \A t \in 1..MaxTx : byRow[t] = 0
  BY LmsBounds DEF TxId
<1>2. PaidForInstallment(rows, s, n) = SumTo(byRow, MaxTx)
  BY DEF PaidForInstallment, Total
<1> HIDE DEF byRow
<1> QED BY <1>1, <1>2, SumToZero

Covered(row) == row.paid >= row.amount /\ row.amount > 0

\* A skipped row stays skipped, and another is paid when it is covered.
LEMMA StatusRules ==
  ASSUME NEW row \in Installment, NEW day
  PROVE  /\ row.status = "skipped" => StatusOf(row, day) = "skipped"
         /\ row.status # "skipped" =>
              StatusOf(row, day) # "skipped" /\ (StatusOf(row, day) = "paid" <=> Covered(row))
<1>1. CASE row.status = "skipped"
  BY <1>1 DEF StatusOf
<1>2. CASE row.status # "skipped" /\ Covered(row)
  BY <1>2 DEF StatusOf, Covered
<1>3. CASE row.status # "skipped" /\ ~Covered(row) /\ row.paid > 0
  <2>1. StatusOf(row, day) = "partial"
    BY <1>3 DEF StatusOf, Covered
  <2> QED BY <1>3, <2>1
<1>4. CASE row.status # "skipped" /\ ~Covered(row) /\ ~(row.paid > 0)
  <2>1. StatusOf(row, day) \in {"overdue", "pending"}
    BY <1>4 DEF StatusOf, Covered
  <2> QED BY <1>4, <2>1
<1> QED BY <1>1, <1>2, <1>3, <1>4

\* A row after the statuses of its plan are derived again.
LEMMA RestatusedRow ==
  ASSUME NEW table, Table(table, InstKey, Installment), NEW s, NEW day, NEW k \in DOMAIN table
  PROVE  LET after == Restatused(table, s, day)[k]
         IN  /\ after.amount = table[k].amount /\ after.paid = table[k].paid
             /\ k[1] # s => after = table[k]
             /\ k[1] = s =>
                  /\ table[k].status = "skipped" <=> after.status = "skipped"
                  /\ after.status # "skipped" => (after.status = "paid" <=> Covered(after))
<1> DEFINE after == Restatused(table, s, day)[k]
<1>1. table[k] \in Installment
  BY DEF Table
<1>2. CASE k[1] # s
  BY <1>2 DEF Restatused
<1>3. CASE k[1] = s
  <2>1. after = [table[k] EXCEPT !.status = StatusOf(table[k], day)]
    BY <1>3 DEF Restatused
  <2>2. /\ after.amount = table[k].amount /\ after.paid = table[k].paid
        /\ after.status = StatusOf(table[k], day)
    BY <1>1, <2>1 DEF Installment
  <2> HIDE DEF after
  <2>3. Covered(after) <=> Covered(table[k])
    BY <2>2 DEF Covered
  <2>4. after.status = "skipped" <=> table[k].status = "skipped"
    BY <1>1, <2>2, StatusRules
  <2>5. after.status # "skipped" => (after.status = "paid" <=> Covered(after))
    BY <1>1, <2>2, <2>3, <2>4, StatusRules
  <2> QED BY <1>3, <2>2, <2>4, <2>5 DEF after
<1> QED BY <1>2, <1>3

\* The two halves of a rebuilt plan: its rows before the debt is shared out, and after.
Rechecked(table, rows, s, day) == Restatused(Repaid(table, rows, s), s, day)

Share(table, rows, s) == Owed(rows, s) \div Cardinality(OpenIn(table, s))

LEMMA RecheckedRow ==
  ASSUME NEW table, Table(table, InstKey, Installment), NEW rows, Table(rows, TxId, Tx),
         NEW s \in DOMAIN rows, NEW day, NEW k \in DOMAIN table
  PROVE  LET after == Rechecked(table, rows, s, day)[k]
         IN  /\ k[1] # s => after = table[k]
             /\ k[1] = s =>
                  /\ after.paid = PaidForInstallment(rows, s, k[2])
                  /\ table[k].status = "skipped" <=> after.status = "skipped"
                  /\ after.status # "skipped" => (after.status = "paid" <=> Covered(after))
<1> DEFINE repaid == Repaid(table, rows, s)
<1>1. Table(repaid, InstKey, Installment)
  BY RepaidType
<1>2. k \in DOMAIN repaid /\ table[k] \in Installment
  BY DEF Repaid, Table
<1>3. k[1] # s => repaid[k] = table[k]
  BY DEF Repaid
<1>4. k[1] = s => /\ repaid[k].paid = PaidForInstallment(rows, s, k[2])
                  /\ repaid[k].status = table[k].status
  BY <1>2 DEF Repaid, Installment
<1> HIDE DEF repaid
<1>5. Rechecked(table, rows, s, day) = Restatused(repaid, s, day)
  BY DEF Rechecked, repaid
<1> QED BY <1>1, <1>2, <1>3, <1>4, <1>5, RestatusedRow

\* A row of a plan after the plan is rebuilt.
LEMMA SyncedRow ==
  ASSUME NEW table, Table(table, InstKey, Installment), NEW rows, Table(rows, TxId, Tx),
         NEW s \in DOMAIN rows, NEW day, NEW k \in DOMAIN table
  PROVE  LET first == Rechecked(table, rows, s, day)
             after == Synced(table, rows, s, day)[k]
         IN  /\ k[1] # s => after = table[k]
             /\ k[1] = s =>
                  /\ after.paid = PaidForInstallment(rows, s, k[2])
                  /\ table[k].status = "skipped" => after.status = "skipped"
                  /\ after.status # "skipped" => (after.status = "paid" <=> Covered(after))
                  /\ k \in OpenIn(first, s) =>
                       /\ after.amount = after.paid + Share(first, rows, s)
                       /\ after.status # "skipped"
                  /\ k \notin OpenIn(first, s) => after.status \in Closed
<1> DEFINE first == Rechecked(table, rows, s, day)
           shared == Redistributed(first, rows, s)
           after == Synced(table, rows, s, day)[k]
<1>1. Table(first, InstKey, Installment) /\ DOMAIN first = DOMAIN table
  <2>1. Table(Repaid(table, rows, s), InstKey, Installment)
    BY RepaidType
  <2>2. Table(first, InstKey, Installment)
    BY <2>1, RestatusedType DEF Rechecked
  <2> QED BY <2>2 DEF Rechecked, Restatused, Repaid
<1>2. first[k] \in Installment
  BY <1>1 DEF Table
<1>3. /\ k[1] # s => first[k] = table[k]
      /\ k[1] = s =>
           /\ first[k].paid = PaidForInstallment(rows, s, k[2])
           /\ table[k].status = "skipped" <=> first[k].status = "skipped"
           /\ first[k].status # "skipped" => (first[k].status = "paid" <=> Covered(first[k]))
  BY RecheckedRow
<1> HIDE DEF first
<1>4. Table(shared, InstKey, Installment) /\ DOMAIN shared = DOMAIN table
  BY <1>1, RedistributedType DEF Redistributed
<1>5. /\ k \notin OpenIn(first, s) => shared[k] = first[k]
      /\ k \in OpenIn(first, s) =>
           /\ shared[k].amount = first[k].paid + Share(first, rows, s)
           /\ shared[k].paid = first[k].paid /\ shared[k].status = first[k].status
  BY <1>1, <1>2 DEF Redistributed, Share, Installment
<1>6. k[1] = s => (k \in OpenIn(first, s) <=> first[k].status \notin Closed)
  BY <1>1 DEF OpenIn, PlanOf
<1>7. k[1] # s => k \notin OpenIn(first, s)
  BY DEF OpenIn, PlanOf
<1>8. Synced(table, rows, s, day) = Restatused(shared, s, day)
  BY DEF Synced, shared, first, Rechecked
<1> HIDE DEF shared
<1>9. /\ after.amount = shared[k].amount /\ after.paid = shared[k].paid
      /\ k[1] # s => after = shared[k]
      /\ k[1] = s =>
           /\ shared[k].status = "skipped" <=> after.status = "skipped"
           /\ after.status # "skipped" => (after.status = "paid" <=> Covered(after))
  BY <1>4, <1>8, RestatusedRow
<1> HIDE DEF after
<1>10. k[1] # s => after = table[k]
  BY <1>3, <1>5, <1>7, <1>9
<1>11. ASSUME k[1] = s, k \in OpenIn(first, s)
       PROVE  /\ after.paid = PaidForInstallment(rows, s, k[2])
              /\ table[k].status = "skipped" => after.status = "skipped"
              /\ after.amount = after.paid + Share(first, rows, s) /\ after.status # "skipped"
  BY <1>3, <1>5, <1>6, <1>9, <1>11 DEF Closed
<1>12. ASSUME k[1] = s, k \notin OpenIn(first, s)
       PROVE  /\ after.paid = PaidForInstallment(rows, s, k[2])
              /\ table[k].status = "skipped" => after.status = "skipped"
              /\ after.status \in Closed
  <2>1. first[k].status \in Closed /\ shared[k] = first[k]
    BY <1>5, <1>6, <1>12
  <2>2. Covered(after) <=> Covered(first[k])
    BY <1>9, <2>1 DEF Covered
  <2> QED BY <1>3, <1>9, <1>12, <2>1, <2>2 DEF Closed
<1> QED BY <1>9, <1>10, <1>11, <1>12 DEF after, first

-----------------------------------------------------------------------------
(* What a step does to the plan of a service.                              *)

PlanKept(s) ==
  /\ PlanOf(inst', s) = PlanOf(inst, s) /\ \A k \in PlanOf(inst, s) : inst'[k] = inst[k]
  /\ SamePayments(tx, tx', s) /\ tx'[s].amount = tx[s].amount
  /\ s \in unsynced => s \in unsynced'

PlanEdited(s) ==
  /\ PlanOf(inst', s) = PlanOf(inst, s)
  /\ \A k \in PlanOf(inst, s) : inst'[k].paid = inst[k].paid /\ inst'[k].status = inst[k].status
  /\ SamePayments(tx, tx', s)
  /\ s \in unsynced'

PlanRebuilt(s) ==
  \E base :
    /\ Table(base, InstKey, Installment) /\ DOMAIN base = DOMAIN inst
    /\ \A k \in PlanOf(inst, s) : inst[k].status = "skipped" => base[k].status = "skipped"
    /\ s \in DOMAIN tx' /\ inst' = Synced(base, tx', s, today)

PlanDrawn(s) ==
  /\ PlanOf(inst, s) = {}
  /\ \A k \in PlanOf(inst', s) :
       inst'[k].paid = 0 /\ inst'[k].status = "pending" /\ inst'[k].amount \in Nat
  /\ \A t \in DOMAIN tx' : tx'[t].service = s => tx'[t].number = None
  /\ \/ s \in unsynced'
     \/ /\ s = nextTx
        /\ \E c \in Customers, amount \in DebtAmounts, deposit \in PayAmounts \cup {0},
              term \in InstNo, first \in Day : AddService(c, amount, deposit, term, first)

PlanCase(s) ==
  PlanOf(inst', s) # {} => PlanKept(s) \/ PlanEdited(s) \/ PlanRebuilt(s) \/ PlanDrawn(s)

\* A service with installments has its transaction.
LEMMA PlanService ==
  ASSUME LedgerInv, NEW s, PlanOf(inst, s) # {}
  PROVE  s \in Services(tx) /\ s \in DOMAIN tx /\ s \in TxId /\ s # None /\ tx[s].type = "service"
BY DEF LedgerInv, References, PlanOf, Services, TypeOK, Table, TxId, None

\* Only the transactions of other services change, and no row.
LEMMA RowsStay ==
  ASSUME LedgerInv, UNCHANGED <<inst, unsynced>>,
         \A t \in DOMAIN tx : t \in DOMAIN tx' /\ tx'[t] = tx[t],
         \A t \in DOMAIN tx' \ DOMAIN tx : tx'[t].type # "payment" \/ tx'[t].service = None,
         NEW s
  PROVE  PlanCase(s)
<1> SUFFICES ASSUME PlanOf(inst, s) # {} PROVE PlanKept(s)
  BY DEF PlanCase
<1>1. s \in DOMAIN tx /\ s # None
  BY PlanService
<1> QED BY <1>1 DEF PlanKept, SamePayments

\* A plan is rebuilt, and the others keep their payments.
LEMMA OneRebuilt ==
  ASSUME LedgerInv, NEW s \in DOMAIN tx', Table(tx', TxId, Tx),
         NEW base, Table(base, InstKey, Installment), DOMAIN base = DOMAIN inst,
         \A k \in DOMAIN inst : /\ k[1] # s => base[k] = inst[k]
                                /\ inst[k].status = "skipped" => base[k].status = "skipped",
         inst' = Synced(base, tx', s, today), unsynced' = unsynced \ {s},
         \A t \in DOMAIN tx' : t \notin DOMAIN tx \/ tx[t] # tx'[t] => tx'[t].service = s,
         \A t \in DOMAIN tx : t \notin DOMAIN tx' \/ tx[t] # tx'[t] =>
                                tx[t].service = s /\ tx[t].type = "payment",
         NEW u
  PROVE  PlanCase(u)
<1> SUFFICES ASSUME PlanOf(inst', u) # {} PROVE PlanKept(u) \/ PlanRebuilt(u)
  BY DEF PlanCase
<1>1. CASE u = s
  BY <1>1 DEF PlanRebuilt, PlanOf
<1>2. CASE u # s
  <2>1. DOMAIN inst' = DOMAIN inst
    BY SyncedDomain
  <2>2. PlanOf(inst', u) = PlanOf(inst, u)
    BY <2>1 DEF PlanOf
  <2>3. \A k \in PlanOf(inst, u) : inst'[k] = inst[k]
    BY <1>2, SyncedRow DEF PlanOf
  <2>4. u \in DOMAIN tx /\ tx[u].type = "service"
    BY <2>2, PlanService
  <2>5. u \in DOMAIN tx' /\ tx'[u] = tx[u]
    BY <2>4
  <2>6. SamePayments(tx, tx', u)
    BY <1>2 DEF SamePayments
  <2> QED BY <1>2, <2>2, <2>3, <2>5, <2>6 DEF PlanKept
<1> QED BY <1>1, <1>2

LEMMA RecordInstallmentPaymentPlans ==
  ASSUME LedgerInv, NEW l \in LoanId, NEW s \in TxId, NEW n \in InstNo,
         NEW temporary \in BOOLEAN, NEW amount \in PayAmounts,
         RecordInstallmentPayment(l, s, n, temporary, amount), NEW u
  PROVE  PlanCase(u)
<1> DEFINE row == Payment(l, amount, s, IF temporary THEN None ELSE n)
           base == SkippedBefore(s, n)
<1>1. row \in Tx /\ row.service = s
  BY LmsAmounts DEF Payment, Tx
<1>2. /\ s \in Services(tx) /\ nextTx <= MaxTx /\ tx' = Put(tx, nextTx, row)
      /\ inst' = Synced(base, tx', s, today) /\ unsynced' = unsynced \ {s}
  BY DEF RecordInstallmentPayment, SyncPlan
<1> HIDE DEF row
<1>3. /\ Table(tx', TxId, Tx) /\ s \in DOMAIN tx'
      /\ \A t \in DOMAIN tx' : t \notin DOMAIN tx \/ tx[t] # tx'[t] => tx'[t].service = s
      /\ \A t \in DOMAIN tx : t \in DOMAIN tx' /\ tx'[t] = tx[t]
  BY <1>1, <1>2, PostedRow DEF Services
<1>4. Table(base, InstKey, Installment) /\ DOMAIN base = DOMAIN inst
  BY SkippedBeforeType
<1>5. \A k \in DOMAIN inst : /\ k[1] # s => base[k] = inst[k]
                             /\ inst[k].status = "skipped" => base[k].status = "skipped"
  BY DEF SkippedBefore
<1> HIDE DEF base
<1> QED BY <1>2, <1>3, <1>4, <1>5, OneRebuilt

LEMMA SkipInstallmentPlans ==
  ASSUME LedgerInv, NEW k \in InstKey, SkipInstallment(k), NEW u
  PROVE  PlanCase(u)
<1> DEFINE base == [inst EXCEPT ![k].status = "skipped", ![k].paid = 0]
<1>1. /\ k \in DOMAIN inst /\ k[1] \in DOMAIN tx /\ tx' = tx
      /\ Table(tx, TxId, Tx) /\ Table(inst, InstKey, Installment)
      /\ inst' = Synced(base, tx', k[1], today) /\ unsynced' = unsynced \ {k[1]}
  BY DEF SkipInstallment, SyncPlan, Services, LedgerInv, TypeOK, References
<1>2. Table(base, InstKey, Installment) /\ DOMAIN base = DOMAIN inst
  BY <1>1 DEF Table, Installment
<1>3. \A j \in DOMAIN inst : /\ j[1] # k[1] => base[j] = inst[j]
                             /\ inst[j].status = "skipped" => base[j].status = "skipped"
  BY <1>1 DEF Table, Installment
<1> HIDE DEF base
<1> QED BY <1>1, <1>2, <1>3, OneRebuilt

\* A payment that is changed or deleted has its plan rebuilt, if it has one.
LEMMA RevisedPaymentPlans ==
  ASSUME LedgerInv, NEW p \in Payments(tx), Table(tx', TxId, Tx),
         DOMAIN tx' \subseteq DOMAIN tx, DOMAIN tx \ {p} \subseteq DOMAIN tx',
         \A t \in DOMAIN tx' : /\ t # p => tx'[t] = tx[t]
                               /\ tx'[t].service = tx[t].service /\ tx'[t].type = tx[t].type,
         PlanFollows(tx[p]), NEW u
  PROVE  PlanCase(u)
<1>0. p \in DOMAIN tx /\ tx[p].type = "payment" /\ Table(inst, InstKey, Installment)
  BY DEF Payments, LedgerInv, TypeOK
<1>1. CASE tx[p].service # None
  <2> DEFINE s == tx[p].service
  <2>1. inst' = Synced(inst, tx', s, today) /\ unsynced' = unsynced \ {s}
    BY <1>1 DEF PlanFollows, SyncPlan
  <2>2. s \in DOMAIN tx /\ s # p
    BY <1>0, <1>1 DEF LedgerInv, References, Services
  <2>3. /\ \A t \in DOMAIN tx' : t \notin DOMAIN tx \/ tx[t] # tx'[t] => tx'[t].service = s
        /\ \A t \in DOMAIN tx : t \notin DOMAIN tx' \/ tx[t] # tx'[t] =>
                                  tx[t].service = s /\ tx[t].type = "payment"
    BY <1>0
  <2> HIDE DEF s
  <2> QED BY <1>0, <2>1, <2>2, <2>3, OneRebuilt
<1>2. CASE tx[p].service = None
  <2>1. UNCHANGED <<inst, unsynced>>
    BY <1>2 DEF PlanFollows
  <2> SUFFICES ASSUME PlanOf(inst, u) # {} PROVE PlanKept(u)
    BY <2>1 DEF PlanCase
  <2>2. u \in DOMAIN tx /\ u # None /\ tx[u].type = "service"
    BY PlanService
  <2>3. tx'[u] = tx[u]
    BY <1>0, <2>2
  <2>4. SamePayments(tx, tx', u)
    BY <1>2, <2>2 DEF SamePayments
  <2> QED BY <2>1, <2>3, <2>4 DEF PlanKept
<1> QED BY <1>1, <1>2

LEMMA UpdatePaymentPlans ==
  ASSUME LedgerInv, NEW t \in TxId, NEW amount \in PayAmounts, UpdatePayment(t, amount), NEW u
  PROVE  PlanCase(u)
<1>1. t \in DOMAIN tx /\ t \in Payments(tx) /\ Table(tx, TxId, Tx)
  BY DEF UpdatePayment, Payments, LedgerInv, TypeOK
<1>2. Table(tx', TxId, Tx) /\ DOMAIN tx' = DOMAIN tx
  BY <1>1, LmsAmounts DEF UpdatePayment, Table, Tx
<1>3. \A v \in DOMAIN tx' : /\ v # t => tx'[v] = tx[v]
                            /\ tx'[v].service = tx[v].service /\ tx'[v].type = tx[v].type
  BY <1>1 DEF UpdatePayment, Table, Tx
<1> QED BY <1>1, <1>2, <1>3, RevisedPaymentPlans DEF UpdatePayment

LEMMA DeletePaymentPlans ==
  ASSUME LedgerInv, NEW t \in TxId, DeletePayment(t), NEW u
  PROVE  PlanCase(u)
<1>1. t \in DOMAIN tx /\ t \in Payments(tx) /\ Table(tx, TxId, Tx)
  BY DEF DeletePayment, Payments, LedgerInv, TypeOK
<1>2. /\ Table(tx', TxId, Tx) /\ DOMAIN tx' = DOMAIN tx \ {t}
      /\ \A v \in DOMAIN tx' : tx'[v] = tx[v]
  BY <1>1 DEF DeletePayment, Table, Without
<1> QED BY <1>1, <1>2, RevisedPaymentPlans DEF DeletePayment

\* A new service gets a plan, and the others keep theirs.
LEMMA AddServicePlans ==
  ASSUME LedgerInv, NEW c \in Customers, NEW amount \in DebtAmounts,
         NEW deposit \in PayAmounts \cup {0}, NEW term \in InstNo, NEW first \in Day,
         AddService(c, amount, deposit, term, first), NEW u
  PROVE  PlanCase(u)
<1> DEFINE s == nextTx
<1>1. /\ s \in TxId /\ s \notin DOMAIN tx
      /\ DOMAIN tx' = DOMAIN tx \cup {s} \cup (IF deposit > 0 THEN {s + 1} ELSE {})
      /\ \A t \in DOMAIN tx : tx'[t] = tx[t]
      /\ tx'[s] = Charge(nextLoan, "service", amount)
      /\ deposit > 0 => tx'[s + 1] = Payment(nextLoan, deposit, s, None)
      /\ s + 1 \notin DOMAIN tx
  BY ServiceRows
<1>2. PICK plan :
        /\ inst' = With(inst, plan)
        /\ Table(plan, InstKey, Installment) /\ \A k \in DOMAIN plan : k[1] = s
        /\ \/ plan = EqualPlan(s, amount - deposit, term, first) /\ amount # deposit
           \/ plan \in ExplicitPlans(s, amount - deposit, first)
           \/ plan = <<>> /\ amount = deposit
  BY ServicePlan
<1>3. unsynced' = unsynced
  BY DEF AddService
<1>4. \A k \in DOMAIN plan : /\ plan[k].paid = 0 /\ plan[k].status = "pending"
                             /\ plan[k].amount \in Nat
  <2>1. \A k \in DOMAIN plan : plan[k].paid = 0 /\ plan[k].status = "pending"
    BY <1>2 DEF EqualPlan, ExplicitPlans, NewInstallment
  <2> QED BY <1>2, <2>1 DEF Table, Installment
<1>5. /\ DOMAIN inst' = DOMAIN inst \cup DOMAIN plan
      /\ \A k \in DOMAIN plan : inst'[k] = plan[k]
      /\ \A k \in DOMAIN inst \ DOMAIN plan : inst'[k] = inst[k]
  BY <1>2 DEF With
<1>6. \A t \in DOMAIN tx : tx[t].service # s
  <2>1. s # None
    BY <1>1, LmsBounds DEF TxId, None
  <2> QED BY <1>1, <2>1 DEF LedgerInv, References, Services
<1>7. PlanOf(inst, s) = {}
  BY <1>1, PlanService
<1>8. CASE u = s
  <2>1. \A k \in PlanOf(inst', s) : k \in DOMAIN plan
    BY <1>5, <1>7 DEF PlanOf
  <2>2. \A t \in DOMAIN tx' : tx'[t].service = s => tx'[t].number = None
    BY <1>1, <1>6 DEF Charge, Payment
  <2>3. PlanDrawn(s)
    BY <1>4, <1>5, <1>7, <2>1, <2>2 DEF PlanDrawn
  <2> QED BY <1>8, <2>3 DEF PlanCase
<1>9. CASE u # s
  <2>1. PlanOf(inst', u) = PlanOf(inst, u) /\ \A k \in PlanOf(inst, u) : inst'[k] = inst[k]
    BY <1>2, <1>5, <1>9 DEF PlanOf
  <2> SUFFICES ASSUME PlanOf(inst, u) # {} PROVE PlanKept(u)
    BY <2>1 DEF PlanCase
  <2>2. u \in DOMAIN tx /\ u # None
    BY PlanService
  <2>3. SamePayments(tx, tx', u)
    <3>1. \A t \in DOMAIN tx' \ DOMAIN tx : tx'[t].service # u
      BY <1>1, <1>9, <2>2 DEF Charge, Payment
    <3> QED BY <1>1, <3>1 DEF SamePayments
  <2> QED BY <1>1, <1>3, <2>1, <2>2, <2>3 DEF PlanKept
<1> QED BY <1>8, <1>9

\* Services go, with their installments and their payments.
LEMMA SomeGone ==
  ASSUME LedgerInv, NEW gone, DOMAIN tx' = DOMAIN tx \ gone, \A t \in DOMAIN tx' : tx'[t] = tx[t],
         DOMAIN inst' = {k \in DOMAIN inst : k[1] \notin gone},
         \A k \in DOMAIN inst' : inst'[k] = inst[k], unsynced' = unsynced \ gone,
         \A t \in DOMAIN tx \cap gone : tx[t].type = "payment" =>
           tx[t].service = None \/ tx[t].service \in gone,
         NEW u
  PROVE  PlanCase(u)
<1> SUFFICES ASSUME PlanOf(inst', u) # {} PROVE PlanKept(u)
  BY DEF PlanCase
<1>1. u \notin gone /\ PlanOf(inst', u) = PlanOf(inst, u)
  BY DEF PlanOf
<1>2. u \in DOMAIN tx /\ u # None
  BY <1>1, PlanService
<1>3. \A k \in PlanOf(inst, u) : inst'[k] = inst[k]
  BY <1>1 DEF PlanOf
<1>4. SamePayments(tx, tx', u)
  BY <1>1, <1>2 DEF SamePayments
<1> QED BY <1>1, <1>2, <1>3, <1>4 DEF PlanKept

LEMMA DeleteInstallmentPlanPlans ==
  ASSUME LedgerInv, NEW s \in TxId, DeleteInstallmentPlan(s), NEW u
  PROVE  PlanCase(u)
<1>1. /\ s \in DOMAIN tx /\ tx[s].type = "service"
      /\ DOMAIN tx' = DOMAIN tx \ {s} /\ \A t \in DOMAIN tx' : tx'[t] = tx[t]
      /\ DOMAIN inst' = {k \in DOMAIN inst : k[1] \notin {s}}
      /\ \A k \in DOMAIN inst' : inst'[k] = inst[k] /\ unsynced' = unsynced \ {s}
  BY DEF DeleteInstallmentPlan, Services, Without, PlanOf
<1>2. unsynced' = unsynced \ {s}
  BY DEF DeleteInstallmentPlan
<1> QED BY <1>1, <1>2, SomeGone

LEMMA DeleteCustomerPlans ==
  ASSUME LedgerInv, NEW c \in Customers, DeleteCustomer(c), NEW u
  PROVE  PlanCase(u)
<1> DEFINE gone == {t \in DOMAIN tx : tx[t].loan \in LoansOf(c)}
<1>1. /\ DOMAIN tx' = DOMAIN tx \ gone /\ \A t \in DOMAIN tx' : tx'[t] = tx[t]
      /\ DOMAIN inst' = {k \in DOMAIN inst : k[1] \notin gone}
      /\ \A k \in DOMAIN inst' : inst'[k] = inst[k]
      /\ unsynced' = unsynced \ gone
  BY DEF DeleteCustomer, Without
<1>2. \A t \in DOMAIN tx \cap gone : tx[t].type = "payment" =>
        tx[t].service = None \/ tx[t].service \in gone
  BY DEF LedgerInv, References, Services
<1> HIDE DEF gone
<1> QED BY <1>1, <1>2, SomeGone

LEMMA UpdateInstallmentsPlans ==
  ASSUME LedgerInv, NEW keys \in SUBSET (DOMAIN inst), NEW change \in Changes(keys),
         UpdateInstallments(change), NEW u
  PROVE  PlanCase(u)
<1>1. /\ tx' = tx /\ unsynced' = unsynced \cup {k[1] : k \in DOMAIN change}
      /\ DOMAIN inst' = DOMAIN inst
      /\ \A k \in DOMAIN inst : k \notin DOMAIN change => inst'[k] = inst[k]
      /\ \A k \in DOMAIN inst : inst'[k].paid = inst[k].paid /\ inst'[k].status = inst[k].status
  BY DEF UpdateInstallments, LedgerInv, TypeOK, Table, Installment
<1>2. PlanOf(inst', u) = PlanOf(inst, u) /\ SamePayments(tx, tx', u)
  BY <1>1 DEF PlanOf, SamePayments
<1>3. CASE u \in unsynced'
  BY <1>1, <1>2, <1>3 DEF PlanEdited, PlanCase, PlanOf
<1>4. CASE u \notin unsynced'
  BY <1>1, <1>2, <1>4 DEF PlanKept, PlanCase, PlanOf
<1> QED BY <1>3, <1>4

LEMMA MigrationWritePlans ==
  ASSUME LedgerInv, NEW job \in migration, MigrationWrite(job), NEW u
  PROVE  PlanCase(u)
<1>1. /\ tx' = tx /\ unsynced \subseteq unsynced' /\ DOMAIN inst' = DOMAIN inst
      /\ job.key \in DOMAIN inst => job.key[1] \in unsynced'
      /\ \A k \in DOMAIN inst : k # job.key => inst'[k] = inst[k]
      /\ \A k \in DOMAIN inst : inst'[k].paid = inst[k].paid /\ inst'[k].status = inst[k].status
  BY DEF MigrationWrite, LedgerInv, TypeOK, Table, Installment
<1>2. PlanOf(inst', u) = PlanOf(inst, u) /\ SamePayments(tx, tx', u)
  BY <1>1 DEF PlanOf, SamePayments
<1>3. CASE u \in unsynced'
  BY <1>1, <1>2, <1>3 DEF PlanEdited, PlanCase, PlanOf
<1>4. CASE u \notin unsynced'
  BY <1>1, <1>2, <1>4 DEF PlanKept, PlanCase, PlanOf
<1> QED BY <1>3, <1>4

LEMMA BackfillVisitPlans ==
  ASSUME LedgerInv, NEW job \in backfill, NEW first \in Day, BackfillVisit(job, first), NEW u
  PROVE  PlanCase(u)
<1>1. CASE UNCHANGED <<inst, unsynced>>
  <2>1. tx' = tx
    BY DEF BackfillVisit
  <2> QED BY <1>1, <2>1, RowsStay
<1>2. CASE /\ PlanOf(inst, job.service) = {} /\ job.service \in DOMAIN tx
           /\ inst' = With(inst, EqualPlan(job.service, BackfillAmount(job), job.term, first))
           /\ unsynced' = unsynced \cup {job.service}
  <2> DEFINE s == job.service
             plan == EqualPlan(s, BackfillAmount(job), job.term, first)
  <2>1. /\ s \in TxId /\ BackfillAmount(job) \in Nat /\ job.term \in InstNo /\ first \in Nat
        /\ tx' = tx
    BY LmsBounds DEF BackfillVisit, BackfillAmount, BackfillJob, LedgerInv, TypeOK, Day
  <2>2. Table(plan, InstKey, Installment) /\ \A k \in DOMAIN plan : k[1] = s
    BY <2>1, EqualPlanType
  <2>3. \A k \in DOMAIN plan : /\ plan[k].paid = 0 /\ plan[k].status = "pending"
                               /\ plan[k].amount \in Nat
    <3>1. \A k \in DOMAIN plan : plan[k].paid = 0 /\ plan[k].status = "pending"
      BY DEF EqualPlan, NewInstallment
    <3> QED BY <2>2, <3>1 DEF Table, Installment
  <2> HIDE DEF plan
  <2>4. /\ DOMAIN inst' = DOMAIN inst \cup DOMAIN plan
        /\ \A k \in DOMAIN plan : inst'[k] = plan[k]
        /\ \A k \in DOMAIN inst \ DOMAIN plan : inst'[k] = inst[k]
    BY <1>2 DEF With, plan
  <2>5. CASE u = s
    <3>1. \A t \in DOMAIN tx' : tx'[t].service = s => tx'[t].number = None
      <4>1. \A n : <<s, n>> \notin DOMAIN inst
        BY <1>2 DEF PlanOf
      <4> HIDE DEF s
      <4> QED BY <2>1, <4>1 DEF LedgerInv, References
    <3>2. \A k \in PlanOf(inst', s) : k \in DOMAIN plan
      BY <1>2, <2>4 DEF PlanOf
    <3>3. PlanDrawn(s)
      BY <1>2, <2>3, <2>4, <3>1, <3>2 DEF PlanDrawn
    <3> QED BY <2>5, <3>3 DEF PlanCase
  <2>6. CASE u # s
    <3>1. PlanOf(inst', u) = PlanOf(inst, u) /\ \A k \in PlanOf(inst, u) : inst'[k] = inst[k]
      BY <2>2, <2>4, <2>6 DEF PlanOf
    <3>2. SamePayments(tx, tx', u)
      BY <2>1 DEF SamePayments
    <3> QED BY <1>2, <2>1, <3>1, <3>2 DEF PlanKept, PlanCase
  <2> QED BY <2>5, <2>6
<1> QED BY <1>1, <1>2 DEF BackfillVisit

\* One transaction is inserted that pays no installment plan.
LEMMA OneInserted ==
  ASSUME LedgerInv, NEW row \in Tx, row.type # "payment" \/ row.service = None,
         nextTx <= MaxTx, tx' = Put(tx, nextTx, row), UNCHANGED <<inst, unsynced>>, NEW u
  PROVE  PlanCase(u)
<1>1. /\ DOMAIN tx' = DOMAIN tx \cup {nextTx} /\ tx'[nextTx] = row
      /\ \A t \in DOMAIN tx : tx'[t] = tx[t]
  BY PostedRow
<1> QED BY <1>1, RowsStay

\* Every step keeps, edits, rebuilds or draws up a plan, or deletes it.
LEMMA PlanCases ==
  ASSUME LedgerInv, [Next]_vars, NEW u
  PROVE  PlanCase(u)
<1> USE LmsAmounts DEF Tx, Charge, Payment
<1>0. ASSUME UNCHANGED <<tx, inst, unsynced>> PROVE PlanCase(u)
  BY <1>0, RowsStay
<1>1. ASSUME NEW c \in Customers, CreateCustomer(c) PROVE PlanCase(u)
  BY <1>0, <1>1 DEF CreateCustomer
<1>2. ASSUME NEW c \in Customers, DeleteCustomer(c) PROVE PlanCase(u)
  BY <1>2, DeleteCustomerPlans
<1>c. ASSUME NEW l \in LoanId, NEW type \in {"service", "fee"}, NEW amount \in DebtAmounts
      PROVE  Charge(l, type, amount) \in Tx /\ Charge(l, type, amount).type # "payment"
  OBVIOUS
<1>3. ASSUME NEW c \in Customers, NEW type \in {"service", "fee"}, NEW amount \in DebtAmounts,
             CreateCustomerWithDebt(c, type, amount)
      PROVE PlanCase(u)
  <2>1. nextLoan \in LoanId
    BY <1>3, LmsBounds DEF CreateCustomerWithDebt, LedgerInv, TypeOK, LoanId
  <2> HIDE DEF Charge
  <2> QED BY <1>3, <1>c, <2>1, OneInserted DEF CreateCustomerWithDebt
<1>4. ASSUME NEW c \in Customers, NEW amount \in DebtAmounts, NEW deposit \in PayAmounts \cup {0},
             NEW term \in InstNo, NEW first \in Day, AddService(c, amount, deposit, term, first)
      PROVE PlanCase(u)
  BY <1>4, AddServicePlans
<1>5. ASSUME NEW l \in LoanId, NEW amount \in DebtAmounts, AddFee(l, amount) PROVE PlanCase(u)
  <2> HIDE DEF Charge
  <2> QED BY <1>5, <1>c, OneInserted DEF AddFee
<1>6. ASSUME NEW c \in Customers, NEW amount \in DebtAmounts, AddCustomerFee(c, amount)
      PROVE PlanCase(u)
  <2>1. ASSUME NEW l \in LoansOf(c), AddFee(l, amount) PROVE PlanCase(u)
    BY <1>5, <2>1 DEF LoansOf, LedgerInv, TypeOK, Table
  <2>2. ASSUME nextLoan <= MaxLoans, nextTx <= MaxTx, tx' = Put(tx, nextTx, Charge(nextLoan, "fee", amount)),
               UNCHANGED <<inst, unsynced>>
        PROVE PlanCase(u)
    <3>1. nextLoan \in LoanId
      BY <2>2, LmsBounds DEF LedgerInv, TypeOK, LoanId
    <3> HIDE DEF Charge
    <3> QED BY <1>c, <2>2, <3>1, OneInserted
  <2> HIDE DEF Charge
  <2> QED BY <1>6, <2>1, <2>2 DEF AddCustomerFee
<1>7. ASSUME NEW l \in LoanId, NEW amount \in PayAmounts, RecordPayment(l, amount) PROVE PlanCase(u)
  <2>1. Payment(l, amount, None, None) \in Tx /\ Payment(l, amount, None, None).service = None
    OBVIOUS
  <2> HIDE DEF Payment
  <2> QED BY <1>7, <2>1, OneInserted DEF RecordPayment
<1>8. ASSUME NEW l \in LoanId, NEW s \in TxId, NEW n \in InstNo, NEW temporary \in BOOLEAN,
             NEW amount \in PayAmounts, RecordInstallmentPayment(l, s, n, temporary, amount)
      PROVE PlanCase(u)
  BY <1>8, RecordInstallmentPaymentPlans
<1>9. ASSUME NEW t \in TxId, NEW amount \in PayAmounts, UpdatePayment(t, amount) PROVE PlanCase(u)
  BY <1>9, UpdatePaymentPlans
<1>10. ASSUME NEW t \in TxId, DeletePayment(t) PROVE PlanCase(u)
  BY <1>10, DeletePaymentPlans
<1>11. ASSUME NEW t \in TxId, DeleteInstallmentPlan(t) PROVE PlanCase(u)
  BY <1>11, DeleteInstallmentPlanPlans
<1>12. ASSUME NEW k \in InstKey, SkipInstallment(k) PROVE PlanCase(u)
  BY <1>12, SkipInstallmentPlans
<1>13. ASSUME NEW keys \in SUBSET (DOMAIN inst), NEW change \in Changes(keys), UpdateInstallments(change)
       PROVE PlanCase(u)
  BY <1>13, UpdateInstallmentsPlans
<1>14. ASSUME ClearAllData \/ WipeInstallments PROVE PlanCase(u)
  BY <1>14 DEF ClearAllData, WipeInstallments, PlanCase, PlanOf
<1>15. ASSUME BackfillRead \/ MigrationRead \/ NextDay \/ UNCHANGED vars PROVE PlanCase(u)
  BY <1>0, <1>15 DEF BackfillRead, MigrationRead, NextDay, vars
<1>16. ASSUME NEW job \in backfill, NEW first \in Day, BackfillVisit(job, first) PROVE PlanCase(u)
  BY <1>16, BackfillVisitPlans
<1>17. ASSUME NEW job \in migration, MigrationWrite(job) PROVE PlanCase(u)
  BY <1>17, MigrationWritePlans
<1> QED BY <1>1, <1>2, <1>3, <1>4, <1>5, <1>6, <1>7, <1>8, <1>9, <1>10, <1>11, <1>12, <1>13,
           <1>14, <1>15, <1>16, <1>17 DEF Next

-----------------------------------------------------------------------------
(* What is paid of an installment, and what its status says.               *)

\* An installment is in the plan of its service.
LEMMA RowOfPlan ==
  ASSUME NEW table, NEW k \in DOMAIN table
  PROVE  k \in PlanOf(table, k[1]) /\ PlanOf(table, k[1]) # {}
BY DEF PlanOf

LEMMA InstallmentPaidStep ==
  ASSUME LedgerInv, LedgerInv', InstallmentMatchesLedger, [Next]_vars
  PROVE  InstallmentMatchesLedger'
<1> SUFFICES ASSUME NEW k \in DOMAIN inst'
             PROVE  inst'[k].paid = PaidForInstallment(tx', k[1], k[2])
  BY DEF InstallmentMatchesLedger
<1> DEFINE s == k[1]
<1>1. k \in PlanOf(inst', s) /\ PlanOf(inst', s) # {}
  BY RowOfPlan
<1>2. PlanKept(s) \/ PlanEdited(s) \/ PlanRebuilt(s) \/ PlanDrawn(s)
  BY <1>1, PlanCases DEF PlanCase
<1>3. Table(tx', TxId, Tx) /\ k \in InstKey
  BY DEF LedgerInv, TypeOK, Table
<1>4. k[2] # None
  BY <1>3, LmsBounds DEF InstKey, InstNo, None
<1> HIDE DEF s
<1>5. CASE PlanKept(s) \/ PlanEdited(s)
  <2>1. k \in DOMAIN inst /\ inst'[k].paid = inst[k].paid /\ SamePayments(tx, tx', s)
    BY <1>1, <1>5 DEF PlanKept, PlanEdited, PlanOf
  <2>2. inst[k].paid = PaidForInstallment(tx, s, k[2])
    BY <2>1 DEF InstallmentMatchesLedger, s
  <2> QED BY <2>1, <2>2, PaymentsSame DEF s
<1>6. CASE PlanRebuilt(s)
  <2>1. PICK base :
          /\ Table(base, InstKey, Installment) /\ s \in DOMAIN tx' /\ inst' = Synced(base, tx', s, today)
    BY <1>6 DEF PlanRebuilt
  <2>2. k \in DOMAIN base
    BY <2>1, SyncedDomain
  <2> QED BY <1>3, <2>1, <2>2, SyncedRow DEF s
<1>7. CASE PlanDrawn(s)
  BY <1>1, <1>4, <1>7, NothingPaid DEF PlanDrawn, s
<1> QED BY <1>2, <1>5, <1>6, <1>7

LEMMA CoveredStep ==
  ASSUME LedgerInv, LedgerInv', PaidMeansCovered, [Next]_vars
  PROVE  PaidMeansCovered'
<1> SUFFICES ASSUME NEW k \in DOMAIN inst', k[1] \notin unsynced', inst'[k].status # "skipped"
             PROVE  inst'[k].status = "paid" <=> Covered(inst'[k])
  BY DEF PaidMeansCovered, Covered
<1> DEFINE s == k[1]
<1>1. k \in PlanOf(inst', s) /\ PlanOf(inst', s) # {}
  BY RowOfPlan
<1>2. PlanKept(s) \/ PlanEdited(s) \/ PlanRebuilt(s) \/ PlanDrawn(s)
  BY <1>1, PlanCases DEF PlanCase
<1>3. Table(tx', TxId, Tx)
  BY DEF LedgerInv, TypeOK
<1> HIDE DEF s
<1>5. CASE PlanKept(s)
  <2>1. k \in DOMAIN inst /\ inst'[k] = inst[k] /\ s \notin unsynced
    BY <1>1, <1>5 DEF PlanKept, PlanOf, s
  <2> QED BY <2>1 DEF PaidMeansCovered, Covered, s
<1>6. CASE PlanRebuilt(s)
  <2>1. PICK base :
          /\ Table(base, InstKey, Installment) /\ s \in DOMAIN tx' /\ inst' = Synced(base, tx', s, today)
    BY <1>6 DEF PlanRebuilt
  <2>2. k \in DOMAIN base
    BY <2>1, SyncedDomain
  <2> QED BY <1>3, <2>1, <2>2, SyncedRow DEF s
<1>7. CASE PlanDrawn(s)
  BY <1>1, <1>7 DEF PlanDrawn, Covered
<1>8. CASE PlanEdited(s)
  BY <1>8 DEF PlanEdited, s
<1> QED BY <1>2, <1>5, <1>6, <1>7, <1>8

LEMMA SkippedStep ==
  ASSUME LedgerInv, LedgerInv', [Next]_vars,
         NEW k \in DOMAIN inst \cap DOMAIN inst', inst[k].status = "skipped"
  PROVE  inst'[k].status = "skipped"
<1> DEFINE s == k[1]
<1>1. k \in PlanOf(inst, s) /\ k \in PlanOf(inst', s) /\ PlanOf(inst', s) # {}
  BY RowOfPlan
<1>2. PlanKept(s) \/ PlanEdited(s) \/ PlanRebuilt(s) \/ PlanDrawn(s)
  BY <1>1, PlanCases DEF PlanCase
<1>3. Table(tx', TxId, Tx)
  BY DEF LedgerInv, TypeOK
<1> HIDE DEF s
<1>5. CASE PlanKept(s) \/ PlanEdited(s)
  BY <1>1, <1>5 DEF PlanKept, PlanEdited
<1>6. CASE PlanRebuilt(s)
  <2>1. PICK base :
          /\ Table(base, InstKey, Installment) /\ s \in DOMAIN tx' /\ inst' = Synced(base, tx', s, today)
          /\ DOMAIN base = DOMAIN inst
          /\ \A j \in PlanOf(inst, s) : inst[j].status = "skipped" => base[j].status = "skipped"
    BY <1>6 DEF PlanRebuilt
  <2>2. k \in DOMAIN base /\ base[k].status = "skipped"
    BY <1>1, <2>1
  <2> QED BY <1>3, <2>1, <2>2, SyncedRow DEF s
<1>7. CASE PlanDrawn(s)
  BY <1>1, <1>7 DEF PlanDrawn
<1> QED BY <1>2, <1>5, <1>6, <1>7

-----------------------------------------------------------------------------
(* What the open installments ask for.                                     *)

\* A sum of multiples is a multiple.
LEMMA SumToMultiple ==
  ASSUME NEW m \in Nat, NEW d \in Int, NEW f \in [1..m -> Int],
         \A i \in 1..m : \E q \in Int : f[i] = d * q
  PROVE  \E q \in Int : SumTo(f, m) = d * q
<1>1. PICK g : /\ g = [n \in 0..m |-> IF n = 0 THEN 0 ELSE g[n - 1] + f[n]]
               /\ SumTo(f, m) = g[m]
  BY SumToPartial
<1> DEFINE Good(n) == \E q \in Int : g[n] = d * q
           T == {n \in 0..m : ~ Good(n)}
<1>2. Good(0)
  <2>1. g[0] = 0
    BY <1>1
  <2>2. d * 0 = 0
    OBVIOUS
  <2> QED BY <2>1, <2>2
<1>3. ASSUME NEW n \in 1..m, Good(n - 1) PROVE Good(n)
  <2>1. PICK p \in Int : g[n - 1] = d * p
    BY <1>3
  <2>2. PICK q \in Int : f[n] = d * q
    OBVIOUS
  <2>3. g[n] = g[n - 1] + f[n]
    BY <1>1
  <2>4. g[n] = d * (p + q) /\ p + q \in Int
    BY <2>1, <2>2, <2>3
  <2> QED BY <2>4
<1> HIDE DEF Good
<1>4. SUFFICES ASSUME T # {} PROVE FALSE
  <2>1. Good(m)
    BY <1>4
  <2> QED BY <2>1, <1>1 DEF Good
<1>5. PICK n \in T : \A j \in T : n <= j
  <2>1. T \subseteq Nat
    OBVIOUS
  <2> HIDE DEF T
  <2> QED BY <1>4, <2>1, LeastNatural
<1>6. n \in 1..m /\ n - 1 \in 0..m /\ ~ (n <= n - 1)
  BY <1>2, <1>5
<1>7. Good(n - 1)
  BY <1>5, <1>6
<1> QED BY <1>3, <1>5, <1>6, <1>7

\* A share for each member of a set adds up to the share times its size.
LEMMA SumToShares ==
  ASSUME NEW m \in Nat, NEW S \in SUBSET (1..m), NEW share \in Int
  PROVE  SumTo([i \in 1..m |-> IF i \in S THEN share ELSE 0], m) = Cardinality(S) * share
<1> DEFINE f == [i \in 1..m |-> IF i \in S THEN share ELSE 0]
           first(n) == S \cap (1..n)
           count(n) == Cardinality(first(n))
<1>1. \A n \in 0..m : IsFiniteSet(first(n)) /\ count(n) \in Nat
  <2>1. IsFiniteSet(1..m)
    BY FS_Interval
  <2>2. \A n \in 0..m : first(n) \in SUBSET (1..m)
    OBVIOUS
  <2> HIDE DEF first
  <2> QED BY <2>1, <2>2, FS_Subset, FS_CardinalityType
<1>2. PICK g : /\ g = [n \in 0..m |-> IF n = 0 THEN 0 ELSE g[n - 1] + f[n]]
               /\ SumTo(f, m) = g[m]
  <2> HIDE DEF f
  <2> QED BY SumToPartial
<1>3. g[0] = 0 /\ \A n \in 1..m : g[n] = g[n - 1] + f[n]
  <2> HIDE DEF f
  <2> QED BY <1>2
<1>4. \A n \in 1..m : f[n] = IF n \in S THEN share ELSE 0
  OBVIOUS
<1>5. count(0) = 0
  <2>1. first(0) = {}
    OBVIOUS
  <2> QED BY <2>1, FS_EmptySet
<1>6. ASSUME NEW n \in 1..m PROVE count(n) = count(n - 1) + (IF n \in S THEN 1 ELSE 0)
  <2>1. n - 1 \in 0..m
    OBVIOUS
  <2>2. CASE n \in S
    <3>1. first(n) = first(n - 1) \cup {n} /\ n \notin first(n - 1)
      BY <2>2
    <3> HIDE DEF first
    <3> QED BY <1>1, <2>1, <2>2, <3>1, FS_AddElement
  <2>3. CASE n \notin S
    <3>1. first(n) = first(n - 1)
      BY <2>3
    <3> HIDE DEF first
    <3>2. count(n - 1) \in Nat
      BY <1>1, <2>1
    <3> QED BY <2>3, <3>1, <3>2
  <2> QED BY <2>2, <2>3
<1>7. count(m) = Cardinality(S)
  <2>1. first(m) = S
    OBVIOUS
  <2> QED BY <2>1
<1> HIDE DEF f, count, first
<1> DEFINE T == {n \in 0..m : g[n] # count(n) * share}
<1>8. SUFFICES ASSUME T # {} PROVE FALSE
  BY <1>2, <1>7, <1>8 DEF f
<1>9. PICK n \in T : \A j \in T : n <= j
  <2>1. T \subseteq Nat
    OBVIOUS
  <2> HIDE DEF T
  <2> QED BY <1>8, <2>1, LeastNatural
<1>10. n # 0
  BY <1>3, <1>5, <1>9
<1>11. n \in 1..m /\ n - 1 \in 0..m /\ ~ (n <= n - 1)
  BY <1>9, <1>10
<1>12. g[n - 1] = count(n - 1) * share
  BY <1>9, <1>11
<1>13. count(n - 1) \in Nat /\ count(n) = count(n - 1) + (IF n \in S THEN 1 ELSE 0)
  BY <1>1, <1>6, <1>11
<1>14. g[n] = g[n - 1] + (IF n \in S THEN share ELSE 0)
  BY <1>3, <1>4, <1>11
<1>15. g[n] = count(n) * share
  <2>1. CASE n \in S
    <3>1. (count(n - 1) + 1) * share = count(n - 1) * share + share
      BY <1>13
    <3> QED BY <1>12, <1>13, <1>14, <2>1, <3>1
  <2>2. CASE n \notin S
    <3>1. count(n - 1) * share \in Int
      BY <1>13
    <3> QED BY <1>12, <1>13, <1>14, <2>2, <3>1
  <2> QED BY <2>1, <2>2
<1> QED BY <1>9, <1>15

\* Every amount can be split equally over every plan: the unit of the amounts.
Splits(a) == \A n \in InstNo : \E q \in Int : a = n * q
AmountsSplit == \A a \in DebtAmounts \cup PayAmounts : Splits(a)

\* The transactions carry the amounts that the callers offer.
Offered(rows) == \A t \in DOMAIN rows : rows[t].amount \in DebtAmounts \cup PayAmounts
AmountsOffered == Offered(tx)

AskedIn(table, s) ==
  SumTo([n \in InstNo |-> IF <<s, n>> \in OpenIn(table, s)
                          THEN table[<<s, n>>].amount - table[<<s, n>>].paid ELSE 0],
        MaxTerm)
UntouchedIn(table, s) ==
  \A k \in PlanOf(table, s) : table[k].status = "pending" /\ table[k].paid = 0

LEMMA DivMultiple ==
  ASSUME NEW n \in Nat \ {0}, NEW q \in Int
  PROVE  ((n * q) \div n) * n = n * q
<1> DEFINE d == (n * q) \div n
           e == (n * q) % n
<1>1. d \in Int /\ e \in 0..(n - 1) /\ n * q = n * d + e
  <2>1. n * q \in Int
    OBVIOUS
  <2> DEFINE a == n * q
  <2>2. a \in Int
    BY <2>1
  <2> HIDE DEF a
  <2>3. a \div n \in Int
    BY <2>2
  <2>4. a % n \in 0..(n - 1)
    BY <2>2
  <2>5. a = n * (a \div n) + (a % n)
    BY <2>2
  <2> QED BY <2>3, <2>4, <2>5 DEF a
<1> HIDE DEF d, e
<1>2. n * (q - d) = e
  BY <1>1
<1>3. q - d = 0
  <2>1. CASE q - d >= 1
    <3>1. n * (q - d) >= n
      BY <1>1, <2>1
    <3> QED BY <1>1, <1>2, <3>1
  <2>2. CASE q - d <= -1
    <3>1. n * (q - d) <= -n
      BY <1>1, <2>2
    <3> QED BY <1>1, <1>2, <3>1
  <2> QED BY <1>1, <2>1, <2>2
<1>4. d = q
  BY <1>1, <1>3
<1> QED BY <1>4 DEF d

\* What is owed on a service can be split equally over every plan.
LEMMA OwedShared ==
  ASSUME AmountsSplit, NEW rows, Table(rows, TxId, Tx), Offered(rows),
         NEW s \in DOMAIN rows, NEW n \in InstNo
  PROVE  Owed(rows, s) \in Nat /\ (Owed(rows, s) \div n) * n = Owed(rows, s)
<1> DEFINE byPlan == [t \in TxId |->
             IF t \in DOMAIN rows /\ rows[t].service = s /\ rows[t].type = "payment"
             THEN rows[t].amount ELSE 0]
<1>1. n \in Nat \ {0} /\ n \in Int /\ MaxTx \in Nat
  BY LmsBounds DEF InstNo
<1>2. byPlan \in [1..MaxTx -> Int]
  BY LmsBounds DEF Table, Tx, TxId
<1>3. \A t \in 1..MaxTx : \E q \in Int : byPlan[t] = n * q
  <2>1. 0 = n * 0
    BY <1>1
  <2> QED BY <2>1 DEF AmountsSplit, Splits, Offered, TxId
<1>4. PaidForService(rows, s) = SumTo(byPlan, MaxTx)
  BY DEF PaidForService, Total
<1> HIDE DEF byPlan
<1>5. PICK p \in Int : PaidForService(rows, s) = n * p
  <2>1. \E p \in Int : SumTo(byPlan, MaxTx) = n * p
    BY <1>1, <1>2, <1>3, SumToMultiple
  <2> QED BY <1>4, <2>1
<1>6. PICK q \in Int : rows[s].amount = n * q
  BY DEF AmountsSplit, Splits, Offered
<1>7. rows[s].amount - PaidForService(rows, s) = n * (q - p) /\ q - p \in Int
  BY <1>1, <1>5, <1>6
<1>8. PICK r \in Int : Owed(rows, s) = n * r
  <2>1. 0 = n * 0
    BY <1>1
  <2> QED BY <1>7, <2>1 DEF Owed, AtLeastZero
<1>9. Owed(rows, s) \in Nat
  BY InstallmentSumType DEF Owed, AtLeastZero, Table, Tx
<1> QED BY <1>1, <1>8, <1>9, DivMultiple

\* The open installments of a plan as the set of their numbers.
LEMMA OpenCount ==
  ASSUME NEW table, Table(table, InstKey, Installment), NEW s
  PROVE  LET open == OpenIn(table, s)
             numbers == {n \in InstNo : <<s, n>> \in open}
         IN  /\ Cardinality(open) = Cardinality(numbers)
             /\ open # {} => Cardinality(numbers) \in InstNo
<1> DEFINE open == OpenIn(table, s)
           numbers == {n \in InstNo : <<s, n>> \in open}
<1>1. \A k \in open : k \in InstKey /\ k[1] = s /\ k = <<s, k[2]>> /\ k[2] \in numbers
  BY DEF OpenIn, PlanOf, Table, InstKey
<1>2. IsFiniteSet(InstNo) /\ Cardinality(InstNo) = MaxTerm
  BY LmsBounds, FS_Interval DEF InstNo
<1>3. numbers \in SUBSET InstNo
  OBVIOUS
<1>4. IsFiniteSet(numbers) /\ Cardinality(numbers) <= MaxTerm /\ Cardinality(numbers) \in Nat
  <2> HIDE DEF numbers
  <2> QED BY <1>2, <1>3, FS_Subset, FS_CardinalityType
<1>5. \A n \in numbers : <<s, n>> \in open
  OBVIOUS
<1> HIDE DEF open, numbers
<1> DEFINE f == [n \in numbers |-> <<s, n>>]
<1>6. f \in Bijection(numbers, open)
  <2>1. f \in [numbers -> open]
    BY <1>5
  <2>2. \A m, n \in numbers : f[m] = f[n] => m = n
    OBVIOUS
  <2>3. \A k \in open : \E n \in numbers : f[n] = k
    <3> TAKE k \in open
    <3>1. k[2] \in numbers /\ k = <<s, k[2]>>
      BY <1>1
    <3> QED BY <3>1
  <2> HIDE DEF f
  <2> QED BY <2>1, <2>2, <2>3 DEF Bijection, Injection, Surjection, IsInjective
<1>7. Cardinality(open) = Cardinality(numbers)
  BY <1>4, <1>6, FS_Bijection DEF ExistsBijection
<1>8. open # {} => Cardinality(numbers) # 0
  BY <1>1, <1>4, FS_EmptySet
<1> QED BY <1>4, <1>7, <1>8, LmsBounds DEF InstNo, open, numbers

\* After a plan is rebuilt its open installments ask for what is owed.
LEMMA SyncedAsked ==
  ASSUME AmountsSplit, NEW base, Table(base, InstKey, Installment),
         NEW rows, Table(rows, TxId, Tx), Offered(rows), NEW s \in DOMAIN rows, NEW day,
         OpenIn(Synced(base, rows, s, day), s) # {}
  PROVE  AskedIn(Synced(base, rows, s, day), s) = Owed(rows, s)
<1> DEFINE after == Synced(base, rows, s, day)
           first == Rechecked(base, rows, s, day)
           open == OpenIn(first, s)
           numbers == {n \in InstNo : <<s, n>> \in open}
           share == Share(first, rows, s)
           asked == [n \in InstNo |-> IF <<s, n>> \in OpenIn(after, s)
                          THEN after[<<s, n>>].amount - after[<<s, n>>].paid ELSE 0]
<1>1. Table(first, InstKey, Installment) /\ DOMAIN first = DOMAIN base
  <2>1. Table(Repaid(base, rows, s), InstKey, Installment)
    BY RepaidType
  <2>2. Table(first, InstKey, Installment)
    BY <2>1, RestatusedType DEF Rechecked
  <2> QED BY <2>2 DEF Rechecked, Restatused, Repaid
<1>2. Table(after, InstKey, Installment) /\ DOMAIN after = DOMAIN base
  BY SyncedType, SyncedDomain
<1>3. \A k \in DOMAIN base : k[1] = s =>
        /\ after[k].status # "skipped" => (after[k].status = "paid" <=> Covered(after[k]))
        /\ k \in open => after[k].amount = after[k].paid + share /\ after[k].status # "skipped"
        /\ k \notin open => after[k].status \in Closed
  BY SyncedRow
<1>4. \A k \in open : k \in DOMAIN base /\ k[1] = s
  BY <1>1 DEF OpenIn, PlanOf
<1>5. \A k \in OpenIn(after, s) : k \in open
  BY <1>2, <1>3 DEF OpenIn, PlanOf
<1>6. Cardinality(open) = Cardinality(numbers) /\ (open # {} => Cardinality(numbers) \in InstNo)
  <2> HIDE DEF first
  <2> QED BY <1>1, OpenCount
<1> HIDE DEF after, first, open
<1>7. open # {} /\ Cardinality(open) \in InstNo
  BY <1>5, <1>6 DEF after
<1>8. /\ Owed(rows, s) \in Nat /\ share \in Nat
      /\ share * Cardinality(open) = Owed(rows, s)
  <2>1. share = Owed(rows, s) \div Cardinality(open)
    BY DEF Share, open
  <2>2. Cardinality(open) \in Nat \ {0}
    BY <1>7, LmsBounds DEF InstNo
  <2> HIDE DEF share
  <2> QED BY <1>7, <2>1, <2>2, OwedShared, DivNat
<1> HIDE DEF share
<1>9. \A n \in InstNo : asked[n] = IF n \in numbers THEN share ELSE 0
  <2> SUFFICES ASSUME NEW n \in InstNo PROVE asked[n] = IF n \in numbers THEN share ELSE 0
    OBVIOUS
  <2> DEFINE k == <<s, n>>
  <2>1. CASE n \notin numbers
    BY <1>5, <2>1
  <2>2. CASE n \in numbers /\ share = 0
    <3>1. k \in open /\ k \in DOMAIN base /\ k[1] = s
      BY <1>4, <2>2
    <3>2. after[k].amount = after[k].paid + share /\ after[k].paid \in Nat
      BY <1>2, <1>3, <3>1 DEF Table, Installment
    <3>3. after[k].amount - after[k].paid = 0
      BY <2>2, <3>2
    <3> QED BY <2>2, <3>3
  <2>3. CASE n \in numbers /\ share > 0
    <3>1. k \in open /\ k \in DOMAIN base /\ k[1] = s
      BY <1>4, <2>3
    <3>2. /\ after[k].amount = after[k].paid + share /\ after[k].paid \in Nat
          /\ after[k].status # "skipped"
      BY <1>2, <1>3, <3>1 DEF Table, Installment
    <3>3. ~ Covered(after[k])
      BY <1>8, <2>3, <3>2 DEF Covered
    <3>4. after[k].status \notin Closed
      BY <1>3, <3>1, <3>2, <3>3 DEF Closed
    <3>5. k \in OpenIn(after, s)
      BY <1>2, <3>1, <3>4 DEF OpenIn, PlanOf
    <3>6. after[k].amount - after[k].paid = share
      BY <1>8, <3>2
    <3> QED BY <2>3, <3>5, <3>6
  <2> QED BY <1>8, <2>1, <2>2, <2>3
<1>10. asked = [n \in 1..MaxTerm |-> IF n \in numbers THEN share ELSE 0]
  <2>1. asked = [n \in InstNo |-> asked[n]]
    OBVIOUS
  <2> HIDE DEF asked, numbers
  <2> QED BY <1>9, <2>1 DEF InstNo
<1>11. AskedIn(after, s) = SumTo(asked, MaxTerm)
  BY DEF AskedIn
<1>12. numbers \in SUBSET (1..MaxTerm)
  BY DEF InstNo
<1> HIDE DEF asked, numbers
<1>13. AskedIn(after, s) = Cardinality(numbers) * share
  BY <1>8, <1>10, <1>11, <1>12, LmsBounds, SumToShares
<1>14. Cardinality(numbers) \in Nat
  BY <1>6, <1>7, LmsBounds DEF InstNo
<1> QED BY <1>6, <1>8, <1>13, <1>14 DEF after

\* A table of transactions that grew by one, lost some or is as it was.
LEMMA OneOffered ==
  ASSUME AmountsOffered, NEW id, NEW row, row.amount \in DebtAmounts \cup PayAmounts,
         tx' = Put(tx, id, row)
  PROVE  AmountsOffered'
BY DEF AmountsOffered, Offered, Put

LEMMA FewerOffered ==
  ASSUME AmountsOffered, NEW gone, tx' = Without(tx, gone)
  PROVE  AmountsOffered'
BY DEF AmountsOffered, Offered, Without

LEMMA OfferedStep ==
  ASSUME LedgerInv, AmountsOffered, [Next]_vars
  PROVE  AmountsOffered'
<1> DEFINE Amounts == DebtAmounts \cup PayAmounts
<1>0. ASSUME UNCHANGED tx PROVE AmountsOffered'
  BY <1>0 DEF AmountsOffered, Offered
<1>a. ASSUME NEW l, NEW type, NEW amount \in DebtAmounts,
             tx' = Put(tx, nextTx, Charge(l, type, amount))
      PROVE  AmountsOffered'
  <2>1. Charge(l, type, amount).amount = amount
    BY DEF Charge
  <2> QED BY <1>a, <2>1, OneOffered
<1>b. ASSUME NEW l, NEW amount \in PayAmounts, NEW s, NEW n,
             tx' = Put(tx, nextTx, Payment(l, amount, s, n))
      PROVE  AmountsOffered'
  <2>1. Payment(l, amount, s, n).amount = amount
    BY DEF Payment
  <2> QED BY <1>b, <2>1, OneOffered
<1>1. ASSUME NEW c \in Customers, CreateCustomer(c) \/ DeleteCustomer(c) PROVE AmountsOffered'
  BY <1>0, <1>1, FewerOffered DEF CreateCustomer, DeleteCustomer
<1>2. ASSUME NEW c \in Customers, NEW type \in {"service", "fee"}, NEW amount \in DebtAmounts,
             CreateCustomerWithDebt(c, type, amount)
      PROVE  AmountsOffered'
  BY <1>2, <1>a DEF CreateCustomerWithDebt
<1>3. ASSUME NEW c \in Customers, NEW amount \in DebtAmounts, NEW deposit \in PayAmounts \cup {0},
             NEW term \in InstNo, NEW first \in Day, AddService(c, amount, deposit, term, first)
      PROVE  AmountsOffered'
  <2>1. /\ DOMAIN tx' = DOMAIN tx \cup {nextTx} \cup (IF deposit > 0 THEN {nextTx + 1} ELSE {})
        /\ \A t \in DOMAIN tx : tx'[t] = tx[t]
        /\ tx'[nextTx] = Charge(nextLoan, "service", amount)
        /\ deposit > 0 => tx'[nextTx + 1] = Payment(nextLoan, deposit, nextTx, None)
    BY <1>3, ServiceRows
  <2>2. deposit > 0 => deposit \in PayAmounts
    OBVIOUS
  <2>3. tx'[nextTx].amount \in Amounts
    BY <2>1 DEF Charge
  <2>4. deposit > 0 => tx'[nextTx + 1].amount \in Amounts
    BY <2>1, <2>2 DEF Payment
  <2> QED BY <2>1, <2>3, <2>4 DEF AmountsOffered, Offered
<1>4. ASSUME NEW l \in LoanId, NEW amount \in DebtAmounts, AddFee(l, amount) PROVE AmountsOffered'
  BY <1>4, <1>a DEF AddFee
<1>5. ASSUME NEW c \in Customers, NEW amount \in DebtAmounts, AddCustomerFee(c, amount)
      PROVE  AmountsOffered'
  BY <1>5, <1>a DEF AddCustomerFee, AddFee
<1>6. ASSUME NEW l \in LoanId, NEW amount \in PayAmounts, RecordPayment(l, amount)
      PROVE  AmountsOffered'
  BY <1>6, <1>b DEF RecordPayment
<1>7. ASSUME NEW l \in LoanId, NEW s \in TxId, NEW n \in InstNo, NEW temporary \in BOOLEAN,
             NEW amount \in PayAmounts, RecordInstallmentPayment(l, s, n, temporary, amount)
      PROVE  AmountsOffered'
  <2>1. tx' = Put(tx, nextTx, Payment(l, amount, s, IF temporary THEN None ELSE n))
    BY <1>7 DEF RecordInstallmentPayment
  <2> QED BY <1>b, <2>1
<1>8. ASSUME NEW t \in TxId, NEW amount \in PayAmounts, UpdatePayment(t, amount)
      PROVE  AmountsOffered'
  <2>1. tx' = [tx EXCEPT ![t].amount = amount]
    BY <1>8 DEF UpdatePayment
  <2>2. \A u \in DOMAIN tx : tx[u] \in Tx
    BY DEF LedgerInv, TypeOK, Table
  <2> QED BY <2>1, <2>2 DEF AmountsOffered, Offered, Tx
<1>9. ASSUME NEW t \in TxId, DeletePayment(t) \/ DeleteInstallmentPlan(t) PROVE AmountsOffered'
  BY <1>9, FewerOffered DEF DeletePayment, DeleteInstallmentPlan
<1>10. ASSUME ClearAllData PROVE AmountsOffered'
  BY <1>10 DEF ClearAllData, AmountsOffered, Offered
<1>11. ASSUME WipeInstallments PROVE AmountsOffered'
  <2>1. tx' = [t \in DOMAIN tx |-> [tx[t] EXCEPT !.number = None]]
    BY <1>11 DEF WipeInstallments
  <2>2. \A t \in DOMAIN tx : tx[t] \in Tx
    BY DEF LedgerInv, TypeOK, Table
  <2> QED BY <2>1, <2>2 DEF AmountsOffered, Offered, Tx
<1>12. ASSUME NEW k \in InstKey, SkipInstallment(k) PROVE AmountsOffered'
  BY <1>0, <1>12 DEF SkipInstallment
<1>13. ASSUME NEW change, UpdateInstallments(change) PROVE AmountsOffered'
  BY <1>0, <1>13 DEF UpdateInstallments
<1>14. ASSUME NEW job, NEW first, BackfillVisit(job, first) PROVE AmountsOffered'
  BY <1>0, <1>14 DEF BackfillVisit
<1>15. ASSUME NEW job, MigrationWrite(job) PROVE AmountsOffered'
  BY <1>0, <1>15 DEF MigrationWrite
<1>16. ASSUME BackfillRead \/ MigrationRead \/ NextDay \/ UNCHANGED vars PROVE AmountsOffered'
  BY <1>0, <1>16 DEF BackfillRead, MigrationRead, NextDay, vars
<1> QED BY <1>1, <1>2, <1>3, <1>4, <1>5, <1>6, <1>7, <1>8, <1>9, <1>10, <1>11, <1>12, <1>13,
           <1>14, <1>15, <1>16 DEF Next

\* What the deposit leaves is owed on a new service.
LEMMA ServiceOwed ==
  ASSUME LedgerInv, NEW c \in Customers, NEW amount \in DebtAmounts,
         NEW deposit \in PayAmounts \cup {0}, NEW term \in InstNo, NEW first \in Day,
         AddService(c, amount, deposit, term, first)
  PROVE  Owed(tx', nextTx) = amount - deposit
<1> DEFINE s == nextTx
           byPlan == [t \in TxId |->
             IF t \in DOMAIN tx' /\ tx'[t].service = s /\ tx'[t].type = "payment"
             THEN tx'[t].amount ELSE 0]
<1>1. /\ amount \in Nat \ {0} /\ deposit \in Nat /\ amount - deposit \in Nat
      /\ s \in TxId /\ s \notin DOMAIN tx
      /\ DOMAIN tx' = DOMAIN tx \cup {s} \cup (IF deposit > 0 THEN {s + 1} ELSE {})
      /\ \A t \in DOMAIN tx : tx'[t] = tx[t]
      /\ tx'[s] = Charge(nextLoan, "service", amount)
      /\ deposit > 0 => tx'[s + 1] = Payment(nextLoan, deposit, s, None)
      /\ Table(tx', TxId, Tx)
  BY ServiceRows
<1>2. \A t \in DOMAIN tx : tx[t].service # s
  <2>1. s # None
    BY <1>1, LmsBounds DEF TxId, None
  <2> QED BY <1>1, <2>1 DEF LedgerInv, References, Services
<1>3. byPlan \in [1..MaxTx -> Nat] /\ MaxTx \in Nat \ {0}
  BY <1>1, LmsBounds DEF Table, Tx, TxId
<1>4. PaidForService(tx', s) = SumTo(byPlan, MaxTx)
  BY DEF PaidForService, Total
<1>5. PaidForService(tx', s) = deposit
  <2>1. CASE deposit > 0
    <3>1. s + 1 \in 1..MaxTx
      BY <1>1, <2>1 DEF Table, TxId
    <3>2. byPlan[s + 1] = deposit
      BY <1>1, <2>1, <3>1 DEF Payment, TxId
    <3>3. \A t \in 1..MaxTx : t # s + 1 => byPlan[t] = 0
      BY <1>1, <1>2 DEF Charge, TxId
    <3> HIDE DEF byPlan
    <3> QED BY <1>3, <1>4, <3>1, <3>2, <3>3, SumToPoint
  <2>2. CASE ~ (deposit > 0)
    <3>1. \A t \in 1..MaxTx : byPlan[t] = 0
      BY <1>1, <1>2, <2>2 DEF Charge, TxId
    <3>2. deposit = 0
      BY <1>1, <2>2
    <3> HIDE DEF byPlan
    <3> QED BY <1>3, <1>4, <3>1, <3>2, SumToZero
  <2> QED BY <2>1, <2>2
<1>6. tx'[s].amount = amount
  BY <1>1 DEF Charge
<1> QED BY <1>1, <1>5, <1>6 DEF Owed, AtLeastZero

\* The rows of a new plan ask for what they were drawn up for.
LEMMA EqualAsked ==
  ASSUME NEW table, NEW s, NEW term \in InstNo, NEW share \in Nat,
         PlanOf(table, s) = {s} \X (1..term),
         \A k \in PlanOf(table, s) :
           table[k].status = "pending" /\ table[k].amount = share /\ table[k].paid = 0
  PROVE  AskedIn(table, s) = term * share
<1> DEFINE asked == [n \in InstNo |-> IF <<s, n>> \in OpenIn(table, s)
                          THEN table[<<s, n>>].amount - table[<<s, n>>].paid ELSE 0]
           terms == 1..term
<1>1. term \in Nat \ {0} /\ terms \in SUBSET (1..MaxTerm) /\ MaxTerm \in Nat
  BY LmsBounds DEF InstNo
<1>2. Cardinality(terms) = term
  BY <1>1, FS_Interval
<1>3. OpenIn(table, s) = {s} \X terms
  BY DEF OpenIn, Closed
<1>4. asked = [n \in 1..MaxTerm |-> IF n \in terms THEN share ELSE 0]
  BY <1>3 DEF InstNo
<1>5. AskedIn(table, s) = SumTo(asked, MaxTerm)
  BY DEF AskedIn
<1> HIDE DEF asked, terms
<1> QED BY <1>1, <1>2, <1>4, <1>5, SumToShares

LEMMA ExplicitAsked ==
  ASSUME NEW table, NEW s, NEW a \in Nat, NEW b \in Nat, MaxTerm >= 2,
         PlanOf(table, s) = {s} \X (1..2),
         \A k \in PlanOf(table, s) : table[k].status = "pending" /\ table[k].paid = 0
                                     /\ table[k].amount = IF k[2] = 1 THEN a ELSE b
  PROVE  AskedIn(table, s) = a + b
<1> DEFINE asked == [n \in InstNo |-> IF <<s, n>> \in OpenIn(table, s)
                          THEN table[<<s, n>>].amount - table[<<s, n>>].paid ELSE 0]
           one == [n \in 1..MaxTerm |-> IF n = 1 THEN a ELSE 0]
           both == [n \in 1..MaxTerm |-> IF n = 1 THEN a ELSE IF n = 2 THEN b ELSE 0]
<1>1. MaxTerm \in Nat /\ 1 \in 1..MaxTerm /\ 2 \in 1..MaxTerm
  BY LmsBounds
<1>2. OpenIn(table, s) = {s} \X (1..2)
  BY DEF OpenIn, Closed
<1>3. asked = both
  BY <1>2 DEF InstNo
<1>4. AskedIn(table, s) = SumTo(asked, MaxTerm)
  BY DEF AskedIn
<1>5. /\ one \in [1..MaxTerm -> Nat] /\ one \in [1..MaxTerm -> Int] /\ both \in [1..MaxTerm -> Int]
      /\ one[1] = a /\ one[2] = 0 /\ both[2] = b
      /\ \A n \in 1..MaxTerm : (n # 1 => one[n] = 0) /\ (n # 2 => both[n] = one[n])
  BY <1>1
<1> HIDE DEF asked, one, both
<1>6. SumTo(one, MaxTerm) = a
  BY <1>1, <1>5, SumToPoint
<1>7. SumTo(both, MaxTerm) = SumTo(one, MaxTerm) + (both[2] - one[2])
  BY <1>1, <1>5, SumToChange
<1> QED BY <1>3, <1>4, <1>5, <1>6, <1>7

\* So what a new plan asks for is what the deposit leaves, or a penny off.
LEMMA AddServiceAsked ==
  ASSUME AmountsSplit, LedgerInv, AmountsOffered', NEW c \in Customers, NEW amount \in DebtAmounts,
         NEW deposit \in PayAmounts \cup {0}, NEW term \in InstNo, NEW first \in Day,
         AddService(c, amount, deposit, term, first), OpenIn(inst', nextTx) # {}
  PROVE  \/ AskedIn(inst', nextTx) = Owed(tx', nextTx)
         \/ UntouchedIn(inst', nextTx) /\ AskedIn(inst', nextTx) - Owed(tx', nextTx) \in -Penny..Penny
<1> DEFINE s == nextTx
           remaining == amount - deposit
<1>1. /\ remaining \in Nat /\ first \in Nat /\ s \in TxId /\ s \notin DOMAIN tx
      /\ s \in DOMAIN tx' /\ Table(tx', TxId, Tx)
  BY ServiceRows
<1>2. PICK plan :
        /\ inst' = With(inst, plan)
        /\ Table(plan, InstKey, Installment) /\ \A k \in DOMAIN plan : k[1] = s
        /\ \/ plan = EqualPlan(s, remaining, term, first) /\ amount # deposit
           \/ plan \in ExplicitPlans(s, remaining, first)
           \/ plan = <<>> /\ amount = deposit
  BY ServicePlan
<1>3. PlanOf(inst, s) = {}
  BY <1>1, PlanService
<1>4. PlanOf(inst', s) = DOMAIN plan /\ \A k \in DOMAIN plan : inst'[k] = plan[k]
  BY <1>2, <1>3 DEF With, PlanOf
<1>5. Owed(tx', s) = remaining
  BY ServiceOwed
<1>6. CASE plan = EqualPlan(s, remaining, term, first)
  <2>1. term \in Nat \ {0} /\ remaining \div term \in Nat
    BY <1>1, LmsBounds, DivNat DEF InstNo
  <2>2. (remaining \div term) * term = remaining
    <3>1. Offered(tx')
      BY DEF AmountsOffered
    <3> QED BY <1>1, <1>5, <3>1, OwedShared
  <2>3. DOMAIN plan = {s} \X (1..term)
    BY <1>6 DEF EqualPlan
  <2>4. \A k \in DOMAIN plan : /\ plan[k].status = "pending" /\ plan[k].paid = 0
                               /\ plan[k].amount = remaining \div term
    BY <1>6 DEF EqualPlan, NewInstallment
  <2> HIDE DEF remaining, s
  <2> DEFINE share == remaining \div term
  <2>5. share \in Nat /\ share * term = remaining
    BY <2>1, <2>2
  <2> HIDE DEF share
  <2>6. AskedIn(inst', s) = term * share
    BY <1>4, <2>3, <2>4, <2>5, EqualAsked DEF share
  <2>7. term * share = remaining
    BY <2>1, <2>5
  <2> QED BY <1>5, <2>6, <2>7 DEF s
<1>7. CASE plan \in ExplicitPlans(s, remaining, first)
  <2> HIDE DEF remaining
  <2>0. PICK a \in Nat, b \in Nat : ExplicitPlan(s, remaining, first, plan, a, b)
    BY <1>1, <1>7, ExplicitRows
  <2>1. /\ MaxTerm >= 2 /\ a + b - remaining \in -Penny..Penny
        /\ plan = [k \in {s} \X (1..2) |->
                     NewInstallment(first + k[2] - 1, IF k[2] = 1 THEN a ELSE b)]
    BY <2>0 DEF ExplicitPlan
  <2>3. DOMAIN plan = {s} \X (1..2)
    BY <2>1
  <2>4. \A k \in DOMAIN plan : /\ plan[k].status = "pending" /\ plan[k].paid = 0
                               /\ plan[k].amount = IF k[2] = 1 THEN a ELSE b
    BY <2>1 DEF NewInstallment
  <2>7. PlanOf(inst', s) = {s} \X (1..2)
    BY <1>4, <2>3
  <2>8. \A k \in PlanOf(inst', s) : inst'[k].status = "pending" /\ inst'[k].paid = 0
                                    /\ inst'[k].amount = IF k[2] = 1 THEN a ELSE b
    BY <1>4, <2>4
  <2> HIDE DEF s
  <2>9. AskedIn(inst', s) = a + b
    BY <2>1, <2>7, <2>8, ExplicitAsked
  <2>10. UntouchedIn(inst', s)
    BY <2>8 DEF UntouchedIn
  <2>11. AskedIn(inst', s) - Owed(tx', s) \in -Penny..Penny
    <3> DEFINE asked == AskedIn(inst', s)
               owed == Owed(tx', s)
    <3>1. asked = a + b /\ owed = remaining
      BY <1>5, <2>9
    <3> HIDE DEF asked, owed
    <3>2. a + b - remaining \in -Penny..Penny
      BY <2>0 DEF ExplicitPlan
    <3>3. asked - owed = a + b - remaining
      BY <1>1, <3>1
    <3>4. asked - owed \in -Penny..Penny
      BY <3>2, <3>3
    <3> QED BY <3>4 DEF asked, owed
  <2> QED BY <2>10, <2>11 DEF s
<1>8. CASE plan = <<>>
  BY <1>4, <1>8 DEF OpenIn
<1> QED BY <1>2, <1>6, <1>7, <1>8

\* The same rows and the same payments.
LEMMA KeptAsked ==
  ASSUME NEW s, PlanKept(s)
  PROVE  /\ OpenIn(inst', s) = OpenIn(inst, s) /\ AskedIn(inst', s) = AskedIn(inst, s)
         /\ Owed(tx', s) = Owed(tx, s)
<1>1. OpenIn(inst', s) = OpenIn(inst, s) /\ \A k \in OpenIn(inst, s) : inst'[k] = inst[k]
  BY DEF PlanKept, OpenIn
<1>2. AskedIn(inst', s) = AskedIn(inst, s)
  <2> DEFINE asked(table) == [n \in InstNo |-> IF <<s, n>> \in OpenIn(table, s)
                              THEN table[<<s, n>>].amount - table[<<s, n>>].paid ELSE 0]
  <2>1. asked(inst') = asked(inst)
    BY <1>1
  <2>2. AskedIn(inst', s) = SumTo(asked(inst'), MaxTerm)
    BY DEF AskedIn
  <2>3. AskedIn(inst, s) = SumTo(asked(inst), MaxTerm)
    BY DEF AskedIn
  <2> HIDE DEF asked
  <2> QED BY <2>1, <2>2, <2>3
<1>3. Owed(tx', s) = Owed(tx, s)
  BY PaymentsSame DEF PlanKept, Owed
<1> QED BY <1>1, <1>2, <1>3

LEMMA DebtCarriedStep ==
  ASSUME AmountsSplit, LedgerInv, LedgerInv', AmountsOffered', OpenRowsCarryDebt, [Next]_vars
  PROVE  OpenRowsCarryDebt'
<1> SUFFICES ASSUME NEW s \in Services(tx') \ unsynced', OpenIn(inst', s) # {}
             PROVE  \/ AskedIn(inst', s) = Owed(tx', s)
                    \/ UntouchedIn(inst', s) /\ AskedIn(inst', s) - Owed(tx', s) \in -Penny..Penny
  BY DEF OpenRowsCarryDebt, StillAsked, AskedIn, Untouched, UntouchedIn
<1>1. PlanOf(inst', s) # {}
  BY DEF OpenIn
<1>2. PlanKept(s) \/ PlanEdited(s) \/ PlanRebuilt(s) \/ PlanDrawn(s)
  BY <1>1, PlanCases DEF PlanCase
<1>3. CASE PlanKept(s)
  <2>1. PlanOf(inst, s) # {} /\ s \notin unsynced
    BY <1>1, <1>3 DEF PlanKept
  <2>2. s \in Services(tx)
    BY <2>1, PlanService
  <2>3. OpenIn(inst, s) # {}
    BY <1>3, KeptAsked
  <2>4. \/ AskedIn(inst, s) = Owed(tx, s)
        \/ UntouchedIn(inst, s) /\ AskedIn(inst, s) - Owed(tx, s) \in -Penny..Penny
    BY <2>1, <2>2, <2>3 DEF OpenRowsCarryDebt, StillAsked, AskedIn, Untouched, UntouchedIn
  <2>5. UntouchedIn(inst, s) => UntouchedIn(inst', s)
    BY <1>3 DEF PlanKept, UntouchedIn
  <2> QED BY <1>3, <2>4, <2>5, KeptAsked
<1>4. CASE PlanEdited(s)
  BY <1>4 DEF PlanEdited
<1>5. CASE PlanRebuilt(s)
  <2>1. PICK base :
          /\ Table(base, InstKey, Installment) /\ s \in DOMAIN tx' /\ inst' = Synced(base, tx', s, today)
    BY <1>5 DEF PlanRebuilt
  <2>2. Table(tx', TxId, Tx) /\ Offered(tx')
    BY DEF LedgerInv, TypeOK, AmountsOffered
  <2> QED BY <2>1, <2>2, SyncedAsked
<1>6. CASE PlanDrawn(s)
  <2>1. PICK c \in Customers, amount \in DebtAmounts, deposit \in PayAmounts \cup {0},
             term \in InstNo, first \in Day : AddService(c, amount, deposit, term, first)
    BY <1>6 DEF PlanDrawn
  <2>2. s = nextTx
    BY <1>6 DEF PlanDrawn
  <2> QED BY <2>1, <2>2, AddServiceAsked
<1> QED BY <1>2, <1>3, <1>4, <1>5, <1>6

-----------------------------------------------------------------------------
(* The theorems.                                                           *)

LEMMA InitHolds == Init => LedgerInv
<1> SUFFICES ASSUME Init PROVE LedgerInv
  OBVIOUS
<1> USE DEF Init
<1>1. TypeOK /\ FreshIds
  BY LmsBounds DEF TypeOK, FreshIds, Table, Day
<1>2. References /\ OnlyPaymentsPoint /\ LoanMatchesLedger
  BY DEF References, OnlyPaymentsPoint, LoanMatchesLedger
<1> QED BY <1>1, <1>2 DEF LedgerInv

LEMMA NextKeeps == LedgerInv /\ [Next]_vars => LedgerInv'
<1> SUFFICES ASSUME LedgerInv, [Next]_vars PROVE LedgerInv'
  OBVIOUS
<1>1. ASSUME NEW c \in Customers, CreateCustomer(c) PROVE LedgerInv'
  BY <1>1, CreateCustomerStep
<1>2. ASSUME NEW c \in Customers, DeleteCustomer(c) PROVE LedgerInv'
  BY <1>2, DeleteCustomerStep
<1>3. ASSUME NEW c \in Customers, NEW type \in {"service", "fee"}, NEW amount \in DebtAmounts,
             CreateCustomerWithDebt(c, type, amount)
      PROVE LedgerInv'
  BY <1>3, CreateCustomerWithDebtStep
<1>4. ASSUME NEW c \in Customers, NEW amount \in DebtAmounts, NEW deposit \in PayAmounts \cup {0},
             NEW term \in InstNo, NEW first \in Day, AddService(c, amount, deposit, term, first)
      PROVE LedgerInv'
  BY <1>4, AddServiceStep
<1>5. ASSUME NEW l \in LoanId, NEW amount \in DebtAmounts, AddFee(l, amount) PROVE LedgerInv'
  BY <1>5, AddFeeStep
<1>6. ASSUME NEW c \in Customers, NEW amount \in DebtAmounts, AddCustomerFee(c, amount)
      PROVE LedgerInv'
  BY <1>6, AddCustomerFeeStep
<1>7. ASSUME NEW l \in LoanId, NEW amount \in PayAmounts, RecordPayment(l, amount) PROVE LedgerInv'
  BY <1>7, RecordPaymentStep
<1>8. ASSUME NEW l \in LoanId, NEW s \in TxId, NEW n \in InstNo, NEW temporary \in BOOLEAN,
             NEW amount \in PayAmounts, RecordInstallmentPayment(l, s, n, temporary, amount)
      PROVE LedgerInv'
  BY <1>8, RecordInstallmentPaymentStep
<1>9. ASSUME NEW t \in TxId, NEW amount \in PayAmounts, UpdatePayment(t, amount) PROVE LedgerInv'
  BY <1>9, UpdatePaymentStep
<1>10. ASSUME NEW t \in TxId, DeletePayment(t) PROVE LedgerInv'
  BY <1>10, DeletePaymentStep
<1>11. ASSUME NEW t \in TxId, DeleteInstallmentPlan(t) PROVE LedgerInv'
  BY <1>11, DeleteInstallmentPlanStep
<1>12. ASSUME NEW k \in InstKey, SkipInstallment(k) PROVE LedgerInv'
  BY <1>12, SkipInstallmentStep
<1>13. ASSUME NEW keys \in SUBSET (DOMAIN inst), NEW change \in Changes(keys), UpdateInstallments(change)
       PROVE LedgerInv'
  BY <1>13, UpdateInstallmentsStep
<1>14. ASSUME ClearAllData PROVE LedgerInv'
  BY <1>14, ClearAllDataStep
<1>15. ASSUME WipeInstallments PROVE LedgerInv'
  BY <1>15, WipeInstallmentsStep
<1>16. ASSUME BackfillRead PROVE LedgerInv'
  BY <1>16, BackfillReadStep
<1>17. ASSUME NEW job \in backfill, NEW first \in Day, BackfillVisit(job, first) PROVE LedgerInv'
  BY <1>17, BackfillVisitStep
<1>18. ASSUME NextDay PROVE LedgerInv'
  <2>1. today' \in Day
    BY <1>18, LmsBounds DEF NextDay, LedgerInv, TypeOK, Day
  <2> QED BY <1>18, <2>1, QuietStep DEF NextDay
<1>19. ASSUME UNCHANGED vars PROVE LedgerInv'
  <2>1. today' \in Day
    BY <1>19 DEF vars, LedgerInv, TypeOK
  <2> QED BY <1>19, <2>1, QuietStep DEF vars
<1>20. ASSUME MigrationRead PROVE LedgerInv'
  BY <1>20, MigrationReadStep
<1>21. ASSUME NEW job \in migration, MigrationWrite(job) PROVE LedgerInv'
  BY <1>21, MigrationWriteStep
<1> QED BY <1>1, <1>2, <1>3, <1>4, <1>5, <1>6, <1>7, <1>8, <1>9, <1>10, <1>11, <1>12, <1>13,
           <1>14, <1>15, <1>16, <1>17, <1>18, <1>19, <1>20, <1>21 DEF Next

\* The invariant of the ledger holds in every state, for any number of loans,
\* transactions and installments.
THEOREM LedgerInvariant == Spec => []LedgerInv
BY InitHolds, NextKeeps, PTL DEF Spec

\* Every row keeps its type: in particular no RPC leaves a negative balance,
\* nor a plan that was rebuilt from a service transaction that is gone.
THEOREM TypeCorrect == Spec => []TypeOK
<1>1. LedgerInv => TypeOK
  BY DEF LedgerInv
<1> QED BY <1>1, LedgerInvariant, PTL

\* A loan's stored balance, debt and status are always those its transactions
\* give: no sequence of RPCs leaves lms_recalculate_loan with something to do.
THEOREM LedgerCorrect == Spec => []LoanMatchesLedger
<1>1. LedgerInv => LoanMatchesLedger
  BY DEF LedgerInv
<1> QED BY <1>1, LedgerInvariant, PTL

\* No row ever points at a row that is gone, and a payment for a service is on
\* the service's own loan.
THEOREM ReferencesHold == Spec => []References
<1>1. LedgerInv => References
  BY DEF LedgerInv
<1> QED BY <1>1, LedgerInvariant, PTL

\* amount_paid of an installment is the sum of the payments that name it.
THEOREM InstallmentsMatch == Spec => []InstallmentMatchesLedger
<1>1. Init => InstallmentMatchesLedger
  BY DEF Init, InstallmentMatchesLedger
<1>2. LedgerInv /\ LedgerInv' /\ InstallmentMatchesLedger /\ [Next]_vars => InstallmentMatchesLedger'
  BY InstallmentPaidStep
<1> QED BY <1>1, <1>2, LedgerInvariant, PTL DEF Spec

\* An installment is shown as paid exactly when the ledger covers it, unless
\* it was skipped or its amount was edited since its plan was last rebuilt.
THEOREM PaidAreCovered == Spec => []PaidMeansCovered
<1>1. Init => PaidMeansCovered
  BY DEF Init, PaidMeansCovered
<1>2. LedgerInv /\ LedgerInv' /\ PaidMeansCovered /\ [Next]_vars => PaidMeansCovered'
  BY CoveredStep
<1> QED BY <1>1, <1>2, LedgerInvariant, PTL DEF Spec

\* A skipped installment never comes back, whatever is paid, edited or deleted.
THEOREM SkippedStay == Spec => SkippedStaysSkipped
<1>1. LedgerInv /\ LedgerInv' /\ [Next]_vars
        => [\A k \in DOMAIN inst \cap DOMAIN inst' :
              inst[k].status = "skipped" => inst'[k].status = "skipped"]_vars
  BY SkippedStep
<1> QED BY <1>1, LedgerInvariant, PTL DEF Spec, SkippedStaysSkipped

\* What the open installments of a service ask for is exactly what is owed on
\* it, in a unit that every plan length divides: a plan that a caller gave may
\* be a penny off until a row of it is paid or skipped, and no rebuild of a plan
\* loses or invents a debt.
THEOREM DebtIsCarried ==
  ASSUME AmountsSplit
  PROVE  Spec => []OpenRowsCarryDebt
<1>1. Init => AmountsOffered /\ OpenRowsCarryDebt
  BY DEF Init, AmountsOffered, Offered, OpenRowsCarryDebt, Services
<1>2. LedgerInv /\ LedgerInv' /\ AmountsOffered /\ OpenRowsCarryDebt /\ [Next]_vars
        => AmountsOffered' /\ OpenRowsCarryDebt'
  BY OfferedStep, DebtCarriedStep
<1> QED BY <1>1, <1>2, LedgerInvariant, PTL DEF Spec
=============================================================================
