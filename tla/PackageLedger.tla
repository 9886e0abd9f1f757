---------------------------- MODULE PackageLedger ----------------------------
(***************************************************************************)
(* The money of one travel package: its reservations, payments, invoices   *)
(* and the invoice versions shown to the customer, and the computations    *)
(* every route ends with.  Amounts are integers; a sold price is net of    *)
(* its discount.  What is only carried along (costs, margins, commission,  *)
(* currency, notes) is left out.                                           *)
(***************************************************************************)
EXTENDS Tables, Sequences

CONSTANTS
  MaxReservations, \* of the package
  SoldPrices,      \* for which a reservation may be sold
  MaxPayments,     \* held at one time
  MaxRefund,       \* bound: edits of payments refund a reservation no further
  Amounts,         \* of payments and refunds
  LineTotals,      \* what the lines of an invoice may be edited to add up to
  MaxInvoices,     \* ever drafted
  Failing          \* whether calls to the database may fail, before or after their effect

ASSUME LedgerAmounts ==
  /\ SoldPrices \subseteq Nat /\ Amounts \subseteq Nat \ {0} /\ LineTotals \subseteq Int
ASSUME LedgerBounds ==
  /\ MaxReservations \in Nat /\ MaxPayments \in Nat /\ MaxRefund \in Nat /\ MaxInvoices \in Nat \ {0}
  /\ Failing \in BOOLEAN

VARIABLES
  reservations,  \* travel_package_reservations
  payments,      \* travel_package_payments
  invoices,      \* travel_package_invoices, in the order of their creation
  versions,      \* travel_package_versions of the invoices
  astray,        \* history: invoices whose total paid was not computed from the payments
  adrift,        \* history: reservations that missed a refund, or were told of one in vain
  leftover       \* history: snapshots still visible because revoking them failed

ledger == <<reservations, payments, invoices, versions>>
history == <<astray, adrift, leftover>>

ReservationId == 1..MaxReservations
PaymentId     == 1..MaxPayments
NoReservation == 0  \* the reservation of a payment that belongs to none
NoInvoice     == 0  \* the invoice of a payment recorded before there was one

\* In the totals a deposit adds like a payment and a chargeback takes away like
\* a refund, so that neither has a type of its own.
PaymentTypes == {"payment", "account_credit", "refund", "commission"}
\* "late" is a pending payment whose due date has passed.
PaymentStatuses == {"pending", "late", "completed", "failed"}
InvoiceStatuses == {"draft", "internal_review", "finalised", "pending_payment", "part_paid",
                    "paid", "released", "amended", "void", "closed"}

Payment == [type : PaymentTypes, status : PaymentStatuses, amount : Amounts,
            reservation : ReservationId \cup {NoReservation}, invoice : 0..MaxInvoices]
Reservation == [sold : SoldPrices, refund : Nat]
\* version and shown are the columns version and released_version (0 before
\* the first release).
Invoice == [status : InvoiceStatuses, released : BOOLEAN, version : Nat \ {0}, shown : Nat,
            sold : Int, paid : Int, balance : Int]
Version == [invoice : Nat \ {0}, number : Nat \ {0}, visible : BOOLEAN, sold : Int]

LedgerTypeOK ==
  /\ reservations \in [ReservationId -> Reservation]
  /\ Table(payments, PaymentId, Payment)
  /\ invoices \in Seq(Invoice) /\ Len(invoices) <= MaxInvoices
  /\ versions \subseteq Version
  /\ astray \subseteq 1..MaxInvoices /\ adrift \subseteq ReservationId
  /\ leftover \subseteq Version

LedgerInit ==
  /\ reservations \in [ReservationId -> [sold : SoldPrices, refund : {0}]]
  /\ payments = [p \in {} |-> 0]
  /\ invoices = <<>> /\ versions = {}
  /\ astray = {} /\ adrift = {} /\ leftover = {}

-----------------------------------------------------------------------------
(* Payments *)

PaymentsOf(rows, types, statuses) ==
  {p \in DOMAIN rows : rows[p].type \in types /\ rows[p].status \in statuses}

SumOf(rows, ids) ==
  SumTo([p \in PaymentId |-> IF p \in ids THEN rows[p].amount ELSE 0], MaxPayments)

Completed(rows, types) == SumOf(rows, PaymentsOf(rows, types, {"completed"}))

\* netPaid of calculatePackagePaymentSummary
NetPaid(rows) ==
  Completed(rows, {"payment", "account_credit"}) - Completed(rows, {"refund"})

\* The total paid as an invoice counts it when it is drafted or its lines
\* change: without account credit.
InvoicePaid(rows) ==
  Completed(rows, {"payment"}) - Completed(rows, {"refund"})

-----------------------------------------------------------------------------
(* Invoices *)

InvoiceIds == DOMAIN invoices
Valid(rows) == {i \in DOMAIN rows : rows[i].status # "void"}
\* loadLatestInvoice
Latest(rows) ==
  IF Valid(rows) = {} THEN NoInvoice ELSE CHOOSE i \in Valid(rows) : \A j \in Valid(rows) : j <= i

\* The status of an invoice that has been paid so much, when no money makes it other.
Settled(inv, sold, paid, other) ==
  IF inv.released THEN "released"
  ELSE IF sold - paid <= 0 /\ sold > 0 THEN "paid"
  ELSE IF paid > 0 THEN "part_paid" ELSE other

\* recalculatePackageInvoice of an invoice whose lines now add up to total
Recalculated(inv, total, paid) ==
  [inv EXCEPT !.sold = total, !.paid = paid, !.balance = total - paid,
              !.status = Settled(inv, total, paid, inv.status)]

\* What syncPackagePaymentFinancials writes to an invoice
Synced(inv, paid) ==
  [inv EXCEPT !.paid = paid, !.balance = inv.sold - paid,
              !.status = Settled(inv, inv.sold, paid,
                                 IF inv.status = "draft" THEN "draft" ELSE "pending_payment")]

\* A payment settles the invoice it names, or the latest if it names none.
Target(preferred) ==
  {IF preferred = NoInvoice THEN Latest(invoices) ELSE preferred} \cap Valid(invoices)

SettledFor(preferred, paid) ==
  [i \in InvoiceIds |-> IF i \in Target(preferred) THEN Synced(invoices[i], paid) ELSE invoices[i]]

\* The invoice is not settled.
Unsettled(preferred) == UNCHANGED invoices /\ astray' = astray \cup Target(preferred)

\* syncPackagePaymentFinancials, once the payments are rows.  Nobody looks at its
\* errors: payments that cannot be read count as none, and the invoice may not be
\* read or written.
Sync(rows, preferred) ==
  \/ invoices' = SettledFor(preferred, NetPaid(rows)) /\ astray' = astray \ Target(preferred)
  \/ Failing /\ invoices' = SettledFor(preferred, 0) /\ astray' = astray \cup Target(preferred)
  \/ Failing /\ Unsettled(preferred)

\* What the customer's portal shows: the released snapshot, and without one the
\* invoices marked as released.
Visible == {v \in versions : v.visible}
Portal == IF Visible # {} THEN {<<v.invoice, v.sold>> : v \in Visible}
          ELSE {<<i, invoices[i].sold>> : i \in {j \in InvoiceIds : invoices[j].released}}
=============================================================================
