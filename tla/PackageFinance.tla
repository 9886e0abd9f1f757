---------------------------- MODULE PackageFinance ----------------------------
(***************************************************************************)
(* Invoices and payments of a package together, and what they promise.     *)
(***************************************************************************)
EXTENDS PackagePayments

vars == <<ledger, history, pages>>

Init == LedgerInit /\ PageInit

Next == InvoiceNext \/ PaymentNext

Spec == Init /\ [][Next]_vars

TypeOK == LedgerTypeOK /\ PageTypeOK /\ InvoicesKnown

-----------------------------------------------------------------------------
(* Properties *)

\* A released invoice is the version it was released as, and its snapshot exists.
ReleasedHasSnapshot ==
  \A i \in InvoiceIds : invoices[i].released =>
    /\ invoices[i].shown = invoices[i].version
    /\ \E v \in versions : v.invoice = i /\ v.number = invoices[i].version

\* Snapshots are of versions the invoice has reached, each taken once.
SnapshotsNumbered ==
  /\ \A v \in versions : v.invoice \in InvoiceIds /\ v.number <= invoices[v.invoice].version
  /\ \A v, w \in versions : v.invoice = w.invoice /\ v.number = w.number => v = w
  /\ \A i \in InvoiceIds : invoices[i].shown <= invoices[i].version

\* But for those whose revocation failed, the customer is shown one snapshot at most,
\* the last one taken of its invoice.
OneSnapshotShown ==
  \A v \in Visible \ leftover :
    /\ Visible \ leftover = {v}
    /\ \A w \in versions : w.invoice = v.invoice => w.number <= v.number

ReleaseInv == TypeOK /\ ReleasedHasSnapshot /\ SnapshotsNumbered /\ OneSnapshotShown

RefundsOf(rows, r) ==
  {p \in PaymentsOf(rows, {"refund"}, {"completed"}) : rows[p].reservation = r}

\* What a reservation says was refunded is the sum of its completed refund
\* payments, however these were entered, changed or removed, unless one was entered
\* as a payment or a call failed between the two.
RefundsMatchPayments ==
  \A r \in ReservationId \ adrift :
    reservations[r].refund = SumOf(payments, RefundsOf(payments, r))

\* An invoice is void only by a choice of staff.
VoidAstray == \A i \in InvoiceIds : invoices[i].status = "void" => i \in astray

\* A single invoice says what the payments add up to, or, when it was drafted or its
\* lines were edited since, what they add up to without account credit; unless the
\* total was typed by hand, the invoice voided, or a call failed, and neither a
\* payment nor an edit of lines has put it right since.
PaidFollowsPayments ==
  Len(invoices) = 1 /\ 1 \notin astray
  => invoices[1].paid \in {NetPaid(payments), InvoicePaid(payments)}

\* Once a customer has a released invoice, there is one until the next replaces it.
ReleasedStaysShown == [][Portal # {} => Portal' # {}]_vars
=============================================================================
