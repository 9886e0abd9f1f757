--------------------------- MODULE PackagePayments ---------------------------
(***************************************************************************)
(* Payments and customer refunds of a package, and the prices of its       *)
(* reservations.  The pages are those of PackageInvoices: a payment names  *)
(* the invoice its page shows, and the page loads the invoice again after  *)
(* a payment but not after a refund.                                       *)
(***************************************************************************)
EXTENDS PackageInvoices

CONSTANT Kinds  \* the types and statuses of payments that staff enter

ASSUME PaymentKinds == Kinds \subseteq PaymentTypes \X PaymentStatuses

\* refreshInvoice, after the answer to a payment; the page keeps its copy if
\* the answer is lost or there is no invoice.
Refresh(s) ==
  \/ pages' = [pages EXCEPT ![s] = IF Latest(invoices') = NoInvoice THEN @
                                   ELSE Copy(Latest(invoices'), invoices'[Latest(invoices')],
                                             @.releasing)]
  \/ (Lossy \/ Failing) /\ pages' = pages

FreeIds == PaymentId \ DOMAIN payments
NewId   == CHOOSE p \in FreeIds : TRUE

\* customerRefundContribution
Refunded(pay) == IF pay.type = "refund" /\ pay.status = "completed" THEN pay.amount ELSE 0

\* POST of a payment, which may name a reservation; a refund that does so is not
\* added to what the reservation says was refunded.
RecordPayment(s, type, status, amount, r) ==
  LET row == [type |-> type, status |-> status, amount |-> amount,
              reservation |-> r, invoice |-> pages[s].invoice]
  IN  /\ FreeIds # {}
      /\ payments' = Put(payments, NewId, row)
      /\ adrift' = IF Refunded(row) = 0 THEN adrift ELSE adrift \cup ({r} \cap ReservationId)
      /\ Sync(payments', pages[s].invoice)
      /\ Refresh(s)
      /\ UNCHANGED <<reservations, versions, leftover>>

\* syncLinkedReservationRefund: the refunds of the reservation grow by change;
\* nobody looks at the errors of reading and writing them.
MoveRefund(pay, change) ==
  LET refund(r) == reservations[r].refund + change
  IN  \/ /\ \A r \in ReservationId \cap {pay.reservation} : refund(r) <= MaxRefund
         /\ reservations' = [r \in ReservationId |->
              IF r = pay.reservation
              THEN [reservations[r] EXCEPT !.refund = IF refund(r) > 0 THEN refund(r) ELSE 0]
              ELSE reservations[r]]
         /\ UNCHANGED adrift
      \/ /\ Failing /\ change # 0
         /\ adrift' = adrift \cup ({pay.reservation} \cap ReservationId)
         /\ UNCHANGED reservations

\* PATCH of a payment
EditPayment(s, p, type, status, amount) ==
  LET before == payments[p]
      after  == [before EXCEPT !.type = type, !.status = status, !.amount = amount]
  IN  /\ p \in DOMAIN payments
      /\ payments' = Put(payments, p, after)
      /\ MoveRefund(before, Refunded(after) - Refunded(before))
      /\ Sync(payments', after.invoice)
      /\ Refresh(s)
      /\ UNCHANGED <<versions, leftover>>

\* Mutated forms: the reservation keeps the refund of a deleted payment; the invoice
\* is settled before the payment is gone.
DeletePaymentOnly(s, p) ==
  /\ p \in DOMAIN payments
  /\ payments' = Without(payments, {p})
  /\ Sync(payments', payments[p].invoice)
  /\ Refresh(s)
  /\ UNCHANGED <<reservations, versions, adrift, leftover>>
DeletePaymentLast(s, p) ==
  /\ p \in DOMAIN payments
  /\ payments' = Without(payments, {p})
  /\ MoveRefund(payments[p], 0 - Refunded(payments[p]))
  /\ Sync(payments, payments[p].invoice)
  /\ Refresh(s)
  /\ UNCHANGED <<versions, leftover>>

\* DELETE of a payment
DeletePayment(s, p) ==
  /\ p \in DOMAIN payments
  /\ payments' = Without(payments, {p})
  /\ MoveRefund(payments[p], 0 - Refunded(payments[p]))
  /\ Sync(payments', payments[p].invoice)
  /\ Refresh(s)
  /\ UNCHANGED <<versions, leftover>>

\* POST of a customer refund: a payment is stored, and then the total of the
\* reservation.  When that fails the payment is deleted, which may fail too, and
\* either call may have had its effect although it is taken for failed.
RefundCustomer(s, r, amount) ==
  LET row == [type |-> "refund", status |-> "completed", amount |-> amount,
              reservation |-> r, invoice |-> pages[s].invoice]
      stored == payments' = Put(payments, NewId, row)
      raised == reservations' = [reservations EXCEPT ![r].refund = @ + amount]
  IN  /\ FreeIds # {}
      /\ amount <= reservations[r].sold - reservations[r].refund
      /\ \/ stored /\ raised /\ Sync(payments', pages[s].invoice) /\ UNCHANGED adrift
         \/ /\ Failing /\ stored /\ UNCHANGED reservations
            /\ Unsettled(pages[s].invoice) /\ adrift' = adrift \cup {r}
         \/ /\ Failing /\ raised /\ UNCHANGED payments
            /\ UNCHANGED <<invoices, astray>> /\ adrift' = adrift \cup {r}
      /\ UNCHANGED <<versions, pages, leftover>>

\* PATCH of a reservation, or a change of its items
PriceReservation(r, sold) ==
  /\ reservations' = [reservations EXCEPT ![r].sold = sold]
  /\ UNCHANGED <<payments, invoices, versions, pages, history>>

PaymentNext ==
  \/ \E s \in Staff, amount \in Amounts :
       \/ \E k \in Kinds, r \in ReservationId \cup {NoReservation} :
            RecordPayment(s, k[1], k[2], amount, r)
       \/ \E k \in Kinds, p \in PaymentId : EditPayment(s, p, k[1], k[2], amount)
       \/ \E r \in ReservationId : RefundCustomer(s, r, amount)
  \/ \E s \in Staff, p \in PaymentId : DeletePayment(s, p)
  \/ \E r \in ReservationId, sold \in SoldPrices : PriceReservation(r, sold)
=============================================================================
