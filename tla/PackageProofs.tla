---------------------------- MODULE PackageProofs ----------------------------
(***************************************************************************)
(* What holds of the money of a package for every number of reservations,  *)
(* payments, invoices and pages and for all amounts, and of a quote and    *)
(* its folder for all payloads, choices and numbers of requests.           *)
(***************************************************************************)
EXTENDS PackageFinance, PackageQuotes, NaturalOrder, SequenceTheorems

-----------------------------------------------------------------------------
(* Totals.                                                                 *)

LEMMA SumOfTyped ==
  ASSUME NEW rows, Table(rows, PaymentId, Payment), NEW ids \in SUBSET DOMAIN rows
  PROVE  SumOf(rows, ids) \in Nat
<1> DEFINE f == [p \in PaymentId |-> IF p \in ids THEN rows[p].amount ELSE 0]
<1>1. f \in [1..MaxPayments -> Nat]
  BY LedgerAmounts DEF Table, Payment, PaymentId
<1>2. MaxPayments \in Nat
  BY LedgerBounds
<1>3. SumTo(f, MaxPayments) \in Nat
  <2> HIDE DEF f
  <2> QED BY <1>1, <1>2, SumToType
<1> QED BY <1>3 DEF SumOf

LEMMA NetPaidTyped ==
  ASSUME NEW rows, Table(rows, PaymentId, Payment)
  PROVE  NetPaid(rows) \in Int /\ InvoicePaid(rows) \in Int
<1>1. \A types : PaymentsOf(rows, types, {"completed"}) \in SUBSET DOMAIN rows
  BY DEF PaymentsOf
<1>2. \A types : Completed(rows, types) \in Nat
  BY <1>1, SumOfTyped DEF Completed
<1> QED BY <1>2 DEF NetPaid, InvoicePaid

LEMMA DraftTotalTyped ==
  ASSUME reservations \in [ReservationId -> Reservation]
  PROVE  DraftTotal \in Int
<1> DEFINE f == [r \in ReservationId |-> reservations[r].sold - reservations[r].refund]
<1>1. f \in [1..MaxReservations -> Int]
  <2>1. \A r \in ReservationId : reservations[r].sold \in Nat /\ reservations[r].refund \in Nat
    BY LedgerAmounts DEF Reservation
  <2> QED BY <2>1 DEF ReservationId
<1>2. MaxReservations \in Nat
  BY LedgerBounds
<1>3. SumTo(f, MaxReservations) \in Int
  <2> HIDE DEF f
  <2> QED BY <1>1, <1>2, SumToInteger
<1> QED BY <1>3 DEF DraftTotal

\* Adding up the same payments with the same amounts gives the same sum.
LEMMA SumOfSame ==
  ASSUME NEW rows, NEW others, NEW ids,
         \A p \in ids : rows[p].amount = others[p].amount
  PROVE  SumOf(rows, ids) = SumOf(others, ids)
<1>1. [p \in PaymentId |-> IF p \in ids THEN rows[p].amount ELSE 0]
        = [p \in PaymentId |-> IF p \in ids THEN others[p].amount ELSE 0]
  OBVIOUS
<1> QED BY <1>1 DEF SumOf

-----------------------------------------------------------------------------
(* The rows that are written.                                              *)

LEMMA LatestKnown ==
  ASSUME NEW rows \in Seq(Invoice), Len(rows) <= MaxInvoices
  PROVE  Latest(rows) # NoInvoice => Latest(rows) \in 1..Len(rows)
<1>1. CASE Valid(rows) = {}
  BY <1>1 DEF Latest
<1>2. CASE Valid(rows) # {}
  <2>1. Valid(rows) \subseteq 1..Len(rows) /\ Valid(rows) \subseteq 0..MaxInvoices
    BY LedgerBounds DEF Valid
  <2>2. \E i \in Valid(rows) : \A j \in Valid(rows) : j <= i
    BY <1>2, <2>1, LedgerBounds, GreatestNatural
  <2>3. Latest(rows) \in Valid(rows)
    BY <1>2, <2>2 DEF Latest
  <2> QED BY <2>1, <2>3
<1> QED BY <1>1, <1>2

\* Whatever happens to an invoice but its release and amendment leaves what it
\* was released as, and does not release it.
Keeps(before, after) ==
  /\ after.version = before.version /\ after.shown = before.shown
  /\ after.released => before.released

LEMMA SettledTyped ==
  ASSUME NEW inv, NEW sold \in Int, NEW paid \in Int, NEW other \in InvoiceStatuses
  PROVE  Settled(inv, sold, paid, other) \in InvoiceStatuses
<1> QED BY DEF Settled, InvoiceStatuses

LEMMA SyncedTyped ==
  ASSUME NEW inv \in Invoice, NEW paid \in Int
  PROVE  /\ Synced(inv, paid) \in Invoice /\ Keeps(inv, Synced(inv, paid))
         /\ Synced(inv, paid).paid = paid
<1> DEFINE other  == IF inv.status = "draft" THEN "draft" ELSE "pending_payment"
           status == Settled(inv, inv.sold, paid, other)
<1>1. /\ inv.sold \in Int /\ inv.released \in BOOLEAN
      /\ inv.version \in Nat \ {0} /\ inv.shown \in Nat
  BY DEF Invoice
<1>2. other \in InvoiceStatuses
  BY DEF InvoiceStatuses
<1>3. status \in InvoiceStatuses
  <2> HIDE DEF other
  <2> QED BY <1>1, <1>2, SettledTyped
<1>4. Synced(inv, paid) = [status |-> status, released |-> inv.released,
        version |-> inv.version, shown |-> inv.shown,
        sold |-> inv.sold, paid |-> paid, balance |-> inv.sold - paid]
  <2>1. Synced(inv, paid) = [inv EXCEPT !.paid = paid, !.balance = inv.sold - paid, !.status = status]
    BY DEF Synced
  <2> HIDE DEF status
  <2> QED BY <2>1 DEF Invoice
<1>5. inv.sold - paid \in Int
  BY <1>1
<1> HIDE DEF status
<1> QED BY <1>1, <1>3, <1>4, <1>5 DEF Invoice, Keeps

LEMMA RecalculatedTyped ==
  ASSUME NEW inv \in Invoice, NEW total \in Int, NEW paid \in Int
  PROVE  /\ Recalculated(inv, total, paid) \in Invoice
         /\ Keeps(inv, Recalculated(inv, total, paid))
         /\ Recalculated(inv, total, paid).paid = paid
<1> DEFINE status == Settled(inv, total, paid, inv.status)
<1>1. /\ inv.released \in BOOLEAN /\ inv.status \in InvoiceStatuses
      /\ inv.version \in Nat \ {0} /\ inv.shown \in Nat
  BY DEF Invoice
<1>2. status \in InvoiceStatuses
  BY <1>1, SettledTyped
<1>3. Recalculated(inv, total, paid) = [status |-> status, released |-> inv.released,
        version |-> inv.version, shown |-> inv.shown,
        sold |-> total, paid |-> paid, balance |-> total - paid]
  <2>1. Recalculated(inv, total, paid)
          = [inv EXCEPT !.sold = total, !.paid = paid, !.balance = total - paid, !.status = status]
    BY DEF Recalculated
  <2> HIDE DEF status
  <2> QED BY <2>1 DEF Invoice
<1>4. total - paid \in Int
  OBVIOUS
<1> HIDE DEF status
<1> QED BY <1>1, <1>2, <1>3, <1>4 DEF Invoice, Keeps

LEMMA PatchedTyped ==
  ASSUME NEW inv \in Invoice, NEW status \in InvoiceStatuses, NEW sold \in Int, NEW paid \in Int,
         status = "released" => inv.released
  PROVE  /\ Patched(inv, status, sold, paid) \in Invoice
         /\ Keeps(inv, Patched(inv, status, sold, paid))
         /\ Patched(inv, status, sold, paid).paid = paid
         /\ Patched(inv, status, sold, paid).status = status
<1> DEFINE mark == status = "released"
<1>1. inv.version \in Nat \ {0} /\ inv.shown \in Nat
  BY DEF Invoice
<1>2. Patched(inv, status, sold, paid) = [status |-> status, released |-> mark,
        version |-> inv.version, shown |-> inv.shown,
        sold |-> sold, paid |-> paid, balance |-> sold - paid]
  <2>1. Patched(inv, status, sold, paid) = [inv EXCEPT !.status = status, !.released = mark,
          !.sold = sold, !.paid = paid, !.balance = sold - paid]
    BY DEF Patched
  <2>2. mark \in BOOLEAN
    OBVIOUS
  <2> HIDE DEF mark
  <2> QED BY <2>1, <2>2 DEF Invoice
<1>3. sold - paid \in Int /\ mark \in BOOLEAN /\ (mark => inv.released)
  OBVIOUS
<1> HIDE DEF mark
<1>4. Patched(inv, status, sold, paid).released = mark
  BY <1>2
<1> QED BY <1>1, <1>2, <1>3, <1>4 DEF Invoice, Keeps

LEMMA AmendedTyped ==
  ASSUME NEW inv \in Invoice
  PROVE  /\ Amended(inv) \in Invoice /\ ~Amended(inv).released
         /\ Amended(inv).shown = inv.shown
         /\ inv.version \in Nat /\ Amended(inv).version = inv.version + 1
<1>1. /\ inv.version \in Nat \ {0} /\ inv.shown \in Nat
      /\ inv.sold \in Int /\ inv.paid \in Int /\ inv.balance \in Int
  BY DEF Invoice
<1>2. Amended(inv) = [status |-> "amended", released |-> FALSE, version |-> inv.version + 1,
        shown |-> inv.shown, sold |-> inv.sold, paid |-> inv.paid, balance |-> inv.balance]
  <2> DEFINE no == FALSE
             next == inv.version + 1
  <2>1. Amended(inv) = [inv EXCEPT !.status = "amended", !.released = no, !.version = next]
    BY DEF Amended
  <2>2. no \in BOOLEAN /\ next \in Int
    BY <1>1
  <2>3. [status |-> "amended", released |-> no, version |-> next, shown |-> inv.shown,
         sold |-> inv.sold, paid |-> inv.paid, balance |-> inv.balance] = Amended(inv)
    <3> HIDE DEF no, next
    <3> QED BY <2>1, <2>2 DEF Invoice
  <2> QED BY <2>3
<1> QED BY <1>1, <1>2 DEF Invoice, InvoiceStatuses

LEMMA CopyTyped ==
  ASSUME NEW i \in 0..MaxInvoices, NEW inv \in Invoice, NEW releasing \in 0..MaxInvoices
  PROVE  Copy(i, inv, releasing) \in Page
<1> QED BY DEF Copy, Invoice, Page

\* One invoice is rewritten.
LEMMA InvoiceWritten ==
  ASSUME NEW rows \in Seq(Invoice), NEW i \in 1..Len(rows), NEW inv \in Invoice
  PROVE  /\ [rows EXCEPT ![i] = inv] \in Seq(Invoice)
         /\ Len([rows EXCEPT ![i] = inv]) = Len(rows)
         /\ [rows EXCEPT ![i] = inv][i] = inv
<1> QED OBVIOUS

-----------------------------------------------------------------------------
(* Steps.                                                                  *)

\* A step that neither stores nor revokes a snapshot, and releases nothing.
Quiet ==
  /\ versions' = versions /\ leftover' = leftover /\ Len(invoices) <= Len(invoices')
  /\ \A i \in 1..Len(invoices) :
       /\ invoices'[i].shown = invoices[i].shown
       /\ invoices'[i].version >= invoices[i].version
       /\ invoices'[i].released =>
            invoices[i].released /\ invoices'[i].version = invoices[i].version
  /\ \A i \in (Len(invoices) + 1)..Len(invoices') :
       ~invoices'[i].released /\ invoices'[i].shown <= invoices'[i].version

PagesKnown(rows) ==
  /\ pages' \in [Staff -> Page]
  /\ \A s \in Staff : {pages'[s].invoice, pages'[s].releasing} \subseteq 0..Len(rows)

LEMMA Answered ==
  ASSUME TypeOK, NEW rows \in Seq(Invoice), Len(invoices) <= Len(rows), Len(rows) <= MaxInvoices,
         NEW s \in Staff, NEW i \in 0..Len(rows), NEW inv \in Invoice, Answer(s, i, inv)
  PROVE  PagesKnown(rows)
<1> DEFINE kept == [pages[s] EXCEPT !.releasing = NoInvoice]
<1>1. PICK page \in {kept, Copy(i, inv, NoInvoice)} : pages' = [pages EXCEPT ![s] = page]
  BY DEF Answer
<1>2. /\ Len(invoices) \in Nat /\ Len(rows) \in Nat /\ MaxInvoices \in Nat
      /\ pages \in [Staff -> Page]
      /\ \A t \in Staff : {pages[t].invoice, pages[t].releasing} \subseteq 0..Len(invoices)
  BY LedgerBounds DEF TypeOK, LedgerTypeOK, PageTypeOK, InvoicesKnown
<1>3. kept \in Page /\ {kept.invoice, kept.releasing} \subseteq 0..Len(rows)
  BY <1>2 DEF Page, NoInvoice
<1>4. Copy(i, inv, NoInvoice) \in Page
  BY <1>2, CopyTyped DEF NoInvoice
<1>5. {Copy(i, inv, NoInvoice).invoice, Copy(i, inv, NoInvoice).releasing} \subseteq 0..Len(rows)
  BY <1>2 DEF Copy, NoInvoice
<1> HIDE DEF kept
<1>6. page \in Page /\ {page.invoice, page.releasing} \subseteq 0..Len(rows)
  BY <1>1, <1>3, <1>4, <1>5
<1> QED BY <1>1, <1>2, <1>6 DEF PagesKnown

LEMMA PagesKept ==
  ASSUME TypeOK, pages' = pages, NEW rows \in Seq(Invoice), Len(invoices) <= Len(rows)
  PROVE  PagesKnown(rows)
<1>1. /\ pages \in [Staff -> Page] /\ Len(invoices) \in Nat /\ Len(rows) \in Nat
      /\ \A t \in Staff : {pages[t].invoice, pages[t].releasing} \subseteq 0..Len(invoices)
  BY DEF TypeOK, LedgerTypeOK, PageTypeOK, InvoicesKnown
<1> QED BY <1>1 DEF PagesKnown

\* An invoice is rewritten, and what it was released as is kept.
LEMMA WriteStep ==
  ASSUME TypeOK, NEW i \in 1..Len(invoices), NEW inv \in Invoice, Keeps(invoices[i], inv),
         invoices' = [invoices EXCEPT ![i] = inv], versions' = versions, leftover' = leftover
  PROVE  invoices' \in Seq(Invoice) /\ Len(invoices') = Len(invoices) /\ Quiet
<1>1. invoices \in Seq(Invoice) /\ Len(invoices) \in Nat /\ DOMAIN invoices = 1..Len(invoices)
  BY DEF TypeOK, LedgerTypeOK
<1>2. invoices' \in Seq(Invoice) /\ Len(invoices') = Len(invoices)
  BY <1>1, InvoiceWritten
<1>3. \A j \in 1..Len(invoices) : invoices[j] \in Invoice /\ invoices[j].version \in Nat
  <2>1. \A j \in 1..Len(invoices) : invoices[j] \in Invoice
    BY <1>1, ElementOfSeq
  <2> QED BY <2>1 DEF Invoice
<1>4. \A j \in 1..Len(invoices) : Keeps(invoices[j], invoices'[j])
  BY <1>1, <1>3 DEF Keeps
<1> QED BY <1>1, <1>2, <1>3, <1>4 DEF Quiet, Keeps

\* What a step leaves well typed
LEMMA Typed ==
  ASSUME TypeOK, reservations' \in [ReservationId -> Reservation],
         Table(payments', PaymentId, Payment),
         \A p \in DOMAIN payments' : payments'[p].invoice <= Len(invoices'),
         invoices' \in Seq(Invoice), Len(invoices') <= MaxInvoices, versions' \subseteq Version,
         PagesKnown(invoices'), astray' \subseteq 1..MaxInvoices, adrift' \subseteq ReservationId,
         leftover' \subseteq Version
  PROVE  TypeOK'
<1> QED BY DEF TypeOK, LedgerTypeOK, PageTypeOK, InvoicesKnown, PagesKnown

LEMMA TypeFacts ==
  ASSUME TypeOK
  PROVE  /\ reservations \in [ReservationId -> Reservation]
         /\ Table(payments, PaymentId, Payment)
         /\ invoices \in Seq(Invoice) /\ Len(invoices) \in Nat /\ Len(invoices) <= MaxInvoices
         /\ DOMAIN invoices = 1..Len(invoices)
         /\ \A i \in 1..Len(invoices) : invoices[i] \in Invoice
         /\ versions \subseteq Version /\ astray \subseteq 1..MaxInvoices
         /\ adrift \subseteq ReservationId /\ leftover \subseteq Version
         /\ pages \in [Staff -> Page]
         /\ \A s \in Staff : {pages[s].invoice, pages[s].releasing} \subseteq 0..Len(invoices)
         /\ \A p \in DOMAIN payments : payments[p].invoice <= Len(invoices)
         /\ MaxInvoices \in Nat
<1>1. /\ reservations \in [ReservationId -> Reservation]
      /\ Table(payments, PaymentId, Payment)
      /\ invoices \in Seq(Invoice) /\ Len(invoices) <= MaxInvoices
      /\ versions \subseteq Version /\ astray \subseteq 1..MaxInvoices
      /\ adrift \subseteq ReservationId /\ leftover \subseteq Version
      /\ pages \in [Staff -> Page]
      /\ \A s \in Staff : {pages[s].invoice, pages[s].releasing} \subseteq 0..Len(invoices)
      /\ \A p \in DOMAIN payments : payments[p].invoice <= Len(invoices)
  BY DEF TypeOK, LedgerTypeOK, PageTypeOK, InvoicesKnown
<1>2. Len(invoices) \in Nat /\ DOMAIN invoices = 1..Len(invoices) /\ MaxInvoices \in Nat
  BY <1>1, LedgerBounds
<1>3. \A i \in 1..Len(invoices) : invoices[i] \in Invoice
  BY <1>1, ElementOfSeq
<1> QED BY <1>1, <1>2, <1>3

LEMMA UnchangedQuiet ==
  ASSUME TypeOK, invoices' = invoices, versions' = versions, leftover' = leftover
  PROVE  Quiet
<1>1. \A i \in 1..Len(invoices) : invoices[i].version \in Nat
  BY TypeFacts DEF Invoice
<1> QED BY <1>1, TypeFacts DEF Quiet

LEMMA TargetTyped ==
  ASSUME TypeOK, NEW preferred
  PROVE  Target(preferred) \subseteq 1..Len(invoices) /\ Target(preferred) \subseteq 1..MaxInvoices
<1>1. Valid(invoices) \subseteq 1..Len(invoices)
  BY TypeFacts DEF Valid
<1> QED BY <1>1, TypeFacts DEF Target

LEMMA SettledForFacts ==
  ASSUME TypeOK, NEW preferred, NEW paid \in Int
  PROVE  LET rows == SettledFor(preferred, paid)
         IN  /\ rows \in Seq(Invoice) /\ Len(rows) = Len(invoices)
             /\ \A i \in 1..Len(invoices) :
                  /\ Keeps(invoices[i], rows[i])
                  /\ rows[i] = IF i \in Target(preferred) THEN Synced(invoices[i], paid)
                               ELSE invoices[i]
<1> DEFINE row(i) == IF i \in Target(preferred) THEN Synced(invoices[i], paid) ELSE invoices[i]
<1>1. Len(invoices) \in Nat /\ DOMAIN invoices = 1..Len(invoices)
      /\ \A i \in 1..Len(invoices) : invoices[i] \in Invoice
  BY TypeFacts
<1>2. SettledFor(preferred, paid) = [i \in 1..Len(invoices) |-> row(i)]
  BY <1>1 DEF SettledFor, InvoiceIds
<1>3. ASSUME NEW i \in 1..Len(invoices) PROVE row(i) \in Invoice /\ Keeps(invoices[i], row(i))
  BY <1>1, SyncedTyped DEF Keeps
<1>4. \A i \in 1..Len(invoices) :
        row(i) = IF i \in Target(preferred) THEN Synced(invoices[i], paid) ELSE invoices[i]
  OBVIOUS
<1> HIDE DEF row
<1>5. SettledFor(preferred, paid) \in [1..Len(invoices) -> Invoice]
  BY <1>2, <1>3
<1>6. SettledFor(preferred, paid) \in Seq(Invoice) /\ Len(SettledFor(preferred, paid)) = Len(invoices)
  BY <1>1, <1>5, SeqDef
<1>7. \A i \in 1..Len(invoices) : SettledFor(preferred, paid)[i] = row(i)
  BY <1>2
<1> QED BY <1>3, <1>4, <1>6, <1>7

\* The invoices after a payment
LEMMA SyncStep ==
  ASSUME TypeOK, NEW rows, Table(rows, PaymentId, Payment), NEW preferred,
         Sync(rows, preferred), versions' = versions, leftover' = leftover
  PROVE  /\ invoices' \in Seq(Invoice) /\ Len(invoices') = Len(invoices) /\ Quiet
         /\ astray' \subseteq 1..MaxInvoices
<1>1. astray' \subseteq 1..MaxInvoices
  BY TargetTyped, TypeFacts DEF Sync, Unsettled
<1>2. ASSUME NEW paid \in Int, invoices' = SettledFor(preferred, paid)
      PROVE  invoices' \in Seq(Invoice) /\ Len(invoices') = Len(invoices) /\ Quiet
  <2>1. /\ invoices' \in Seq(Invoice) /\ Len(invoices') = Len(invoices)
        /\ \A i \in 1..Len(invoices) : Keeps(invoices[i], invoices'[i])
    BY <1>2, SettledForFacts
  <2>2. \A i \in 1..Len(invoices) : invoices'[i].version \in Nat
    <3>1. \A i \in 1..Len(invoices) : invoices[i].version \in Nat
      BY TypeFacts DEF Invoice
    <3> QED BY <2>1, <3>1 DEF Keeps
  <2> QED BY <2>1, <2>2, TypeFacts DEF Quiet, Keeps
<1>3. ASSUME invoices' = invoices
      PROVE  invoices' \in Seq(Invoice) /\ Len(invoices') = Len(invoices) /\ Quiet
  <2>1. Quiet
    BY <1>3, UnchangedQuiet
  <2>2. invoices \in Seq(Invoice)
    BY TypeFacts
  <2> QED BY <1>3, <2>1, <2>2
<1> QED BY <1>1, <1>2, <1>3, NetPaidTyped DEF Sync, Unsettled

\* GET
LEMMA LoadStep ==
  ASSUME TypeOK, NEW s \in Staff, Load(s)
  PROVE  TypeOK' /\ Quiet
<1> USE TypeFacts
<1>1. /\ reservations' = reservations /\ payments' = payments /\ invoices' = invoices
      /\ versions' = versions /\ astray' = astray /\ adrift' = adrift /\ leftover' = leftover
  BY DEF Load, ledger, history
<1>2. PagesKnown(invoices)
  <2> DEFINE page == IF Latest(invoices) = NoInvoice THEN EmptyPage
                     ELSE Copy(Latest(invoices), invoices[Latest(invoices)], NoInvoice)
  <2>1. CASE Latest(invoices) = NoInvoice
    <3>1. EmptyPage \in Page /\ {EmptyPage.invoice, EmptyPage.releasing} \subseteq 0..Len(invoices)
      BY DEF EmptyPage, Page, NoInvoice, InvoiceStatuses
    <3>2. pages' = [pages EXCEPT ![s] = EmptyPage]
      BY <2>1 DEF Load
    <3> QED BY <3>1, <3>2 DEF PagesKnown
  <2>2. CASE Latest(invoices) # NoInvoice
    <3>1. Latest(invoices) \in 1..Len(invoices)
      BY <2>2, LatestKnown
    <3>2. Answer(s, Latest(invoices), invoices[Latest(invoices)])
      BY <2>2 DEF Load, Answer
    <3> QED BY <3>1, <3>2, Answered
  <2> QED BY <2>1, <2>2
<1>3. Quiet
  BY <1>1, UnchangedQuiet
<1> QED BY <1>1, <1>2, <1>3, Typed

LEMMA DraftAgainStep ==
  ASSUME TypeOK, NEW s \in Staff, DraftAgain(s)
  PROVE  TypeOK' /\ Quiet
<1> USE TypeFacts
<1>1. /\ reservations' = reservations /\ payments' = payments /\ invoices' = invoices
      /\ versions' = versions /\ astray' = astray /\ adrift' = adrift /\ leftover' = leftover
  BY DEF DraftAgain, ledger, history
<1>2. PagesKnown(invoices)
  BY LatestKnown, Answered DEF DraftAgain
<1>3. Quiet
  BY <1>1, UnchangedQuiet
<1> QED BY <1>1, <1>2, <1>3, Typed

LEMMA LinkedTyped ==
  ASSUME TypeOK, Len(invoices) < MaxInvoices
  PROVE  /\ Table(Linked, PaymentId, Payment)
         /\ \A p \in DOMAIN Linked : Linked[p].invoice <= Len(invoices) + 1
         /\ DOMAIN Linked = DOMAIN payments
         /\ \A p \in DOMAIN payments :
              /\ Linked[p].type = payments[p].type /\ Linked[p].status = payments[p].status
              /\ Linked[p].amount = payments[p].amount
              /\ Linked[p].reservation = payments[p].reservation
<1> USE TypeFacts
<1> DEFINE linked(p) == [payments[p] EXCEPT !.invoice = Len(invoices) + 1]
<1>1. Linked = [p \in DOMAIN payments |->
                 IF payments[p].invoice = NoInvoice THEN linked(p) ELSE payments[p]]
  BY DEF Linked
<1>2. Len(invoices) + 1 \in 0..MaxInvoices
  OBVIOUS
<1>3. ASSUME NEW p \in DOMAIN payments
      PROVE  /\ payments[p] \in Payment /\ payments[p].invoice <= Len(invoices) + 1
             /\ linked(p) \in Payment /\ linked(p).invoice <= Len(invoices) + 1
             /\ linked(p).type = payments[p].type /\ linked(p).status = payments[p].status
             /\ linked(p).amount = payments[p].amount
             /\ linked(p).reservation = payments[p].reservation
  <2>1. payments[p] \in Payment /\ payments[p].invoice <= Len(invoices)
    BY DEF Table
  <2>2. payments[p].invoice \in Int
    BY <2>1 DEF Payment
  <2>3. /\ linked(p) \in Payment /\ linked(p).invoice = Len(invoices) + 1
        /\ linked(p).type = payments[p].type /\ linked(p).status = payments[p].status
        /\ linked(p).amount = payments[p].amount
        /\ linked(p).reservation = payments[p].reservation
    BY <2>1, <1>2 DEF Payment
  <2> HIDE DEF linked
  <2> QED BY <2>1, <2>2, <2>3
<1> HIDE DEF linked
<1>4. DOMAIN Linked = DOMAIN payments
      /\ \A p \in DOMAIN payments : Linked[p] \in {linked(p), payments[p]}
  BY <1>1
<1> QED BY <1>3, <1>4 DEF Table

LEMMA PaidAsReadTyped ==
  ASSUME TypeOK, NEW read PROVE PaidAsRead(read) \in Int
<1> QED BY TypeFacts, NetPaidTyped DEF PaidAsRead

LEMMA NewDraftTyped ==
  ASSUME TypeOK, NEW paid \in Int
  PROVE  /\ NewDraft(paid) \in Invoice /\ ~NewDraft(paid).released /\ NewDraft(paid).shown = 0
         /\ NewDraft(paid).version = 1 /\ NewDraft(paid).status = "draft"
         /\ NewDraft(paid).paid = paid
<1>1. DraftTotal \in Int
  BY TypeFacts, DraftTotalTyped
<1> QED BY <1>1 DEF NewDraft, Invoice, InvoiceStatuses

LEMMA DraftStep ==
  ASSUME TypeOK, NEW s \in Staff, Draft(s)
  PROVE  TypeOK' /\ Quiet
<1> USE TypeFacts
<1>1. PICK read \in {TRUE, ~Failing} :
        /\ invoices' = Append(invoices, NewDraft(PaidAsRead(read)))
        /\ astray' = IF read THEN astray ELSE astray \cup {Len(invoices) + 1}
        /\ Answer(s, Len(invoices) + 1, NewDraft(PaidAsRead(read)))
  BY DEF Draft
<1> DEFINE new == NewDraft(PaidAsRead(read))
<1>2. new \in Invoice /\ ~new.released /\ new.shown = 0 /\ new.version = 1
  BY PaidAsReadTyped, NewDraftTyped
<1> HIDE DEF new
<1>3. /\ invoices' \in Seq(Invoice) /\ Len(invoices') = Len(invoices) + 1
      /\ \A i \in 1..Len(invoices) : invoices'[i] = invoices[i]
      /\ invoices'[Len(invoices) + 1] = new
  <2>1. invoices' = Append(invoices, new)
    BY <1>1 DEF new
  <2> QED BY <1>2, <2>1
<1>4. Len(invoices') <= MaxInvoices /\ Len(invoices) < MaxInvoices
  BY <1>3, LedgerBounds DEF Draft
<1>5. reservations' = reservations /\ versions' = versions /\ adrift' = adrift /\ leftover' = leftover
  BY DEF Draft
<1>6. Quiet
  <2>1. \A i \in 1..Len(invoices) : invoices[i].version \in Nat
    BY DEF Invoice
  <2>2. \A i \in (Len(invoices) + 1)..Len(invoices') : i = Len(invoices) + 1
    BY <1>3
  <2> QED BY <1>2, <1>3, <1>5, <2>1, <2>2 DEF Quiet
<1>7. PagesKnown(invoices')
  <2>1. Answer(s, Len(invoices) + 1, new)
    BY <1>1 DEF new
  <2>2. Len(invoices) + 1 \in 0..Len(invoices') /\ Len(invoices) <= Len(invoices')
    BY <1>3
  <2> QED BY <1>2, <1>3, <1>4, <2>1, <2>2, Answered
<1>8. /\ Table(payments', PaymentId, Payment)
      /\ \A p \in DOMAIN payments' : payments'[p].invoice <= Len(invoices')
  <2>1. CASE payments' = Linked
    BY <2>1, <1>3, <1>4, LinkedTyped
  <2>2. CASE payments' = payments
    <3>1. \A p \in DOMAIN payments : payments[p].invoice \in Int
      BY DEF Table, Payment
    <3> QED BY <2>2, <1>3, <3>1
  <2> QED BY <2>1, <2>2 DEF Draft
<1>9. astray' \subseteq 1..MaxInvoices
  BY <1>1, <1>4
<1> QED BY <1>3, <1>4, <1>5, <1>6, <1>7, <1>8, <1>9, Typed

LEMMA PatchStep ==
  ASSUME TypeOK, NEW s \in Staff, NEW status \in InvoiceStatuses,
         NEW sold \in Int, NEW paid \in Int, Patch(s, status, sold, paid)
  PROVE  /\ reservations' = reservations /\ payments' = payments /\ versions' = versions
         /\ pages[s].invoice \in 1..Len(invoices)
         /\ invoices' \in Seq(Invoice) /\ Len(invoices') = Len(invoices) /\ Quiet
         /\ astray' \subseteq 1..MaxInvoices /\ adrift' = adrift /\ leftover' = leftover
<1> USE TypeFacts
<1> DEFINE i == pages[s].invoice
           after == Patched(invoices[i], status, sold, paid)
<1>1. i \in 1..Len(invoices)
  BY DEF Patch, Editable, NoInvoice
<1>2. pages[s] \in Page /\ invoices[i] \in Invoice
  BY <1>1
<1>3. after \in Invoice /\ Keeps(invoices[i], after)
  <2>1. (status = "released" => invoices[i].released)
    BY <1>2 DEF Page, Patch
  <2> QED BY <1>2, <2>1, PatchedTyped
<1>4. /\ invoices' = [invoices EXCEPT ![i] = after] /\ reservations' = reservations
      /\ payments' = payments /\ versions' = versions /\ adrift' = adrift /\ leftover' = leftover
  BY DEF Patch
<1>5. astray' \subseteq 1..MaxInvoices
  BY <1>1 DEF Patch
<1>6. invoices' \in Seq(Invoice) /\ Len(invoices') = Len(invoices) /\ Quiet
  <2> HIDE DEF after, i
  <2> QED BY <1>1, <1>3, <1>4, WriteStep
<1> QED BY <1>1, <1>4, <1>5, <1>6

LEMMA PatchTypes ==
  ASSUME TypeOK, NEW s \in Staff
  PROVE  /\ Statuses \cup {pages[s].status} \subseteq InvoiceStatuses
         /\ TypedSold \cup {pages[s].sold} \subseteq Int
         /\ TypedPaid \cup {pages[s].paid} \subseteq Int
<1> QED BY TypeFacts, PageChoices DEF Page

LEMMA SaveStep ==
  ASSUME TypeOK, NEW s \in Staff, Save(s)
  PROVE  TypeOK' /\ Quiet
<1>1. PICK status \in Statuses \cup {pages[s].status}, sold \in TypedSold \cup {pages[s].sold},
            paid \in TypedPaid \cup {pages[s].paid} :
        Patch(s, status, sold, paid) /\ Answer(s, pages[s].invoice, invoices'[pages[s].invoice])
  BY DEF Save
<1>2. /\ reservations' = reservations /\ payments' = payments /\ versions' = versions
      /\ pages[s].invoice \in 1..Len(invoices)
      /\ invoices' \in Seq(Invoice) /\ Len(invoices') = Len(invoices) /\ Quiet
      /\ astray' \subseteq 1..MaxInvoices /\ adrift' = adrift /\ leftover' = leftover
  BY <1>1, PatchStep, PatchTypes
<1>3. PagesKnown(invoices')
  BY <1>1, <1>2, TypeFacts, ElementOfSeq, Answered
<1> QED BY <1>2, <1>3, TypeFacts, Typed

LEMMA SaveForReleaseStep ==
  ASSUME TypeOK, NEW s \in Staff, SaveForRelease(s)
  PROVE  TypeOK' /\ Quiet
<1> DEFINE status == IF pages[s].status = "amended" THEN "finalised" ELSE pages[s].status
<1>1. Patch(s, status, pages[s].sold, pages[s].paid)
  BY DEF SaveForRelease
<1>2. status \in InvoiceStatuses /\ pages[s].sold \in Int /\ pages[s].paid \in Int
  BY PatchTypes DEF InvoiceStatuses
<1>3. /\ reservations' = reservations /\ payments' = payments /\ versions' = versions
      /\ pages[s].invoice \in 1..Len(invoices)
      /\ invoices' \in Seq(Invoice) /\ Len(invoices') = Len(invoices) /\ Quiet
      /\ astray' \subseteq 1..MaxInvoices /\ adrift' = adrift /\ leftover' = leftover
  <2> HIDE DEF status
  <2> QED BY <1>1, <1>2, PatchStep
<1>4. PagesKnown(invoices')
  <2>1. CASE pages' = pages
    BY <2>1, <1>3, TypeFacts, PagesKept
  <2>2. CASE pages' = [pages EXCEPT ![s].releasing = pages[s].invoice]
    BY <2>2, <1>3, TypeFacts DEF PagesKnown, Page
  <2> QED BY <2>1, <2>2 DEF SaveForRelease
<1> QED BY <1>3, <1>4, TypeFacts, Typed

LEMMA StoppedTyped ==
  ASSUME NEW page \in Page
  PROVE  LET stopped == [page EXCEPT !.releasing = NoInvoice]
         IN  stopped \in Page /\ stopped.invoice = page.invoice /\ stopped.releasing = 0
<1>1. MaxInvoices \in Nat
  BY LedgerBounds
<1> QED BY <1>1 DEF Page, NoInvoice

LEMMA Stopped ==
  ASSUME TypeOK, NEW s \in Staff, Stop(s), NEW rows \in Seq(Invoice), Len(rows) = Len(invoices)
  PROVE  PagesKnown(rows)
<1> USE TypeFacts
<1> DEFINE page == [pages[s] EXCEPT !.releasing = NoInvoice]
<1>1. page \in Page /\ {page.invoice, page.releasing} \subseteq 0..Len(rows)
  BY StoppedTyped
<1>2. pages' = [pages EXCEPT ![s] = page]
  BY DEF Stop
<1> HIDE DEF page
<1> QED BY <1>1, <1>2 DEF PagesKnown

LEMMA ReleaseRefusedStep ==
  ASSUME TypeOK, NEW s \in Staff, ReleaseRefused(s)
  PROVE  TypeOK' /\ Quiet
<1>1. /\ reservations' = reservations /\ payments' = payments /\ invoices' = invoices
      /\ versions' = versions /\ astray' = astray /\ adrift' = adrift /\ leftover' = leftover
      /\ Stop(s)
  BY DEF ReleaseRefused, ledger, history
<1> QED BY <1>1, TypeFacts, Stopped, UnchangedQuiet, Typed

LEMMA RestTyped ==
  ASSUME TypeOK, NEW done, Revokes(done)
  PROVE  Rest(done) \subseteq Version /\ leftover' \subseteq Version
<1>1. \A v \in versions : [v EXCEPT !.visible = FALSE] \in Version
  BY TypeFacts DEF Version
<1> QED BY <1>1, TypeFacts DEF Rest, Revokes, Revoked, Visible

LEMMA ReleaseFailsTyped ==
  ASSUME TypeOK, NEW s \in Staff, ReleaseFails(s)
  PROVE  TypeOK'
<1>1. PICK done \in {TRUE, ~Failing} : Revokes(done) /\ versions' = Rest(done)
  BY DEF ReleaseFails
<1>2. /\ reservations' = reservations /\ payments' = payments /\ invoices' = invoices
      /\ astray' = astray /\ adrift' = adrift /\ Stop(s)
  BY DEF ReleaseFails
<1> QED BY <1>1, <1>2, TypeFacts, Stopped, RestTyped, Typed

LEMMA MarkedFacts ==
  ASSUME TypeOK, NEW i \in 1..Len(invoices)
  PROVE  /\ Marked(i) \in Seq(Invoice) /\ Len(Marked(i)) = Len(invoices)
         /\ Marked(i)[i].released /\ Marked(i)[i].shown = invoices[i].version
         /\ Marked(i)[i].version = invoices[i].version /\ Marked(i)[i].paid = invoices[i].paid
         /\ Marked(i)[i].status = "released"
         /\ \A j \in 1..Len(invoices) : j # i => Marked(i)[j] = invoices[j]
<1> USE TypeFacts
<1> DEFINE inv == invoices[i]
           after == [inv EXCEPT !.status = "released", !.released = TRUE, !.shown = inv.version]
<1>1. inv \in Invoice
  OBVIOUS
<1>2. /\ after \in Invoice /\ after.released /\ after.shown = inv.version
      /\ after.version = inv.version /\ after.paid = inv.paid /\ after.status = "released"
  BY <1>1 DEF Invoice, InvoiceStatuses
<1>3. Marked(i) = [invoices EXCEPT ![i] = after]
  BY <1>1 DEF Marked
<1> HIDE DEF after
<1> QED BY <1>2, <1>3, InvoiceWritten

\* What becomes of the row of an invoice that is released: it is marked, or the call fails.
LEMMA ReleaseTyped ==
  ASSUME TypeOK, NEW s \in Staff, Release(s)
  PROVE  LET i == pages[s].releasing
         IN  /\ TypeOK' /\ i \in 1..Len(invoices) /\ ~Stored(i) /\ payments' = payments
             /\ reservations' = reservations /\ astray' = astray /\ adrift' = adrift
             /\ invoices' \in {invoices, Marked(i)}
             /\ \/ versions' = Revoked \cup {NewVersion(i)} /\ leftover' = {}
                \/ versions' = versions \cup {NewVersion(i)} /\ leftover' = Visible
<1> USE TypeFacts
<1> DEFINE i == pages[s].releasing
<1>1. i \in 1..Len(invoices) /\ invoices[i] \in Invoice
  BY DEF Release, Releasable, NoInvoice
<1>2. PICK done \in {TRUE, ~Failing} :
        Revokes(done) /\ versions' = Rest(done) \cup {NewVersion(i)}
  BY DEF Release
<1>3. NewVersion(i) \in Version
  <2> DEFINE yes == TRUE
  <2>1. NewVersion(i) = [invoice |-> i, number |-> invoices[i].version, visible |-> yes,
                         sold |-> invoices[i].sold]
    BY DEF NewVersion
  <2>2. yes \in BOOLEAN /\ i \in Nat \ {0} /\ invoices[i].version \in Nat \ {0}
        /\ invoices[i].sold \in Int
    BY <1>1 DEF Invoice
  <2> HIDE DEF yes
  <2> QED BY <2>1, <2>2 DEF Version
<1>4. /\ reservations' = reservations /\ payments' = payments /\ astray' = astray
      /\ adrift' = adrift /\ ~Stored(i)
      /\ \/ invoices' = Marked(i) /\ Answer(s, i, invoices'[i])
         \/ invoices' = invoices /\ Stop(s)
  BY DEF Release
<1>5. versions' \subseteq Version /\ leftover' \subseteq Version
  BY <1>2, <1>3, RestTyped
<1> HIDE DEF i
<1>6. invoices' \in Seq(Invoice) /\ Len(invoices') = Len(invoices) /\ PagesKnown(invoices')
  <2>1. CASE invoices' = Marked(i) /\ Answer(s, i, invoices'[i])
    <3>1. invoices' \in Seq(Invoice) /\ Len(invoices') = Len(invoices)
      BY <1>1, <2>1, MarkedFacts
    <3>2. i \in 0..Len(invoices') /\ invoices'[i] \in Invoice
      BY <1>1, <3>1, ElementOfSeq
    <3> QED BY <2>1, <3>1, <3>2, Answered
  <2>2. CASE invoices' = invoices /\ Stop(s)
    BY <2>2, Stopped
  <2> QED BY <1>4, <2>1, <2>2
<1>7. TypeOK'
  BY <1>4, <1>5, <1>6, Typed
<1>8. \/ versions' = Revoked \cup {NewVersion(i)} /\ leftover' = {}
      \/ versions' = versions \cup {NewVersion(i)} /\ leftover' = Visible
  BY <1>2 DEF Revokes, Rest
<1> QED BY <1>1, <1>4, <1>7, <1>8 DEF i

LEMMA AmendStep ==
  ASSUME TypeOK, NEW s \in Staff, Amend(s)
  PROVE  TypeOK' /\ Quiet
<1> USE TypeFacts
<1> DEFINE i == pages[s].invoice
           inv == invoices[i]
           after == Amended(inv)
<1>1. i \in 1..Len(invoices) /\ inv \in Invoice
  BY DEF Amend, NoInvoice
<1>2. /\ after \in Invoice /\ ~after.released /\ after.shown = inv.shown
      /\ after.version = inv.version + 1 /\ inv.version \in Nat
  BY <1>1, AmendedTyped
<1>3. invoices' = [invoices EXCEPT ![i] = after]
  BY DEF Amend
<1>4. /\ invoices' \in Seq(Invoice) /\ Len(invoices') = Len(invoices) /\ invoices'[i] = after
      /\ \A j \in 1..Len(invoices) : j # i => invoices'[j] = invoices[j]
  <2> HIDE DEF after, i
  <2> QED BY <1>1, <1>2, <1>3, InvoiceWritten
<1>5. Answer(s, i, invoices'[i]) /\ versions' = versions
      /\ reservations' = reservations /\ payments' = payments
      /\ astray' = astray /\ adrift' = adrift /\ leftover' = leftover
  BY DEF Amend, history
<1>6. PagesKnown(invoices')
  <2>1. i \in 0..Len(invoices') /\ invoices'[i] \in Invoice /\ Len(invoices) <= Len(invoices')
    BY <1>1, <1>2, <1>4
  <2> HIDE DEF after, i
  <2> QED BY <1>4, <1>5, <2>1, Answered
<1>7. Quiet
  <2>1. \A j \in 1..Len(invoices) : invoices[j].version \in Nat
    BY DEF Invoice
  <2> HIDE DEF after, i
  <2> QED BY <1>1, <1>2, <1>4, <1>5, <2>1 DEF Quiet
<1> HIDE DEF after, i
<1> QED BY <1>4, <1>5, <1>6, <1>7, Typed

LEMMA EditLinesStep ==
  ASSUME TypeOK, NEW s \in Staff, NEW total \in LineTotals, EditLines(s, total)
  PROVE  TypeOK' /\ Quiet
<1> USE TypeFacts
<1> DEFINE i == pages[s].invoice
<1>1. i \in 1..Len(invoices) /\ invoices[i] \in Invoice
  BY DEF EditLines, Editable, NoInvoice
<1>2. PICK read \in {TRUE, ~Failing} :
        /\ invoices' = [invoices EXCEPT ![i] = Recalculated(@, total, PaidAsRead(read))]
        /\ astray' \subseteq astray \cup {i}
  BY DEF EditLines
<1> DEFINE after == Recalculated(invoices[i], total, PaidAsRead(read))
<1>3. after \in Invoice /\ Keeps(invoices[i], after)
  BY <1>1, LedgerAmounts, PaidAsReadTyped, RecalculatedTyped
<1>4. /\ invoices' = [invoices EXCEPT ![i] = after] /\ Answer(s, i, invoices'[i])
      /\ reservations' = reservations /\ payments' = payments
      /\ versions' = versions /\ adrift' = adrift /\ leftover' = leftover
  BY <1>1, <1>2 DEF EditLines
<1> HIDE DEF after, i
<1>5. invoices' \in Seq(Invoice) /\ Len(invoices') = Len(invoices) /\ Quiet
  BY <1>1, <1>3, <1>4, WriteStep
<1>6. PagesKnown(invoices')
  <2>1. i \in 0..Len(invoices') /\ invoices'[i] \in Invoice /\ Len(invoices) <= Len(invoices')
    BY <1>1, <1>5, ElementOfSeq
  <2> QED BY <1>4, <1>5, <2>1, Answered
<1>7. astray' \subseteq 1..MaxInvoices
  BY <1>1, <1>2
<1> QED BY <1>4, <1>5, <1>6, <1>7, Typed

LEMMA Refreshed ==
  ASSUME TypeOK, NEW s \in Staff, Refresh(s),
         invoices' \in Seq(Invoice), Len(invoices') = Len(invoices)
  PROVE  PagesKnown(invoices')
<1> DEFINE i == Latest(invoices')
           copy == Copy(i, invoices'[i], pages[s].releasing)
           page == IF i = NoInvoice THEN pages[s] ELSE copy
<1>1. /\ pages \in [Staff -> Page] /\ Len(invoices) \in Nat /\ Len(invoices) <= MaxInvoices
      /\ MaxInvoices \in Nat
      /\ \A t \in Staff : {pages[t].invoice, pages[t].releasing} \subseteq 0..Len(invoices)
  BY TypeFacts
<1>2. page \in Page /\ {page.invoice, page.releasing} \subseteq 0..Len(invoices')
  <2>1. CASE i = NoInvoice
    BY <1>1, <2>1
  <2>2. CASE i # NoInvoice
    <3>1. i \in 1..Len(invoices')
      BY <2>2, <1>1, LatestKnown
    <3>2. invoices'[i] \in Invoice
      BY <3>1, ElementOfSeq
    <3>3. i \in 0..MaxInvoices /\ pages[s].releasing \in 0..MaxInvoices
      BY <3>1, <1>1
    <3>4. copy \in Page
      <4> HIDE DEF i
      <4> QED BY <3>2, <3>3, CopyTyped
    <3>5. copy.invoice = i /\ copy.releasing = pages[s].releasing
      BY DEF Copy
    <3>6. page = copy
      BY <2>2
    <3> HIDE DEF copy, page
    <3> QED BY <3>1, <3>4, <3>5, <3>6, <1>1
  <2> QED BY <2>1, <2>2
<1>3. pages' = [pages EXCEPT ![s] = page] \/ pages' = pages
  BY DEF Refresh
<1> HIDE DEF page
<1> QED BY <1>1, <1>2, <1>3 DEF PagesKnown

LEMMA PutPayment ==
  ASSUME Table(payments, PaymentId, Payment),
         \A q \in DOMAIN payments : payments[q].invoice <= Len(invoices),
         NEW p \in PaymentId, NEW row \in Payment, row.invoice <= Len(invoices)
  PROVE  /\ Table(Put(payments, p, row), PaymentId, Payment)
         /\ \A q \in DOMAIN Put(payments, p, row) :
              Put(payments, p, row)[q].invoice <= Len(invoices)
<1> QED BY DEF Table, Put

LEMMA NewIdFree ==
  FreeIds # {} => NewId \in PaymentId /\ NewId \notin DOMAIN payments
<1> QED BY DEF FreeIds, NewId

LEMMA PaymentTyped ==
  ASSUME TypeOK, NEW s \in Staff, NEW type \in PaymentTypes, NEW status \in PaymentStatuses,
         NEW amount \in Amounts, NEW r \in ReservationId \cup {NoReservation}
  PROVE  LET row == [type |-> type, status |-> status, amount |-> amount,
                     reservation |-> r, invoice |-> pages[s].invoice]
         IN  row \in Payment /\ row.invoice <= Len(invoices)
<1>1. /\ pages[s].invoice \in 0..Len(invoices) /\ Len(invoices) \in Nat
      /\ MaxInvoices \in Nat /\ Len(invoices) <= MaxInvoices
  BY TypeFacts
<1> QED BY <1>1 DEF Payment

LEMMA RecordPaymentStep ==
  ASSUME TypeOK, NEW s \in Staff, NEW type \in PaymentTypes, NEW status \in PaymentStatuses,
         NEW amount \in Amounts, NEW r \in ReservationId \cup {NoReservation},
         RecordPayment(s, type, status, amount, r)
  PROVE  TypeOK' /\ Quiet
<1> DEFINE row == [type |-> type, status |-> status, amount |-> amount,
                   reservation |-> r, invoice |-> pages[s].invoice]
<1>1. payments' = Put(payments, NewId, row) /\ FreeIds # {}
      /\ Sync(payments', pages[s].invoice) /\ Refresh(s)
      /\ reservations' = reservations /\ versions' = versions /\ leftover' = leftover
  BY DEF RecordPayment
<1>2. adrift' \subseteq ReservationId
  BY TypeFacts DEF RecordPayment
<1>3. row \in Payment /\ row.invoice <= Len(invoices)
  BY PaymentTyped
<1> HIDE DEF row
<1>4. /\ Table(payments', PaymentId, Payment)
      /\ \A q \in DOMAIN payments' : payments'[q].invoice <= Len(invoices)
  BY <1>1, <1>3, NewIdFree, TypeFacts, PutPayment
<1>5. /\ invoices' \in Seq(Invoice) /\ Len(invoices') = Len(invoices) /\ Quiet
      /\ astray' \subseteq 1..MaxInvoices
  BY <1>1, <1>4, SyncStep
<1>6. PagesKnown(invoices')
  BY <1>1, <1>5, Refreshed
<1> QED BY <1>1, <1>2, <1>4, <1>5, <1>6, TypeFacts, Typed

LEMMA RefundedTyped ==
  ASSUME NEW pay \in Payment
  PROVE  Refunded(pay) \in Nat /\ pay.reservation \in ReservationId \cup {NoReservation}
<1> QED BY LedgerAmounts DEF Refunded, Payment

LEMMA MoveRefundTyped ==
  ASSUME TypeOK, NEW pay \in Payment, NEW change \in Int, MoveRefund(pay, change)
  PROVE  reservations' \in [ReservationId -> Reservation] /\ adrift' \subseteq ReservationId
<1> DEFINE moved(r) == [reservations[r] EXCEPT !.refund =
                          IF reservations[r].refund + change > 0
                          THEN reservations[r].refund + change ELSE 0]
<1>1. \/ /\ reservations' = [r \in ReservationId |->
                              IF r = pay.reservation THEN moved(r) ELSE reservations[r]]
         /\ adrift' = adrift
      \/ reservations' = reservations /\ adrift' \subseteq adrift \cup ReservationId
  BY DEF MoveRefund
<1>2. ASSUME NEW r \in ReservationId
      PROVE  reservations[r] \in Reservation /\ moved(r) \in Reservation
  <2>1. reservations[r] \in Reservation
    BY TypeFacts
  <2> QED BY <2>1 DEF Reservation
<1> HIDE DEF moved
<1> QED BY <1>1, <1>2, TypeFacts

LEMMA EditPaymentStep ==
  ASSUME TypeOK, NEW s \in Staff, NEW p \in PaymentId, NEW type \in PaymentTypes,
         NEW status \in PaymentStatuses, NEW amount \in Amounts,
         EditPayment(s, p, type, status, amount)
  PROVE  TypeOK' /\ Quiet
<1> DEFINE before == payments[p]
           after  == [before EXCEPT !.type = type, !.status = status, !.amount = amount]
<1>1. /\ p \in DOMAIN payments /\ payments' = Put(payments, p, after)
      /\ MoveRefund(before, Refunded(after) - Refunded(before))
      /\ Sync(payments', after.invoice) /\ Refresh(s)
      /\ versions' = versions /\ leftover' = leftover
  BY DEF EditPayment
<1>2. before \in Payment /\ before.invoice <= Len(invoices)
  BY <1>1, TypeFacts DEF Table
<1>3. after \in Payment /\ after.invoice = before.invoice
  BY <1>2 DEF Payment
<1> HIDE DEF before, after
<1>4. /\ Table(payments', PaymentId, Payment)
      /\ \A q \in DOMAIN payments' : payments'[q].invoice <= Len(invoices)
  BY <1>1, <1>2, <1>3, TypeFacts, PutPayment
<1>5. /\ invoices' \in Seq(Invoice) /\ Len(invoices') = Len(invoices) /\ Quiet
      /\ astray' \subseteq 1..MaxInvoices
  BY <1>1, <1>4, SyncStep
<1>6. PagesKnown(invoices')
  BY <1>1, <1>5, Refreshed
<1>7. reservations' \in [ReservationId -> Reservation] /\ adrift' \subseteq ReservationId
  BY <1>1, <1>2, <1>3, RefundedTyped, MoveRefundTyped
<1> QED BY <1>1, <1>4, <1>5, <1>6, <1>7, TypeFacts, Typed

LEMMA DeletePaymentStep ==
  ASSUME TypeOK, NEW s \in Staff, NEW p \in PaymentId, DeletePayment(s, p)
  PROVE  TypeOK' /\ Quiet
<1>1. /\ p \in DOMAIN payments /\ payments' = Without(payments, {p})
      /\ MoveRefund(payments[p], 0 - Refunded(payments[p]))
      /\ Sync(payments', payments[p].invoice) /\ Refresh(s)
      /\ versions' = versions /\ leftover' = leftover
  BY DEF DeletePayment
<1>2. payments[p] \in Payment
  BY <1>1, TypeFacts DEF Table
<1>3. /\ Table(payments', PaymentId, Payment)
      /\ \A q \in DOMAIN payments' : payments'[q].invoice <= Len(invoices)
  BY <1>1, TypeFacts DEF Table, Without
<1>4. /\ invoices' \in Seq(Invoice) /\ Len(invoices') = Len(invoices) /\ Quiet
      /\ astray' \subseteq 1..MaxInvoices
  BY <1>1, <1>3, SyncStep
<1>5. PagesKnown(invoices')
  BY <1>1, <1>4, Refreshed
<1>6. reservations' \in [ReservationId -> Reservation] /\ adrift' \subseteq ReservationId
  BY <1>1, <1>2, RefundedTyped, MoveRefundTyped
<1> QED BY <1>1, <1>3, <1>4, <1>5, <1>6, TypeFacts, Typed

\* A customer refund: the payment is stored and the reservation raised, or one of the two.
LEMMA RefundCustomerFacts ==
  ASSUME TypeOK, NEW s \in Staff, NEW r \in ReservationId, NEW amount \in Amounts,
         RefundCustomer(s, r, amount)
  PROVE  LET row == [type |-> "refund", status |-> "completed", amount |-> amount,
                     reservation |-> r, invoice |-> pages[s].invoice]
             raised == [reservations EXCEPT ![r].refund = @ + amount]
         IN  /\ row \in Payment /\ row.invoice <= Len(invoices)
             /\ NewId \in PaymentId /\ NewId \notin DOMAIN payments
             /\ versions' = versions /\ pages' = pages /\ leftover' = leftover
             /\ \/ /\ payments' = Put(payments, NewId, row) /\ Sync(payments', pages[s].invoice)
                   /\ reservations' = raised /\ adrift' = adrift
                \/ /\ payments' = Put(payments, NewId, row) /\ Sync(payments', pages[s].invoice)
                   /\ reservations' = reservations /\ adrift' = adrift \cup {r}
                \/ /\ payments' = payments /\ invoices' = invoices /\ astray' = astray
                   /\ reservations' = raised /\ adrift' = adrift \cup {r}
<1> DEFINE row == [type |-> "refund", status |-> "completed", amount |-> amount,
                   reservation |-> r, invoice |-> pages[s].invoice]
           raised == [reservations EXCEPT ![r].refund = @ + amount]
<1>1. row \in Payment /\ row.invoice <= Len(invoices)
  BY PaymentTyped DEF PaymentTypes, PaymentStatuses
<1>2. /\ FreeIds # {} /\ versions' = versions /\ pages' = pages /\ leftover' = leftover
      /\ \/ /\ payments' = Put(payments, NewId, row) /\ Sync(payments', pages[s].invoice)
            /\ reservations' = raised /\ adrift' = adrift
         \/ /\ payments' = Put(payments, NewId, row)
            /\ Failing /\ Unsettled(pages[s].invoice)
            /\ reservations' = reservations /\ adrift' = adrift \cup {r}
         \/ /\ payments' = payments /\ invoices' = invoices /\ astray' = astray
            /\ reservations' = raised /\ adrift' = adrift \cup {r}
  BY DEF RefundCustomer
<1>3. Failing /\ Unsettled(pages[s].invoice) => Sync(payments', pages[s].invoice)
  BY DEF Sync
<1> HIDE DEF row, raised
<1> QED BY <1>1, <1>2, <1>3, NewIdFree DEF row, raised

LEMMA RefundCustomerStep ==
  ASSUME TypeOK, NEW s \in Staff, NEW r \in ReservationId, NEW amount \in Amounts,
         RefundCustomer(s, r, amount)
  PROVE  TypeOK' /\ Quiet
<1> DEFINE row == [type |-> "refund", status |-> "completed", amount |-> amount,
                   reservation |-> r, invoice |-> pages[s].invoice]
           raised == [reservations EXCEPT ![r].refund = @ + amount]
           stored == payments' = Put(payments, NewId, row) /\ Sync(payments', pages[s].invoice)
           left == payments' = payments /\ invoices' = invoices /\ astray' = astray
<1>1. /\ row \in Payment /\ row.invoice <= Len(invoices) /\ NewId \in PaymentId
      /\ versions' = versions /\ pages' = pages /\ leftover' = leftover
      /\ stored \/ left
      /\ reservations' \in {reservations, raised} /\ adrift' \subseteq adrift \cup {r}
  BY RefundCustomerFacts
<1>2. /\ Table(payments', PaymentId, Payment)
      /\ \A q \in DOMAIN payments' : payments'[q].invoice <= Len(invoices)
      /\ invoices' \in Seq(Invoice) /\ Len(invoices') = Len(invoices) /\ Quiet
      /\ astray' \subseteq 1..MaxInvoices
  <2>1. CASE stored
    <3> HIDE DEF row
    <3>1. /\ Table(payments', PaymentId, Payment)
          /\ \A q \in DOMAIN payments' : payments'[q].invoice <= Len(invoices)
      BY <1>1, <2>1, TypeFacts, PutPayment
    <3> QED BY <1>1, <2>1, <3>1, SyncStep
  <2>2. CASE left
    BY <1>1, <2>2, TypeFacts, UnchangedQuiet
  <2> QED BY <1>1, <2>1, <2>2
<1>3. PagesKnown(invoices')
  BY <1>1, <1>2, TypeFacts, PagesKept
<1>4. raised \in [ReservationId -> Reservation]
  <2>1. reservations[r] \in Reservation /\ amount \in Nat
    BY TypeFacts, LedgerAmounts
  <2>2. [reservations[r] EXCEPT !.refund = @ + amount] \in Reservation
    BY <2>1 DEF Reservation
  <2> QED BY <2>2, TypeFacts
<1> HIDE DEF row, raised, stored, left
<1> QED BY <1>1, <1>2, <1>3, <1>4, TypeFacts, Typed

LEMMA PriceReservationStep ==
  ASSUME TypeOK, NEW r \in ReservationId, NEW sold \in SoldPrices, PriceReservation(r, sold)
  PROVE  TypeOK' /\ Quiet
<1>1. /\ reservations' = [reservations EXCEPT ![r].sold = sold] /\ payments' = payments
      /\ invoices' = invoices /\ versions' = versions /\ pages' = pages
      /\ astray' = astray /\ adrift' = adrift /\ leftover' = leftover
  BY DEF PriceReservation, history
<1>2. reservations' \in [ReservationId -> Reservation]
  <2>1. [reservations[r] EXCEPT !.sold = sold] \in Reservation
    BY TypeFacts DEF Reservation
  <2> QED BY <1>1, <2>1, TypeFacts
<1> QED BY <1>1, <1>2, TypeFacts, PagesKept, UnchangedQuiet, Typed

\* Every step is one that touches no snapshot, or a release that succeeds or fails.
LEMMA Steps ==
  ASSUME TypeOK, [Next]_vars
  PROVE  TypeOK' /\ (Quiet \/ \E s \in Staff : Release(s) \/ ReleaseFails(s))
<1>1. ASSUME InvoiceNext PROVE TypeOK' /\ (Quiet \/ \E s \in Staff : Release(s) \/ ReleaseFails(s))
  BY <1>1, LoadStep, DraftStep, DraftAgainStep, SaveStep, SaveForReleaseStep, ReleaseRefusedStep,
     ReleaseFailsTyped, ReleaseTyped, AmendStep, EditLinesStep DEF InvoiceNext
<1>2. ASSUME PaymentNext PROVE TypeOK' /\ Quiet
  <2>1. \A k \in Kinds : k[1] \in PaymentTypes /\ k[2] \in PaymentStatuses
    BY PaymentKinds
  <2> QED BY <1>2, <2>1, RecordPaymentStep, EditPaymentStep, DeletePaymentStep, RefundCustomerStep,
             PriceReservationStep DEF PaymentNext
<1>3. ASSUME UNCHANGED vars PROVE TypeOK' /\ Quiet
  <2>1. /\ reservations' = reservations /\ payments' = payments /\ invoices' = invoices
        /\ versions' = versions /\ pages' = pages
        /\ astray' = astray /\ adrift' = adrift /\ leftover' = leftover
    BY <1>3 DEF vars, ledger, history
  <2> QED BY <2>1, TypeFacts, PagesKept, UnchangedQuiet, Typed
<1> QED BY <1>1, <1>2, <1>3 DEF Next

LEMMA InitTyped == Init => TypeOK
<1> SUFFICES ASSUME Init PROVE TypeOK
  OBVIOUS
<1>1. LedgerTypeOK /\ invoices = <<>> /\ payments = [p \in {} |-> 0]
  BY LedgerBounds DEF Init, LedgerInit, LedgerTypeOK, Table, Reservation
<1>2. PageTypeOK /\ InvoicesKnown
  BY <1>1, LedgerBounds DEF Init, PageInit, PageTypeOK, InvoicesKnown, EmptyPage, Page, NoInvoice,
     InvoiceStatuses
<1> QED BY <1>1, <1>2 DEF TypeOK

\* Every row keeps its type, and the invoices that pages and payments name exist.
THEOREM TypeCorrect == Spec => []TypeOK
<1>1. TypeOK /\ [Next]_vars => TypeOK'
  BY Steps
<1> QED BY <1>1, InitTyped, PTL DEF Spec

-----------------------------------------------------------------------------
(* What the customer is shown.                                             *)

LEMMA VersionFacts ==
  ASSUME TypeOK, SnapshotsNumbered
  PROVE  /\ \A i \in 1..Len(invoices) :
              invoices[i].version \in Nat /\ invoices[i].shown \in Nat
         /\ \A v \in versions : v.invoice \in 1..Len(invoices) /\ v.number \in Nat
<1>1. \A i \in 1..Len(invoices) : invoices[i].version \in Nat /\ invoices[i].shown \in Nat
  BY TypeFacts DEF Invoice
<1>2. \A v \in versions : v.invoice \in 1..Len(invoices)
  BY TypeFacts DEF SnapshotsNumbered, InvoiceIds
<1>3. \A v \in versions : v.number \in Nat
  BY TypeFacts DEF Version
<1> QED BY <1>1, <1>2, <1>3

LEMMA QuietKeeps ==
  ASSUME ReleaseInv, TypeOK', Quiet
  PROVE  ReleaseInv'
<1>1. /\ DOMAIN invoices = 1..Len(invoices) /\ Len(invoices) \in Nat
      /\ DOMAIN invoices' = 1..Len(invoices') /\ Len(invoices') \in Nat
      /\ Len(invoices) <= Len(invoices') /\ versions' = versions
  BY TypeFacts DEF ReleaseInv, Quiet, TypeOK, LedgerTypeOK
<1>2. \A i \in 1..Len(invoices') : invoices'[i].version \in Nat /\ invoices'[i].shown \in Nat
  <2>1. \A i \in 1..Len(invoices') : invoices'[i] \in Invoice
    BY <1>1, ElementOfSeq DEF TypeOK, LedgerTypeOK
  <2> QED BY <2>1 DEF Invoice
<1>3. \A i \in 1..Len(invoices') :
        i \in 1..Len(invoices) \/ i \in (Len(invoices) + 1)..Len(invoices')
  BY <1>1
<1>4. ReleasedHasSnapshot'
  BY <1>1, <1>3 DEF ReleaseInv, ReleasedHasSnapshot, Quiet, InvoiceIds
<1>5. SnapshotsNumbered'
  <2>1. \A v \in versions : v.invoice \in 1..Len(invoices) /\ v.invoice \in 1..Len(invoices')
                             /\ v.number <= invoices'[v.invoice].version
    <3> SUFFICES ASSUME NEW v \in versions
                 PROVE  /\ v.invoice \in 1..Len(invoices) /\ v.invoice \in 1..Len(invoices')
                        /\ v.number <= invoices'[v.invoice].version
      OBVIOUS
    <3>1. /\ v.invoice \in 1..Len(invoices) /\ v.number \in Nat
          /\ v.number <= invoices[v.invoice].version
      BY VersionFacts DEF ReleaseInv, SnapshotsNumbered
    <3>2. /\ invoices[v.invoice].version \in Nat /\ v.invoice \in 1..Len(invoices')
          /\ invoices'[v.invoice].version >= invoices[v.invoice].version
      BY <1>1, <3>1, VersionFacts DEF ReleaseInv, Quiet
    <3> QED BY <1>2, <3>1, <3>2
  <2>2. \A i \in 1..Len(invoices') : invoices'[i].shown <= invoices'[i].version
    <3>1. ASSUME NEW i \in 1..Len(invoices) PROVE invoices'[i].shown <= invoices'[i].version
      <4>1. /\ invoices[i].version \in Nat /\ invoices[i].shown \in Nat
            /\ invoices[i].shown <= invoices[i].version
        BY <1>1, VersionFacts DEF ReleaseInv, SnapshotsNumbered, InvoiceIds
      <4>2. invoices'[i].shown = invoices[i].shown /\ invoices'[i].version >= invoices[i].version
        BY DEF Quiet
      <4>3. invoices'[i].version \in Nat
        BY <1>1, <1>2
      <4> QED BY <4>1, <4>2, <4>3
    <3>2. \A i \in (Len(invoices) + 1)..Len(invoices') : invoices'[i].shown <= invoices'[i].version
      BY DEF Quiet
    <3> QED BY <1>3, <3>1, <3>2
  <2> QED BY <1>1, <2>1, <2>2 DEF ReleaseInv, SnapshotsNumbered, InvoiceIds
<1>6. OneSnapshotShown'
  <2>1. Visible' = Visible /\ Visible \subseteq versions /\ leftover' = leftover
    BY <1>1 DEF Visible, Quiet
  <2>2. \A v \in versions : v.invoice \in 1..Len(invoices)
    BY VersionFacts DEF ReleaseInv
  <2> QED BY <2>1, <2>2 DEF ReleaseInv, OneSnapshotShown, Quiet
<1> QED BY <1>4, <1>5, <1>6 DEF ReleaseInv

\* Revoking hides every snapshot and leaves the rest of it alone.
LEMMA RevokedFacts ==
  ASSUME TypeOK
  PROVE  /\ \A w \in Revoked : \E v \in versions :
              w.invoice = v.invoice /\ w.number = v.number /\ w = [v EXCEPT !.visible = FALSE]
         /\ \A v \in versions : \E w \in Revoked : w.invoice = v.invoice /\ w.number = v.number
         /\ \A w \in Revoked : ~w.visible
<1>1. \A v \in versions :
        LET w == [v EXCEPT !.visible = FALSE]
        IN  w.invoice = v.invoice /\ w.number = v.number /\ ~w.visible
  BY TypeFacts DEF Version
<1> QED BY <1>1 DEF Revoked

LEMMA RestFacts ==
  ASSUME TypeOK, NEW done
  PROVE  /\ \A w \in Rest(done) : \E v \in versions : w.invoice = v.invoice /\ w.number = v.number
         /\ \A v \in versions : \E w \in Rest(done) : w.invoice = v.invoice /\ w.number = v.number
<1> QED BY RevokedFacts DEF Rest

\* The snapshots after a revocation are still each of a version of its own.
LEMMA RestNumbered ==
  ASSUME TypeOK, SnapshotsNumbered, NEW done, NEW v \in Rest(done), NEW w \in Rest(done),
         v.invoice = w.invoice, v.number = w.number
  PROVE  v = w
<1>1. CASE done
  <2>1. v \in Revoked /\ w \in Revoked
    BY <1>1 DEF Rest
  <2>2. PICK x1 \in versions : v.invoice = x1.invoice /\ v.number = x1.number
                              /\ v = [x1 EXCEPT !.visible = FALSE]
    BY <2>1, RevokedFacts
  <2>3. PICK x2 \in versions : w.invoice = x2.invoice /\ w.number = x2.number
                              /\ w = [x2 EXCEPT !.visible = FALSE]
    BY <2>1, RevokedFacts
  <2>4. x1 = x2
    BY <2>2, <2>3 DEF SnapshotsNumbered
  <2> QED BY <2>2, <2>3, <2>4
<1>2. CASE ~done
  BY <1>2 DEF Rest, SnapshotsNumbered
<1> QED BY <1>1, <1>2

LEMMA ReleaseFailsKeeps ==
  ASSUME ReleaseInv, NEW s \in Staff, ReleaseFails(s)
  PROVE  ReleaseInv'
<1>1. TypeOK /\ SnapshotsNumbered /\ ReleasedHasSnapshot
  BY DEF ReleaseInv
<1>2. PICK done \in {TRUE, ~Failing} : Revokes(done) /\ versions' = Rest(done)
  BY DEF ReleaseFails
<1>3. invoices' = invoices /\ TypeOK'
  BY <1>1, ReleaseFailsTyped DEF ReleaseFails
<1>4. ReleasedHasSnapshot'
  BY <1>1, <1>2, <1>3, RestFacts DEF ReleasedHasSnapshot, InvoiceIds
<1>5. SnapshotsNumbered'
  <2>1. \A w \in Rest(done) : w.invoice \in InvoiceIds /\ w.number <= invoices[w.invoice].version
    BY <1>1, RestFacts DEF SnapshotsNumbered
  <2>2. \A i \in InvoiceIds : invoices[i].shown <= invoices[i].version
    BY <1>1 DEF SnapshotsNumbered
  <2>3. \A v, w \in Rest(done) : v.invoice = w.invoice /\ v.number = w.number => v = w
    BY <1>1, RestNumbered
  <2> QED BY <1>2, <1>3, <2>1, <2>2, <2>3 DEF SnapshotsNumbered, InvoiceIds
<1>6. OneSnapshotShown'
  <2>1. (Visible \ leftover)' = {}
    BY <1>1, <1>2, RevokedFacts DEF Visible, Revokes, Rest
  <2> QED BY <2>1 DEF OneSnapshotShown
<1> QED BY <1>3, <1>4, <1>5, <1>6 DEF ReleaseInv

LEMMA ReleaseKeeps ==
  ASSUME ReleaseInv, NEW s \in Staff, Release(s)
  PROVE  ReleaseInv'
<1> DEFINE i == pages[s].releasing
           new == NewVersion(i)
<1>1. TypeOK /\ SnapshotsNumbered /\ ReleasedHasSnapshot
  BY DEF ReleaseInv
<1>2. /\ TypeOK' /\ i \in 1..Len(invoices) /\ ~Stored(i) /\ invoices' \in {invoices, Marked(i)}
      /\ \/ versions' = Revoked \cup {new} /\ leftover' = {}
         \/ versions' = versions \cup {new} /\ leftover' = Visible
  BY <1>1, ReleaseTyped
<1>3. PICK done \in BOOLEAN : versions' = Rest(done) \cup {new}
  <2>1. Rest(TRUE) = Revoked /\ Rest(FALSE) = versions
    BY DEF Rest
  <2> QED BY <1>2, <2>1
<1>4. new.invoice = i /\ new.number = invoices[i].version /\ new.visible
  BY DEF NewVersion
<1> HIDE DEF i, new
<1>5. /\ DOMAIN invoices = 1..Len(invoices) /\ DOMAIN invoices' = 1..Len(invoices)
      /\ \A j \in 1..Len(invoices) :
           /\ invoices'[j].version = invoices[j].version
           /\ \/ invoices'[j] = invoices[j]
              \/ j = i /\ invoices'[j].shown = invoices[j].version
  <2>1. invoices' \in Seq(Invoice) /\ Len(invoices') = Len(invoices)
    BY <1>1, <1>2, MarkedFacts, TypeFacts
  <2> QED BY <1>1, <1>2, <2>1, MarkedFacts, TypeFacts
<1>6. /\ \A j \in 1..Len(invoices) : invoices[j].version \in Nat /\ invoices[j].shown \in Nat
      /\ \A v \in versions : v.invoice \in 1..Len(invoices) /\ v.number \in Nat
  BY <1>1, VersionFacts
<1>7. \A w \in Rest(done) : /\ w.invoice \in 1..Len(invoices)
                            /\ w.number <= invoices[w.invoice].version
                            /\ ~ (w.invoice = i /\ w.number = invoices[i].version)
  <2> SUFFICES ASSUME NEW w \in Rest(done)
               PROVE  /\ w.invoice \in 1..Len(invoices)
                      /\ w.number <= invoices[w.invoice].version
                      /\ ~ (w.invoice = i /\ w.number = invoices[i].version)
    OBVIOUS
  <2>1. PICK v \in versions : w.invoice = v.invoice /\ w.number = v.number
    BY <1>1, RestFacts
  <2> QED BY <1>1, <1>2, <1>6, <2>1 DEF SnapshotsNumbered, Stored
<1>8. ReleasedHasSnapshot'
  <2>1. ASSUME NEW j \in 1..Len(invoices), invoices'[j].released
        PROVE  /\ invoices'[j].shown = invoices'[j].version
               /\ \E v \in versions' : v.invoice = j /\ v.number = invoices'[j].version
    <3>1. CASE invoices'[j] = invoices[j]
      <4>1. invoices[j].released
        BY <2>1, <3>1
      <4>2. /\ invoices[j].shown = invoices[j].version
            /\ \E v \in versions : v.invoice = j /\ v.number = invoices[j].version
        BY <1>1, <1>5, <4>1 DEF ReleasedHasSnapshot, InvoiceIds
      <4>3. \E v \in Rest(done) : v.invoice = j /\ v.number = invoices[j].version
        BY <1>1, <4>2, RestFacts
      <4> QED BY <1>3, <3>1, <4>2, <4>3
    <3>2. CASE j = i /\ invoices'[j].shown = invoices[j].version
      BY <3>2, <1>3, <1>4, <1>5
    <3> QED BY <1>5, <3>1, <3>2
  <2> QED BY <1>5, <2>1 DEF ReleasedHasSnapshot, InvoiceIds
<1>9. SnapshotsNumbered'
  <2>1. \A j \in 1..Len(invoices) : invoices'[j].shown <= invoices'[j].version
    <3>1. \A j \in 1..Len(invoices) : invoices[j].shown <= invoices[j].version
      BY <1>1, <1>5 DEF SnapshotsNumbered, InvoiceIds
    <3> QED BY <1>5, <1>6, <3>1
  <2>2. \A v \in versions' : v.invoice \in 1..Len(invoices) /\ v.number <= invoices'[v.invoice].version
    <3>1. invoices[i].version <= invoices[i].version
      BY <1>2, <1>6
    <3> QED BY <1>2, <1>3, <1>4, <1>5, <1>7, <3>1
  <2>3. \A v, w \in Rest(done) : v.invoice = w.invoice /\ v.number = w.number => v = w
    BY <1>1, RestNumbered
  <2>4. \A v, w \in versions' : v.invoice = w.invoice /\ v.number = w.number => v = w
    BY <1>3, <1>4, <1>7, <2>3
  <2> QED BY <1>5, <2>1, <2>2, <2>4 DEF SnapshotsNumbered, InvoiceIds
<1>10. OneSnapshotShown'
  <2>1. new \notin versions
    BY <1>2, <1>4 DEF Stored
  <2>2. (Visible \ leftover)' = {new}
    <3>1. CASE versions' = Revoked \cup {new} /\ leftover' = {}
      BY <1>1, <1>4, <3>1, RevokedFacts DEF Visible
    <3>2. CASE versions' = versions \cup {new} /\ leftover' = Visible
      BY <1>4, <2>1, <3>2 DEF Visible
    <3> QED BY <1>2, <3>1, <3>2
  <2>3. \A w \in versions' : w.invoice = i => w.number <= new.number
    <3>1. invoices[i].version <= invoices[i].version
      BY <1>2, <1>6
    <3> QED BY <1>3, <1>4, <1>7, <3>1
  <2> QED BY <1>4, <2>2, <2>3 DEF OneSnapshotShown
<1> QED BY <1>2, <1>8, <1>9, <1>10 DEF ReleaseInv

LEMMA InitReleased == Init => ReleaseInv
<1> SUFFICES ASSUME Init PROVE ReleaseInv
  OBVIOUS
<1>1. TypeOK /\ invoices = <<>> /\ versions = {}
  BY InitTyped DEF Init, LedgerInit
<1> QED BY <1>1 DEF ReleaseInv, ReleasedHasSnapshot, SnapshotsNumbered, OneSnapshotShown, Visible,
        InvoiceIds

\* But for snapshots whose revocation failed, the customer is never shown two, nor one
\* that is not the last taken of its invoice; a released invoice has its snapshot; and
\* no version of an invoice has two, so that what was released stays as it was.
THEOREM Released == Spec => []ReleaseInv
<1>1. ReleaseInv /\ [Next]_vars => ReleaseInv'
  BY Steps, QuietKeeps, ReleaseKeeps, ReleaseFailsKeeps DEF ReleaseInv
<1> QED BY <1>1, InitReleased, PTL DEF Spec

-----------------------------------------------------------------------------
(* Refunds.                                                                *)

\* What payment p adds to the refunds of reservation r
Share(rows, p, r) == IF p \in RefundsOf(rows, r) THEN rows[p].amount ELSE 0

LEMMA RefundsOfTyped ==
  ASSUME NEW rows, Table(rows, PaymentId, Payment), NEW r
  PROVE  /\ RefundsOf(rows, r) \subseteq DOMAIN rows
         /\ [p \in PaymentId |-> Share(rows, p, r)] \in [1..MaxPayments -> Nat]
         /\ SumOf(rows, RefundsOf(rows, r))
              = SumTo([p \in PaymentId |-> Share(rows, p, r)], MaxPayments)
         /\ SumOf(rows, RefundsOf(rows, r)) \in Nat
<1>1. RefundsOf(rows, r) \subseteq DOMAIN rows
  BY DEF RefundsOf, PaymentsOf
<1>2. \A p \in PaymentId : Share(rows, p, r) \in Nat
  BY <1>1, LedgerAmounts DEF Share, Table, Payment
<1>3. [p \in PaymentId |-> Share(rows, p, r)] \in [1..MaxPayments -> Nat]
  BY <1>2 DEF PaymentId
<1>4. SumOf(rows, RefundsOf(rows, r)) = SumTo([p \in PaymentId |-> Share(rows, p, r)], MaxPayments)
  BY DEF SumOf, Share
<1>5. SumOf(rows, RefundsOf(rows, r)) \in Nat
  BY <1>1, SumOfTyped
<1> QED BY <1>1, <1>3, <1>4, <1>5

\* When one payment changes, the refunds of a reservation change by its share.
LEMMA RefundsChange ==
  ASSUME NEW rows, Table(rows, PaymentId, Payment), NEW after, Table(after, PaymentId, Payment),
         NEW p \in PaymentId, NEW r,
         \A q \in PaymentId \ {p} : Share(after, q, r) = Share(rows, q, r)
  PROVE  SumOf(after, RefundsOf(after, r))
           = SumOf(rows, RefundsOf(rows, r)) + (Share(after, p, r) - Share(rows, p, r))
<1> DEFINE f == [q \in PaymentId |-> Share(rows, q, r)]
           h == [q \in PaymentId |-> Share(after, q, r)]
<1>1. f \in [1..MaxPayments -> Int] /\ h \in [1..MaxPayments -> Int]
  <2>1. f \in [1..MaxPayments -> Nat] /\ h \in [1..MaxPayments -> Nat]
    BY RefundsOfTyped
  <2> HIDE DEF f, h
  <2> QED BY <2>1
<1>2. MaxPayments \in Nat /\ p \in 1..MaxPayments /\ f[p] = Share(rows, p, r)
      /\ h[p] = Share(after, p, r) /\ \A q \in 1..MaxPayments : q # p => h[q] = f[q]
  BY LedgerBounds DEF PaymentId
<1>3. SumTo(h, MaxPayments) = SumTo(f, MaxPayments) + (h[p] - f[p])
  <2> HIDE DEF f, h
  <2> QED BY <1>1, <1>2, SumToChange
<1>4. /\ SumOf(after, RefundsOf(after, r)) = SumTo(h, MaxPayments)
      /\ SumOf(rows, RefundsOf(rows, r)) = SumTo(f, MaxPayments)
  BY RefundsOfTyped
<1> QED BY <1>2, <1>3, <1>4

LEMMA SharesPut ==
  ASSUME NEW p \in PaymentId, NEW row, NEW r
  PROVE  /\ \A q \in PaymentId \ {p} : Share(Put(payments, p, row), q, r) = Share(payments, q, r)
         /\ Share(Put(payments, p, row), p, r) =
              IF row.type = "refund" /\ row.status = "completed" /\ row.reservation = r
              THEN row.amount ELSE 0
<1> QED BY DEF Share, RefundsOf, PaymentsOf, Put

LEMMA SharesWithout ==
  ASSUME NEW p \in PaymentId, NEW r
  PROVE  /\ \A q \in PaymentId \ {p} : Share(Without(payments, {p}), q, r) = Share(payments, q, r)
         /\ Share(Without(payments, {p}), p, r) = 0
<1> QED BY DEF Share, RefundsOf, PaymentsOf, Without

LEMMA ShareRefunded ==
  ASSUME NEW p \in DOMAIN payments, NEW r
  PROVE  Share(payments, p, r) =
           IF payments[p].reservation = r THEN Refunded(payments[p]) ELSE 0
<1> QED BY DEF Share, RefundsOf, PaymentsOf, Refunded

\* A change of one payment that is passed on to its reservation keeps the two equal.
LEMMA MovedRefundMatches ==
  ASSUME TypeOK, TypeOK', RefundsMatchPayments, NEW p \in DOMAIN payments, NEW change \in Int,
         MoveRefund(payments[p], change),
         \A r \in ReservationId :
           /\ \A q \in PaymentId \ {p} : Share(payments', q, r) = Share(payments, q, r)
           /\ Share(payments', p, r) = Share(payments, p, r)
                + (IF payments[p].reservation = r THEN change ELSE 0)
  PROVE  RefundsMatchPayments'
<1>1. Table(payments, PaymentId, Payment) /\ Table(payments', PaymentId, Payment) /\ p \in PaymentId
  BY TypeFacts DEF TypeOK, LedgerTypeOK, Table
<1>2. ASSUME NEW r \in ReservationId \ adrift'
      PROVE  reservations'[r].refund = SumOf(payments', RefundsOf(payments', r))
  <2>0. r \notin adrift
    BY DEF MoveRefund
  <2>1. /\ reservations[r] \in Reservation /\ reservations[r].refund \in Nat
        /\ reservations[r].refund = SumOf(payments, RefundsOf(payments, r))
    BY <2>0, TypeFacts DEF Reservation, RefundsMatchPayments
  <2>2. Share(payments, p, r) \in Nat /\ Share(payments', p, r) \in Nat
    <3>1. [q \in PaymentId |-> Share(payments, q, r)][p] \in Nat
          /\ [q \in PaymentId |-> Share(payments', q, r)][p] \in Nat
      BY <1>1, RefundsOfTyped DEF PaymentId
    <3> QED BY <1>1, <3>1
  <2>3. SumOf(payments', RefundsOf(payments', r)) = reservations[r].refund
          + (Share(payments', p, r) - Share(payments, p, r))
    BY <1>1, <2>1, RefundsChange
  <2>4. SumOf(payments', RefundsOf(payments', r)) \in Nat
    BY <1>1, RefundsOfTyped
  <2>5. CASE payments[p].reservation # r
    <3>1. reservations'[r] = reservations[r]
      BY <2>5 DEF MoveRefund
    <3> QED BY <2>1, <2>2, <2>3, <2>5, <3>1
  <2>6. CASE payments[p].reservation = r
    <3> DEFINE n == reservations[r].refund + change
    <3>1. reservations'[r] = [reservations[r] EXCEPT !.refund = IF n > 0 THEN n ELSE 0]
      BY <2>6 DEF MoveRefund
    <3>2. n = SumOf(payments', RefundsOf(payments', r)) /\ n \in Nat
      BY <2>1, <2>2, <2>3, <2>4, <2>6
    <3> HIDE DEF n
    <3>3. reservations'[r] = [reservations[r] EXCEPT !.refund = n]
      BY <3>1, <3>2
    <3> QED BY <2>1, <3>2, <3>3 DEF Reservation
  <2> QED BY <2>5, <2>6
<1> QED BY <1>2 DEF RefundsMatchPayments

\* A step after which every reservation and every share is what it was
LEMMA SharesSame ==
  ASSUME TypeOK, TypeOK', RefundsMatchPayments, adrift \subseteq adrift',
         \A r \in ReservationId \ adrift' :
           /\ reservations'[r].refund = reservations[r].refund
           /\ \A q \in PaymentId : Share(payments', q, r) = Share(payments, q, r)
  PROVE  RefundsMatchPayments'
<1>1. Table(payments, PaymentId, Payment) /\ Table(payments', PaymentId, Payment)
  BY TypeFacts DEF TypeOK, LedgerTypeOK
<1>2. ASSUME NEW r \in ReservationId \ adrift'
      PROVE  reservations'[r].refund = SumOf(payments', RefundsOf(payments', r))
  <2>1. [p \in PaymentId |-> Share(payments', p, r)] = [p \in PaymentId |-> Share(payments, p, r)]
    OBVIOUS
  <2>2. SumOf(payments', RefundsOf(payments', r)) = SumOf(payments, RefundsOf(payments, r))
    BY <1>1, <2>1, RefundsOfTyped
  <2> QED BY <2>2 DEF RefundsMatchPayments
<1> QED BY <1>2 DEF RefundsMatchPayments

LEMMA DraftShares ==
  ASSUME TypeOK, NEW s \in Staff, Draft(s), NEW r, NEW q \in PaymentId
  PROVE  Share(payments', q, r) = Share(payments, q, r)
<1>1. CASE payments' = Linked
  <2>1. Len(invoices) < MaxInvoices
    BY DEF Draft
  <2>2. /\ DOMAIN Linked = DOMAIN payments
        /\ \A p \in DOMAIN payments :
             /\ Linked[p].type = payments[p].type /\ Linked[p].status = payments[p].status
             /\ Linked[p].amount = payments[p].amount
             /\ Linked[p].reservation = payments[p].reservation
    BY <2>1, LinkedTyped
  <2> QED BY <1>1, <2>2 DEF Share, RefundsOf, PaymentsOf
<1>2. CASE payments' = payments
  BY <1>2 DEF Share, RefundsOf, PaymentsOf
<1> QED BY <1>1, <1>2 DEF Draft

LEMMA InvoiceStepMatches ==
  ASSUME TypeOK, TypeOK', RefundsMatchPayments, InvoiceNext
  PROVE  RefundsMatchPayments'
<1>1. CASE \E s \in Staff : Draft(s)
  <2>1. PICK s \in Staff : Draft(s)
    BY <1>1
  <2>2. reservations' = reservations /\ adrift' = adrift
    BY <2>1 DEF Draft
  <2> QED BY <2>1, <2>2, DraftShares, SharesSame
<1>2. CASE ~ \E s \in Staff : Draft(s)
  <2>1. payments' = payments /\ reservations' = reservations /\ adrift' = adrift
    BY <1>2 DEF InvoiceNext, Load, DraftAgain, Save, SaveForRelease, Patch, ReleaseRefused,
       ReleaseFails, Release, Amend, EditLines, ledger, history
  <2> QED BY <2>1, SharesSame
<1> QED BY <1>1, <1>2

LEMMA RecordPaymentMatches ==
  ASSUME TypeOK, TypeOK', RefundsMatchPayments, NEW s \in Staff, NEW type, NEW status,
         NEW amount \in Amounts, NEW room, RecordPayment(s, type, status, amount, room)
  PROVE  RefundsMatchPayments'
<1> DEFINE row == [type |-> type, status |-> status, amount |-> amount,
                   reservation |-> room, invoice |-> pages[s].invoice]
<1>1. /\ payments' = Put(payments, NewId, row) /\ reservations' = reservations
      /\ NewId \in PaymentId /\ NewId \notin DOMAIN payments
      /\ adrift' = IF Refunded(row) = 0 THEN adrift ELSE adrift \cup ({room} \cap ReservationId)
  BY NewIdFree DEF RecordPayment
<1>2. row.reservation = room /\ row.amount = amount /\ amount # 0
  BY LedgerAmounts
<1> HIDE DEF row
<1>3. ASSUME NEW r \in ReservationId \ adrift', NEW q \in PaymentId
      PROVE  Share(payments', q, r) = Share(payments, q, r)
  <2>1. Share(payments', NewId, r) = 0
    <3>1. ~ (row.type = "refund" /\ row.status = "completed" /\ row.reservation = r)
      BY <1>1, <1>2 DEF Refunded
    <3> QED BY <1>1, <3>1, SharesPut
  <2>2. Share(payments, NewId, r) = 0
    BY <1>1 DEF Share, RefundsOf, PaymentsOf
  <2>3. q # NewId => Share(payments', q, r) = Share(payments, q, r)
    BY <1>1, SharesPut
  <2> QED BY <2>1, <2>2, <2>3
<1>4. adrift \subseteq adrift'
  BY <1>1
<1> QED BY <1>1, <1>3, <1>4, SharesSame

LEMMA EditPaymentMatches ==
  ASSUME TypeOK, TypeOK', RefundsMatchPayments, NEW s \in Staff, NEW p \in PaymentId,
         NEW type \in PaymentTypes, NEW status \in PaymentStatuses, NEW amount \in Amounts,
         EditPayment(s, p, type, status, amount)
  PROVE  RefundsMatchPayments'
<1> DEFINE before == payments[p]
           after  == [before EXCEPT !.type = type, !.status = status, !.amount = amount]
<1>1. /\ p \in DOMAIN payments /\ payments' = Put(payments, p, after)
      /\ MoveRefund(before, Refunded(after) - Refunded(before))
  BY DEF EditPayment
<1>2. before \in Payment
  BY <1>1, TypeFacts DEF Table
<1>3. after \in Payment /\ after.reservation = before.reservation
  BY <1>2 DEF Payment
<1> HIDE DEF after
<1>4. Refunded(after) \in Nat /\ Refunded(before) \in Nat
  BY <1>2, <1>3, RefundedTyped
<1>5. ASSUME NEW r \in ReservationId
      PROVE  /\ \A q \in PaymentId \ {p} : Share(payments', q, r) = Share(payments, q, r)
             /\ Share(payments', p, r) = Share(payments, p, r)
                  + (IF payments[p].reservation = r THEN Refunded(after) - Refunded(before) ELSE 0)
  <2>1. Share(payments, p, r) = IF before.reservation = r THEN Refunded(before) ELSE 0
    BY <1>1, ShareRefunded
  <2>2. Share(payments', p, r) = IF after.reservation = r THEN Refunded(after) ELSE 0
    BY <1>1, SharesPut DEF Refunded
  <2>3. ASSUME NEW q \in PaymentId \ {p} PROVE Share(payments', q, r) = Share(payments, q, r)
    <3>1. Share(Put(payments, p, after), q, r) = Share(payments, q, r)
      BY SharesPut
    <3> QED BY <1>1, <3>1
  <2> QED BY <1>3, <1>4, <2>1, <2>2, <2>3
<1> QED BY <1>1, <1>4, <1>5, MovedRefundMatches

LEMMA DeletePaymentMatches ==
  ASSUME TypeOK, TypeOK', RefundsMatchPayments, NEW s \in Staff, NEW p \in PaymentId,
         DeletePayment(s, p)
  PROVE  RefundsMatchPayments'
<1>1. /\ p \in DOMAIN payments /\ payments' = Without(payments, {p})
      /\ MoveRefund(payments[p], 0 - Refunded(payments[p]))
  BY DEF DeletePayment
<1>2. Refunded(payments[p]) \in Nat
  BY <1>1, TypeFacts, RefundedTyped DEF Table
<1>3. ASSUME NEW r \in ReservationId
      PROVE  /\ \A q \in PaymentId \ {p} : Share(payments', q, r) = Share(payments, q, r)
             /\ Share(payments', p, r) = Share(payments, p, r)
                  + (IF payments[p].reservation = r THEN 0 - Refunded(payments[p]) ELSE 0)
  <2>1. Share(payments, p, r) = IF payments[p].reservation = r THEN Refunded(payments[p]) ELSE 0
    BY <1>1, ShareRefunded
  <2>2. Share(payments', p, r) = 0
    BY <1>1, SharesWithout
  <2>3. \A q \in PaymentId \ {p} : Share(payments', q, r) = Share(payments, q, r)
    BY <1>1, SharesWithout
  <2> QED BY <1>2, <2>1, <2>2, <2>3
<1>4. 0 - Refunded(payments[p]) \in Int
  BY <1>2
<1> QED BY <1>1, <1>3, <1>4, MovedRefundMatches

LEMMA RefundCustomerMatches ==
  ASSUME TypeOK, TypeOK', RefundsMatchPayments, NEW s \in Staff, NEW room \in ReservationId,
         NEW amount \in Amounts, RefundCustomer(s, room, amount)
  PROVE  RefundsMatchPayments'
<1> DEFINE row == [type |-> "refund", status |-> "completed", amount |-> amount,
                   reservation |-> room, invoice |-> pages[s].invoice]
           raised == [reservations EXCEPT ![room].refund = @ + amount]
<1>1. /\ NewId \in PaymentId /\ NewId \notin DOMAIN payments
      /\ payments' \in {payments, Put(payments, NewId, row)}
      /\ reservations' \in {reservations, raised}
      /\ \/ adrift' = adrift \cup {room}
         \/ adrift' = adrift /\ payments' = Put(payments, NewId, row) /\ reservations' = raised
  BY RefundCustomerFacts
<1>2. row.type = "refund" /\ row.status = "completed" /\ row.reservation = room
      /\ row.amount = amount
  OBVIOUS
<1> HIDE DEF row
<1>3. Table(payments, PaymentId, Payment) /\ Table(payments', PaymentId, Payment)
  BY TypeFacts DEF TypeOK, LedgerTypeOK
<1>4. ASSUME NEW r \in ReservationId
      PROVE  /\ reservations[r] \in Reservation /\ reservations[r].refund \in Nat
             /\ raised[r].refund = IF room = r THEN reservations[r].refund + amount
                                   ELSE reservations[r].refund
  BY TypeFacts DEF Reservation
<1>5. ASSUME NEW r \in ReservationId
      PROVE  /\ Share(payments, NewId, r) = 0
             /\ Share(Put(payments, NewId, row), NewId, r) = IF room = r THEN amount ELSE 0
             /\ \A q \in PaymentId \ {NewId} :
                  Share(Put(payments, NewId, row), q, r) = Share(payments, q, r)
  <2>1. Share(payments, NewId, r) = 0
    BY <1>1 DEF Share, RefundsOf, PaymentsOf
  <2> QED BY <1>1, <1>2, <2>1, SharesPut
<1> HIDE DEF raised
<1>6. CASE adrift' = adrift \cup {room}
  <2>1. ASSUME NEW r \in ReservationId \ adrift'
        PROVE  /\ reservations'[r].refund = reservations[r].refund
               /\ \A q \in PaymentId : Share(payments', q, r) = Share(payments, q, r)
    <3>1. room # r
      BY <1>6
    <3>2. \A q \in PaymentId : Share(Put(payments, NewId, row), q, r) = Share(payments, q, r)
      BY <1>5, <3>1
    <3> QED BY <1>1, <1>4, <3>1, <3>2
  <2> QED BY <1>6, <2>1, SharesSame
<1>7. CASE adrift' = adrift /\ payments' = Put(payments, NewId, row) /\ reservations' = raised
  <2>1. ASSUME NEW r \in ReservationId \ adrift'
        PROVE  reservations'[r].refund = SumOf(payments', RefundsOf(payments', r))
    <3>1. reservations[r].refund = SumOf(payments, RefundsOf(payments, r))
      BY <1>7 DEF RefundsMatchPayments
    <3>2. SumOf(payments', RefundsOf(payments', r)) = reservations[r].refund
            + (Share(payments', NewId, r) - Share(payments, NewId, r))
      BY <1>1, <1>3, <1>5, <1>7, <3>1, RefundsChange
    <3>3. amount \in Nat /\ reservations[r].refund \in Nat
      BY <1>4, LedgerAmounts
    <3> QED BY <1>4, <1>5, <1>7, <3>2, <3>3
  <2> QED BY <2>1 DEF RefundsMatchPayments
<1> QED BY <1>1, <1>6, <1>7

LEMMA PriceReservationMatches ==
  ASSUME TypeOK, TypeOK', RefundsMatchPayments, NEW room \in ReservationId, NEW sold,
         PriceReservation(room, sold)
  PROVE  RefundsMatchPayments'
<1>1. payments' = payments /\ reservations' = [reservations EXCEPT ![room].sold = sold]
      /\ adrift' = adrift
  BY DEF PriceReservation, history
<1>2. \A r \in ReservationId : reservations'[r].refund = reservations[r].refund
  BY <1>1, TypeFacts DEF Reservation
<1> QED BY <1>1, <1>2, SharesSame

\* What a reservation says was refunded is what its completed refund payments add
\* up to, whatever payments and refunds staff enter, change and remove; unless one was
\* entered as a payment, or a call failed between the two.
THEOREM RefundsMatch == Spec => []RefundsMatchPayments
<1> DEFINE IInv == TypeOK /\ RefundsMatchPayments
<1>1. Init => IInv
  <2> SUFFICES ASSUME Init PROVE IInv
    OBVIOUS
  <2>1. TypeOK /\ payments = [p \in {} |-> 0]
        /\ \A r \in ReservationId : reservations[r].refund = 0
    BY InitTyped DEF Init, LedgerInit
  <2>2. ASSUME NEW r \in ReservationId PROVE SumOf(payments, RefundsOf(payments, r)) = 0
    <3> DEFINE f == [p \in PaymentId |-> Share(payments, p, r)]
    <3>1. \A p \in 1..MaxPayments : f[p] = 0
      BY <2>1 DEF Share, RefundsOf, PaymentsOf, PaymentId
    <3>2. SumOf(payments, RefundsOf(payments, r)) = SumTo(f, MaxPayments)
          /\ f \in [1..MaxPayments -> Nat]
      <4>1. Table(payments, PaymentId, Payment)
        BY <2>1, TypeFacts
      <4> QED BY <4>1, RefundsOfTyped
    <3> HIDE DEF f
    <3>3. CASE MaxPayments = 0
      <4>1. PICK g : /\ g = [n \in 0..0 |-> IF n = 0 THEN 0 ELSE g[n - 1] + f[n]]
                     /\ SumTo(f, 0) = g[0]
        BY SumToPartial
      <4> QED BY <3>2, <3>3, <4>1
    <3>4. CASE MaxPayments # 0
      BY <3>1, <3>2, <3>4, LedgerBounds, SumToZero
    <3> QED BY <3>3, <3>4
  <2> QED BY <2>1, <2>2 DEF RefundsMatchPayments
<1>2. IInv /\ [Next]_vars => IInv'
  <2> SUFFICES ASSUME IInv, [Next]_vars PROVE IInv'
    OBVIOUS
  <2>1. TypeOK'
    BY Steps
  <2>2. CASE InvoiceNext
    BY <2>1, <2>2, InvoiceStepMatches
  <2>3. CASE PaymentNext
    <3>1. \A k \in Kinds : k[1] \in PaymentTypes /\ k[2] \in PaymentStatuses
      BY PaymentKinds
    <3> QED BY <2>1, <2>3, <3>1, RecordPaymentMatches, EditPaymentMatches, DeletePaymentMatches,
            RefundCustomerMatches, PriceReservationMatches DEF PaymentNext
  <2>4. CASE UNCHANGED vars
    BY <2>1, <2>4, SharesSame DEF vars, ledger, history
  <2> QED BY <2>1, <2>2, <2>3, <2>4 DEF Next
<1> QED BY <1>1, <1>2, PTL DEF Spec

-----------------------------------------------------------------------------
(* The total paid.                                                         *)

PaidInv == TypeOK /\ VoidAstray /\ PaidFollowsPayments

LEMMA NeverVoided ==
  ASSUME NEW inv \in Invoice, NEW paid
  PROVE  Synced(inv, paid).status # "void"
<1> DEFINE status == Settled(inv, inv.sold, paid,
                             IF inv.status = "draft" THEN "draft" ELSE "pending_payment")
<1>1. status # "void"
  BY DEF Settled
<1>2. Synced(inv, paid) = [inv EXCEPT !.paid = paid, !.balance = inv.sold - paid, !.status = status]
  BY DEF Synced
<1> HIDE DEF status
<1> QED BY <1>1, <1>2 DEF Invoice

\* When the one invoice that there is was not voided, a payment is for it.
LEMMA TargetOnly ==
  ASSUME TypeOK, VoidAstray, Len(invoices) = 1, NEW preferred \in 0..1, 1 \notin astray
  PROVE  1 \in Target(preferred)
<1>1. DOMAIN invoices = 1..1
  BY TypeFacts
<1>2. Valid(invoices) = {1}
  BY <1>1 DEF Valid, VoidAstray, InvoiceIds
<1>3. Latest(invoices) = 1
  BY <1>2 DEF Latest
<1>4. (IF preferred = NoInvoice THEN Latest(invoices) ELSE preferred) = 1
  BY <1>3 DEF NoInvoice
<1> QED BY <1>2, <1>4 DEF Target

\* The step settles the one invoice that there is, or leaves it astray.
LEMMA SyncPays ==
  ASSUME TypeOK, VoidAstray, NEW rows, Table(rows, PaymentId, Payment),
         NEW preferred \in 0..Len(invoices), Sync(rows, preferred)
  PROVE  /\ Len(invoices) = 1 /\ 1 \notin astray' => invoices'[1].paid = NetPaid(rows)
         /\ \A i \in 1..Len(invoices) : invoices'[i].status = "void" => i \in astray'
<1>1. /\ DOMAIN invoices = 1..Len(invoices)
      /\ \A i \in 1..Len(invoices) : invoices[i] \in Invoice
      /\ \A i \in 1..Len(invoices) : invoices[i].status = "void" => i \in astray
      /\ \A i \in Target(preferred) : invoices[i].status # "void"
  BY TypeFacts DEF VoidAstray, InvoiceIds, Target, Valid
<1>2. ASSUME NEW paid \in Int, invoices' = SettledFor(preferred, paid)
      PROVE  \A i \in 1..Len(invoices) :
               /\ i \in Target(preferred) =>
                    invoices'[i].paid = paid /\ invoices'[i].status # "void"
               /\ i \notin Target(preferred) => invoices'[i] = invoices[i]
  <2>1. \A i \in 1..Len(invoices) :
          invoices'[i] = IF i \in Target(preferred) THEN Synced(invoices[i], paid) ELSE invoices[i]
    BY <1>2, SettledForFacts
  <2> QED BY <1>1, <2>1, SyncedTyped, NeverVoided
<1>3. Len(invoices) = 1 /\ 1 \notin astray => 1 \in Target(preferred)
  BY TargetOnly
<1>4. NetPaid(rows) \in Int
  BY NetPaidTyped
<1>5. CASE invoices' = SettledFor(preferred, NetPaid(rows)) /\ astray' = astray \ Target(preferred)
  BY <1>1, <1>2, <1>3, <1>4, <1>5
<1>6. CASE /\ invoices' = SettledFor(preferred, 0) \/ invoices' = invoices
           /\ astray' = astray \cup Target(preferred)
  BY <1>1, <1>2, <1>3, <1>6
<1> QED BY <1>5, <1>6 DEF Sync, Unsettled

\* A payment or a refund is recorded, changed or removed.
LEMMA PaymentPays ==
  ASSUME PaidInv, TypeOK', NEW preferred \in 0..Len(invoices), Sync(payments', preferred),
         Len(invoices') = Len(invoices)
  PROVE  PaidInv'
<1>1. TypeOK /\ VoidAstray /\ Table(payments', PaymentId, Payment)
  BY DEF PaidInv, TypeOK, LedgerTypeOK
<1>2. /\ DOMAIN invoices = 1..Len(invoices) /\ DOMAIN invoices' = 1..Len(invoices)
      /\ Len(invoices) \in Nat
  BY <1>1, TypeFacts DEF TypeOK, LedgerTypeOK
<1>3. VoidAstray'
  BY <1>1, <1>2, SyncPays DEF VoidAstray, InvoiceIds
<1>4. PaidFollowsPayments'
  BY <1>1, SyncPays DEF PaidFollowsPayments
<1> QED BY <1>3, <1>4 DEF PaidInv

\* An invoice is rewritten, the payments as they were.
LEMMA WritePays ==
  ASSUME PaidInv, TypeOK', NEW i \in 1..Len(invoices), NEW inv,
         invoices' = [invoices EXCEPT ![i] = inv], payments' = payments, astray \ {i} \subseteq astray',
         inv.status = "void" => i \in astray',
         \/ i \in astray' \/ inv.paid = InvoicePaid(payments)
         \/ i \notin astray /\ inv.paid = invoices[i].paid
  PROVE  PaidInv'
<1>1. TypeOK /\ VoidAstray /\ PaidFollowsPayments
  BY DEF PaidInv
<1>2. /\ DOMAIN invoices = 1..Len(invoices) /\ DOMAIN invoices' = 1..Len(invoices)
      /\ Len(invoices) \in Nat /\ Len(invoices') = Len(invoices) /\ invoices'[i] = inv
      /\ \A j \in 1..Len(invoices) : j # i => invoices'[j] = invoices[j]
  BY <1>1, TypeFacts DEF TypeOK, LedgerTypeOK
<1>3. VoidAstray'
  BY <1>1, <1>2 DEF VoidAstray, InvoiceIds
<1>4. PaidFollowsPayments'
  <2> SUFFICES ASSUME Len(invoices') = 1, 1 \notin astray'
               PROVE  invoices'[1].paid \in {NetPaid(payments), InvoicePaid(payments)}
    BY DEF PaidFollowsPayments
  <2>1. i = 1
    BY <1>2
  <2> QED BY <1>1, <1>2, <2>1 DEF PaidFollowsPayments
<1> QED BY <1>3, <1>4 DEF PaidInv

LEMMA SamePays ==
  ASSUME PaidInv, TypeOK', invoices' = invoices, payments' = payments, astray' = astray
  PROVE  PaidInv'
<1> QED BY DEF PaidInv, VoidAstray, PaidFollowsPayments, InvoiceIds

\* Linking payments to an invoice changes no total.
LEMMA LinkedPaid ==
  ASSUME TypeOK, Len(invoices) < MaxInvoices
  PROVE  InvoicePaid(Linked) = InvoicePaid(payments)
<1>1. /\ DOMAIN Linked = DOMAIN payments
      /\ \A p \in DOMAIN payments :
           /\ Linked[p].type = payments[p].type /\ Linked[p].status = payments[p].status
           /\ Linked[p].amount = payments[p].amount
  BY LinkedTyped
<1>2. \A types : PaymentsOf(Linked, types, {"completed"}) = PaymentsOf(payments, types, {"completed"})
  BY <1>1 DEF PaymentsOf
<1>3. ASSUME NEW types PROVE Completed(Linked, types) = Completed(payments, types)
  <2>1. \A p \in PaymentsOf(payments, types, {"completed"}) : Linked[p].amount = payments[p].amount
    BY <1>1 DEF PaymentsOf
  <2> QED BY <1>2, <2>1, SumOfSame DEF Completed
<1> QED BY <1>3 DEF InvoicePaid

LEMMA DraftPays ==
  ASSUME PaidInv, TypeOK', NEW s \in Staff, Draft(s)
  PROVE  PaidInv'
<1>1. TypeOK /\ VoidAstray
  BY DEF PaidInv
<1>2. PICK read \in {TRUE, ~Failing} :
        /\ invoices' = Append(invoices, NewDraft(PaidAsRead(read)))
        /\ astray' = IF read THEN astray ELSE astray \cup {Len(invoices) + 1}
  BY DEF Draft
<1>3. /\ invoices \in Seq(Invoice) /\ Len(invoices) \in Nat
      /\ DOMAIN invoices = 1..Len(invoices) /\ Len(invoices) < MaxInvoices
  BY <1>1, TypeFacts DEF Draft
<1> DEFINE new == NewDraft(PaidAsRead(read))
<1>4. new \in Invoice /\ new.status = "draft" /\ new.paid = PaidAsRead(read)
  BY <1>1, PaidAsReadTyped, NewDraftTyped
<1>5. invoices' = Append(invoices, new)
  BY <1>2
<1> HIDE DEF new
<1>6. /\ Len(invoices') = Len(invoices) + 1 /\ DOMAIN invoices' = 1..(Len(invoices) + 1)
      /\ \A i \in 1..Len(invoices) : invoices'[i] = invoices[i]
      /\ invoices'[Len(invoices) + 1] = new
  BY <1>3, <1>4, <1>5
<1>7. VoidAstray'
  <2>1. \A i \in 1..(Len(invoices) + 1) : i \in 1..Len(invoices) \/ i = Len(invoices) + 1
    BY <1>3
  <2> QED BY <1>1, <1>2, <1>3, <1>4, <1>6, <2>1 DEF VoidAstray, InvoiceIds
<1>8. PaidFollowsPayments'
  <2> SUFFICES ASSUME Len(invoices') = 1, 1 \notin astray'
               PROVE  invoices'[1].paid = InvoicePaid(payments')
    BY DEF PaidFollowsPayments
  <2>1. InvoicePaid(payments') = InvoicePaid(payments)
    BY <1>1, <1>3, LinkedPaid DEF Draft
  <2>2. invoices'[1] = new /\ read
    BY <1>2, <1>3, <1>6
  <2> QED BY <1>4, <2>1, <2>2 DEF PaidAsRead
<1> QED BY <1>7, <1>8 DEF PaidInv

LEMMA PatchPays ==
  ASSUME PaidInv, TypeOK', NEW s \in Staff, NEW status \in InvoiceStatuses,
         NEW sold \in Int, NEW paid \in Int, Patch(s, status, sold, paid)
  PROVE  PaidInv'
<1> DEFINE i == pages[s].invoice
           after == Patched(invoices[i], status, sold, paid)
<1>1. TypeOK
  BY DEF PaidInv
<1>2. i \in 1..Len(invoices) /\ invoices[i] \in Invoice /\ pages[s] \in Page
  BY <1>1, PatchStep, TypeFacts
<1>3. after.paid = paid /\ after.status = status
  BY DEF Patched, Invoice, i
<1>4. /\ invoices' = [invoices EXCEPT ![i] = after] /\ payments' = payments
      /\ astray' = IF paid # invoices[i].paid \/ status = "void" THEN astray \cup {i} ELSE astray
  BY DEF Patch
<1> HIDE DEF i, after
<1>5. i \in astray' \/ (i \notin astray /\ after.paid = invoices[i].paid)
  BY <1>3, <1>4
<1> QED BY <1>2, <1>3, <1>4, <1>5, WritePays

LEMMA EditLinesPays ==
  ASSUME PaidInv, TypeOK', NEW s \in Staff, NEW total \in LineTotals, EditLines(s, total)
  PROVE  PaidInv'
<1> DEFINE i == pages[s].invoice
<1>1. TypeOK
  BY DEF PaidInv
<1>2. i \in 1..Len(invoices) /\ invoices[i] \in Invoice /\ DOMAIN invoices = 1..Len(invoices)
  BY <1>1, TypeFacts DEF EditLines, Editable, NoInvoice
<1>3. PICK read \in {TRUE, ~Failing} :
        /\ invoices' = [invoices EXCEPT ![i] = Recalculated(@, total, PaidAsRead(read))]
        /\ astray' = IF read /\ invoices'[i].status # "void" THEN astray \ {i}
                     ELSE astray \cup {i}
  BY DEF EditLines
<1> DEFINE after == Recalculated(invoices[i], total, PaidAsRead(read))
<1>4. after.paid = PaidAsRead(read)
  <2> DEFINE paid == PaidAsRead(read)
             status == Settled(invoices[i], total, paid, invoices[i].status)
  <2> HIDE DEF i, paid, status
  <2>1. after = [invoices[i] EXCEPT !.sold = total, !.paid = paid, !.balance = total - paid,
                                    !.status = status]
    BY DEF Recalculated, paid, status
  <2>2. after.paid = paid
    BY <1>2, <2>1 DEF Invoice
  <2> QED BY <2>2 DEF paid
<1>5. invoices' = [invoices EXCEPT ![i] = after] /\ invoices'[i] = after /\ payments' = payments
  BY <1>2, <1>3 DEF EditLines
<1> HIDE DEF i, after
<1>6. i \in astray' \/ after.paid = InvoicePaid(payments)
  BY <1>3, <1>4 DEF PaidAsRead
<1>7. astray \ {i} \subseteq astray' /\ (after.status = "void" => i \in astray')
  BY <1>3, <1>5
<1> QED BY <1>2, <1>5, <1>6, <1>7, WritePays

LEMMA AmendPays ==
  ASSUME PaidInv, TypeOK', NEW s \in Staff, Amend(s)
  PROVE  PaidInv'
<1> DEFINE i == pages[s].invoice
           after == Amended(invoices[i])
<1>1. i \in 1..Len(invoices) /\ invoices[i] \in Invoice
  BY TypeFacts DEF PaidInv, Amend, NoInvoice
<1>2. after.paid = invoices[i].paid /\ after.status = "amended"
  BY <1>1 DEF Amended, Invoice
<1>3. invoices' = [invoices EXCEPT ![i] = after] /\ payments' = payments /\ astray' = astray
  BY DEF Amend, history
<1> HIDE DEF i, after
<1> QED BY <1>1, <1>2, <1>3, WritePays

LEMMA ReleasePays ==
  ASSUME PaidInv, TypeOK', NEW s \in Staff, Release(s)
  PROVE  PaidInv'
<1> DEFINE i == pages[s].releasing
<1>1. TypeOK
  BY DEF PaidInv
<1>2. /\ i \in 1..Len(invoices) /\ payments' = payments /\ astray' = astray
      /\ invoices' \in {invoices, Marked(i)}
  BY <1>1, ReleaseTyped
<1> HIDE DEF i
<1>3. CASE invoices' = Marked(i)
  <2>1. /\ Marked(i)[i].paid = invoices[i].paid /\ Marked(i)[i].status = "released"
        /\ Marked(i) = [invoices EXCEPT ![i] = Marked(i)[i]]
    <3>1. /\ Marked(i) \in Seq(Invoice) /\ Len(Marked(i)) = Len(invoices)
          /\ Marked(i)[i].paid = invoices[i].paid /\ Marked(i)[i].status = "released"
          /\ \A j \in 1..Len(invoices) : j # i => Marked(i)[j] = invoices[j]
      BY <1>1, <1>2, MarkedFacts
    <3>2. invoices \in Seq(Invoice)
      BY <1>1, TypeFacts
    <3> QED BY <1>2, <3>1, <3>2
  <2> QED BY <1>2, <1>3, <2>1, WritePays
<1>4. CASE invoices' = invoices
  BY <1>2, <1>4, SamePays
<1> QED BY <1>2, <1>3, <1>4

\* As long as a package has one invoice, and its total was computed by the last route
\* that wrote it, the invoice says what the completed payments less refunds add up to,
\* with account credit or without.
THEOREM PaidFollows == Spec => []PaidFollowsPayments
<1>1. Init => PaidInv
  <2> SUFFICES ASSUME Init PROVE PaidInv
    OBVIOUS
  <2>1. TypeOK /\ invoices = <<>>
    BY InitTyped DEF Init, LedgerInit
  <2> QED BY <2>1 DEF PaidInv, VoidAstray, PaidFollowsPayments, InvoiceIds
<1>2. PaidInv /\ [Next]_vars => PaidInv'
  <2> SUFFICES ASSUME PaidInv, [Next]_vars PROVE PaidInv'
    OBVIOUS
  <2>1. TypeOK /\ TypeOK'
    BY Steps DEF PaidInv
  <2>2. CASE InvoiceNext
    <3> SUFFICES ASSUME NEW s \in Staff,
                        \/ Load(s) \/ Draft(s) \/ DraftAgain(s) \/ Save(s) \/ SaveForRelease(s)
                        \/ ReleaseRefused(s) \/ ReleaseFails(s) \/ Release(s) \/ Amend(s)
                        \/ \E total \in LineTotals : EditLines(s, total)
                 PROVE  PaidInv'
      BY <2>2 DEF InvoiceNext
    <3>1. CASE Load(s) \/ DraftAgain(s) \/ ReleaseRefused(s) \/ ReleaseFails(s)
      BY <2>1, <3>1, SamePays DEF Load, DraftAgain, ReleaseRefused, ReleaseFails, ledger, history
    <3>2. CASE Save(s)
      <4>1. PICK status \in Statuses \cup {pages[s].status}, sold \in TypedSold \cup {pages[s].sold},
                  paid \in TypedPaid \cup {pages[s].paid} :
              Patch(s, status, sold, paid)
        BY <3>2 DEF Save
      <4> QED BY <2>1, <4>1, PatchTypes, PatchPays
    <3>3. CASE SaveForRelease(s)
      <4> DEFINE status == IF pages[s].status = "amended" THEN "finalised" ELSE pages[s].status
      <4>1. Patch(s, status, pages[s].sold, pages[s].paid)
        BY <3>3 DEF SaveForRelease
      <4>2. status \in InvoiceStatuses /\ pages[s].sold \in Int /\ pages[s].paid \in Int
        BY <2>1, PatchTypes DEF InvoiceStatuses
      <4> HIDE DEF status
      <4> QED BY <2>1, <4>1, <4>2, PatchPays
    <3> QED BY <2>1, <3>1, <3>2, <3>3, DraftPays, ReleasePays, AmendPays, EditLinesPays
  <2>3. CASE PaymentNext
    <3>1. ASSUME NEW s \in Staff, NEW amount \in Amounts, NEW k \in Kinds,
                 NEW r \in ReservationId \cup {NoReservation},
                 RecordPayment(s, k[1], k[2], amount, r)
          PROVE  PaidInv'
      <4>1. pages[s].invoice \in 0..Len(invoices) /\ Sync(payments', pages[s].invoice)
        BY <2>1, <3>1, TypeFacts DEF RecordPayment
      <4>2. Len(invoices') = Len(invoices)
        BY <2>1, <4>1, <3>1, SyncStep DEF RecordPayment, TypeOK, LedgerTypeOK
      <4> QED BY <2>1, <4>1, <4>2, PaymentPays
    <3>2. ASSUME NEW s \in Staff, NEW amount \in Amounts, NEW k \in Kinds, NEW p \in PaymentId,
                 EditPayment(s, p, k[1], k[2], amount)
          PROVE  PaidInv'
      <4> DEFINE after == [payments[p] EXCEPT !.type = k[1], !.status = k[2], !.amount = amount]
      <4>1. payments[p] \in Payment /\ payments[p].invoice <= Len(invoices)
        BY <2>1, <3>2, TypeFacts DEF EditPayment, Table
      <4>2. after.invoice = payments[p].invoice /\ payments[p].invoice \in Nat
        BY <4>1 DEF Payment
      <4>3. after.invoice \in 0..Len(invoices)
        <5>1. Len(invoices) \in Nat
          BY <2>1, TypeFacts
        <5> HIDE DEF after
        <5> QED BY <5>1, <4>1, <4>2
      <4>4. Sync(payments', after.invoice) /\ versions' = versions /\ leftover' = leftover
        BY <3>2 DEF EditPayment
      <4> HIDE DEF after
      <4>5. Len(invoices') = Len(invoices)
        BY <2>1, <4>4, SyncStep DEF TypeOK, LedgerTypeOK
      <4> QED BY <2>1, <4>3, <4>4, <4>5, PaymentPays
    <3>3. ASSUME NEW s \in Staff, NEW p \in PaymentId, DeletePayment(s, p)
          PROVE  PaidInv'
      <4>1. payments[p] \in Payment /\ payments[p].invoice <= Len(invoices)
        BY <2>1, <3>3, TypeFacts DEF DeletePayment, Table
      <4>2. payments[p].invoice \in 0..Len(invoices)
        <5>1. payments[p].invoice \in Nat /\ Len(invoices) \in Nat
          BY <2>1, <4>1, TypeFacts DEF Payment
        <5> QED BY <4>1, <5>1
      <4>3. Sync(payments', payments[p].invoice) /\ versions' = versions /\ leftover' = leftover
        BY <3>3 DEF DeletePayment
      <4>4. Len(invoices') = Len(invoices)
        BY <2>1, <4>3, SyncStep DEF TypeOK, LedgerTypeOK
      <4> QED BY <2>1, <4>2, <4>3, <4>4, PaymentPays
    <3>4. ASSUME NEW s \in Staff, NEW r \in ReservationId, NEW amount \in Amounts,
                 RefundCustomer(s, r, amount)
          PROVE  PaidInv'
      <4>1. /\ pages[s].invoice \in 0..Len(invoices)
            /\ versions' = versions /\ leftover' = leftover
            /\ \/ Sync(payments', pages[s].invoice)
               \/ payments' = payments /\ invoices' = invoices /\ astray' = astray
        BY <2>1, <3>4, TypeFacts, RefundCustomerFacts
      <4>2. CASE Sync(payments', pages[s].invoice)
        <5>1. Len(invoices') = Len(invoices)
          BY <2>1, <4>1, <4>2, SyncStep DEF TypeOK, LedgerTypeOK
        <5> QED BY <2>1, <4>1, <4>2, <5>1, PaymentPays
      <4>3. CASE payments' = payments /\ invoices' = invoices /\ astray' = astray
        BY <2>1, <4>3, SamePays
      <4> QED BY <4>1, <4>2, <4>3
    <3>5. ASSUME NEW r \in ReservationId, NEW sold \in SoldPrices, PriceReservation(r, sold)
          PROVE  PaidInv'
      BY <2>1, <3>5, SamePays DEF PriceReservation, history
    <3> QED BY <2>3, <3>1, <3>2, <3>3, <3>4, <3>5 DEF PaymentNext
  <2>4. CASE UNCHANGED vars
    BY <2>1, <2>4, SamePays DEF vars, ledger, history
  <2> QED BY <2>2, <2>3, <2>4 DEF Next
<1>3. PaidInv => PaidFollowsPayments
  BY DEF PaidInv
<1> QED BY <1>1, <1>2, <1>3, PTL DEF Spec

-----------------------------------------------------------------------------
(* Quotes and the folders made of them.                                    *)

\* What the types say of a request at each of its steps.
LEMMA RequestFacts ==
  ASSUME QuoteTypes, NEW r \in Requests
  PROVE  /\ request[r].at \in {"waiting", "selecting", "loading", "storing", "inserting", "linking"}
         /\ request[r].at = "selecting" => request[r].choice \in Choice /\ request[r].by \in Payloads
         /\ request[r].at \in {"loading", "storing"} => request[r].edited \in Quote
         /\ request[r].at = "storing" => request[r].choice \in Choice
         /\ request[r].at = "inserting" => request[r].snapshot \in Snapshot
         /\ request[r].at = "linking" => request[r].folder \in Nat
<1>1. request[r] \in {Waiting} \cup SelectRequest \cup EditRequest \cup ConvertRequest \cup LinkRequest
  BY DEF QuoteTypes
<1>2. CASE request[r] = Waiting
  BY <1>2 DEF Waiting
<1>3. CASE request[r] \in SelectRequest
  BY <1>3 DEF SelectRequest
<1>4. CASE request[r] \in EditRequest
  BY <1>4 DEF EditRequest
<1>5. CASE request[r] \in ConvertRequest
  BY <1>5 DEF ConvertRequest
<1>6. CASE request[r] \in LinkRequest
  BY <1>6 DEF LinkRequest
<1> QED BY <1>1, <1>2, <1>3, <1>4, <1>5, <1>6

\* A request that goes on leaves the others where they are.
LEMMA OneRequestMoves ==
  ASSUME QuoteTypes, NEW r \in Requests, NEW step, RequestIs(r, step)
  PROVE  /\ request'[r] = step
         /\ \A s \in Requests \ {r} : request'[s] = request[s]
  BY DEF QuoteTypes, RequestIs

LEMMA StepsTyped ==
  ASSUME QuoteTypes, NEW r \in Requests,
         NEW step \in {Waiting} \cup SelectRequest \cup EditRequest \cup ConvertRequest \cup LinkRequest,
         RequestIs(r, step)
  PROVE  request' \in [Requests -> {Waiting} \cup SelectRequest \cup EditRequest
                                     \cup ConvertRequest \cup LinkRequest]
  BY DEF QuoteTypes, RequestIs

LEMMA ResolvedTyped ==
  ASSUME NEW payload \in Payloads, NEW choice \in Choice
  PROVE  Resolved(payload, choice) \in Choice
BY QuoteOffers DEF Resolved, Choice

LEMMA NoteTyped ==
  ASSUME mishaps \subseteq Mishaps, NEW m \in Mishaps, NEW happened, Note(m, happened)
  PROVE  /\ mishaps' \subseteq Mishaps /\ mishaps \subseteq mishaps'
         /\ happened => m \in mishaps'
         /\ mishaps' \subseteq mishaps \cup {m}
  BY DEF Note

\* A request other than r is at the step it was at.
LEMMA SelectSteps ==
  ASSUME QuoteInv, NEW r \in Requests,
         \/ \E choice \in Choice : SelectReads(r, choice)
         \/ \E status \in {"selected", quote.status} : SelectWrites(r, status)
  PROVE  QuoteInv'
<1> USE DEF QuoteInv
<1>1. ASSUME NEW choice \in Choice, SelectReads(r, choice)
      PROVE  QuoteInv'
  <2> DEFINE resolved == Resolved(quote.payload, choice)
             step == [at |-> "selecting", choice |-> resolved, by |-> quote.payload]
  <2>0. quote.payload \in Payloads
    BY DEF QuoteTypes, Quote
  <2>a. resolved \in Choice
    BY <2>0, ResolvedTyped
  <2>b. /\ RequestIs(r, step) /\ request[r].at = "waiting"
        /\ quote' = quote /\ folders' = folders /\ mishaps' = mishaps /\ altered' = altered
    BY <1>1 DEF SelectReads
  <2> HIDE DEF resolved
  <2>1. step \in SelectRequest /\ RequestIs(r, step)
        /\ quote' = quote /\ folders' = folders /\ mishaps' = mishaps /\ altered' = altered
        /\ request[r].at = "waiting"
    BY <2>0, <2>a, <2>b DEF SelectRequest
  <2>2. request'[r] = step /\ \A s \in Requests \ {r} : request'[s] = request[s]
    BY <2>1, OneRequestMoves
  <2>3. QuoteTypes'
    BY <2>1, StepsTyped DEF QuoteTypes
  <2>4. OneFolder' /\ RefreshesKeepChoice' /\ SnapshotsFit' /\ SelectionFits'
    BY <2>1, <2>2 DEF OneFolder, AtWorkOnFolder, RefreshesKeepChoice, SnapshotsFit, SelectionFits
  <2>5. FolderReached'
    BY <2>1, <2>2 DEF FolderReached, Linking
  <2>6. FolderCatchesUp'
    BY <2>1, <2>2 DEF FolderCatchesUp, Refreshing
  <2> QED BY <2>3, <2>4, <2>5, <2>6
<1>2. ASSUME NEW status \in {"selected", quote.status}, SelectWrites(r, status)
      PROVE  QuoteInv'
  <2> DEFINE selected == [choice |-> request[r].choice, by |-> request[r].by]
  <2>1. /\ RequestIs(r, Waiting) /\ folders' = folders /\ altered' = altered
        /\ request[r].at = "selecting"
        /\ Note("crossed", request[r].by # quote.payload) /\ selected \in Selection
        /\ quote' = [quote EXCEPT !.status = status, !.selected = selected]
    BY <1>2, RequestFacts DEF SelectWrites, Selection
  <2>2. /\ request'[r].at = "waiting"
        /\ \A s \in Requests \ {r} : request'[s] = request[s]
    BY <2>1, OneRequestMoves DEF Waiting
  <2>3. /\ mishaps' \subseteq Mishaps /\ mishaps \subseteq mishaps'
        /\ mishaps' \subseteq mishaps \cup {"crossed"}
        /\ "crossed" \notin mishaps' => request[r].by = quote.payload
    BY <2>1, NoteTyped DEF QuoteTypes, Mishaps
  <2>4. /\ quote' \in Quote /\ quote'.payload = quote.payload /\ quote'.folder = quote.folder
        /\ quote'.selected = selected
    BY <2>1 DEF QuoteTypes, Quote
  <2>5. QuoteTypes'
    BY <2>1, <2>3, <2>4, StepsTyped DEF QuoteTypes
  <2>6. OneFolder' /\ RefreshesKeepChoice' /\ SnapshotsFit'
    BY <2>1, <2>2, <2>3, <2>4 DEF OneFolder, AtWorkOnFolder, RefreshesKeepChoice, SnapshotsFit
  <2>7. SelectionFits'
    BY <2>1, <2>3, <2>4 DEF SelectionFits
  <2>8. FolderReached'
    BY <2>1, <2>2, <2>3, <2>4 DEF FolderReached, Linking
  <2>9. FolderCatchesUp'
    BY <2>1, <2>2, <2>3, <2>4 DEF FolderCatchesUp, Refreshing
  <2> QED BY <2>5, <2>6, <2>7, <2>8, <2>9
<1> QED BY <1>1, <1>2

\* A payload that is replaced: by PATCH, or by the flights of another quote.
LEMMA EditedQuote ==
  ASSUME QuoteTypes, NEW payload \in Payloads, NEW status \in {"open", quote.status},
         quote' = Edited(payload, status)
  PROVE  /\ quote' \in Quote /\ quote'.payload = payload /\ quote'.folder = quote.folder
         /\ quote'.selected = Nothing
  BY DEF QuoteTypes, Quote, Edited

LEMMA EditStarts ==
  ASSUME QuoteInv, NEW r \in Requests, NEW payload \in Payloads,
         NEW status \in {"open", quote.status}, EditWrites(r, payload, status)
  PROVE  QuoteInv'
<1> USE DEF QuoteInv
<1> DEFINE step == IF Refreshes(quote') THEN [at |-> "loading", edited |-> quote'] ELSE Waiting
<1>1. /\ request[r].at = "waiting" /\ quote' = Edited(payload, status) /\ folders' = folders
      /\ RequestIs(r, step) /\ altered' = altered
      /\ Note("behind", quote.folder = NoFolder /\ (Converting \/ folders # <<>>))
  BY DEF EditWrites
<1>2. /\ quote' \in Quote /\ quote'.payload = payload /\ quote'.folder = quote.folder
      /\ quote'.selected = Nothing
  BY <1>1, EditedQuote
<1>3. /\ mishaps' \subseteq Mishaps /\ mishaps \subseteq mishaps'
      /\ mishaps' \subseteq mishaps \cup {"behind"}
      /\ "behind" \notin mishaps' => quote.folder # 0 \/ (~Converting /\ folders = <<>>)
  BY <1>1 DEF QuoteTypes, Mishaps, NoFolder, Note
<1>4. /\ step \in EditRequest \cup {Waiting}
      /\ quote.folder = 0 => step.at = "waiting"
      /\ quote.folder # 0 => step.at = "loading" /\ step.edited = quote'
  BY <1>2 DEF EditRequest, Refreshes, NoFolder, Waiting
<1> HIDE DEF step
<1>5. request'[r] = step /\ \A s \in Requests \ {r} : request'[s] = request[s]
  BY <1>1, OneRequestMoves
<1>6. QuoteTypes'
  BY <1>1, <1>2, <1>3, <1>4, StepsTyped DEF QuoteTypes
<1>7. /\ quote.folder \in Nat /\ Len(folders) \in Nat
      /\ quote.folder # 0 => quote.folder = 1 /\ Len(folders) = 1
  <2>1. folders \in Seq(Snapshot) /\ quote.folder \in Nat
    BY DEF QuoteTypes, Quote
  <2>2. Len(folders) \in Nat
    BY <2>1, LenProperties
  <2>3. Len(folders) <= 1 /\ quote.folder <= Len(folders)
    BY DEF OneFolder
  <2> DEFINE n == Len(folders)
  <2> HIDE DEF n
  <2>4. n \in Nat /\ n <= 1 /\ quote.folder <= n
    BY <2>2, <2>3 DEF n
  <2>5. quote.folder # 0 => quote.folder = 1 /\ n = 1
    BY <2>1, <2>4
  <2> QED BY <2>1, <2>2, <2>5 DEF n
<1>8. OneFolder'
  BY <1>1, <1>2, <1>4, <1>5, <1>7 DEF OneFolder, AtWorkOnFolder
<1>9. RefreshesKeepChoice' /\ SnapshotsFit'
  BY <1>1, <1>2, <1>3, <1>4, <1>5 DEF RefreshesKeepChoice, SnapshotsFit
<1>10. SelectionFits'
  BY <1>1, <1>2, <1>3 DEF SelectionFits
<1>11. FolderReached'
  BY <1>1, <1>2, <1>3, <1>5 DEF FolderReached, Linking
<1>12. FolderCatchesUp'
  <2> SUFFICES ASSUME "behind" \notin mishaps'
               PROVE  /\ folders # <<>> => Refreshing(quote.payload)'
                      /\ folders = <<>> => \A s \in Requests : request'[s].at # "inserting"
    BY <1>1 DEF FolderCatchesUp, Refreshing
  <2>1. CASE quote.folder # 0
    BY <2>1, <1>2, <1>4, <1>5, <1>7 DEF Refreshing
  <2>2. CASE quote.folder = 0
    BY <2>2, <1>3, <1>4, <1>5 DEF Converting
  <2> QED BY <2>1, <2>2
<1> QED BY <1>6, <1>8, <1>9, <1>10, <1>11, <1>12

\* The number of folders, and the folder that a request works on.
LEMMA FolderFacts ==
  ASSUME QuoteInv
  PROVE  /\ folders \in Seq(Snapshot) /\ Len(folders) \in Nat /\ Len(folders) <= 1
         /\ quote.folder \in 0..Len(folders)
         /\ \A r \in Requests : AtWorkOnFolder(r) =>
              Len(folders) = 1 /\ 1 \in DOMAIN folders /\ folders[1] \in Snapshot
<1>1. folders \in Seq(Snapshot) /\ quote.folder \in Nat
  BY DEF QuoteInv, QuoteTypes, Quote
<1>2. Len(folders) \in Nat /\ DOMAIN folders = 1..Len(folders)
  BY <1>1, LenProperties
<1>3. Len(folders) <= 1 /\ quote.folder <= Len(folders)
  BY DEF QuoteInv, OneFolder
<1>4. ASSUME NEW r \in Requests, AtWorkOnFolder(r)
      PROVE  Len(folders) = 1 /\ 1 \in DOMAIN folders /\ folders[1] \in Snapshot
  <2>1. Len(folders) = 1
    BY <1>4 DEF QuoteInv, OneFolder
  <2>2. 1 \in 1..Len(folders)
    BY <2>1
  <2> QED BY <1>1, <1>2, <2>1, <2>2, ElementOfSeq
<1> QED BY <1>1, <1>2, <1>3, <1>4

LEMMA FirstReplaced ==
  ASSUME NEW S, NEW seq \in Seq(S), Len(seq) = 1, NEW e \in S
  PROVE  [seq EXCEPT ![1] = e] \in Seq(S) /\ Len([seq EXCEPT ![1] = e]) = 1
<1>1. 1 \in 1..Len(seq)
  OBVIOUS
<1> QED BY <1>1, ExceptSeq

LEMMA EditGoesOn ==
  ASSUME QuoteInv, NEW r \in Requests, EditLoads(r) \/ EditStores(r)
  PROVE  QuoteInv'
<1> USE DEF QuoteInv
<1> DEFINE q == request[r].edited
<1>1. /\ q \in Quote /\ q.folder = 1 /\ q.payload \in Payloads /\ AtWorkOnFolder(r)
      /\ Len(folders) = 1 /\ 1 \in DOMAIN folders /\ folders[1] \in Snapshot
      /\ folders \in Seq(Snapshot)
  <2>1. q \in Quote /\ q.folder = 1 /\ AtWorkOnFolder(r)
    BY RequestFacts DEF EditLoads, EditStores, OneFolder, AtWorkOnFolder
  <2> QED BY <2>1, FolderFacts DEF Quote
<1>2. ASSUME EditLoads(r)
      PROVE  QuoteInv'
  <2> DEFINE sold == folders[1].selected
             choice == Resolved(q.payload, sold.choice)
             now == [choice |-> choice, by |-> q.payload]
             refused == Refused(q.payload, sold.choice)
             step == IF refused THEN Waiting
                     ELSE [at |-> "storing", edited |-> q, choice |-> choice]
  <2>1. /\ request[r].at = "loading" /\ RequestIs(r, step)
        /\ Note("behind", refused)
        /\ altered' = IF refused THEN altered
                      ELSE altered \cup {k \in Parts : Bought(now, k) # Bought(sold, k)}
        /\ quote' = quote /\ folders' = folders
    <3>1. request[r].at = "loading"
      BY <1>2 DEF EditLoads
    <3>2. q.selected = Nothing
      BY <3>1 DEF RefreshesKeepChoice
    <3> QED BY <1>1, <1>2, <3>1, <3>2 DEF EditLoads
  <2>2. choice \in Choice
    BY <1>1, ResolvedTyped DEF Snapshot, Selection
  <2> HIDE DEF choice, refused
  <2>3. /\ step \in EditRequest \cup {Waiting}
        /\ step.at = "storing" => step.edited = q /\ step.choice = choice /\ ~refused
        /\ step.at \in {"storing", "waiting"}
        /\ step.at = "waiting" => refused
    BY <1>1, <2>2 DEF EditRequest, Waiting
  <2>4. /\ mishaps' \subseteq Mishaps /\ mishaps \subseteq mishaps'
        /\ mishaps' \subseteq mishaps \cup {"behind"}
        /\ "behind" \notin mishaps' => ~refused
    BY <2>1 DEF QuoteTypes, Mishaps, Note
  <2>a. /\ altered \subseteq altered' /\ altered' \subseteq Parts
        /\ step.at = "storing" =>
             \A k \in Parts \ altered' : Bought(now, k) = Bought(sold, k)
    BY <2>1, <2>3 DEF QuoteTypes
  <2> HIDE DEF step
  <2>5. request'[r] = step /\ \A s \in Requests \ {r} : request'[s] = request[s]
    BY <2>1, OneRequestMoves
  <2>6. QuoteTypes'
    BY <2>1, <2>3, <2>4, <2>a, StepsTyped DEF QuoteTypes
  <2>7. OneFolder' /\ RefreshesKeepChoice' /\ SnapshotsFit' /\ SelectionFits'
    <3>1. OneFolder'
      BY <1>1, <2>1, <2>3, <2>5 DEF OneFolder, AtWorkOnFolder
    <3>2. RefreshesKeepChoice'
      <4>1. ASSUME NEW s \in Requests \ {r}
            PROVE  /\ request'[s].at = "loading" => request'[s].edited.selected = Nothing
                   /\ request'[s].at = "storing" =>
                        \A k \in Parts \ altered' :
                          Bought([choice |-> request'[s].choice,
                                  by |-> request'[s].edited.payload], k)
                            = Bought(folders'[1].selected, k)
        BY <2>1, <2>5, <2>a, <4>1 DEF RefreshesKeepChoice
      <4>2. /\ request'[r].at # "loading"
            /\ request'[r].at = "storing" =>
                 \A k \in Parts \ altered' :
                   Bought([choice |-> request'[r].choice,
                           by |-> request'[r].edited.payload], k)
                     = Bought(folders'[1].selected, k)
        BY <2>1, <2>3, <2>5, <2>a
      <4> QED BY <4>1, <4>2 DEF RefreshesKeepChoice
    <3>3. SnapshotsFit' /\ SelectionFits'
      BY <2>1, <2>3, <2>4, <2>5 DEF SnapshotsFit, SelectionFits
    <3> QED BY <3>1, <3>2, <3>3
  <2>8. FolderReached'
    BY <2>1, <2>4, <2>5 DEF FolderReached, Linking
  <2>9. FolderCatchesUp'
    <3> SUFFICES ASSUME "behind" \notin mishaps'
                 PROVE  /\ folders # <<>> => folders[1].payload = quote.payload
                                             \/ Refreshing(quote.payload)'
                        /\ folders = <<>> => \A s \in Requests : request'[s].at = "inserting" =>
                             request'[s].snapshot.payload = quote.payload
      BY <2>1 DEF FolderCatchesUp, Refreshing
    <3>1. "behind" \notin mishaps /\ step.at = "storing" /\ step.edited = q
      BY <2>3, <2>4
    <3>2. Refreshing(quote.payload) => Refreshing(quote.payload)'
      BY <2>1, <2>5, <3>1 DEF Refreshing
    <3>3. \A s \in Requests : request'[s].at = "inserting" => request'[s] = request[s]
      BY <2>5, <3>1
    <3> QED BY <3>1, <3>2, <3>3 DEF FolderCatchesUp
  <2> QED BY <2>6, <2>7, <2>8, <2>9
<1>3. ASSUME EditStores(r)
      PROVE  QuoteInv'
  <2> DEFINE row == [payload |-> q.payload,
                     selected |-> [choice |-> request[r].choice, by |-> q.payload]]
  <2>1. /\ request[r].at = "storing" /\ RequestIs(r, Waiting)
        /\ Note("behind", q.payload # quote.payload)
        /\ quote' = quote /\ altered' = altered /\ folders' = [folders EXCEPT ![1] = row]
    BY <1>1, <1>3 DEF EditStores
  <2>2. /\ row \in Snapshot /\ row.payload = q.payload /\ row.selected.by = q.payload
        /\ row.selected = [choice |-> request[r].choice, by |-> q.payload]
    BY <1>1, <2>1, RequestFacts DEF Snapshot, Selection
  <2>3. /\ mishaps' \subseteq Mishaps /\ mishaps \subseteq mishaps'
        /\ mishaps' \subseteq mishaps \cup {"behind"}
        /\ "behind" \notin mishaps' => q.payload = quote.payload
    BY <2>1 DEF QuoteTypes, Mishaps, Note
  <2> HIDE DEF row
  <2>4. request'[r].at = "waiting" /\ \A s \in Requests \ {r} : request'[s] = request[s]
    BY <2>1, OneRequestMoves DEF Waiting
  <2>5. /\ folders' \in Seq(Snapshot) /\ Len(folders') = 1 /\ folders'[1] = row
        /\ DOMAIN folders' = {1} /\ DOMAIN folders = {1} /\ folders' # <<>>
    <3>2. /\ [folders EXCEPT ![1] = row] \in Seq(Snapshot)
          /\ Len([folders EXCEPT ![1] = row]) = Len(folders)
      BY <1>1, <2>2, FirstReplaced
    <3>3. DOMAIN folders = 1..1 /\ DOMAIN folders' = 1..1 /\ 1..1 = {1}
      BY <1>1, <2>1, <3>2, LenProperties
    <3>4. folders'[1] = row
      BY <1>1, <2>1
    <3>5. folders' # <<>>
      BY <1>1, <2>1, <3>2
    <3> QED BY <1>1, <2>1, <3>2, <3>3, <3>4, <3>5
  <2>6. QuoteTypes'
    BY <2>1, <2>3, <2>5, StepsTyped DEF QuoteTypes
  <2>7. OneFolder'
    BY <1>1, <2>1, <2>4, <2>5 DEF OneFolder, AtWorkOnFolder
  <2>8. \A k \in Parts \ altered : Bought(row.selected, k) = Bought(folders[1].selected, k)
    BY <2>1, <2>2 DEF RefreshesKeepChoice
  <2>9. RefreshesKeepChoice'
    BY <2>1, <2>4, <2>5, <2>8 DEF RefreshesKeepChoice
  <2>10. SnapshotsFit' /\ SelectionFits'
    BY <2>1, <2>2, <2>3, <2>4, <2>5 DEF SnapshotsFit, SelectionFits
  <2>11. FolderReached'
    BY <2>1, <2>3, <2>4, <2>5 DEF FolderReached, Linking
  <2>12. FolderCatchesUp'
    BY <2>1, <2>2, <2>3, <2>5 DEF FolderCatchesUp
  <2> QED BY <2>6, <2>7, <2>9, <2>10, <2>11, <2>12
<1> QED BY <1>2, <1>3

LEMMA ShareSteps ==
  ASSUME QuoteInv, Archive \/ \E payload \in Payloads : ShareFlights(payload)
  PROVE  QuoteInv'
<1> USE DEF QuoteInv
<1>1. ASSUME Archive
      PROVE  QuoteInv'
  <2>1. /\ quote' \in Quote /\ quote'.payload = quote.payload /\ quote'.folder = quote.folder
        /\ quote'.selected = quote.selected
        /\ folders' = folders /\ request' = request /\ mishaps' = mishaps /\ altered' = altered
    BY <1>1 DEF Archive, QuoteTypes, Quote
  <2> QED BY <2>1 DEF QuoteTypes, OneFolder, AtWorkOnFolder, FolderReached, Linking,
            RefreshesKeepChoice, SelectionFits, SnapshotsFit, FolderCatchesUp, Refreshing
<1>2. ASSUME NEW payload \in Payloads, ShareFlights(payload)
      PROVE  QuoteInv'
  <2>1. /\ quote' = Edited(payload, quote.status) /\ folders' = folders /\ request' = request
        /\ altered' = altered /\ Note("behind", Converting \/ folders # <<>>)
    BY <1>2 DEF ShareFlights
  <2>2. /\ quote' \in Quote /\ quote'.payload = payload /\ quote'.folder = quote.folder
        /\ quote'.selected = Nothing
    BY <2>1, EditedQuote
  <2>3. /\ mishaps' \subseteq Mishaps /\ mishaps \subseteq mishaps'
        /\ mishaps' \subseteq mishaps \cup {"behind"}
        /\ "behind" \notin mishaps' => ~Converting /\ folders = <<>>
    BY <2>1 DEF QuoteTypes, Mishaps, Note
  <2>4. QuoteTypes' /\ OneFolder' /\ RefreshesKeepChoice'
    BY <2>1, <2>2, <2>3 DEF QuoteTypes, OneFolder, AtWorkOnFolder, RefreshesKeepChoice
  <2>5. FolderReached' /\ SelectionFits' /\ SnapshotsFit'
    BY <2>1, <2>2, <2>3 DEF FolderReached, Linking, SelectionFits, SnapshotsFit
  <2>6. FolderCatchesUp'
    BY <2>1, <2>3 DEF FolderCatchesUp, Converting
  <2> QED BY <2>4, <2>5, <2>6
<1> QED BY <1>1, <1>2

LEMMA ConvertSteps ==
  ASSUME QuoteInv, NEW r \in Requests, ConvertReads(r) \/ ConvertInserts(r) \/ ConvertLinks(r)
  PROVE  QuoteInv'
<1> USE DEF QuoteInv
<1>0. folders \in Seq(Snapshot) /\ quote \in Quote
  BY DEF QuoteTypes
<1>1. ASSUME ConvertReads(r)
      PROVE  QuoteInv'
  <2> DEFINE snapshot == [payload |-> quote.payload, selected |-> quote.selected]
             step == [at |-> "inserting", snapshot |-> snapshot]
  <2>1. /\ RequestIs(r, step) /\ request[r].at = "waiting"
        /\ quote.folder = 0 /\ quote.selected # Nothing
        /\ quote' = quote /\ folders' = folders /\ mishaps' = mishaps /\ altered' = altered
    BY <1>1 DEF ConvertReads, NoFolder
  <2>2. quote.selected \in Selection
    BY <1>0, <2>1 DEF Quote
  <2>3. step \in ConvertRequest
    BY <1>0, <2>2 DEF ConvertRequest, Snapshot, Quote
  <2>4. request'[r] = step /\ \A s \in Requests \ {r} : request'[s] = request[s]
    BY <2>1, OneRequestMoves
  <2>5. QuoteTypes'
    BY <2>1, <2>3, StepsTyped DEF QuoteTypes
  <2>6. OneFolder' /\ RefreshesKeepChoice' /\ SelectionFits' /\ SnapshotsFit'
    <3>1. OneFolder' /\ RefreshesKeepChoice' /\ SelectionFits'
      BY <2>1, <2>4 DEF OneFolder, AtWorkOnFolder, RefreshesKeepChoice, SelectionFits
    <3>2. SnapshotsFit'
      BY <2>1, <2>4 DEF SnapshotsFit, SelectionFits
    <3> QED BY <3>1, <3>2
  <2>7. FolderReached'
    BY <2>1, <2>4 DEF FolderReached, Linking
  <2>8. FolderCatchesUp'
    BY <2>1, <2>4 DEF FolderCatchesUp, Refreshing
  <2> QED BY <2>5, <2>6, <2>7, <2>8
<1>2. ASSUME ConvertInserts(r), folders = <<>>
      PROVE  QuoteInv'
  <2> DEFINE snapshot == request[r].snapshot
             step == [at |-> "linking", folder |-> 1]
  <2>1. /\ request[r].at = "inserting" /\ snapshot \in Snapshot /\ Len(folders) = 0
        /\ quote' = quote /\ mishaps' = mishaps /\ altered' = altered
    BY <1>0, <1>2, RequestFacts DEF ConvertInserts
  <2>2. folders' = Append(folders, snapshot) /\ RequestIs(r, step)
    BY <1>2, <2>1 DEF ConvertInserts
  <2>3. /\ folders' \in Seq(Snapshot) /\ Len(folders') = 1 /\ folders'[1] = snapshot
        /\ DOMAIN folders' = {1} /\ folders' # <<>>
    BY <1>0, <2>1, <2>2
  <2>4. /\ request'[r] = step /\ step \in LinkRequest
        /\ \A s \in Requests \ {r} : request'[s] = request[s]
    BY <2>2, OneRequestMoves DEF LinkRequest
  <2>5. QuoteTypes'
    BY <2>1, <2>2, <2>3, <2>4, StepsTyped DEF QuoteTypes
  <2>6. quote.folder = 0 /\ \A s \in Requests : ~AtWorkOnFolder(s)
    BY <2>1, FolderFacts
  <2>7. OneFolder' /\ RefreshesKeepChoice'
    BY <2>1, <2>3, <2>4, <2>6 DEF OneFolder, AtWorkOnFolder, RefreshesKeepChoice
  <2>8. SelectionFits' /\ SnapshotsFit'
    BY <2>1, <2>3, <2>4 DEF SelectionFits, SnapshotsFit
  <2>9. FolderReached'
    BY <2>3, <2>4 DEF FolderReached, Linking
  <2>10. FolderCatchesUp'
    BY <1>2, <2>1, <2>3 DEF FolderCatchesUp
  <2> QED BY <2>5, <2>7, <2>8, <2>9, <2>10
<1>3. ASSUME \/ ConvertInserts(r) /\ folders # <<>>
             \/ ConvertLinks(r)
      PROVE  QuoteInv'
  <2>1. /\ RequestIs(r, Waiting) /\ folders' = folders /\ mishaps' = mishaps
        /\ altered' = altered /\ request[r].at \in {"inserting", "linking"}
    BY <1>3 DEF ConvertInserts, ConvertLinks
  <2>2. /\ request'[r].at = "waiting"
        /\ \A s \in Requests \ {r} : request'[s] = request[s]
    BY <2>1, OneRequestMoves DEF Waiting
  <2>3. /\ quote' \in Quote /\ quote'.payload = quote.payload /\ quote'.selected = quote.selected
        /\ IF request[r].at = "linking" THEN quote'.folder = 1 /\ Len(folders) = 1
           ELSE quote'.folder = quote.folder
    <3>1. CASE ConvertInserts(r) /\ folders # <<>>
      BY <1>0, <3>1 DEF ConvertInserts
    <3>2. CASE ConvertLinks(r)
      <4>1. request[r].at = "linking" /\ request[r].folder = 1 /\ Len(folders) = 1
        BY <3>2 DEF ConvertLinks, OneFolder, AtWorkOnFolder
      <4>2. quote' = [quote EXCEPT !.folder = 1, !.status = "converted"]
        BY <3>2, <4>1 DEF ConvertLinks
      <4> QED BY <1>0, <4>1, <4>2 DEF Quote
    <3> QED BY <1>3, <3>1, <3>2
  <2>4. QuoteTypes'
    BY <2>1, <2>3, StepsTyped DEF QuoteTypes
  <2>5. OneFolder'
    BY <2>1, <2>2, <2>3 DEF OneFolder, AtWorkOnFolder
  <2>6. RefreshesKeepChoice' /\ SelectionFits' /\ SnapshotsFit'
    BY <2>1, <2>2, <2>3 DEF RefreshesKeepChoice, SelectionFits, SnapshotsFit
  <2>7. FolderReached'
    <3>1. \A i \in DOMAIN folders : i = 1
      BY <1>0, FolderFacts, LenProperties
    <3>2. CASE request[r].at = "linking"
      BY <2>1, <2>3, <3>1, <3>2 DEF FolderReached
    <3>3. CASE request[r].at # "linking"
      BY <2>1, <2>2, <2>3, <3>3 DEF FolderReached, Linking
    <3> QED BY <3>2, <3>3
  <2>8. FolderCatchesUp'
    BY <2>1, <2>2, <2>3 DEF FolderCatchesUp, Refreshing
  <2> QED BY <2>4, <2>5, <2>6, <2>7, <2>8
<1> QED BY <1>1, <1>2, <1>3

LEMMA DeathSteps ==
  ASSUME QuoteInv, NEW r \in Requests, RequestDies(r)
  PROVE  QuoteInv'
<1> USE DEF QuoteInv
<1>1. /\ RequestIs(r, Waiting) /\ quote' = quote /\ folders' = folders /\ altered' = altered
      /\ mishaps' \subseteq Mishaps /\ mishaps \subseteq mishaps'
      /\ request[r].at = "linking" => "stranded" \in mishaps'
      /\ request[r].at \in {"loading", "storing"} => "behind" \in mishaps'
  BY DEF RequestDies, QuoteTypes, Mishaps
<1>2. /\ request'[r].at = "waiting"
      /\ \A s \in Requests \ {r} : request'[s] = request[s]
  BY <1>1, OneRequestMoves DEF Waiting
<1>3. QuoteTypes'
  BY <1>1, StepsTyped DEF QuoteTypes
<1>4. OneFolder' /\ RefreshesKeepChoice' /\ SelectionFits' /\ SnapshotsFit'
  BY <1>1, <1>2 DEF OneFolder, AtWorkOnFolder, RefreshesKeepChoice, SelectionFits, SnapshotsFit
<1>5. FolderReached'
  BY <1>1, <1>2 DEF FolderReached, Linking
<1>6. FolderCatchesUp'
  BY <1>1, <1>2 DEF FolderCatchesUp, Refreshing
<1> QED BY <1>3, <1>4, <1>5, <1>6

LEMMA QuoteInvInit == QuoteInit => QuoteInv
<1> SUFFICES ASSUME QuoteInit PROVE QuoteInv
  OBVIOUS
<1>1. /\ quote \in Quote /\ quote.selected = Nothing /\ quote.folder = 0
      /\ folders = <<>> /\ folders \in Seq(Snapshot) /\ Len(folders) = 0 /\ DOMAIN folders = {}
      /\ mishaps = {} /\ altered = {} /\ \A r \in Requests : request[r].at = "waiting"
  BY DEF QuoteInit, Quote, NoFolder, Waiting
<1>2. QuoteTypes
  BY <1>1 DEF QuoteTypes, QuoteInit, Mishaps
<1> QED BY <1>1, <1>2 DEF QuoteInv, OneFolder, AtWorkOnFolder, FolderReached,
          RefreshesKeepChoice, SelectionFits, SnapshotsFit, FolderCatchesUp

LEMMA QuoteInvStep == QuoteInv /\ [QuoteNext]_quoteVars => QuoteInv'
<1> SUFFICES ASSUME QuoteInv, [QuoteNext]_quoteVars PROVE QuoteInv'
  OBVIOUS
<1>1. CASE QuoteNext
  BY <1>1, SelectSteps, EditStarts, EditGoesOn, ShareSteps, ConvertSteps, DeathSteps DEF QuoteNext
<1>2. CASE UNCHANGED quoteVars
  BY <1>2 DEF quoteVars, QuoteInv, QuoteTypes, OneFolder, AtWorkOnFolder, FolderReached, Linking,
     RefreshesKeepChoice, SelectionFits, SnapshotsFit, FolderCatchesUp, Refreshing
<1> QED BY <1>1, <1>2

\* The inductive invariant of quotes and folders holds for any payloads, choices and
\* number of requests: selections, edits and conversions that cross each other leave one
\* folder at most, which is led to, refreshed and priced as its parts say.
THEOREM QuotesConsistent == QuoteSpec => []QuoteInv
BY QuoteInvInit, QuoteInvStep, PTL DEF QuoteSpec

\* A folder is the one its quote leads to, however often and at once the quote is
\* converted, unless a conversion died before it linked its folder.
THEOREM FoldersReached == QuoteSpec => []FolderReached
<1>1. QuoteInv => FolderReached
  BY DEF QuoteInv
<1> QED BY <1>1, QuotesConsistent, PTL

\* Selections are priced by what is offered, in the quote and in the folder.
THEOREM SelectionsFit == QuoteSpec => []SelectionFits
<1>1. QuoteInv => SelectionFits
  BY DEF QuoteInv
<1> QED BY <1>1, QuotesConsistent, PTL

\* A folder offers what its quote does once nothing is under way.
THEOREM FoldersFollowQuotes == QuoteSpec => []FolderFollowsQuote
<1>1. QuoteInv => FolderFollowsQuote
  <2> SUFFICES ASSUME QuoteInv, "behind" \notin mishaps, quote.folder # NoFolder,
                      \A r \in Requests : request[r].at = "waiting"
               PROVE  folders[quote.folder].payload = quote.payload
    BY DEF FolderFollowsQuote
  <2>1. quote.folder = 1 /\ folders # <<>>
    BY FolderFacts DEF NoFolder
  <2>2. ~Refreshing(quote.payload)
    BY DEF Refreshing
  <2> QED BY <2>1, <2>2 DEF QuoteInv, FolderCatchesUp
<1> QED BY <1>1, QuotesConsistent, PTL

\* What a folder was sold with stays, part by part, whatever is selected or edited after
\* the conversion, unless the payload of a refresh has no options for the part any more,
\* or has some for one that was sold without.
THEOREM SalesKeepChoices == QuoteSpec => SaleKeepsChoice
<1>1. QuoteInv /\ [QuoteNext]_quoteVars =>
        [\A i \in DOMAIN folders :
           /\ i \in DOMAIN folders'
           /\ \A k \in Parts \ altered' :
                Bought(folders'[i].selected, k) = Bought(folders[i].selected, k)]_quoteVars
  <2> SUFFICES ASSUME QuoteInv, QuoteNext, NEW i \in DOMAIN folders
               PROVE  /\ i \in DOMAIN folders'
                      /\ \A k \in Parts \ altered' :
                           Bought(folders'[i].selected, k) = Bought(folders[i].selected, k)
    OBVIOUS
  <2>1. folders \in Seq(Snapshot) /\ Len(folders) = 1 /\ i = 1
    BY FolderFacts, LenProperties
  <2>2. CASE \E r \in Requests : EditStores(r)
    <3>1. PICK r \in Requests : EditStores(r)
      BY <2>2
    <3> DEFINE selected == [choice |-> request[r].choice, by |-> request[r].edited.payload]
    <3>2. /\ request[r].edited.folder = 1 /\ altered' = altered
          /\ \A k \in Parts \ altered : Bought(selected, k) = Bought(folders[1].selected, k)
      BY <3>1 DEF EditStores, QuoteInv, OneFolder, RefreshesKeepChoice
    <3>3. /\ folders' = [folders EXCEPT ![1] =
                          [payload |-> request[r].edited.payload, selected |-> selected]]
      BY <3>1, <3>2 DEF EditStores
    <3>4. i \in DOMAIN folders' /\ folders'[1].selected = selected
      BY <2>1, <3>3
    <3> QED BY <2>1, <3>2, <3>4
  <2>3. CASE folders' = folders
    BY <2>3
  <2>4. folders # <<>>
    BY <2>1
  <2> QED BY <2>2, <2>3, <2>4 DEF QuoteNext, SelectReads, SelectWrites, EditWrites, EditLoads,
            Archive, ShareFlights, ConvertReads, ConvertInserts, ConvertLinks, RequestDies
<1> QED BY <1>1, QuotesConsistent, PTL DEF QuoteSpec, SaleKeepsChoice
=============================================================================
