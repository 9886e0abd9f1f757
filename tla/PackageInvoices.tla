--------------------------- MODULE PackageInvoices ---------------------------
(***************************************************************************)
(* The invoice panel of the package page and the routes behind it.  A page *)
(* keeps the copy of the invoice it was last told of and sends it back on  *)
(* every save, so that pages opened earlier, and answers that are lost,    *)
(* act on what no longer is.  Releasing takes two requests: the page saves *)
(* its form, and then asks for the release.  Each route is one step.       *)
(***************************************************************************)
EXTENDS PackageLedger

CONSTANTS
  Staff,      \* members of staff with the package open, a page each
  Statuses,   \* that staff choose by hand
  TypedSold,  \* totals sold and
  TypedPaid,  \* totals paid that staff type by hand before they save
  MaxVersion, \* of an invoice
  Lossy       \* whether the answer to a request can be lost

ASSUME PageChoices ==
  /\ Statuses \subseteq InvoiceStatuses /\ TypedSold \subseteq Int /\ TypedPaid \subseteq Int
  /\ MaxVersion \in Nat \ {0} /\ Lossy \in BOOLEAN

VARIABLE pages  \* the copy each page holds

\* A page without an invoice holds NoInvoice; releasing is the invoice whose
\* release the page is about to ask for.
Page == [invoice : 0..MaxInvoices, status : InvoiceStatuses, sold : Int, paid : Int,
         released : BOOLEAN, releasing : 0..MaxInvoices]

PageTypeOK == pages \in [Staff -> Page]

\* The invoices that pages and payments name have been drafted.
InvoicesKnown ==
  /\ \A s \in Staff : {pages[s].invoice, pages[s].releasing} \subseteq 0..Len(invoices)
  /\ \A p \in DOMAIN payments : payments[p].invoice <= Len(invoices)

EmptyPage == [invoice |-> NoInvoice, status |-> "draft", sold |-> 0, paid |-> 0,
              released |-> FALSE, releasing |-> NoInvoice]

PageInit == pages = [s \in Staff |-> EmptyPage]

Copy(i, inv, releasing) ==
  [invoice |-> i, status |-> inv.status, sold |-> inv.sold, paid |-> inv.paid,
   released |-> inv.released, releasing |-> releasing]

\* The page learns that invoice i is now inv, or never hears of it: the answer is
\* lost, or the route fails after it wrote the invoice.
Answer(s, i, inv) ==
  \E heard \in {TRUE, ~Lossy /\ ~Failing} :
    pages' = [pages EXCEPT ![s] = IF heard THEN Copy(i, inv, NoInvoice)
                                  ELSE [@ EXCEPT !.releasing = NoInvoice]]

Idle(s) == pages[s].releasing = NoInvoice
Editable(s) == Idle(s) /\ pages[s].invoice # NoInvoice /\ ~pages[s].released

\* GET of the invoice
Load(s) ==
  /\ Idle(s)
  /\ pages' = [pages EXCEPT ![s] = IF Latest(invoices) = NoInvoice THEN EmptyPage
                                   ELSE Copy(Latest(invoices), invoices[Latest(invoices)], NoInvoice)]
  /\ UNCHANGED <<ledger, history>>

-----------------------------------------------------------------------------
(* Drafting *)

\* createPackageInvoiceLinesFromReservations: what the reservations come to.
DraftTotal ==
  SumTo([r \in ReservationId |-> reservations[r].sold - reservations[r].refund], MaxReservations)

NewDraft(paid) ==
  [status |-> "draft", released |-> FALSE, version |-> 1, shown |-> 0,
   sold |-> DraftTotal, paid |-> paid, balance |-> DraftTotal - paid]

\* What was paid as a draft or an edit of lines finds it: payments that cannot be
\* read count as none.
PaidAsRead(read) == IF read THEN InvoicePaid(payments) ELSE 0

\* The payments recorded before there was an invoice are linked to the new one.
Linked == [p \in DOMAIN payments |->
             IF payments[p].invoice = NoInvoice
             THEN [payments[p] EXCEPT !.invoice = Len(invoices) + 1] ELSE payments[p]]

\* POST of the invoice: a page without one asks for any, the others for a new one.
Draft(s) ==
  /\ Idle(s) /\ (pages[s].invoice # NoInvoice \/ Latest(invoices) = NoInvoice)
  /\ Len(invoices) < MaxInvoices
  /\ \E read \in {TRUE, ~Failing} :
       /\ invoices' = Append(invoices, NewDraft(PaidAsRead(read)))
       /\ astray' = IF read THEN astray ELSE astray \cup {Len(invoices) + 1}
       /\ Answer(s, Len(invoices) + 1, NewDraft(PaidAsRead(read)))
  /\ payments' = Linked \/ (Failing /\ payments' = payments)
  /\ UNCHANGED <<reservations, versions, adrift, leftover>>

\* POST of the invoice by a page that does not know there is one
DraftAgain(s) ==
  /\ Idle(s) /\ pages[s].invoice = NoInvoice /\ Latest(invoices) # NoInvoice
  /\ Answer(s, Latest(invoices), invoices[Latest(invoices)])
  /\ UNCHANGED <<ledger, history>>

-----------------------------------------------------------------------------
(* Saving, releasing and amending *)

\* PATCH of an invoice by a page; the page never sends that it is released.  A
\* released invoice only stays released if the status sent says so.
Patched(inv, status, sold, paid) ==
  [inv EXCEPT !.status = status, !.released = status = "released",
              !.sold = sold, !.paid = paid, !.balance = sold - paid]

Patch(s, status, sold, paid) ==
  LET i == pages[s].invoice
  IN  /\ Editable(s)
      /\ status = "released" => invoices[i].released
      /\ invoices' = [invoices EXCEPT ![i] = Patched(@, status, sold, paid)]
      /\ astray' = IF paid # invoices[i].paid \/ status = "void" THEN astray \cup {i} ELSE astray
      /\ UNCHANGED <<reservations, payments, versions, adrift, leftover>>

Save(s) ==
  \E status \in Statuses \cup {pages[s].status},
     sold \in TypedSold \cup {pages[s].sold}, paid \in TypedPaid \cup {pages[s].paid} :
    /\ Patch(s, status, sold, paid)
    /\ Answer(s, pages[s].invoice, invoices'[pages[s].invoice])

\* The first request of a release, of a form that is saved as it was
SaveForRelease(s) ==
  /\ pages[s].sold > 0
  /\ Patch(s, IF pages[s].status = "amended" THEN "finalised" ELSE pages[s].status,
           pages[s].sold, pages[s].paid)
  /\ \E heard \in {TRUE, ~Lossy /\ ~Failing} :
       pages' = IF heard THEN [pages EXCEPT ![s].releasing = pages[s].invoice] ELSE pages

Revoked == {[v EXCEPT !.visible = FALSE] : v \in versions}

Stop(s) == pages' = [pages EXCEPT ![s].releasing = NoInvoice]

Releasable(i) == i # NoInvoice /\ invoices[i].status # "void" /\ invoices[i].sold > 0

\* The release route refuses a void invoice and one of no value.
ReleaseRefused(s) ==
  LET i == pages[s].releasing
  IN  /\ i # NoInvoice /\ (~Releasable(i) \/ Failing)
      /\ Stop(s)
      /\ UNCHANGED <<ledger, history>>

Stored(i) == \E v \in versions : v.invoice = i /\ v.number = invoices[i].version

\* All that is visible is revoked; nobody looks at the error.
Revokes(done) == leftover' = IF done THEN {} ELSE Visible
Rest(done) == IF done THEN Revoked ELSE versions

\* The snapshot of this version is there already, and the unique index refuses the
\* new one after those of the package have been revoked; or it cannot be stored.
ReleaseFails(s) ==
  LET i == pages[s].releasing
  IN  /\ Releasable(i) /\ (Stored(i) \/ Failing)
      /\ \E done \in {TRUE, ~Failing} : Revokes(done) /\ versions' = Rest(done)
      /\ Stop(s)
      /\ UNCHANGED <<reservations, payments, invoices, astray, adrift>>

NewVersion(i) == [invoice |-> i, number |-> invoices[i].version, visible |-> TRUE,
                sold |-> invoices[i].sold]

\* The last call marks the invoice; when it fails the snapshot stays all the same.
Marked(i) == [invoices EXCEPT ![i].status = "released", ![i].released = TRUE,
                              ![i].shown = invoices[i].version]

\* Mutated form: what was shown before stays visible.
ReleaseBeside(s) ==
  LET i == pages[s].releasing
  IN  /\ Releasable(i) /\ ~Stored(i)
      /\ versions' = versions \cup {NewVersion(i)} /\ leftover' = {}
      /\ invoices' = Marked(i) /\ Answer(s, i, invoices'[i])
      /\ UNCHANGED <<reservations, payments, astray, adrift>>

\* The release: everything shown before is revoked, the snapshot of this version
\* is stored as visible, and the invoice is marked.
Release(s) ==
  LET i == pages[s].releasing
  IN  /\ Releasable(i) /\ ~Stored(i)
      /\ \E done \in {TRUE, ~Failing} :
           Revokes(done) /\ versions' = Rest(done) \cup {NewVersion(i)}
      /\ \/ invoices' = Marked(i) /\ Answer(s, i, invoices'[i])
         \/ Failing /\ UNCHANGED invoices /\ Stop(s)
      /\ UNCHANGED <<reservations, payments, astray, adrift>>

Amended(inv) ==
  [inv EXCEPT !.status = "amended", !.released = FALSE, !.version = inv.version + 1]

\* POST of an amendment, which the route refuses unless the invoice is released
Amend(s) ==
  LET i == pages[s].invoice
  IN  /\ Idle(s) /\ i # NoInvoice /\ pages[s].released
      /\ invoices[i].released \/ invoices[i].status = "released"
      /\ invoices[i].version < MaxVersion
      /\ invoices' = [invoices EXCEPT ![i] = Amended(@)]
      /\ Answer(s, i, invoices'[i])
      /\ UNCHANGED <<reservations, payments, versions, history>>

\* POST, PATCH or DELETE of a line, after which the lines add up to total
EditLines(s, total) ==
  LET i == pages[s].invoice
  IN  /\ Editable(s)
      /\ \E read \in {TRUE, ~Failing} :
           /\ invoices' = [invoices EXCEPT ![i] = Recalculated(@, total, PaidAsRead(read))]
           /\ astray' = IF read /\ invoices'[i].status # "void" THEN astray \ {i}
                        ELSE astray \cup {i}
      /\ Answer(s, i, invoices'[i])
      /\ UNCHANGED <<reservations, payments, versions, adrift, leftover>>

InvoiceNext ==
  \E s \in Staff :
    \/ Load(s) \/ Draft(s) \/ DraftAgain(s) \/ Save(s) \/ SaveForRelease(s)
    \/ ReleaseRefused(s) \/ ReleaseFails(s) \/ Release(s) \/ Amend(s)
    \/ \E total \in LineTotals : EditLines(s, total)
=============================================================================
