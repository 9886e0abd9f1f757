------------------------------ MODULE MCPackages ------------------------------
(* Either the money of a package, in two scenes, or the quote that packages    *)
(* are made from.                                                              *)
EXTENDS MCPackageFinance, PackageQuotes, TLC

CONSTANTS p1, p2, p3, stay, flight, x, y, r1, r2

VARIABLE scene

\* The second payload has lost the stay and one of the flights, the third all flights.
MCOffered == (p1 :> ((stay :> {x}) @@ (flight :> {x, y})))
          @@ (p2 :> ((stay :> {}) @@ (flight :> {y})))
          @@ (p3 :> ((stay :> {x}) @@ (flight :> {})))
MCPreferred == (p1 :> ((stay :> None) @@ (flight :> x)))
            @@ (p2 :> ((stay :> None) @@ (flight :> y)))
            @@ (p3 :> ((stay :> None) @@ (flight :> None)))

Unlinked(rows) == \A p \in DOMAIN rows : rows[p].reservation = NoReservation

\* Payments beside drafts and edits of an invoice, and before there is one also those
\* that refund a reservation.
PaymentScene ==
  /\ \/ \E s \in Staff :
          Load(s) \/ Draft(s) \/ DraftAgain(s) \/ Save(s) \/ \E total \in LineTotals : EditLines(s, total)
     \/ PaymentNext
  /\ invoices' # <<>> =>
       Unlinked(payments') /\ adrift' = {} /\ \A r \in ReservationId : reservations'[r].refund = 0

\* Releases and amendments beside a single payment.
ReleaseScene ==
  \/ InvoiceNext
  \/ PaymentNext /\ UNCHANGED reservations /\ DOMAIN payments' \subseteq {1} /\ Unlinked(payments')

PackagesInit ==
  /\ scene \in {"payments", "releases", "quotes"} /\ Init /\ QuoteInit
  /\ scene # "quotes" => quote.payload = p1
PackagesNext ==
  /\ UNCHANGED scene
  /\ \/ scene = "payments" /\ PaymentScene /\ UNCHANGED quoteVars
     \/ scene = "releases" /\ ReleaseScene /\ UNCHANGED quoteVars
     \/ scene = "quotes" /\ QuoteNext /\ UNCHANGED vars
PackagesSpec == PackagesInit /\ [][PackagesNext]_<<scene, vars, quoteVars>>

TwoRequests == Permutations({r1, r2})
=============================================================================
