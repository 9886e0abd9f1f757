\* One invoice and two payments at a time, with lost answers and failing calls: enough for a
\* refund beside a payment, and for a page that acts on a released invoice it takes for a draft.
\* Two requests on a quote with three payloads: a conversion beside an edit, a selection
\* beside either, and choices that a new payload keeps, changes or refuses.
CONSTANTS
  MaxReservations = 1  SoldPrices = {2}  MaxPayments = 2  MaxRefund = 2  Amounts = {1}  Kinds <- MCKinds
  LineTotals = {1}  MaxInvoices = 1  Failing = TRUE
  Staff = {s1}  Statuses = {"void"}  TypedSold = {}  TypedPaid = {}  MaxVersion = 2  Lossy = TRUE
  p1 = p1  p2 = p2  p3 = p3  stay = stay  flight = flight  x = x  y = y  r1 = r1  r2 = r2
  Payloads = {p1, p2, p3}  Parts = {stay, flight}  Stays = {stay}  Options = {x, y}
  None = none  Offered <- MCOffered  Preferred <- MCPreferred
  Requests = {r1, r2}  Breaking = TRUE
SPECIFICATION PackagesSpec
INVARIANTS ReleaseInv RefundsMatchPayments PaidFollowsPayments
           FolderReached SelectionFits FolderFollowsQuote
PROPERTY SaleKeepsChoice
SYMMETRY TwoRequests
