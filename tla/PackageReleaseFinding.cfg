\* The least that releases an invoice and loses the answer.
CONSTANTS
  MaxReservations = 1  SoldPrices = {1}  MaxPayments = 1  MaxRefund = 2  Amounts = {1}  Kinds <- MCKinds
  LineTotals = {1}  MaxInvoices = 1  Failing = FALSE
  Staff = {s1}  Statuses = {"finalised", "void"}  TypedSold = {}  TypedPaid = {}  MaxVersion = 2  Lossy = TRUE
SPECIFICATION Spec
PROPERTY ReleasedStaysShown
