SPECIFICATION LedgerSpec
CONSTANTS
  c1 = c1  c2 = c2
  Customers = {c1, c2}
  MaxLoans = 2
  MaxTx = 3
  MaxTerm = 2
  DefaultTerm = 1
  Maintenance = {"backfill", "migration"}
  MaxDay = 1
  DebtAmounts <- MCDebtAmounts
  PayAmounts <- MCPayAmounts
  Penny = 1
INVARIANTS
  LoanMatchesLedger
  References
  InstallmentMatchesLedger
  OpenRowsCarryDebt
  PaidMeansCovered
PROPERTY
  SkippedStaysSkipped
SYMMETRY MCSymmetry
