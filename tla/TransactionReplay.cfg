SPECIFICATION Spec
CONSTANTS
  aapl = aapl
  vwce = vwce
  None = None
  Symbols = {aapl, vwce}
  Transactions <- MCTransactions
  Declared <- MCDeclared
  MaxLog = 4
CHECK_DEADLOCK FALSE
INVARIANTS
  AverageWithinPrices
  RaisesOnlyIfOversold
  OkMeansAgreement
