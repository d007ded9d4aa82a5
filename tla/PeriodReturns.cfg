SPECIFICATION Spec
CONSTANTS
  a = a
  b = b
  None = None
  Symbols <- MCSymbols
  Shares <- MCShares
  Cash = 0
  Quotes <- MCQuotes
  Transactions <- MCTransactions
  MaxLog = 2
  MaxTime = 4
  PerDay = 2
INVARIANTS
  FlowsFallOnce
  NeutralToFlows
  TwrIsValueRatio
  DeepestOfAllFalls
  RecoveryOfTheValueLine
PROPERTIES
  ImplementsSeries
