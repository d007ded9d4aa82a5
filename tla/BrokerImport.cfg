SPECIFICATION BrokerSpec
CONSTANTS
  usd = usd
  msft = msft
  Absent = Absent
  Bad = Bad
  NaN = NaN
  Exports <- MCExports
  HandWritten <- MCHandWritten
  Tolerance = 3
  MaxImports = 4
INVARIANTS
  EveryRowIsAnswered
  NothingEnteredTwice
  AppliedIsNotProposed
  ReadableUnlessRepeated
CHECK_DEADLOCK FALSE
