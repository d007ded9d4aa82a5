SPECIFICATION SolverSpec
CONSTANTS
  Histories <- MCHistories
  Values = {0, 1, 5}
  AsOf = {1, 4, 6}
  Instants = 2
  Unit = 4
  Guess = 5
  Low = 1
  High = 32
  MaxNewton = 8
  MaxBisection = 6
  Precision = 64
  Representable <- MCRepresentable
  Widths <- MCWidths
INVARIANTS
  BracketsARoot
  RootUnlessFirstDayCancels
  NotComputableMeansNoBracket
  RaisesOnlyFarOut
CHECK_DEADLOCK FALSE
