SPECIFICATION Spec
CONSTANTS
  None = None
  Unknown = Unknown
  Coordinator = coordinator
  Search = search
  Fetchers = {coordinator, search}
  MaxVisits = 2
  RecentLimit = 2
  TopN = 2
  Rolling = 3
  Offset = 1
  Month = 1
  YearOf <- MCYearOf
  Portfolios <- MCPortfolios
  QuoteAnswers <- MCQuoteAnswers
  Surroundings <- MCSurroundings
  SearchAnswers <- MCSearchAnswers
INVARIANTS
  DeniedOnlyIfDisturbed
  ShownFromOneReading
  AtParIsFlagged
  RollingCoversTheYear
