-------------------------- MODULE MCMarketRefresh --------------------------
(* Three portfolios: two holdings, one of them foreign, with cash and       *)
(* dividends; one symbol in two accounts, one of them foreign, without cash *)
(* and in another base currency; and cash alone.                            *)
EXTENDS MarketRefresh

Holding(symbol, shares, price, currency, type) ==
  [symbol |-> symbol, shares |-> shares, avgPrice |-> price, currency |-> currency, type |-> type]
Entry(type, at, amount, year) == [type |-> type, at |-> at, amount |-> amount, year |-> year]

Dividends4 == << Entry("dividend", 0, 1, 1), Entry("dividend", 3, 2, 2), Entry("buy", 3, 5, 1),
                 Entry("dividend", 6, 4, 2), Entry("dividend", 9, 8, 3) >>

\* One paid on the last day of a year in UTC, when the next has begun in its
\* own offset, and one of that next year.
Eastern == << Entry("dividend", 2, 1, 2), Entry("dividend", 4, 2, 2) >>

MCPortfolios ==
  { [id |-> "a", base |-> "EUR", cash |-> 2, log |-> Dividends4,
     holdings |-> << Holding("S", 2, 1, "EUR", "stock"), Holding("T", 1, 3, "USD", "etf") >>],
    [id |-> "a", base |-> "USD", cash |-> 0, log |-> Eastern,
     holdings |-> << Holding("S", 1, 0, "USD", "etf"), Holding("S", 3, 2, "EUR", "Cash"),
                     Holding("T", 1, 1, "USD", "etf") >>],
    [id |-> "b", base |-> "EUR", cash |-> 5, log |-> << >>, holdings |-> << >>] }

\* The answers of the two symbols or of a currency that go together.
MCQuoteAnswers(asked) ==
  {[s \in asked |-> IF s = "S" THEN x ELSE y] : x \in {Priced(2, 1)}, y \in {Priced(3, -2), NullPrice}}
    \union {[s \in asked |-> IF s = "S" THEN Absent ELSE NoPrice]}

Status(s, n) == [status |-> s, figure |-> n]
Others(s) ==
  [reconciliation |-> Status(s, 0), mwr |-> Status(s, 1), twr |-> Status(s, 2), drawdown |-> Status(s, 3),
   volatility |-> Status(s, 4), last_import |-> Status(s, 5)]

\* The last day of a long year, and the day before it.
MCSurroundings == {[now |-> 6, other |-> Others("ok")], [now |-> 5, other |-> Others("no_data")]}

\* Years of three days, the second of four; three days are the rolling year.
MCYearOf == [t \in -3 .. 9 |-> IF t < 0 THEN 0 ELSE IF t < 3 THEN 1 ELSE IF t < 7 THEN 2 ELSE 3]

MCSearchAnswers ==
  LET Instrument(symbol, type, exchange) == [symbol |-> symbol, type |-> type, exchange |-> exchange]
  IN  { << Instrument(TRUE, "stock", TRUE), Instrument(TRUE, "index", TRUE), Instrument(TRUE, "etf", FALSE) >>,
        << Instrument(FALSE, "stock", TRUE) >> }
=============================================================================
