----------------------------- MODULE Valuation -----------------------------
(***************************************************************************)
(* What a refresh computes and shows: the answers of the price and the     *)
(* currency provider, the positions the engine builds from them, the       *)
(* calculators that aggregate these, the values of the sensors, and the    *)
(* diagnostics.  Pure operators; MarketRefresh runs them.                  *)
(*                                                                         *)
(* Amounts are whole numbers and shares of a whole are pairs <<part,       *)
(* whole>>, so that no rounding is called for.  What the calculators of    *)
(* the other modules find is a status and a figure.                        *)
(***************************************************************************)
EXTENDS Integers, Sequences, FiniteSets, Sums

CONSTANTS RecentLimit,  \* transactions that are shown
          TopN,         \* positions that count for the concentration
          YearOf,       \* per point in time: its calendar year in UTC
          Offset,       \* the farthest that a local time is from UTC
          Rolling,      \* the 365 days of the rolling year
          Month,        \* the days of a month on average
          Unknown       \* a sensor without a value

----------------------------------------------------------------------------
(* The portfolio: its id, base currency, holdings, cash and log.  A holding *)
(* has a symbol, shares, an average price, a currency and a type; an entry  *)
(* of the log has a type, a date (the point in time, and the year that it   *)
(* has with the UTC offset it was written with) and an amount.              *)

Symbols(p) == {p.holdings[i].symbol : i \in DOMAIN p.holdings}
Foreign(p) == {p.holdings[i].currency : i \in DOMAIN p.holdings} \ {p.base}

Sum(s) == SumOn(s, DOMAIN s)

\* The year of a date in its own UTC offset, which the repository and the
\* importers keep, is that of a point in time within the offset.
LocalYear(t, year) ==
  \E local \in DOMAIN YearOf : /\ t - Offset <= local /\ local <= t + Offset
                              /\ YearOf[local] = year

\* What the constructors of Holding, Transaction and Portfolio insist on.
ValidPortfolio(p) ==
  /\ p.holdings \in Seq({p.holdings[i] : i \in DOMAIN p.holdings})
  /\ \A i \in DOMAIN p.holdings : p.holdings[i].shares \in Nat /\ p.holdings[i].avgPrice \in Nat
  /\ p.log \in Seq({p.log[i] : i \in DOMAIN p.log})
  /\ \A i \in DOMAIN p.log : /\ p.log[i].amount \in Nat /\ p.log[i].at \in DOMAIN YearOf
                             /\ LocalYear(p.log[i].at, p.log[i].year)
  /\ p.cash \in Nat

\* Later points in time are in no earlier years.
ASSUME CalendarAssumption ==
  /\ Rolling \in Nat /\ Offset \in Nat /\ DOMAIN YearOf \subseteq Int
  /\ \A t, u \in DOMAIN YearOf : YearOf[t] \in Int /\ (t <= u => YearOf[t] <= YearOf[u])
ASSUME TopNAssumption == TopN \in Nat \ {0}

----------------------------------------------------------------------------
(* Providers *)

\* Per symbol asked for, what an answer may hold.
Absent == [item |-> "absent", price |-> 0, change |-> 0]
Priced(price, change) == [item |-> "priced", price |-> price, change |-> change]
NoPrice == [item |-> "no price", price |-> 0, change |-> 0]
NullPrice == [item |-> "null", price |-> 0, change |-> 0]

\* What Yahoo answers: numbers, and no price of 0 for what has a price.
ValidAnswer(answer) ==
  \A s \in DOMAIN answer :
    /\ answer[s].price \in Nat /\ answer[s].change \in Int
    /\ answer[s].item = "priced" => answer[s].price > 0

\* YahooFinanceProvider: a price that is not given is 0.0, one that is null
\* is a TypeError.
QuotesRaise(answer) == \E s \in DOMAIN answer : answer[s].item = "null"
Quotes(answer) == [s \in {t \in DOMAIN answer : answer[t].item # "absent"} |->
                    [price |-> answer[s].price, change |-> answer[s].change]]

\* A rate that is null is taken for a number.
RatesOrZero(base, answer) ==
  [c \in {base} \union {d \in DOMAIN answer : answer[d].item \in {"priced", "null"}} |->
    IF c = base THEN 1 ELSE answer[c].price]

\* YahooFinanceCurrencyProvider: a rate that is not given, or null, is left out.
Rates(base, answer) ==
  [c \in {base} \union {d \in DOMAIN answer : answer[d].item = "priced"} |->
    IF c = base THEN 1 ELSE answer[c].price]

NoRates == [c \in {} |-> 1]

----------------------------------------------------------------------------
(* PortfolioEngine.build_positions *)

\* A position without a quote is worth 0; a currency without a rate counts as
\* if it were the portfolio's own.
Position(h, base, quotes, rates) ==
  LET quoted == h.symbol \in DOMAIN quotes
      rate   == IF h.currency # base /\ h.currency \in DOMAIN rates THEN rates[h.currency] ELSE 1
      value  == IF quoted THEN quotes[h.symbol].price * h.shares * rate ELSE 0
      cost   == h.avgPrice * h.shares * rate
  IN  [holding |-> h, quoted |-> quoted, value |-> value, cost |-> cost,
       gain |-> <<value - cost, cost>>, rate |-> rate,
       change |-> IF quoted THEN quotes[h.symbol].change ELSE 0]

Positions(p, quotes, rates) ==
  [i \in DOMAIN p.holdings |-> Position(p.holdings[i], p.base, quotes, rates)]

Values(ps) == [i \in DOMAIN ps |-> ps[i].value]
Value(ps)  == Sum(Values(ps))
Cost(ps)   == Sum([i \in DOMAIN ps |-> ps[i].cost])

----------------------------------------------------------------------------
(* Calculators *)

\* PortfolioCalculator: cash counts for the value, not for what was invested.
Summary(p, ps) ==
  [positions |-> Value(ps), cash |-> p.cash, total |-> Value(ps) + p.cash,
   invested |-> Cost(ps), profit |-> Value(ps) - Cost(ps),
   roi |-> <<Value(ps) - Cost(ps), Cost(ps)>>]

\* A share is a part and a whole; of nothing, it is 0.
Share(part, whole) == <<part, whole>>

\* Of two groups of one worth, the one that comes first is before the other.
Before(worth, first, l, k) == worth[l] > worth[k] \/ (worth[l] = worth[k] /\ first[l] < first[k])

\* The worth of the groups that there are, the first ones first.
Groups(worth, first, total) ==
  {[label |-> l, value |-> worth[l], share |-> Share(worth[l], total),
    rank |-> Cardinality({k \in DOMAIN worth : Before(worth, first, k, l)}) + 1] : l \in DOMAIN worth}

\* A group per type, and one for cash if there is any.
GroupLabels(p, ps) ==
  {ps[i].holding.type : i \in DOMAIN ps} \union (IF p.cash > 0 THEN {"Cash"} ELSE {})

\* AllocationCalculator: the largest group first, then those that come first in
\* the holdings.
Allocation(p, ps) ==
  LET ofType(l) == {i \in DOMAIN ps : ps[i].holding.type = l}
      labels == GroupLabels(p, ps)
  IN  Groups([l \in labels |-> SumOn(Values(ps), ofType(l))
                                 + (IF l = "Cash" THEN p.cash ELSE 0)],
             [l \in labels |-> Min(ofType(l) \union {Len(ps) + 1})],
             Value(ps) + p.cash)

\* PerformanceCalculator: the changes of the day, weighted; cash has none.
Performance(p, ps) ==
  <<Sum([i \in DOMAIN ps |-> ps[i].change * ps[i].value]), Value(ps) + p.cash>>

\* TransactionCalculator: the entries with the latest dates; of two with one
\* date, the one that comes first in the log.
Transactions(p) ==
  [count |-> Len(p.log),
   recent |-> {i \in DOMAIN p.log :
     Cardinality({j \in DOMAIN p.log : \/ p.log[j].at > p.log[i].at
                                       \/ p.log[j].at = p.log[i].at /\ j < i}) < RecentLimit}]

\* The boundary belongs to the year before.
SinceDayAfter(t, now) == t > now - Rolling + 1

\* The last 365 days.
SinceRollingStart(t, now) == t > now - Rolling

\* DividendCalculator: nothing that is dated later than now counts anywhere.
\* The calendar year of a dividend is that of its own offset, now is in UTC.
Dividends(p, ps, now) ==
  LET paid == {i \in DOMAIN p.log : p.log[i].type = "dividend" /\ p.log[i].at <= now}
      amount(S) == SumOn([i \in DOMAIN p.log |-> p.log[i].amount], S)
      rolling == amount({i \in paid : SinceRollingStart(p.log[i].at, now)})
      first == Min({p.log[i].at : i \in paid})
  IN  IF paid = {} THEN [status |-> "no_data", rolling |-> 0, year |-> 0, lifetime |-> 0,
                         yield |-> Unknown, monthly |-> <<0, 1>>]
      ELSE [status |-> "ok", rolling |-> rolling, lifetime |-> amount(paid),
            year |-> amount({i \in paid : p.log[i].year = YearOf[now]}),
            yield |-> IF Cost(ps) > 0 THEN <<rolling, Cost(ps)>> ELSE Unknown,
            monthly |-> <<amount(paid) * Month, Max({Month, now - first})>>]

\* PositionAnalyticsCalculator: the shares of the positions in their sum,
\* largest first; of several best or worst gains, that of the largest position.
Better(x, y) == LET num(z) == IF z[2] = 0 THEN 0 ELSE z[1]
                    den(z) == IF z[2] = 0 THEN 1 ELSE z[2]
                IN  num(x) * den(y) > num(y) * den(x)

Larger(ps, i, j) == ps[i].value > ps[j].value \/ (ps[i].value = ps[j].value /\ i < j)
Rank(ps, i) == Cardinality({j \in DOMAIN ps : Larger(ps, j, i)}) + 1

Winner(ps, i) == \A j \in DOMAIN ps \ {i} : \/ Better(ps[i].gain, ps[j].gain)
                                            \/ ~Better(ps[j].gain, ps[i].gain) /\ Larger(ps, i, j)
Loser(ps, i)  == \A j \in DOMAIN ps \ {i} : \/ Better(ps[j].gain, ps[i].gain)
                                            \/ ~Better(ps[i].gain, ps[j].gain) /\ Larger(ps, i, j)

About(ps, i) == [symbol |-> ps[i].holding.symbol, gain |-> ps[i].gain,
                 share |-> Share(ps[i].value, Value(ps))]

Concentration(ps) ==
  LET D == DOMAIN ps IN
  IF D = {} \/ Value(ps) <= 0
  THEN [status |-> "no_data", count |-> Len(ps), largest |-> Unknown, winner |-> Unknown,
        loser |-> Unknown, top |-> Unknown, index |-> Unknown]
  ELSE [status |-> "ok", count |-> Len(ps),
        largest |-> About(ps, CHOOSE i \in D : Rank(ps, i) = 1),
        winner  |-> About(ps, CHOOSE i \in D : Winner(ps, i)),
        loser   |-> About(ps, CHOOSE i \in D : Loser(ps, i)),
        top     |-> Share(SumOn(Values(ps), {j \in D : Rank(ps, j) <= TopN}), Value(ps)),
        index   |-> Share(Sum([i \in D |-> ps[i].value * ps[i].value]), Value(ps) * Value(ps))]

----------------------------------------------------------------------------
(* PortfolioEngine.run and async_fetch_portfolio_data *)

\* The results of one refresh.  What replay, returns and drawdown come to is
\* the business of other modules: "other" has a status and a figure for each.
Result(p, quotes, rates, other, now) ==
  LET ps == Positions(p, quotes, rates) IN
  [positions |-> ps, summary |-> Summary(p, ps), allocation |-> Allocation(p, ps),
   performance |-> Performance(p, ps), transactions |-> Transactions(p),
   dividends |-> Dividends(p, ps, now), concentration |-> Concentration(ps), other |-> other,
   portfolio_id |-> p.id, base_currency |-> p.base, portfolio_transactions |-> p.log,
   symbols_missing_quotes |-> Symbols(p) \ DOMAIN quotes,
   fx_rates |-> rates, fx_rates_missing |-> Foreign(p) \ DOMAIN rates]

----------------------------------------------------------------------------
(* YahooFinanceAssetSearchProvider *)

\* Found instruments that have a symbol and a type with a place in holdings.yaml.
Candidates(found) == SelectSeq(found, LAMBDA q : q.symbol /\ q.type \in {"stock", "etf", "mutual_fund", "crypto"})

\* Those whose currency the quotes tell are listed.  AssetSearchResult refuses
\* one without an exchange, and with it the search raises.
ListingRaises(candidates, priced) == \E i \in priced : ~candidates[i].exchange
Listing(candidates, priced) == {candidates[i] : i \in priced}
=============================================================================
