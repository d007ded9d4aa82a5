-------------------------- MODULE MarketRefresh ----------------------------
(***************************************************************************)
(* A coordinator that refreshes and the asset search, both of which fetch  *)
(* over the one session with Yahoo.  A refresh reads the portfolio once,   *)
(* awaits quotes and then rates, computes, and keeps what it computed as   *)
(* the coordinator's data, which the entities and the diagnostics show;    *)
(* the portfolio may be edited meanwhile.  A refresh that fails leaves the *)
(* data as it was and makes the entities unavailable.                      *)
(*                                                                         *)
(* What is stored (snapshots, reports) is PortfolioCoordinator's business, *)
(* and so is the life cycle of the entry: here it stays loaded.            *)
(***************************************************************************)
EXTENDS Sensors, YahooSession

CONSTANTS Portfolios,      \* what the files may hold
          QuoteAnswers(_), \* per set of symbols: what Yahoo may answer
          Surroundings,    \* the values of around
          SearchAnswers,   \* what the public search endpoint may answer
          Coordinator, Search

ASSUME FetchersAssumption == Fetchers = {Coordinator, Search} /\ Coordinator # Search
ASSUME PortfoliosAssumption == None \notin Portfolios /\ \A p \in Portfolios : ValidPortfolio(p)
ASSUME AnswersAssumption ==
  \A p \in Portfolios :
    \A answer \in QuoteAnswers(Symbols(p)) \union QuoteAnswers(Foreign(p)) : ValidAnswer(answer)
ASSUME SurroundingsAssumption ==
  \A a \in Surroundings : {a.now, a.now - Rolling} \subseteq DOMAIN YearOf

VARIABLES files,    \* the portfolio in the repository
          stage,    \* of the refresh: "idle", "quotes", "rates" or "compute"
          reading,  \* the portfolio that it has read, or None
          quotes,   \* the quotes it has
          data,     \* the coordinator's data, or NoData
          lastOk,   \* its last_update_success
          lastError,  \* its last_error is set
          search,   \* the candidates of a search that awaits their currencies
          found,    \* what the last search returned, or None if it raised
          around    \* the time, and what the other calculators find

\* History: what the refresh that ended last had read, or None if it failed.
VARIABLE latest

refreshVars == <<stage, reading, quotes>>
shownVars   == <<data, lastOk, lastError, latest>>
searchVars  == <<search, found>>
vars == <<session, files, refreshVars, shownVars, searchVars, around>>

NoData == << >>
NoQuotes == [s \in {} |-> [price |-> 0, change |-> 0]]

----------------------------------------------------------------------------
\* The user, or an import, writes the portfolio's files.
Edit ==
  /\ files' \in Portfolios
  /\ UNCHANGED <<session, refreshVars, shownVars, searchVars, around>>

\* async_fetch_portfolio_data up to its first await: no symbols, no fetch.
Begin ==
  /\ stage = "idle" /\ fetch[Coordinator] = "idle"
  /\ reading' = files
  /\ quotes' = NoQuotes
  /\ \/ Symbols(files) # {} /\ stage' = "quotes" /\ Ask(Coordinator)
     \/ Symbols(files) = {} /\ stage' = "compute" /\ UNCHANGED session
  /\ UNCHANGED <<files, shownVars, searchVars, around>>

\* A refresh ends: the exception is noted and there is no new data.
Fails == /\ stage' = "idle" /\ reading' = None /\ quotes' = NoQuotes
         /\ lastOk' = FALSE /\ lastError' = TRUE
         /\ latest' = None
         /\ UNCHANGED data

\* The fetch raised, whatever it was for.
FetchFailed ==
  /\ stage \in {"quotes", "rates"} /\ fetch[Coordinator] \in {"denied", "failed"}
  /\ Took(Coordinator)
  /\ Fails
  /\ UNCHANGED <<files, searchVars, around>>

\* The quotes are there; rates are asked for if a holding needs one, with the
\* crumb that is cached now.
TakeQuotes ==
  /\ stage = "quotes" /\ fetch[Coordinator] = "answered"
  /\ \E answer \in QuoteAnswers(Symbols(reading)) :
       \/ QuotesRaise(answer) /\ Took(Coordinator) /\ Fails
       \/ /\ ~QuotesRaise(answer)
          /\ quotes' = Quotes(answer)
          /\ IF Foreign(reading) = {} THEN stage' = "compute" /\ Took(Coordinator)
                                      ELSE stage' = "rates" /\ Ask(Coordinator)
          /\ UNCHANGED <<reading, shownVars>>
  /\ UNCHANGED <<files, searchVars, around>>

\* What is read again is what is computed from.
ComputeReread(rates) ==
  data' = Result(files, quotes, rates, around.other, around.now)

\* The engine runs on what the refresh has read and was answered.
Compute(rates) ==
  data' = Result(reading, quotes, rates, around.other, around.now)

\* Everything is there.  The report of the last import is awaited after the
\* error was cleared; if it cannot be read the refresh fails without noting why.
Finish(rates) ==
  /\ stage' = "idle" /\ reading' = None /\ quotes' = NoQuotes
  /\ lastError' = FALSE
  /\ \/ Compute(rates) /\ lastOk' = TRUE /\ latest' = reading
     \/ UNCHANGED data /\ lastOk' = FALSE /\ latest' = None
  /\ UNCHANGED <<files, searchVars, around>>

TakeRates ==
  /\ stage = "rates" /\ fetch[Coordinator] = "answered"
  /\ \E answer \in QuoteAnswers(Foreign(reading)) : Finish(Rates(reading.base, answer))
  /\ Took(Coordinator)

NeedsNoRates ==
  /\ stage = "compute"
  /\ Finish(NoRates)
  /\ UNCHANGED session

----------------------------------------------------------------------------
\* async_search: candidates from the public endpoint, whose currencies a new
\* fetcher asks for; without any there is nothing to ask.
StartSearch ==
  /\ fetch[Search] = "idle"
  /\ \E answer \in SearchAnswers :
       \/ /\ Candidates(answer) # << >>
          /\ search' = Candidates(answer) /\ found' = None
          /\ Ask(Search)
       \/ /\ Candidates(answer) = << >>
          /\ found' = {}
          /\ UNCHANGED <<session, search>>
  /\ UNCHANGED <<files, refreshVars, shownVars, around>>

\* The list, or what raised: the fetch, or an instrument without an exchange.
EndSearch ==
  /\ \/ fetch[Search] \in {"denied", "failed"} /\ UNCHANGED found
     \/ /\ fetch[Search] = "answered"
        /\ \E priced \in SUBSET DOMAIN search :
             \/ ListingRaises(search, priced) /\ UNCHANGED found
             \/ ~ListingRaises(search, priced) /\ found' = Listing(search, priced)
  /\ search' = << >>
  /\ TookAndDropped(Search)
  /\ UNCHANGED <<files, refreshVars, shownVars, around>>

----------------------------------------------------------------------------
Init ==
  /\ SessionInit
  /\ files \in Portfolios
  /\ stage = "idle" /\ reading = None /\ quotes = NoQuotes
  /\ data = NoData /\ lastOk = FALSE /\ lastError = FALSE /\ latest = None
  /\ search = << >> /\ found = None
  /\ around \in Surroundings

Next == \/ Edit \/ Begin \/ FetchFailed \/ TakeQuotes \/ TakeRates \/ NeedsNoRates
        \/ StartSearch \/ EndSearch
        \/ SessionNext /\ UNCHANGED <<files, refreshVars, shownVars, searchVars, around>>

Spec == Init /\ [][Next]_vars

----------------------------------------------------------------------------
(* Properties *)

\* Stages, and the agreement of a refresh and a search with their fetchers.
TypeOK ==
  /\ SessionTypeOK
  /\ files \in Portfolios /\ latest \in Portfolios \union {None}
  /\ stage \in {"idle", "quotes", "rates", "compute"}
  /\ IF stage = "idle" THEN reading = None /\ quotes = NoQuotes ELSE reading \in Portfolios
  /\ lastOk \in BOOLEAN /\ lastError \in BOOLEAN
  /\ fetch[Coordinator] # "idle" <=> stage \in {"quotes", "rates"}
  /\ fetch[Search] # "idle" <=> search # << >>
  /\ lastOk => data # NoData
  /\ found # None => \A q \in found : q.exchange

\* All that is shown as available is of the portfolio as it was when the
\* refresh that ended last began, however it was edited during the awaits: the
\* counts, the cash, the currency of every amount, and a value that is what was
\* invested, the profit and the cash.  After a refresh that failed nothing is.
ShownFromOneReading ==
  lastOk =>
    LET shown == Entities(data) IN
    /\ latest # None
    /\ shown.positions.value = Len(latest.holdings)
    /\ shown.transaction_count.value = Len(latest.log)
    /\ shown.cash_balance.value = latest.cash
    /\ \A e \in {"portfolio_value", "total_invested", "total_profit", "cash_balance", "dividend_income"} :
         shown[e].unit = latest.base
    /\ shown.portfolio_value.value =
         shown.total_invested.value + shown.total_profit.value + shown.cash_balance.value
    /\ shown.positions.attributes.symbols_missing_quotes \subseteq Symbols(latest)
    /\ Diagnostics(data, lastOk, lastError).transactions.count = Len(latest.log)
    /\ ~lastError

\* A holding in a foreign currency is converted with a rate that was quoted, or
\* its currency is listed as missing, in the sensor as in the diagnostics.
\* Likewise a holding that Yahoo's answer does not mention is listed; one that
\* is mentioned without a price is quoted at 0 and is not (yahoo_finance.py:43).
AtParIsFlagged ==
  data # NoData =>
    LET shown == get_positions_attributes(data) IN
    \A i \in DOMAIN shown.positions :
      LET p == shown.positions[i] IN
      /\ p.quoted \/ p.holding.symbol \in shown.symbols_missing_quotes
      /\ \/ p.holding.currency = shown.base_currency /\ p.rate = 1
         \/ p.holding.currency \in shown.fx_rates_missing /\ p.rate = 1
         \/ /\ p.holding.currency \in DOMAIN data.fx_rates
            /\ p.rate = data.fx_rates[p.holding.currency] /\ p.rate > 0

\* x is at most y, for shares.
AtMost(x, y) == x[1] * y[2] <= y[1] * x[2]
Squared(x)   == <<x[1] * x[1], x[2] * x[2]>>

\* The groups of the allocation, the cash among them, add up to the portfolio's
\* value.  The largest position is at most the top ones together; these are all
\* of it when there are no more than TopN.  The Herfindahl index lies between
\* that of equal positions and 1, and is at least the square of the largest share.
SharesOfTheWhole ==
  data # NoData =>
    LET groups == get_allocation_attributes(data).allocation
        c == get_concentration_attributes(data)
    IN  /\ Sum([g \in groups |-> g.value]) = get_portfolio_value(data)
        /\ \A g \in groups : AtMost(g.share, get_allocation(data))
        /\ c.status = "ok" =>
             /\ AtMost(c.largest.share, c.top)
             /\ c.top[1] <= c.top[2] /\ (c.count <= TopN => c.top[1] = c.top[2])
             /\ AtMost(<<1, c.count>>, c.index) /\ c.index[1] <= c.index[2]
             /\ AtMost(Squared(c.largest.share), c.index)
             /\ ~Better(c.loser.gain, c.winner.gain)

\* The dividends of the calendar year are no more than those of the rolling
\* year, and these no more than those of the lifetime.  The exceptions are the
\* last day of a leap year, whose first day is 365 days ago, and a dividend that
\* is of this year in its own UTC offset but of the year before in UTC.
RollingCoversTheYear ==
  data # NoData =>
    LET d == get_dividend_attributes(data) IN
    d.status = "ok" =>
      /\ get_dividend_income(data) <= d.lifetime /\ d.current_year <= d.lifetime
      /\ \/ d.current_year <= get_dividend_income(data)
         \/ YearOf[around.now - Rolling] = YearOf[around.now]
         \/ \E i \in DOMAIN data.portfolio_transactions :
              LET t == data.portfolio_transactions[i] IN
              t.year = YearOf[around.now] /\ YearOf[t.at] < YearOf[around.now]
=============================================================================
