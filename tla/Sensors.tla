------------------------------ MODULE Sensors ------------------------------
(***************************************************************************)
(* The entities of a portfolio and its diagnostics: what they make of the  *)
(* data of the last refresh.  Each sensor class of sensor.py has a value   *)
(* and attributes by the functions of sensor_mapping.py.                   *)
(***************************************************************************)
EXTENDS Valuation

Entity(value, unit, attributes) == [value |-> value, unit |-> unit, attributes |-> attributes]

\* A calculator that is not "ok" has no figure to show.
IfOk(result, figure) == IF result.status = "ok" THEN figure ELSE Unknown

----------------------------------------------------------------------------
(* sensor_mapping.py *)

get_portfolio_value(data) == data.summary.total
get_total_invested(data)  == data.summary.invested
get_total_profit(data)    == data.summary.profit
get_roi(data)             == data.summary.roi
get_cash_balance(data)    == data.summary.cash
get_positions_count(data) == Len(data.positions)
get_positions_attributes(data) ==
  [positions |-> data.positions, portfolio_id |-> data.portfolio_id,
   base_currency |-> data.base_currency,
   symbols_missing_quotes |-> data.symbols_missing_quotes,
   fx_rates_missing |-> data.fx_rates_missing]
get_transaction_count(data)      == data.transactions.count
get_transaction_attributes(data) == [recent |-> data.transactions.recent]
get_reconciliation_status(data)  == data.other.reconciliation.status
get_reconciliation_attributes(data) == [discrepancies |-> data.other.reconciliation.figure]
get_mwr(data)            == IfOk(data.other.mwr, data.other.mwr.figure)
get_mwr_attributes(data) == [status |-> data.other.mwr.status]
get_twr(data)            == IfOk(data.other.twr, data.other.twr.figure)
get_twr_attributes(data) == [status |-> data.other.twr.status]
get_dividend_income(data) == IfOk(data.dividends, data.dividends.rolling)
get_dividend_attributes(data) ==
  [status |-> data.dividends.status, lifetime |-> data.dividends.lifetime,
   current_year |-> data.dividends.year, dividend_yield |-> data.dividends.yield,
   average_monthly_dividend |-> data.dividends.monthly]
get_drawdown(data)              == IfOk(data.other.drawdown, data.other.drawdown.figure)
get_drawdown_attributes(data)   == [status |-> data.other.drawdown.status]
get_volatility(data)            == IfOk(data.other.volatility, data.other.volatility.figure)
get_volatility_attributes(data) == [status |-> data.other.volatility.status]
get_concentration(data) == IF data.concentration.status = "ok"
                           THEN data.concentration.largest.share ELSE Unknown
get_concentration_attributes(data) == data.concentration
get_day_change(data) == data.performance
FirstGroup(data)     == CHOOSE g \in data.allocation : g.rank = 1
get_allocation(data) == IF data.allocation = {} THEN Unknown ELSE FirstGroup(data).share
get_allocation_attributes(data) ==
  [allocation |-> data.allocation, group_count |-> Cardinality(data.allocation),
   largest_group |-> IF data.allocation = {} THEN Unknown ELSE FirstGroup(data).label]
\* Nothing was imported yet: no value, and a status of its own.
get_last_import(data) == IfOk(data.other.last_import, data.other.last_import.figure)
get_last_import_attributes(data) == [status |-> data.other.last_import.status]

----------------------------------------------------------------------------
(* sensor.py *)

Monetary(value, data) == Entity(value, data.base_currency, {})
Percent(value, attributes) == Entity(value, "%", attributes)

PortfolioValueSensor(data)            == Monetary(get_portfolio_value(data), data)
PortfolioTotalInvestedSensor(data)    == Monetary(get_total_invested(data), data)
PortfolioTotalProfitSensor(data)      == Monetary(get_total_profit(data), data)
PortfolioRoiSensor(data)              == Percent(get_roi(data), {})
PortfolioCashBalanceSensor(data)      == Monetary(get_cash_balance(data), data)
PortfolioPositionsSensor(data)        == Entity(get_positions_count(data), "positions", get_positions_attributes(data))
PortfolioTransactionCountSensor(data) == Entity(get_transaction_count(data), "transactions", get_transaction_attributes(data))
PortfolioReconciliationSensor(data)   == Entity(get_reconciliation_status(data), "none", get_reconciliation_attributes(data))
PortfolioMwrSensor(data)              == Percent(get_mwr(data), get_mwr_attributes(data))
PortfolioTwrSensor(data)              == Percent(get_twr(data), get_twr_attributes(data))
PortfolioDividendIncomeSensor(data)   == Entity(get_dividend_income(data), data.base_currency, get_dividend_attributes(data))
PortfolioDrawdownSensor(data)         == Percent(get_drawdown(data), get_drawdown_attributes(data))
PortfolioVolatilitySensor(data)       == Percent(get_volatility(data), get_volatility_attributes(data))
PortfolioConcentrationSensor(data)    == Percent(get_concentration(data), get_concentration_attributes(data))
PortfolioLastImportSensor(data)       == Entity(get_last_import(data), "transactions", get_last_import_attributes(data))
PortfolioDayChangeSensor(data)        == Percent(get_day_change(data), {})
PortfolioAllocationSensor(data)       == Percent(get_allocation(data), get_allocation_attributes(data))

\* The entities that are set up with an entry.
Entities(data) ==
  [portfolio_value |-> PortfolioValueSensor(data), total_invested |-> PortfolioTotalInvestedSensor(data),
   total_profit |-> PortfolioTotalProfitSensor(data), roi |-> PortfolioRoiSensor(data),
   cash_balance |-> PortfolioCashBalanceSensor(data), positions |-> PortfolioPositionsSensor(data),
   transaction_count |-> PortfolioTransactionCountSensor(data),
   reconciliation |-> PortfolioReconciliationSensor(data), mwr |-> PortfolioMwrSensor(data),
   twr |-> PortfolioTwrSensor(data), dividend_income |-> PortfolioDividendIncomeSensor(data),
   drawdown |-> PortfolioDrawdownSensor(data), volatility |-> PortfolioVolatilitySensor(data),
   concentration |-> PortfolioConcentrationSensor(data), last_import |-> PortfolioLastImportSensor(data),
   day_change |-> PortfolioDayChangeSensor(data), allocation |-> PortfolioAllocationSensor(data)]

----------------------------------------------------------------------------
(* diagnostics.py *)

\* _transaction_statistics: the whole log, not only what is recent.
TransactionStatistics(log) ==
  LET dates == {log[i].at : i \in DOMAIN log}
      types == {log[i].type : i \in DOMAIN log}
  IN  [count |-> Len(log),
       count_by_type |-> [t \in types |-> Cardinality({i \in DOMAIN log : log[i].type = t})],
       oldest |-> IF log = << >> THEN Unknown ELSE Min(dates),
       latest |-> IF log = << >> THEN Unknown ELSE Max(dates)]

\* The data of the last refresh that succeeded, which may not be the last one.
Diagnostics(data, ok, error) ==
  [last_update_success |-> ok, last_error |-> error,
   portfolio |-> get_positions_attributes(data), positions_count |-> get_positions_count(data),
   summary |-> data.summary, reconciliation |-> data.other.reconciliation,
   mwr |-> data.other.mwr, twr |-> data.other.twr, dividends |-> data.dividends,
   drawdown |-> data.other.drawdown, volatility |-> data.other.volatility,
   concentration |-> data.concentration, last_import |-> data.other.last_import,
   transactions |-> TransactionStatistics(data.portfolio_transactions)]
=============================================================================
