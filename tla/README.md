# Portfolio Engine in TLA+

A verification development for Portfolio Engine, a Home Assistant integration
that values investment portfolios kept in YAML files. The modules model what
the code does from one `await` (or one file operation) to the next; TLC checks
small instances; TLAPS proves the main invariants for every value of the
constants.

The packages `engine/`, `importers/`, `providers/` and `repositories/` exist
twice, at the root and vendored under `custom_components/portfolio_engine/`;
the two differ only in import lines. The models refer to one copy of each.

## 1. The system

| component | state | operations | what makes it correct |
|---|---|---|---|
| **Services** (`services.py`) | none of their own | `import_transactions`, `apply_import`, `create_portfolio`, `search_assets`, `export_portfolio_data` | a reviewed report is applied once and never lost; a report is checked against the log |
| **Report store** (`import_report_store.py`) | the last import report per portfolio, in a Home Assistant `Store` | save, get, clear | holds the report until it is applied |
| **Writer** (`yaml_portfolio_writer.py`) | `transactions.yaml`, `holdings.yaml`, `.bak`, `.tmp` | `create_portfolio`, `append_transactions` | never a half-written file; append-only; the backup is the previous version |
| **Repository** (`yaml_repository.py`) | none | read the portfolios and transactions | refuses duplicate ids and malformed text |
| **Replay and reconciliation** (`transaction_replay.py`, `reconciliation_calculator.py`) | none; a fold over the log | replay, compare with the declared holdings | totals are sums; averages are prices; "ok" means agreement |
| **Coordinator** (`coordinator.py`, `update_logic.py`) | the last fetched data, `last_update_success`, repair issues | refresh (interval or request) | issues follow the data; it recovers from failures |
| **Config entries** (`__init__.py`, `config_flow.py`) | per entry its data, options, unique id and state; the coordinators in `hass.data`; the registered services | set up, unload, reload, remove; user, guided, reconfigure and options flows | one entry per path; a coordinator is what its entry says; the services are there while they can work; no orphaned issue or files |
| **Snapshots** (`snapshot_policy.py`, `store_snapshot_repository.py`) | per portfolio, the snapshots in a `Store` | decide, load, append | one per calendar date, none lost |
| **Importers** (`generic_csv_importer.py`, `ibkr_flex_query_importer.py`, `id_generation.py`, `duplicate_detection.py`, `report.py`) | none | parse, derive ids, detect duplicates, build the report | every row is imported, a duplicate or rejected; a second import is empty |
| **Returns** (`period_returns.py`, `xirr.py`, TWR, MWR, drawdown and volatility calculators) | none | returns, drawdown, volatility | every flow in exactly one period; chaining; a rate that is reported is a root |
| **Summary calculators** (portfolio, allocation, performance, dividends, concentration, transactions) | none | aggregate positions and the log | parts add up to the whole; what is approximated is listed |
| **Yahoo session** (`yahoo_auth.py`) | the cookies of the shared session, a crumb per fetcher | fetch, authenticate, retry once on 401 | a stale crumb is replaced; a fetch is denied only if another disturbed it |
| **Providers** (`yahoo_finance*.py`) | none | quotes, rates, asset search | what an answer leaves out is left out or listed |
| **Sensors, diagnostics** | none | project the coordinator's data | all of one reading of the portfolio; available only when there is data |
| **Export** (`export_portfolio_data`), **benchmark** (`scripts/benchmark.py`) | none | a bundle for backup; timings | not modelled, see section 5 |

How they interact. A service call finds the coordinator of its portfolio in
`hass.data`, reads or writes through the report store and (in an executor
thread) the writer, and asks the coordinator for a refresh, which a debouncer
may delay or drop. A refresh reads the files, asks the providers over the Yahoo
session, reads the snapshots, runs the calculators (which replay the log),
appends a snapshot when one is due, reads the pending report and settles the
repair issues. Loading an entry makes a coordinator; unloading it drops it.
Everything but the executor threads runs in one event loop, so what interleaves
is what happens between two awaits, and file operations of two threads.

What is hard about it: calls and refreshes that overlap at awaits, cached data
that is stale when it is used, two stores (log and report) that change one after
the other with a crash in between, file writes that overlap or are cut off,
refreshes that fail or outlive their coordinator, and logs whose order or
content nobody meant. The list is under "hazards" in `PROJECT.json`, each with its line.

## 2. The modules

### ImportPipeline, an implementation of ReviewedImport

`ImportPipeline.tla` is one portfolio: the log (`log`, a bag of rows), the
pending report (`store`), the coordinator (`data`, `lastOk`, `refresh`,
`timer`) and, per service call, where it waits and what it holds (`pc`, `held`).
`ImportStart`, `ImportBuild`, `ImportSave` are `_async_import_transactions`
from await to await; `ApplyStart`, `ApplyLoad`, `ApplyAppend`/`ApplyWriteFails`,
`ApplyClear` are `_async_apply_import`, which ends in
`coordinator.async_request_refresh()`. `RequestRefresh`, `TimerExpires`,
`IntervalElapses`, `RefreshSucceeds`, `RefreshFails` are the coordinator and
Home Assistant's debouncer (external, modelled from how `services.py` and
`coordinator.py` use them: immediate first call, a cooldown, a request in the
cooldown remembered, a request while a refresh is in flight dropped). `Restart`
may come anywhere. A row is a value with an id; `Alike` says which rows the
heuristic takes for one trade. The history variables `applied`, `blame`, `dropped`
and `latest` record what the program does not remember, so that the properties
can say what they assume.

The report store is Home Assistant's, and it fails in two ways. A load raises
(`ImportSaveRaises`, `ApplyLoadRaises`, `ApplyClearRaises`), and with it the
service, in the last case after the rows were written and before a refresh was
asked for. A save that does not reach the disk is logged and no more
(`ImportSaveLost`, `ApplyClearLost`), and the service goes on as if it had: an
older report, or one that was applied, is the pending one. Both are the hazard
`"store"` of the properties.

`ReviewedImport.tla` is what `docs/adr/0017` means by review-then-apply: `Review`
puts a report aside, `Apply` adds all of the pending one to the log, once, and
nothing else changes the log. The refinement is `ImplementsReview`, with
`pending <- Pending` and `done <- Done`. The log and the store change one after
the other, so the map has a report pend until its rows are in the log and not
until the store is cleared. It holds up to the first of three hazards, each of
which breaks it: overlapping calls, a store that fails, a restart in the middle
of an apply. What holds past all three is `SecondWriteIsNoticed`: rows that are
written again repeat their ids, and no refresh reads the log from then on.

### YamlPortfolioWriter, an implementation of PortfolioFile

`PortfolioFile.tla` is what `PortfolioWriter` (`writer_base.py`) promises of one
file: created once, then extended at its end, by all of a call's entries or
none. `YamlPortfolioWriter.tla` is the code, one action per file operation: read,
back up (open and truncate, write), write the temporary file, `os.replace`.
Names lead to inodes and an open file stays with its inode, as on POSIX. Each
operation may raise an `OSError`, and the process may die between any two, and in
the middle of a write. `MayOverlap` says whether two calls may run at once: the
code has no lock. The refinement is `ImplementsPortfolioFile`, with the map
`exists <- Exists("target")`, `entries <- EntriesIn("target")`.

### TransactionReplay: the log as the calculators see it

`replay_transactions`, one transaction a step in the stable order of the dates,
then `ReconciliationCalculator` against what the user declares, then the log
grows and it starts again. What is declared is a list of holdings, of which several
may be of one symbol, in several accounts; the calculator keeps the last one of each
symbol (`DeclaredHolding`), and `DeclaredTotal` is what all of them come to. Shares, prices and amounts are whole numbers, the
average an exact fraction (the code rounds floats to six digits; rounding is
not modelled). An average that has become negative makes `Holding` raise, which
is the `"raised"` status.

### BrokerImport: what becomes of the rows of an export

`BrokerImport.tla` opens an export (`Open`), reads it row by row (`ReadRow`: the
loops of both importers, trades before cash in IBKR's), makes the report
(`Report`) and appends what it proposes (`Apply`) to the log (`entries`). A row is
a record of fields that are there, absent (`Absent`), not readable (`Bad`) or `NaN`, which `float`
takes and no comparison refuses; `Valid` is `Transaction.__post_init__`,
`GeneratedId` the derived id, in which neither price nor notes have a part,
`IsDuplicateOf` the two checks of `detect_duplicates`, `Proposed` the filter of
`build_import_report`, which goes by id. That a NaN does not come back from the
report store (`Restorable`) is Home Assistant's JSON, which is external. Imports
here follow one another and are compared with the log as it is; overlapping and
stale ones belong to `ImportPipeline`, whose rows and ids these are.

`EveryRowIsAnswered` has the one exception that the code has: a row that shares
the id of a duplicate without being one is filtered out with it and counted
nowhere, though `report.py:129-130` says that the counts always add up;
`CountsAddUp`, which is proved, names the condition under which they do.

### PeriodReturns: what a refresh makes of the snapshots

`PeriodReturns.tla` follows one refresh through its calculators: `Begin` takes
the boundaries (the stored snapshots up to now, and the live value), `TakeFlow`
and `ClosePeriod` are the two loops of `compute_period_returns`, the second also
multiplying the returns as `TwrCalculator` does, `NotComputable` its early return,
`Compound` the annualizing, `Fall` and `FallDone` the loop and the verdict of
`DrawdownCalculator`, `Store` the snapshot of the day, `Fail` a refresh that a
calculator's exception ends. `Worth` is `build_positions` and the total: a
missing quote counts as 0. Between refreshes the clock moves, also backwards,
and the log grows by entries of any date. Values are whole numbers and returns
exact fractions; the rounding of the drawdown to four decimals is modelled
(`Rounded`), because the code compares the rounded number with an exact one.
The power `growth ** (365 / days)` is modelled by when it raises: a float holds
up to about 7 per day of growth (2 to the 1024/365), taken as 7. Volatility uses
the same periods and has no model of its own.

`RecoveryOfTheValueLine` has the exception that the code has: at its very trough
a value whose fall has no four decimals may be called recovering, and one that is
above the trough by less than half of the last decimal can be in drawdown still.
The instance reaches only the first of the two; the second came up in the proof,
which fails for a property without it.

### PortfolioCoordinator: the life of an entry

One config entry: `SetUp`, `FirstRefresh`, `UnloadStart`, `UnloadFails`,
`UnloadDone`, `Leave` (disable or remove), and the refreshes of each of the
coordinators its loads have made (`tick`), from await to await: files and network
(`Begin`, `FetchFails`, `Fetched`), snapshots, calculators and daily policy
(`SnapshotsRead`), the two halves of an append (`AppendLoaded`, `AppendSaved`),
the report and the issues (`ReportFails`, `ReportRead`). Files are told apart by
what a refresh makes of them: missing, malformed, oversold (the replay raises),
discrepant, sound. Home Assistant's part is external: a refresh of the interval
is cancelled when the entry is unloaded, one that a service call began runs in
the task of that call and goes on (`outlived`); an entry that is not loaded is
not unloaded before it is removed (`skipped`).

### SnapshotSeries, and its two implementations

The daily policy occurs in two models, once with its awaits and failures and once
with the values that returns are made of. `SnapshotSeries.tla` is what both
promise: a history that grows by one snapshot at a time, of a day that has come
and has none. `PortfolioCoordinator!ImplementsSeries` has it until a refresh has
outlived its coordinator, with `series <- snapshots`;
`PeriodReturns!ImplementsSeries` has it always, also for a clock that is set
back, with a day's share of the stored snapshots for its count.

### PortfolioEntries: which entry tracks which folder

Several entries and the dialogs that make, move and tune them. A path is what a
user types, and `FolderOf` the folder it leads to; the unique id of an entry is the
path, so that a folder typed in two ways has two. `UserStep` is the dialog for a
folder that exists. `UserStepToGuided`, `MakeFolder`, `GuidedWrite` and `GuidedFinish`
are the guided one, which writes the portfolio first, folder and file, and looks at
the unique id afterwards, as `_async_finish_guided_setup` does; a write that fails
leaves the folder. The forms of the guided dialog and the awaited write are one step,
`"guided"`. `Close` is the user closing the dialog: before the write that is its end;
during it, and until Home Assistant takes its result, the coroutine goes on
(`closed`), and what it returns is dropped or not, which depends on Home Assistant's
version and is left open. `Restart` may come anywhere, also between the write and the
entry. `Reconfigure` changes the data and leaves unique id and options, `Options`
changes the options and reloads through the update listener, if there is one yet.
`SetUpStart` and `SetUpEnd` are `async_setup_entry` around its first refresh: a
coordinator takes folder and interval from the entry and keeps them. `Unload` and
`Remove` follow `async_unload_entry`, with platforms that refuse to be unloaded.
`CreateStart`, `Import` and `ApplyStart` find their coordinator among those in
`hass.data`, by the path of the entry or by the portfolio it shows; `CreateEnd` and
`ApplyEnd` write, after an await, to the folder of that coordinator, and make it if it
is gone. What a refresh, an import or an apply does inside is `PortfolioCoordinator`'s
and `ImportPipeline`'s matter; here each is a step between changes of the
configuration. The histories `moved`, `missed` and `entered` record what the user did.

### MarketRefresh, over YahooSession, Valuation and Sensors

`YahooSession.tla` is `yahoo_auth.py`, one request a step: `Ask` (a cached crumb or
an authentication), `Cookie` and `Crumb` (`_authenticate`), `Request`, and
`Retry` after a 401. The cookies are in the one session of Home Assistant, a crumb
is a fetcher's own and goes with the cookies it was issued for; `Expire` is the
server. `Valuation.tla` holds, as operators, what the providers make of an answer,
`PortfolioEngine.build_positions`, the calculators that aggregate positions and
log, and the asset search's choice of candidates. `Sensors.tla` is every entity's
value, unit and attributes (`sensor.py`, `sensor_mapping.py`) and the diagnostics, as
functions of the coordinator's data.

`MarketRefresh.tla` composes them: `Begin`, `TakeQuotes`, `TakeRates` or
`NeedsNoRates`, and `FetchFailed` are a refresh from await to await, `StartSearch`
and `EndSearch` the asset search beside it with a fetcher of its own over the same
cookies, and `Edit` changes the portfolio at any time. Each `Finish` computes from
what was read, and either becomes the coordinator's data or fails on the report.

Every total is `SumOn` of `Sums.tla`, Python's `sum` over a finite collection,
here as in `PeriodReturns` and `TransactionReplay`.

What is assumed: a portfolio is one that the constructors of `Holding`,
`Transaction` and `Portfolio` accept (`ValidPortfolio`). Yahoo answers with
numbers, and with no price of 0 where there is a price (`ValidAnswer`; Yahoo is
external, and an answer without a price is another case, `NoPrice`, which the code
takes for 0). Later days are in no earlier years (`CalendarAssumption`). An entry of
the log keeps the UTC offset it was written with, and the calculator takes its year
there (`LocalYear`, with `Offset` between UTC and the entries'): that may be another
year than the one of its instant.

### MoneyWeightedReturn: the search for a rate

`MwrCalculator` up to the solver (`Calculate`), then `xirr`: `NewtonConverges`,
`NewtonMoves`, `NewtonRaises`, `NewtonGivesUp` are the ends of one iteration of
`_newton`; `Bracket`, `Bisect` and `BisectConverges` are `_bisection`. The
growth `1 + rate` is a whole number of `Unit`s, which stands for the grid of the
floats; net present values are exact over that grid, and a Newton step is rounded
up or down to it. `Representable` says which powers a float can hold: any other
growth raises, as `**` does. Instants of one day are discounted alike, because
`timedelta.days` is.

## 3. What the runs show

| run | states | question |
|---|---|---|
| `ImportPipeline` | 522 544 | Over any three calls, with stores that fail: an unreadable log is the work of a stale report or one that repeats an id; a report is applied once, and only if it is the one reviewed last, and the whole is review-then-apply, unless calls overlap, the store fails or a restart falls between append and clear; a report that is written again all the same makes the log unreadable and does not go unnoticed; the cached list differs from the log only with a reason; a pending report is not lost; the list catches up for good. |
| `YamlPortfolioWriter` | 401 202 | Calls that do not overlap, with any OS error and two crashes: never half-written, the outcome a caller sees is what the file holds, and it implements `PortfolioFile`. |
| `TransactionReplay` | 260 178 | Logs of up to four transactions against holdings in one account or two: averages lie within the prices paid, only an oversold log raises, "ok" means agreement, with all that is declared or, of a symbol in several accounts, with the last. |
| `BrokerImport` | 47 078 | Four imports out of eleven exports: each row is answered for, no trade is entered twice from two imports, what was applied is not proposed again, and the log stays readable unless an export repeats an id. |
| `PeriodReturns` | 2 050 996 | Refreshes over three days: each flow in one period, a return free of flows, the ratio of the values without them, the deepest of all falls, the right verdict on it, and snapshots that are the coordinator's history. |
| `PortfolioCoordinator` | 3 618 855 | Two loads and one midnight: a history of snapshots that grows by one a day and loses none, and issues that match the served data. |
| `IssuesSettle` | 89 185 | The issues of an entry that stays loaded over files that stay as they are become right again and again. |
| `PortfolioEntries` | 1 353 964 | Two entries over two folders and three paths, with restarts: services exactly while a coordinator is there; one entry per folder unless one was moved or the folder was typed in two ways; a coordinator is what its entry says, and its interval the last one entered, unless a reload is due or was never asked for; calls write to the folder that was meant; a folder that guided set-up wrote to is some entry's unless the dialog was closed or cut off. |
| `MarketRefresh` | 496 128 | Refreshes and searches over one session: a fetch is denied only if the cookies changed or expired under it; what is shown is of one reading; what counts at par is listed; the rolling year covers the calendar year but for the last day of a leap year and for a dividend that is of this year in its own UTC offset only. |
| `MoneyWeightedReturn` | 112 667 | Every history of up to three flows: the bracket keeps its change of sign, a rate that is reported is a root unless the flows of the first day cancel, no rate means no bracket, and the solver raises only far out. |
| `AppendOnly` | violated | Two overlapping appends lose the rows of one. |
| `TwrDoesNotRaise` | violated | A snapshot taken while a quote is missing, and a refresh a day later with all of them: annualizing the growth overflows, and the refresh fails. |

The violated runs each check one sentence of a doc or a comment, quoted in
`PROJECT.json` under "findings". Other places where code and words differ are
part of the passing runs, as named exceptions of their properties:

* `docs/adr/0017` (line 28) has a second apply of one report fail; two that overlap both
  append (`"overlap"`, an exception of `ImplementsReview` and `AppliedAtMostOnce`).
* Imports are compared with the last refresh's list and not with the log
  ("stale" in `UnreadableOnlyIfBlamed`).
* `transaction_replay.py:101-109` says that an oversold log does not raise and that
  the reconciliation can surface it. A BUY after it can make the average negative,
  which `Holding` refuses (`RaisesOnlyIfOversold`), and the reconciliation does not
  look at the warnings: such a log is "ok" if what is declared happens to be what
  the clamped totals come to (`OkMeansAgreement`).
* `reconciliation_calculator.py:41` keys what is declared by symbol: of a symbol in
  several accounts it compares the last holding with the whole log, and "ok" means
  that those two agree (the exception of `OkMeansAgreement`).
* `config_flow.py:95-99` has each entry track a different folder and refuses the exact
  same path. It is the path that is compared: a folder that is typed in two ways gets
  two entries (`entry[e].path # entry[f].path` in `SameFolderOnlyWithReason`).
* `dividend_calculator.py:42-45` takes the rolling year by the instant and the calendar
  year by the date in the entry's own offset, so that a dividend may be of this calendar
  year and not of the rolling one (an exception of `RollingCoversTheYear`, beside the
  last day of a leap year).
* A guided dialog that is closed, or cut off by a stop, while it writes may leave a
  folder to nobody (`closed` and `Restart` in `GuidedIsTracked`).
* The comment above `REPAIR_ISSUE_KEYS` (`coordinator.py:55-57`) says that a removed entry leaves no issue;
  one removed while it waits for a retry does (`skipped` in `UnloadedIsClean`).
* `xirr.py:25-27` names a cap on Newton's steps; there is none, and a step that runs
  away raises where the docstring has no rate (`RaisesOnlyFarOut`).
* `mwr_calculator.py:41` means to refuse flows without a spread of time; two
  instants of one day pass, and flows that cancel within it make the first guess
  the rate (`RootUnlessFirstDayCancels`).
* A reconfiguration keeps the unique id of the old path, so that the check of
  `config_flow.py:281-282` does not keep two entries apart (`moved` in
  `SameFolderOnlyWithReason`).

Some properties are stated and proved and in no run, most because a property of a
run says more: `AppliedAtMostOnce` (`ImplementsReview`), `OneSnapshotPerDay` and
`SnapshotsNeverLost` (`ImplementsSeries`), `TotalsAreSums` (`OkMeansAgreement`); besides
`SharesOfTheWhole`, which is the arithmetic of one computation,
them the type invariants, `BackupIsPrevious`, `UnloadedIsClean`, `CountsAddUp` and
`ComputableIffPositive`.

Some hazards have no property that catches them, because the code meets them and
nothing it says forbids what comes of it; the properties near them name them as
exceptions, and the models have the behaviours:

* An import that saves its report while an apply awaits its append loses it to the
  clear of that apply (`"overlap"`).
* A refresh that outlived its coordinator appends to the snapshots as it has read
  them, and makes an issue for an entry that is gone (`outlived`); an entry removed
  while it waits for a retry leaves its issue (`skipped`).
* Two overlapping `create_portfolio` calls of one id both create it: the writer is
  checked and proved for calls that do not overlap, and `AppendOnly` shows what
  overlapping does to an append.
* A gain over a snapshot that was taken while a quote was missing is a ratio of stored
  values like any other; `TwrDoesNotRaise` has only what annualizing makes of it.
* A second write of a report (overlap, a stop before the clear, a clear that fails) is
  not prevented; `SecondWriteIsNoticed` says what shows it.

### Bounds, and why they are enough

* `ImportPipeline`: three calls, because the races between import and apply
  need two and a third shows what follows; three rows and two ids give a row
  that repeats, a foreign row with a known id and a heuristic match; two
  exports, the second of which holds the trade of the first in another form and
  twice; one restart. Calls are numbered in the order in which they are made,
  which says nothing of the order in which they proceed. The log starts as one of
  `FirstLogs`: empty, with a row of the first export as it stands, or with that row
  as the other broker has it, under an id of another row; the theorems hold for any.
* `YamlPortfolioWriter`: three calls with batches of one and two entries and two
  crashes: a crash, a call that finds its leftovers and a crash of that.
  `AppendOnly` needs two overlapping calls and no crash.
* `TransactionReplay`: nine transactions over two symbols and two dates, logs of
  up to four: open, oversell, reopen, and one more. The violations need three. What is
  declared is one of six lists: nothing, one holding, two symbols, and one symbol in two
  accounts, of which the last, the first or both may be what the log adds up to.
* `BrokerImport`: exports of one to four rows that between them hold equal rows
  without an id, rows that differ in their price only, rows of one id, each way
  to be refused, a NaN, a surplus field, and one purchase as CSV, as IBKR and as
  the user wrote it, within the tolerance; four imports, so that an overlap is
  imported, applied, and imported in two more ways.
* `PeriodReturns`: half-days 0 to 4, so that three snapshots, a live value and
  both halves of a day occur; quotes that make the portfolio worth 7, 4, 1 and 0;
  flows of four kinds that match these differences and one that exceeds them,
  and an entry that is no flow; two of them in any order.
* `PortfolioCoordinator`: two loads, so that a refresh of the first coordinator
  meets the second, and two days, so that midnight falls between any two steps.
  `IssuesSettle` needs only one load that lasts, and no midnight.

* `PortfolioEntries`: two folders with a portfolio of one name, one of them typed in
  two ways; two entries that may be made and removed, two intervals, and two changes
  of the first entry (`MaxEdits`), which is also the one imports go to (`Used`). A
  conflict needs two entries and one of them moved or typed in another way; a stale
  coordinator needs one change and a shadowed interval two. One folder comes and goes,
  empty or not, the other is there with its portfolio throughout (`Lasting`): a moved
  entry needs a folder to move to, and what a dialog or a call makes of a folder is
  seen on the first. One guided dialog or one service call is under way at a time
  (`MaxBusy`): they share nothing but the folders, which other actions change at any
  time as well. Spellings of one folder and intervals are interchangeable
  (symmetry); folders are not, nor are entries. The theorems hold without these bounds.
* `MarketRefresh`: a portfolio with a foreign holding, cash and dividends, one with
  a symbol in two accounts and no cash, one of cash alone; answers with every
  price, with a null, and with one symbol missing beside an item without a price; two visits to
  the server, so that cookies are replaced under a fetch that retries; years of
  three days with one of four, three days for the rolling year, and one portfolio with
  dividends around the turn of a year in an offset ahead of UTC.
* `MoneyWeightedReturn`: growths from 1 to 32 quarters, flows at two hours of the
  first day and two later days in the amounts -3, -1 and 1, values 0, 1 and 5:
  single, double and no roots, brackets with and without a sign change, Newton
  below the floor and beyond the top. Powers up to 10^8 stand for the range of a
  float; eight Newton steps are enough to run out of them.

### Fairness

`FairSpec` of `ImportPipeline`: as long as calls can go on one of them does, whether
or not its step succeeds; a coordinator is set up and then polls, and cooldowns end
(Home Assistant timers); if a refresh is in flight again and again one of them
succeeds (strong fairness: the network and the services are not down for ever).
`FairSpec` of `PortfolioCoordinator`: the same
for the interval and for every stage of a refresh, with strong fairness for the
answers of the network and the stores. `DataUpdateCoordinator` schedules the next
refresh after each one whatever its end, which is what weak fairness of the
interval says. Nothing is assumed of users, services or restarts.

`CHECK_DEADLOCK FALSE` is set where the system really stops: when every writer
has finished, when the log is as long as the bound allows, when the last
import is over, when the solver has its result, and when a guided dialog would
make one more entry than the bound allows.

## 4. What is proved

For every value of the constants that satisfies the named assumptions:

| module | theorem | argument |
|---|---|---|
| `Import_proofs`, of `ImportPipeline` | `TypeCorrect` | `TypeOK` is inductive: a stage carries what its next step needs. |
| | `SecondWriteShows` | `LiveInv`: there is one report of a name, pending or carried (`StepLive`), and the rows of one that was applied are in the log, to which nothing but rows is ever added |
| | `UnreadableLogIsBlamed` | `ReadableInv`: every report, pending or carried, is *sound*, it holds no id of the list it was compared with (`ImportedIsNew`), so rows added to that very list leave the log readable (`AddNewRows`). |
| | `StaleHasReason` | `RefreshInv`: while a refresh is in flight no cooldown runs, and the list it has read is the log's unless a reason outlives it |
| | `ReportAppliedOnce`, `PendingReportSurvives` | `SerialInv`: reports are named by the call that saved them (`FreshIds`); without overlaps the report an apply carries is the pending one (`CarriesPending`), which has not been applied unless it is about to be cleared (`Once`) |
| | `WhatIsAppliedWasReviewed` | `LatestInv`: without overlaps and while the store keeps nothing it was to replace (`OthersKeepStore`), the pending report, and the one an apply carries, is that of the import that ended last |
| | `ImportImplementsReview` | `ReviewNext`: on `SerialInv`, the append is an `Apply` (the report it carries is the pending one, `Clearing`), a save a `Review` of a report not yet done (`Unseen`), and the clear a stutter, since the map has the report gone already; `BlameGrows` has the condition on the state after a step hold of the one before |
| | `DuplicateChecksAgree` | of both modules at once: on a bag of rows that are transactions, what the pipeline's `Imported` lets through is what `Proposed` of `BrokerImport` does |
| `YamlPortfolioWriter_proofs` | `WriterTypeCorrect` | inductive, overlapping calls included |
| | `WriterNeverHalfWritten`, `WriterBackupIsPrevious` | `SerialInv`: at most one call runs, the temporary file is its own until the rename, and each stage finds what the ones before prepared. |
| | `WriterImplementsFile` | every `os.replace` is a `Create` or an `Add`, every other step a stutter |
| | `WriterOutcomeMatchesFile` | the same two lemmas, as an action property |
| `TransactionReplay_proofs` | `ReplayTypeCorrect` | inductive |
| | `AverageIsWithinPrices`, `OnlyOversoldRaises` | `PriceInv`: a weighted mean lies between its parts (`MeanAbove`, `MeanBelow`), and a total that was never short stays positive |
| | `ReplayTotalsAreSums`, `OkIsAgreement` | `SumInv`: each transaction replayed adds its own share to the running totals, since `left` loses one element (`SumAdd`, `SumEqual`); "ok" is then read off the discrepancies |
| `Import_proofs`, of `BrokerImport` | `BrokerTypeCorrect`, `RowsAreAnswered`, `CountsAddUpAlways` | `RowsInv`: the rows read so far fall into three sets, each with its reason |
| | `NoTradeTwice`, `LogStaysReadable`, `AppliedStaysKnown` | `LogInv`: what is proposed matches nothing in the log (`ProposedIsNew`), entries of a later import have greater keys (`KeyInv`), and what an applied export held stays matched as the log grows (`AppliedInv`) |
| `Returns_proofs`, of `PeriodReturns` | `TypeCorrect` | inductive; the least element that a sorted pass takes exists because < is well founded (`Least`) |
| | `EachFlowFallsOnce` | `Merge`: the periods done lie in line and cover all between the first boundary and here, and what is left or taken are the flows after it |
| | `ComputableExactlyIfPositive`, `TwrTelescopes` | `RInv`: boundaries are apart because days are, periods done began with something, and the product so far is that of the values |
| | `MaximumDrawdown` | `DeepestOfSeen`: a fall from a higher peak is deeper (`DeeperFromHigher`), and not being less is transitive for fractions (`NotLessTransitive`) |
| | `FlowsEarnNothing` | `NInv`: what a period has injected is the sum of the flows taken (`InjectionIsSum`), so that each period that earns nothing multiplies by one |
| | `RecoveryIsRight` | `Recovered`: at the end of the pass the peak is the top of all values, and the rounding of a percentage is within half a unit of the last decimal |
| | `ReturnsImplementSeries` | a refresh stores a snapshot only if its day has none, so the count of that day goes from nothing to one and no other changes (`StoreIsSeries`) |
| `PortfolioCoordinator_proofs` | `TypeCorrect` | inductive, with the agreement of entry and coordinator |
| | `AtMostOneSnapshotPerDay`, `NoSnapshotLost`, `IssuesAreThoseOfTheData`, `UnloadLeavesNoIssue` | `IInv`: until a refresh has outlived its coordinator, the only one in flight is that of the entry's own (`Alone`), and what it decided and loaded is still true when it saves (`Decided`). |
| | `CoordinatorImplementsSeries` | `IInv` with `NotAhead`: no refresh has decided on a day that is still to come; so the one save that changes the store adds one snapshot of a day that had none (`NextSeries`) |
| `PortfolioEntries_proofs` | `TypeCorrect`, `ServicesMatchCoordinators` | inductive, with what each state of an entry needs (`Equipped`) and which are in `hass.data` (`LiveMatchesState`) |
| | `OneEntryPerFolder`, `GuidedFolderIsTracked` | `IdsOfEntries`: unique ids differ, and an entry that was not moved tracks the path its id is; `GuidedPath`, and of the steps that take a dialog out of `"written"` all but a finish are closed ones or a restart |
| | `CoordinatorIsCurrent`, `IntervalInForce` | `Current` also of entries in set-up, and `EnteredLast`: what the entry calls for is what was entered |
| | `CallsWriteWhereMeant` | `Reviewed`: a pending report was compared with the folder its entry tracks, unless it was moved |
| `Returns_proofs`, of `MoneyWeightedReturn` | `BisectionBrackets` | `Bracketed`: signs differ at the ends and the bracket is no wider than `Widths` says after so many halvings |
| | `NotComputableIsNoFailure` | `Fruitless`: the search ends in it only from a bracket of one sign, since the bisection never runs out of iterations |
| | `OnlyFarOutRaises` | `Running`: the span of the discounting is a number (`YearsType`, `GreatestOf`), and of all growths in the bracket the lowest is the first to have no power (`LowRaisesFirst`, from `PowersAssumption`) |
| | `FoundIsNearRoot` | `OkIsNearRoot`: Newton ends where the NPV vanishes to within its precision, a bracket of one step has its change of sign next to its middle, and an end of the bracket is taken at once only where the NPV is 0 |
| | `SolverTypeCorrect` | `Running` and `Ranges` are inductive |
| `MarketRefresh_proofs` | `DeniedIfDisturbed` | `Undisturbed`: until a disturbance the cookies a fetcher holds are alive and the crumb it took after a 401 goes with them; every action of `MarketRefresh` is a `SessionStep` or leaves the session alone |
| | `TypeCorrect` | `Stages`, `Flags`, `Fetching`, `Listed` are inductive one by one; `TypeParts` puts them together |
| | `ParIsFlagged`, `ShownIsOneReading` | `DataInv`: what is shown is the `Result` of a portfolio, of quotes and of rates that were valid answers, at some time, and the portfolio is `latest` while the last refresh is a success |
| | `RollingIsWider` | the same, with `SumMonotone` over the sets of dividends |
| | `SharesAddUp` | the same: groups part the positions (`SumByGroups`) and are told apart by their ranks (`GroupsAreRanked`), ranks are a permutation (`LargerIsAnOrder`), gains are in a linear preorder (`BetterIsAnOrder`) that has a best and a worst (`FirstByBoth`), and the square of a sum is at most as many times the sum of squares (`SumOfSquares`) |

The theorems of the writer other than its types assume `~MayOverlap`: without
it they are false, as the run `AppendOnly` shows. The invariants need their
strengthenings because the properties speak of the end of an operation and the
induction of its middle.

The sums rest on `Sums_proofs`. An induction over data cannot be cited from the
library, whose theorem takes an operator as its parameter; `SubsetInduction`
states it with a set of the subsets that have the property, from the well-founded
inclusion of finite sets. From it come a sum's value at one element more or less
(`SumRecursion`, `SumAdd`, `SumRemove`), of parts (`SumSplit`, `SumByGroups`),
and what it bounds (`SumMonotone`, `SumTerm`, `SumOfSquares`).

Only model-checked:

* everything under fairness (`CatchesUp`, `IssuesSettle`), which is out of the
  prover's reach;
* `RootUnlessFirstDayCancels`, which is not true of every constant: a history may
  come as near to 0 as the tolerance without a change of sign anywhere.
  `FoundIsNearRoot` is what holds for all of them, and the run shows that on its
  instance nothing but a cancelling first day makes the difference;
* the two properties that a run shows violated, and that stay false.

## 5. What is not modelled, and what is left to do

Not modelled:

* `export_portfolio_data`: it reads three stores and changes none. That its parts
  may be of different moments is listed as a hazard.
* The volatility: a standard deviation, with a square root of daily returns. Its
  periods are those of `PeriodReturns`, its status and figure pass through `Sensors`.
* The fields of a holding or a transaction that no property tells apart, and the
  checks of the forms of the config flow that lead back to the same form.
* `scripts/benchmark.py`, which is not part of the running system.
* The text of YAML, CSV and JSON, dashboards, translations, formatting, HTTP, and
  Home Assistant itself beyond what the code relies on.

What remains beyond that: a bound on how far from a root a rate can be
when the present value hardly changes over a bracket (`FoundIsNearRoot` says what
holds of the value), and the liveness properties, which stay with TLC.
