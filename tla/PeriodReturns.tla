---------------------------- MODULE PeriodReturns ----------------------------
(***************************************************************************)
(* What a refresh makes of the stored snapshots: the returns of the periods *)
(* between them (compute_period_returns), their time-weighted product       *)
(* (TwrCalculator), the drawdown, and the snapshot it adds (update_logic).  *)
(* The calculators run without an await, in the order of their registry;   *)
(* between refreshes the clock is moved, the log grows (also by entries    *)
(* with dates long past), and quotes come and go.                          *)
(*                                                                         *)
(* Values are whole numbers, returns and drawdowns exact fractions; a time *)
(* is counted in parts of a day, PerDay to the day.                        *)
(***************************************************************************)
EXTENDS Integers, Sequences, Sums

CONSTANTS Symbols,       \* the holdings, with
          Shares,        \* the shares of each
          Cash,
          Quotes,        \* what the provider may answer: a price or None each
          Transactions,  \* what may be recorded in the log
          MaxLog,        \* bound on the length of the log
          MaxTime,       \* bound on the clock
          PerDay,
          None

----------------------------------------------------------------------------
(* Values and flows *)

\* build_positions and PortfolioCalculator: a symbol without a quote is worth
\* nothing, and the total does not show it.
Worth(q) == Cash + SumOn([s \in Symbols |-> IF q[s] = None THEN 0 ELSE q[s] * Shares[s]], Symbols)

\* EXTERNAL_FLOW_SIGN: what crosses the boundary, seen from the investor.
FlowSign == [deposit |-> -1, transfer_in |-> -1, withdrawal |-> 1, transfer_out |-> 1]

\* flow_magnitude: a transfer moves shares, every other entry its amount.
FlowMagnitude(t) == IF t.type \in {"transfer_in", "transfer_out"}
                    THEN t.shares * t.price ELSE t.amount

External(t) == t.type \in DOMAIN FlowSign
SignedFlow(t) == FlowSign[t.type] * FlowMagnitude(t)

Times == 0 .. MaxTime
DayOf(time) == time \div PerDay
Points == [at : Times, value : Nat]

ASSUME BoundsAssumption == MaxLog \in Nat /\ MaxTime \in Nat /\ PerDay \in Nat \ {0}
ASSUME NoneAssumption   ==
  None \notin {"ok", "not_computable", "at_peak", "recovering", "in_drawdown"}
ASSUME WorthAssumption  == \A q \in Quotes : Worth(q) \in Nat
ASSUME TransactionsAssumption ==
  \A t \in Transactions : t.at \in Times /\ (External(t) => FlowMagnitude(t) \in Int)

----------------------------------------------------------------------------
VARIABLES now,
          log,        \* transactions.yaml
          snapshots   \* the stored boundaries, [at, value]

\* A refresh: how far it is, what the portfolio is worth to it, its
\* boundaries, the one it has reached, the flows it has not yet consumed,
VARIABLES stage, value, points, here, left,
          taken, injection,  \* the flows of the period at hand and their sum
          periods, growth,   \* the periods done and the product of their returns
          twr, peak, deepest, recovery

clock == <<now, log, snapshots>>
pass  == <<here, left, taken, injection, periods, growth>>
fall  == <<peak, deepest, recovery>>
vars  == <<clock, stage, value, points, pass, twr, fall>>

One  == [n |-> 1, d |-> 1]
Zero == [n |-> 0, d |-> 1]
Fractions == [n : Int, d : Nat \ {0}]
Stages == {"idle", "link", "fall", "store", "raised"}
Statuses == {None, "no_data", "insufficient_data", "not_computable", "ok"}
Recoveries == {None, "at_peak", "recovering", "in_drawdown"}

Earliest(ps) == CHOOSE p \in ps : \A q \in ps : p.at <= q.at
After(p)     == {q \in points : q.at > p.at}
First        == Earliest(points)
NextPoint      == Earliest(After(here))

Flows == {i \in DOMAIN log : External(log[i])}

NoPoint == [at |-> 0, value |-> 0]

----------------------------------------------------------------------------
(* Between refreshes *)

\* The clock goes on, or is set; also between the calculators and the snapshot.
Tick ==
  /\ stage \in {"idle", "store"}
  /\ now' \in Times \ {now}
  /\ UNCHANGED <<log, snapshots, stage, value, points, pass, twr, fall>>

\* apply_import, or an edit: an entry has the date of what it records.
Enter ==
  /\ stage = "idle" /\ Len(log) < MaxLog
  /\ \E t \in Transactions : log' = Append(log, t)
  /\ UNCHANGED <<now, snapshots, stage, value, points, pass, twr, fall>>

----------------------------------------------------------------------------
(* compute_period_returns and TwrCalculator *)

\* The snapshots up to now, and the live value if it is later than all.
Boundaries(v) ==
  LET known == {s \in snapshots : s.at <= now}
  IN  IF known # {} /\ (\A s \in known : s.at < now)
      THEN known \union {[at |-> now, value |-> v]} ELSE known

\* Every flow, also those that the first boundary's value holds already.
LeftAll(t0) == {i \in Flows : log[i].at >= 0}

\* The flows that are not skipped: those later than the first boundary.
Left(t0) == {i \in Flows : log[i].at > t0}

Begin(v) ==
  LET ps == Boundaries(v)
      p0 == Earliest(ps)
  IN  /\ value' = v /\ points' = ps
      /\ IF ps = {}
         THEN /\ stage' = "store" /\ twr' = "no_data"
              /\ UNCHANGED <<here, left, peak>>
         ELSE /\ here' = p0 /\ left' = Left(p0.at) /\ peak' = p0.value
              /\ IF ps = {p0}
                 THEN stage' = "fall" /\ twr' = "insufficient_data"
                 ELSE stage' = "link" /\ twr' = None

Refresh ==
  /\ stage = "idle"
  /\ \E q \in Quotes : Begin(Worth(q))
  /\ UNCHANGED <<clock, taken, injection, periods, growth, deepest, recovery>>

Linking == stage = "link" /\ After(here) # {}

\* A period that begins with nothing has no return, and there is no result.
NotComputable ==
  /\ Linking /\ here.value <= 0
  /\ stage' = "fall" /\ twr' = "not_computable" /\ here' = First
  /\ UNCHANGED <<clock, value, points, left, taken, injection, periods, growth, fall>>

\* The next of the flows in the order of the log.
NextRecorded(i) == i \in left /\ \A j \in left : i <= j

\* The next of the flows sorted by date, the first recorded of one moment.
NextFlow(i) ==
  /\ i \in left
  /\ \A j \in left : \/ log[i].at < log[j].at
                     \/ log[i].at = log[j].at /\ i <= j

\* It is the period's if it is not later than its end.
Falls(i) == NextFlow(i) /\ log[i].at <= NextPoint.at

\* The sign of the investor's side, taken for that of the portfolio.
InjectedUnflipped(t) == SignedFlow(t)

\* What the investor pays, the portfolio receives.
Injected(t) == -SignedFlow(t)

TakeFlow ==
  /\ Linking /\ here.value > 0
  /\ \E i \in left :
       /\ Falls(i)
       /\ left' = left \ {i}
       /\ taken' = taken \union {i}
       /\ injection' = injection + Injected(log[i])
  /\ UNCHANGED <<clock, stage, value, points, here, periods, growth, twr, fall>>

\* 1 + return_fraction.
Return(v0, v1, paid) == [n |-> v1 - paid, d |-> v0]

ClosePeriod ==
  /\ Linking /\ here.value > 0
  /\ ~ \E i \in left : Falls(i)
  /\ periods' = periods \union {[from |-> here, to |-> NextPoint, taken |-> taken]}
  /\ LET r == Return(here.value, NextPoint.value, injection)
     IN  growth' = [n |-> growth.n * r.n, d |-> growth.d * r.d]
  /\ here' = NextPoint /\ taken' = {} /\ injection' = 0
  /\ UNCHANGED <<clock, stage, value, points, left, twr, fall>>

\* growth ** (365 / days) cannot be rounded: an infinity is no result of a
\* power of floats, which raises (2 ** (1024 / 365), the limit for a day, is a
\* little less than 7), and a negative base with a broken exponent is complex.
AnnualizingRaises(days) ==
  /\ days > 0
  /\ \/ growth.n >= growth.d * 7 ^ days
     \/ -growth.n >= growth.d * 7 ^ days
     \/ growth.n < 0 /\ 365 % days # 0

\* All the periods are linked: the product, and the same for a year.
Compound ==
  /\ stage = "link" /\ After(here) = {}
  /\ IF AnnualizingRaises((here.at - First.at) \div PerDay)
     THEN stage' = "raised" /\ UNCHANGED <<here, twr>>
     ELSE stage' = "fall" /\ here' = First /\ twr' = "ok"
  /\ UNCHANGED <<clock, value, points, left, taken, injection, periods, growth, fall>>

----------------------------------------------------------------------------
(* DrawdownCalculator *)

Below(v, top) == [n |-> v - top, d |-> top]
Less(f, g)    == f.n * g.d < g.n * f.d

\* The deepest fall below the first value.
DeeperThanFirst(v, top) ==
  IF First.value > 0 /\ Less(Below(v, First.value), deepest)
  THEN Below(v, First.value) ELSE deepest

Deeper(v, top) ==
  IF top > 0 /\ Less(Below(v, top), deepest) THEN Below(v, top) ELSE deepest

Fall ==
  /\ stage = "fall" /\ After(here) # {}
  /\ LET v   == NextPoint.value
         top == IF v > peak THEN v ELSE peak
     IN  peak' = top /\ deepest' = Deeper(v, top)
  /\ here' = NextPoint
  /\ UNCHANGED <<clock, stage, value, points, left, taken, injection, periods,
                 growth, twr, recovery>>

\* A fraction as a percentage of four decimals, in units of the last.
Rounded(f) == (2000000 * f.n + f.d) \div (2 * f.d)

\* A recovery from any fall that is not total.
RecoveryFromAny == IF peak > 0 /\ here.value > 0 THEN "recovering" ELSE "in_drawdown"

\* The rounded fall from the peak is compared with the exact deepest one.
Recovery ==
  LET current == IF peak > 0 THEN Rounded(Below(here.value, peak)) ELSE 0
  IN  IF current >= -100 THEN "at_peak"
      ELSE IF current * deepest.d > deepest.n * 1000000 THEN "recovering"
      ELSE "in_drawdown"

FallDone ==
  /\ stage = "fall" /\ After(here) = {}
  /\ stage' = "store" /\ recovery' = Recovery
  /\ UNCHANGED <<clock, value, points, pass, twr, peak, deepest>>

----------------------------------------------------------------------------
(* The end of a refresh: its results go to the coordinator, which keeps them. *)

Over ==
  /\ stage' = "idle"
  /\ value' = 0 /\ points' = {} /\ here' = NoPoint /\ left' = {}
  /\ taken' = {} /\ injection' = 0 /\ periods' = {} /\ growth' = One
  /\ twr' = None /\ peak' = 0 /\ deepest' = Zero /\ recovery' = None

\* A policy that keeps no track of what is stored.
DueAlways == TRUE

\* At most one snapshot for a calendar date.
Due == \A s \in snapshots : DayOf(s.at) # DayOf(now)

Store ==
  /\ stage = "store"
  /\ snapshots' = IF Due THEN snapshots \union {[at |-> now, value |-> value]} ELSE snapshots
  /\ Over
  /\ UNCHANGED <<now, log>>

\* A calculator that raises ends the refresh before it comes to the snapshot.
Fail ==
  /\ stage = "raised"
  /\ Over
  /\ UNCHANGED clock

----------------------------------------------------------------------------
Init ==
  /\ now = 0 /\ log = <<>> /\ snapshots = {} /\ stage = "idle"
  /\ value = 0 /\ points = {} /\ here = NoPoint /\ left = {}
  /\ taken = {} /\ injection = 0 /\ periods = {} /\ growth = One
  /\ twr = None /\ peak = 0 /\ deepest = Zero /\ recovery = None

Next == \/ Tick \/ Enter \/ Refresh \/ NotComputable \/ TakeFlow \/ ClosePeriod
        \/ Compound \/ Fall \/ FallDone \/ Store \/ Fail

Spec == Init /\ [][Next]_vars

----------------------------------------------------------------------------
(* Properties *)

Periods == [from : Points, to : Points, taken : SUBSET (1 .. MaxLog)]

\* Types: a fraction keeps a positive denominator, so a period is only ever
\* divided by what it began with if that is more than nothing.
TypeOK ==
  /\ now \in Times /\ log \in Seq(Transactions) /\ Len(log) <= MaxLog
  /\ snapshots \subseteq Points
  /\ stage \in Stages /\ value \in Nat
  /\ points \subseteq Points /\ here \in Points
  /\ left \subseteq Flows /\ taken \subseteq Flows /\ injection \in Int
  /\ periods \subseteq Periods /\ growth \in Fractions
  /\ twr \in Statuses /\ peak \in Nat /\ deepest \in Fractions /\ recovery \in Recoveries

SnapshotsOf(day) == Cardinality({s \in snapshots : DayOf(s.at) = day})

Series == INSTANCE SnapshotSeries WITH
  Days   <- {DayOf(t) : t \in Times},
  today  <- DayOf(now),
  series <- [day \in {DayOf(t) : t \in Times} |-> SnapshotsOf(day)]

\* What the calculators are given is a series as PortfolioCoordinator stores
\* it: a snapshot a day, even if the clock is set between the calculators and
\* the snapshot or back to a day that has one (should_create_snapshot).
ImplementsSeries == Series!Spec

FlowsWithin(t0, t1) == {i \in Flows : t0 < log[i].at /\ log[i].at <= t1}

\* The merge of periods and flows (period_returns.py:76-89) loses and repeats
\* none, in whatever order they were recorded: each period has the flows
\* dated within it, and each flow since the first boundary that has been
\* passed is in exactly one period.
FlowsFallOnce ==
  /\ \A p \in periods : p.taken = FlowsWithin(p.from.at, p.to.at)
  /\ stage = "link" =>
       \A i \in FlowsWithin(First.at, here.at) :
         \E p \in periods : i \in p.taken /\ \A q \in periods \ {p} : i \notin q.taken

Last == CHOOSE p \in points : \A q \in points : q.at <= p.at

\* What a flow brings into the portfolio.
PaidIn(t) == IF t.type = "deposit" THEN t.amount
             ELSE IF t.type = "withdrawal" THEN -t.amount
             ELSE IF t.type = "transfer_in" THEN t.shares * t.price
             ELSE -(t.shares * t.price)

\* From one boundary to the next the value changes by what is paid in and out.
EarnsNothing(p) ==
  LET q == Earliest(After(p))
  IN  q.value - p.value = SumOn([i \in Flows |-> PaidIn(log[i])], FlowsWithin(p.at, q.at))

\* TWR leaves the flows out (twr_calculator.py:10-13): if all that ever
\* changed the value is what was paid in or out, nothing was earned.
NeutralToFlows ==
  twr = "ok" /\ (\A p \in points \ {Last} : EarnsNothing(p)) => growth.n = growth.d

\* Without a flow the linked periods telescope: TWR is the last value over
\* the first, whatever snapshots lie between and whatever days are missing.
TwrIsValueRatio ==
  twr = "ok" /\ FlowsWithin(First.at, Last.at) = {}
  => growth.n * First.value = growth.d * Last.value

\* There is a return if and only if no period begins with nothing
\* (period_returns.py:83-84): one snapshot of nothing, taken while no quote was
\* to be had, keeps TWR from being computed at every later refresh.
ComputableIffPositive ==
  LET begun == {p \in points \ {Last} : p.value = 0}
  IN  (twr = "ok" => begun = {}) /\ (twr = "not_computable" => begun # {})

\* The running peak finds the deepest of all falls from any earlier value to
\* any later one (drawdown_calculator.py:53-60).
DeepestOfAllFalls ==
  stage = "store" /\ points # {} =>
    LET falls == {Below(e[2].value, e[1].value) :
                    e \in {e \in points \X points : e[1].at <= e[2].at /\ e[1].value > 0}}
    IN  /\ deepest \in falls \union {Zero}
        /\ \A f \in falls : ~Less(f, deepest)

\* The recovery status (drawdown_calculator.py:61-72) is that of the whole
\* value line: "recovering" above the deepest fall, "in_drawdown" at it.  The
\* code compares a rounded number with an exact one, so that a value at its
\* very trough is called recovering when its fall has no four decimals, and
\* one that is above it by half of the last decimal can be in drawdown still.
RecoveryOfTheValueLine ==
  LET top     == Max({p.value : p \in points})
      current == Below(Last.value, top)
      exact   == (1000000 * current.n) % current.d = 0
  IN  /\ recovery = "recovering" => \/ Less(deepest, current)
                                    \/ ~Less(current, deepest) /\ ~exact
      /\ recovery = "in_drawdown" =>
           /\ current.n < 0
           /\ 2000000 * (current.n * deepest.d - deepest.n * current.d) <= current.d * deepest.d
      /\ recovery = "at_peak" => 9900 * (top - Last.value) <= top

\* The docstring of TwrCalculator (twr_calculator.py:27-31) has a result, or None
\* in its place, for every portfolio; ENTITY_CONTRACTS.md says the same of
\* annualized_pct.
TwrDoesNotRaise == stage # "raised"
=============================================================================
