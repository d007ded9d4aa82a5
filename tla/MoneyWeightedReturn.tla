------------------------ MODULE MoneyWeightedReturn ------------------------
(***************************************************************************)
(* The money-weighted return: what MwrCalculator makes of the external     *)
(* cash flows of a portfolio and its value now, and how xirr looks for the *)
(* rate that discounts them to nothing, by Newton's method and, where that *)
(* gives up, by bisection.                                                 *)
(*                                                                         *)
(* A rate r is the natural number of Units in the growth 1 + r; the        *)
(* program's floats are this grid.  A year is the unit of discounting; the *)
(* instants of one day are so many Instants, all discounted alike.  The    *)
(* net present values are exact.                                           *)
(***************************************************************************)
EXTENDS Integers, Sequences

CONSTANTS Histories,    \* the external flows a log may hold: sequences of
                        \* records of an instant and a signed amount
          Values,       \* what the portfolio may be worth
          AsOf,         \* the instants at which it may be valued
          Instants,     \* instants that count as the same day
          Unit,         \* growth of 1, that is a rate of 0
          Guess,        \* xirr's first guess
          Low, High,    \* MIN_RATE and BRACKET_LOW, and BRACKET_HIGH
          MaxNewton, MaxBisection,  \* iterations
          Precision,    \* an NPV below 1 / Precision is taken for 0
          Representable,  \* per year: the growths whose power is a float
                          \* other than 0
          Widths        \* how wide the bracket is, at most, after so many halvings

ASSUME BracketAssumption ==
  /\ Low \in Nat \ {0} /\ High \in Nat /\ Low < High
  /\ Guess \in Low + 1 .. High
  /\ MaxNewton \in Nat /\ MaxBisection \in Nat \ {0}

\* The log's dates are points in time, its amounts may be negative.
ASSUME HistoriesAssumption ==
  /\ Histories \subseteq Seq([at : Nat, amount : Int])
  /\ AsOf \subseteq Nat /\ Values \subseteq Int
  /\ Instants \in Nat \ {0}

\* Of all growths in the bracket the lowest is the first whose powers cannot be
\* represented: 0.0001 ^ n leaves the floats before 101 ^ n does.
ASSUME PowersAssumption ==
  /\ DOMAIN Representable \subseteq Nat \ {0}
  /\ \A n \in DOMAIN Representable : Low \in Representable[n] =>
       /\ Low .. High \subseteq Representable[n]
       /\ n > 1 => n - 1 \in DOMAIN Representable /\ Low \in Representable[n - 1]

\* MAX_BISECTION_ITERATIONS are enough to shrink the bracket to the tolerance.
ASSUME HalvingAssumption ==
  /\ Widths \in [0 .. MaxBisection -> Nat]
  /\ Widths[0] = High - Low
  /\ \A i \in 1 .. MaxBisection : Widths[i] = (Widths[i - 1] + 1) \div 2
  /\ Widths[MaxBisection - 1] <= 1

VARIABLES external,  \* the external cash flows, in the order of the log
          asOf, totalValue,
          years,     \* how long each is discounted
          pc,        \* "calculate", "newton", "bisection" or "done"
          rate,      \* Newton's
          lo, hi,    \* the bracket
          iteration,
          result     \* status, rate and method

inputs == <<external, asOf, totalValue>>
solverVars == <<inputs, years, pc, rate, lo, hi, iteration, result>>

----------------------------------------------------------------------------
(* Net present values *)

CashFlows == Append(external, [at |-> asOf, amount |-> totalValue])
Flow == DOMAIN CashFlows

\* The days from the first flow to each, as years: hours do not count.
Years ==
  LET t0 == CHOOSE t \in {CashFlows[i].at : i \in Flow} : \A i \in Flow : t <= CashFlows[i].at
  IN  [i \in Flow |-> (CashFlows[i].at - t0) \div Instants]

\* The longest time discounted.
Span == CHOOSE y \in {years[i] : i \in DOMAIN years} : \A i \in DOMAIN years : years[i] <= y

Total(term) == LET sum[i \in 0 .. Len(term)] == IF i = 0 THEN 0 ELSE sum[i - 1] + term[i]
               IN  sum[Len(term)]

\* What each flow adds to the NPV of growth g, times g ^ Span, which is positive.
Terms(g) == [i \in Flow |-> CashFlows[i].amount * Unit ^ years[i] * g ^ (Span - years[i])]

Npv(g) == Total(Terms(g))

\* Its derivative, times - g ^ (Span + 1).
Slope(g) == LET terms == Terms(g) IN Total([i \in Flow |-> years[i] * terms[i]])

\* A growth that is too large or too small for a power of so many years
\* raises an OverflowError or a ZeroDivisionError; over more years than are
\* listed, any does.
Raises(g, n) == n > 0 /\ (n \in DOMAIN Representable => g \notin Representable[n])

Vanishes(g) == LET n == Npv(g) IN (IF n < 0 THEN -n ELSE n) <= (g ^ Span - 1) \div Precision

Positive(g) == Npv(g) > 0

----------------------------------------------------------------------------
Ends(r) == pc' = "done" /\ result' = r

\* No rate: the status says why.
NoRate(status) == [status |-> status, rate |-> 0, method |-> "none"]
Found(r, m) == [status |-> "ok", rate |-> r, method |-> m]

HasSignChange == /\ \E i \in Flow : CashFlows[i].amount < 0
                 /\ \E i \in Flow : CashFlows[i].amount > 0

SameInstant == \A i, j \in Flow : CashFlows[i].at = CashFlows[j].at

\* MwrCalculator.calculate up to the solver.  Its checks and xirr's are the
\* same, except that two instants of one day are a spread of time.
Calculate ==
  /\ pc = "calculate"
  /\ IF external = << >> THEN Ends(NoRate("no_data"))
     ELSE IF SameInstant \/ ~HasSignChange THEN Ends(NoRate("insufficient_data"))
     ELSE pc' = "newton" /\ UNCHANGED result
  /\ years' = Years
  /\ UNCHANGED <<inputs, rate, lo, hi, iteration>>

----------------------------------------------------------------------------
(* _newton *)

\* The next rate, rounded to the grid up or down.
Nexts(g) ==
  LET s == Slope(g)
      d == IF s > 0 THEN s ELSE -s
      p == IF s > 0 THEN g * Npv(g) ELSE -(g * Npv(g))
  IN  {g + p \div d, g - ((-p) \div d)}

\* An iteration finds an NPV that is as good as 0.
NewtonConverges ==
  /\ pc = "newton" /\ iteration < MaxNewton
  /\ ~Raises(rate, Span) /\ Vanishes(rate)
  /\ Ends(Found(rate, "newton"))
  /\ UNCHANGED <<inputs, years, rate, lo, hi, iteration>>

\* The NPV, or its derivative, cannot be computed at this rate.
NewtonRaises ==
  /\ pc = "newton" /\ iteration < MaxNewton
  /\ \/ Raises(rate, Span)
     \/ ~Raises(rate, Span) /\ ~Vanishes(rate) /\ Span > 0 /\ Raises(rate, Span + 1)
  /\ Ends(NoRate("raised"))
  /\ UNCHANGED <<inputs, years, rate, lo, hi, iteration>>

\* Any other iteration: there is a next rate unless the NPV is flat.
Iterates == /\ pc = "newton" /\ iteration < MaxNewton
            /\ ~Raises(rate, Span) /\ ~Vanishes(rate)
            /\ Span = 0 \/ ~Raises(rate, Span + 1)

\* A step that is taken however low it leads, and raises there.
NewtonMovesAnywhere ==
  /\ Iterates /\ Slope(rate) # 0
  /\ \E n \in Nexts(rate) \intersect Nat : rate' = n
  /\ iteration' = iteration + 1
  /\ UNCHANGED <<inputs, years, pc, lo, hi, result>>

\* Nothing limits how high the next rate may be.
NewtonMoves ==
  /\ Iterates /\ Slope(rate) # 0
  /\ \E n \in Nexts(rate) \intersect Nat : n > Low /\ rate' = n
  /\ iteration' = iteration + 1
  /\ UNCHANGED <<inputs, years, pc, lo, hi, result>>

\* Newton's failure is the end.
NewtonIsFinal ==
  /\ \/ Iterates /\ Slope(rate) = 0
     \/ Iterates /\ Slope(rate) # 0 /\ \E n \in Nexts(rate) : n <= Low
     \/ pc = "newton" /\ iteration = MaxNewton
  /\ Ends(NoRate("not_computable"))
  /\ UNCHANGED <<inputs, years, rate, lo, hi, iteration>>

\* A flat NPV, a rate below MIN_RATE, or too many iterations: bisection.
NewtonGivesUp ==
  /\ \/ Iterates /\ Slope(rate) = 0
     \/ Iterates /\ Slope(rate) # 0 /\ \E n \in Nexts(rate) : n <= Low
     \/ pc = "newton" /\ iteration = MaxNewton
  /\ pc' = "bracket"
  /\ UNCHANGED <<inputs, years, rate, lo, hi, iteration, result>>

----------------------------------------------------------------------------
(* _bisection *)

\* A bracket without a root in it all the same.
BracketUnchecked ==
  /\ pc = "bracket"
  /\ lo' = Low /\ hi' = High /\ iteration' = 0
  /\ pc' = "bisection" /\ UNCHANGED result
  /\ UNCHANGED <<inputs, years, rate>>

\* The ends of the bracket: a root, or a change of sign in between, or nothing.
Bracket ==
  /\ pc = "bracket"
  /\ lo' = Low /\ hi' = High /\ iteration' = 0
  /\ IF Raises(Low, Span) \/ Raises(High, Span) THEN Ends(NoRate("raised"))
     ELSE IF Npv(Low) = 0 THEN Ends(Found(Low, "bisection"))
     ELSE IF Npv(High) = 0 THEN Ends(Found(High, "bisection"))
     ELSE IF Positive(Low) = Positive(High) THEN Ends(NoRate("not_computable"))
     ELSE pc' = "bisection" /\ UNCHANGED result
  /\ UNCHANGED <<inputs, years, rate>>

Mid == (lo + hi) \div 2

\* The bracket is no wider than the tolerance.
Narrow == hi - lo <= 1

BisectConverges ==
  /\ pc = "bisection"
  /\ Vanishes(Mid) \/ Narrow
  /\ Ends(Found(Mid, "bisection"))
  /\ UNCHANGED <<inputs, years, rate, lo, hi, iteration>>

\* The half with the same sign at both ends is kept.
BisectKeepsWrongHalf ==
  /\ pc = "bisection"
  /\ ~Vanishes(Mid) /\ ~Narrow
  /\ IF Positive(Mid) # Positive(lo) THEN lo' = Mid /\ UNCHANGED hi
                                     ELSE hi' = Mid /\ UNCHANGED lo
  /\ iteration' = iteration + 1
  /\ IF iteration + 1 = MaxBisection THEN Ends(NoRate("not_computable")) ELSE UNCHANGED <<pc, result>>
  /\ UNCHANGED <<inputs, years, rate>>

\* One iteration: the half whose ends have different signs is kept, and after
\* the last there is no rate.
Bisect ==
  /\ pc = "bisection"
  /\ ~Vanishes(Mid) /\ ~Narrow
  /\ IF Positive(Mid) = Positive(lo) THEN lo' = Mid /\ UNCHANGED hi
                                     ELSE hi' = Mid /\ UNCHANGED lo
  /\ iteration' = iteration + 1
  /\ IF iteration + 1 = MaxBisection THEN Ends(NoRate("not_computable")) ELSE UNCHANGED <<pc, result>>
  /\ UNCHANGED <<inputs, years, rate>>

----------------------------------------------------------------------------
SolverInit ==
  /\ external \in Histories /\ totalValue \in Values /\ asOf \in AsOf
  /\ pc = "calculate"
  /\ years = << >>
  /\ rate = Guess
  /\ lo = Low /\ hi = High
  /\ iteration = 0
  /\ result = NoRate("none")

SolverNext == \/ Calculate
              \/ NewtonConverges \/ NewtonRaises \/ NewtonMoves \/ NewtonGivesUp
              \/ Bracket \/ BisectConverges \/ Bisect

\* A calculation has no await in it: it runs on until it returns or raises.
SolverSpec == SolverInit /\ [][SolverNext]_solverVars

----------------------------------------------------------------------------
(* Properties *)

Outcomes == {"none", "no_data", "insufficient_data", "not_computable", "ok", "raised"}

SolverTypeOK ==
  /\ pc \in {"calculate", "newton", "bracket", "bisection", "done"}
  /\ rate \in Nat /\ rate > Low
  /\ lo \in Low .. High /\ hi \in Low .. High
  /\ iteration \in Nat
  /\ years = << >> \/ years \in [Flow -> Nat]
  /\ result \in [status : Outcomes, rate : Nat, method : {"newton", "bisection", "none"}]

\* While _bisection runs, the NPV has different signs at the ends of the
\* bracket.
BracketsARoot == pc = "bisection" => lo < hi /\ Positive(lo) # Positive(hi)

\* To within the tolerance, the NPV is 0 here or changes its sign.
NearRoot(g) == \E d \in {g - 1, g, g + 1} \ {0} : Npv(d) = 0 \/ Positive(d) # Positive(g)

\* The flows of the first day cancel each other: any rate high enough makes
\* what is left of the later ones as small as one likes.
FirstDayCancels ==
  Total([i \in Flow |-> IF years[i] = 0 THEN CashFlows[i].amount ELSE 0]) = 0

\* A rate that is reported as "ok" is one at which the NPV changes sign, which
\* is what Newton's test of the NPV against 0 is meant to find, except where
\* the flows of the first day cancel: there Newton may run away upwards until
\* the NPV is as good as 0, or take its guess for a root at once.
RootUnlessFirstDayCancels ==
  result.status = "ok" => NearRoot(result.rate) \/ FirstDayCancels

\* "not_computable" is not a failure of the search, whose iterations are enough
\* to shrink the bracket to the tolerance: the NPV has one sign at both ends of
\* the bracket.
NotComputableMeansNoBracket ==
  result.status = "not_computable" => Positive(Low) = Positive(High)

\* The solver raises, which fails the refresh, only at a rate that Newton took
\* out of the bracket, or for a history too long for the lowest rate.
RaisesOnlyFarOut ==
  result.status = "raised" => rate > High \/ Raises(Low, Span + 1)
=============================================================================
