--------------------------- MODULE Returns_proofs ---------------------------
(***************************************************************************)
(* Proofs about PeriodReturns, for any holdings, quotes, logs and clock,   *)
(* and about MoneyWeightedReturn, for any histories, bracket and numbers   *)
(* of iterations.                                                          *)
(*                                                                         *)
(* The sorted passes of the code are minimal elements here, which exist    *)
(* because < is well founded on Nat (Least); what a purchase, a payment or *)
(* a deposit does to the value of a portfolio is a step of a sum over a    *)
(* set (Sums_proofs).  What the NPV of a history comes to is not known:    *)
(* the proofs about the search go by its sign at one growth and another,   *)
(* which stays the same while the solver runs.                             *)
(***************************************************************************)
EXTENDS PeriodReturns, MoneyWeightedReturn, Sums_proofs, NaturalsInduction,
        WellFoundedInduction, SequenceTheorems, TLAPS

----------------------------------------------------------------------------
(* The earliest and the latest *)

\* A set of natural numbers that is not empty has a least one.
LEMMA Least ==
  ASSUME NEW T \in SUBSET Nat, T # {}
  PROVE  \E x \in T : \A y \in T : x <= y
<1>1. \E x \in T : \A y \in T : <<y, x>> \notin OpToRel(<, Nat)
  BY NatLessThanWellFounded, WFMin
<1>2. PICK x \in T : \A y \in T : <<y, x>> \notin OpToRel(<, Nat)
  BY <1>1
<1>3. ASSUME NEW y \in T, y < x
      PROVE  FALSE
  <2>1. <<y, x>> \in OpToRel(<, Nat)
    BY <1>3 DEF OpToRel
  <2>2. QED
    BY <2>1, <1>2
<1>4. QED
  BY <1>3

\* Earliest chooses a member that no other precedes.
LEMMA EarliestIsFirst ==
  ASSUME NEW S \in SUBSET Points, S # {}
  PROVE  Earliest(S) \in S /\ \A q \in S : Earliest(S).at <= q.at
<1>1. {p.at : p \in S} \in SUBSET Nat /\ {p.at : p \in S} # {}
  BY BoundsAssumption DEF Points, Times
<1>2. PICK t \in {p.at : p \in S} : \A u \in {p.at : p \in S} : t <= u
  BY <1>1, Least
<1>3. \E p \in S : \A q \in S : p.at <= q.at
  BY <1>2
<1>4. QED
  BY <1>3 DEF Earliest

\* There is a latest boundary.
LEMMA LatestExists ==
  ASSUME NEW S \in SUBSET Points, S # {}
  PROVE  \E p \in S : \A q \in S : q.at <= p.at
<1>1. {MaxTime - p.at : p \in S} \in SUBSET Nat /\ {MaxTime - p.at : p \in S} # {}
  BY BoundsAssumption DEF Points, Times
<1>2. PICK t \in {MaxTime - p.at : p \in S} : \A u \in {MaxTime - p.at : p \in S} : t <= u
  BY <1>1, Least
<1>3. PICK p \in S : t = MaxTime - p.at
  BY <1>2
<1>4. \A q \in S : MaxTime - p.at <= MaxTime - q.at
  BY <1>2, <1>3
<1>5. \A q \in S : q.at \in Int /\ p.at \in Int /\ MaxTime \in Int
  BY BoundsAssumption DEF Points, Times
<1>6. \A q \in S : q.at <= p.at
  BY <1>4, <1>5
<1>7. QED
  BY <1>6

\* An entry of the log has a time, and a flow an amount.
LEMMA EntryType ==
  ASSUME log \in Seq(Transactions), NEW i \in DOMAIN log
  PROVE  /\ log[i] \in Transactions /\ log[i].at \in Times /\ log[i].at \in Int /\ i \in Int
         /\ i \in Flows => Injected(log[i]) \in Int
<1>1. log[i] \in Transactions /\ i \in Int
  OBVIOUS
<1>2. log[i].at \in Times /\ (External(log[i]) => FlowMagnitude(log[i]) \in Int)
  BY <1>1, TransactionsAssumption
<1>3. log[i].at \in Int
  BY <1>2, BoundsAssumption DEF Times
<1>4. i \in Flows => Injected(log[i]) \in Int
  BY <1>2 DEF Flows, Injected, SignedFlow, FlowSign, External
<1>5. QED
  BY <1>1, <1>2, <1>3, <1>4

\* Of the flows that are left there is a next one, no later than any other.
LEMMA NextFlowExists ==
  ASSUME log \in Seq(Transactions), left \subseteq Flows, left # {}
  PROVE  \E i \in left : NextFlow(i) /\ \A j \in left : log[i].at <= log[j].at
<1>1. \A j \in left : j \in Nat /\ log[j].at \in Nat
  BY EntryType, BoundsAssumption DEF Flows, Times
<1>2. {log[j].at : j \in left} \in SUBSET Nat /\ {log[j].at : j \in left} # {}
  BY <1>1
<1>3. PICK t \in {log[j].at : j \in left} : \A u \in {log[j].at : j \in left} : t <= u
  BY <1>2, Least
<1> DEFINE S == {j \in left : log[j].at = t}
<1>4. S \in SUBSET Nat /\ S # {}
  BY <1>1, <1>3
<1>5. PICK i \in S : \A j \in S : i <= j
  BY <1>4, Least
<1>6. i \in left /\ log[i].at = t /\ t \in Nat
  BY <1>5, <1>1
<1>7. ASSUME NEW j \in left
      PROVE  /\ log[i].at <= log[j].at
             /\ log[i].at < log[j].at \/ (log[i].at = log[j].at /\ i <= j)
  <2>1. t <= log[j].at /\ log[j].at \in Nat
    BY <1>3, <1>1
  <2>2. CASE log[j].at = t
    BY <2>2, <1>5, <1>6
  <2>3. CASE log[j].at # t
    BY <2>1, <2>3, <1>6
  <2>4. QED
    BY <2>2, <2>3
<1>8. QED
  BY <1>6, <1>7 DEF NextFlow

----------------------------------------------------------------------------
(* Types *)

\* Between refreshes nothing is left of the last; while periods are linked or
\* a fall is measured, here is a boundary.
Stand ==
  /\ stage = "idle" => points = {} /\ left = {} /\ taken = {} /\ periods = {}
                        /\ injection = 0 /\ growth = One /\ twr = None
  /\ stage \in {"link", "fall"} => here \in points
  /\ stage = "link" => twr = None

TInv == TypeOK /\ Stand

\* Boundaries are points of the value line.
LEMMA BoundariesType ==
  ASSUME TypeOK, NEW v \in Nat
  PROVE  Boundaries(v) \in SUBSET Points
<1>1. [at |-> now, value |-> v] \in Points
  BY DEF TypeOK, Points
<1>2. QED
  BY <1>1 DEF Boundaries, TypeOK

\* The boundary after the one at hand.
LEMMA NextPointType ==
  ASSUME TypeOK, After(here) # {}
  PROVE  /\ NextPoint \in points /\ NextPoint \in Points
         /\ NextPoint.at > here.at /\ \A q \in After(here) : NextPoint.at <= q.at
<1>1. After(here) \in SUBSET Points
  BY DEF TypeOK, After
<1>2. NextPoint \in After(here) /\ \A q \in After(here) : NextPoint.at <= q.at
  BY <1>1, EarliestIsFirst DEF NextPoint
<1>3. QED
  BY <1>2 DEF After, TypeOK

\* The first point, and the last.
LEMMA FirstType ==
  ASSUME TypeOK, points # {}
  PROVE  First \in points /\ First \in Points /\ \A q \in points : First.at <= q.at
<1>1. points \in SUBSET Points
  BY DEF TypeOK
<1>2. QED
  BY <1>1, EarliestIsFirst DEF First

\* A point has a time and a value.
LEMMA PointType ==
  ASSUME NEW p \in Points
  PROVE  p.at \in Times /\ p.at \in Nat /\ p.value \in Nat
BY BoundsAssumption DEF Points, Times

LEMMA InitTyped == Init => TInv
<1> SUFFICES ASSUME Init
             PROVE  TInv
  OBVIOUS
<1>1. now \in Times /\ NoPoint \in Points
  BY BoundsAssumption DEF Init, Times, NoPoint, Points
<1>2. log \in Seq(Transactions) /\ Len(log) <= MaxLog
  BY BoundsAssumption DEF Init
<1>3. growth \in Fractions /\ deepest \in Fractions
  BY DEF Init, One, Zero, Fractions
<1>4. QED
  BY <1>1, <1>2, <1>3 DEF Init, TInv, TypeOK, Stand, Stages, Statuses, Recoveries

\* What the end of a refresh leaves is of its types.
LEMMA OverTyped ==
  ASSUME TInv, Over, now' = now, log' = log, snapshots' \subseteq Points
  PROVE  TInv'
<1>1. NoPoint \in Points /\ One \in Fractions /\ Zero \in Fractions
  BY BoundsAssumption DEF NoPoint, Points, Times, One, Zero, Fractions
<1>2. TypeOK'
  BY <1>1 DEF Over, TInv, TypeOK, Stages, Statuses, Recoveries
<1>3. Stand'
  BY DEF Over, Stand
<1>4. QED
  BY <1>2, <1>3 DEF TInv

LEMMA RefreshTyped == TInv /\ Refresh => TInv'
<1> SUFFICES ASSUME TInv, Refresh
             PROVE  TInv'
  OBVIOUS
<1>1. PICK q \in Quotes : Begin(Worth(q))
  BY DEF Refresh
<1> DEFINE v == Worth(q)
           ps == Boundaries(v)
           p0 == Earliest(ps)
<1>2. v \in Nat /\ ps \in SUBSET Points
  BY WorthAssumption, BoundariesType DEF TInv
<1>3. ps # {} => p0 \in ps /\ p0 \in Points /\ p0.value \in Nat
  BY <1>2, EarliestIsFirst, PointType
<1>4. value' = v /\ points' = ps
  BY <1>1 DEF Begin
<1>5. CASE ps = {}
  <2>1. stage' = "store" /\ twr' = "no_data" /\ UNCHANGED <<here, left, peak>>
    BY <1>1, <1>5 DEF Begin
  <2>2. QED
    BY <2>1, <1>2, <1>4 DEF Refresh, clock, TInv, TypeOK, Stand, Stages, Statuses, Flows
<1>6. CASE ps # {}
  <2>1. /\ here' = p0 /\ left' = Left(p0.at) /\ peak' = p0.value
        /\ \/ stage' = "fall" /\ twr' = "insufficient_data"
           \/ stage' = "link" /\ twr' = None
    BY <1>1, <1>6 DEF Begin
  <2>2. left' \subseteq Flows
    BY <2>1 DEF Left
  <2>3. Flows' = Flows
    BY DEF Refresh, clock, Flows
  <2> HIDE DEF v, ps, p0
  <2>4. QED
    BY <2>1, <2>2, <2>3, <1>2, <1>3, <1>4, <1>6
    DEF Refresh, clock, TInv, TypeOK, Stand, Stages, Statuses
<1>7. QED
  BY <1>5, <1>6

LEMMA TakeFlowTyped == TInv /\ TakeFlow => TInv'
<1> SUFFICES ASSUME TInv, TakeFlow
             PROVE  TInv'
  OBVIOUS
<1>1. PICK i \in left : /\ left' = left \ {i} /\ taken' = taken \union {i}
                        /\ injection' = injection + Injected(log[i])
  BY DEF TakeFlow
<1>2. i \in Flows /\ Injected(log[i]) \in Int
  BY EntryType DEF TInv, TypeOK, Flows
<1>3. Flows' = Flows
  BY DEF TakeFlow, clock, Flows
<1>4. TypeOK'
  BY <1>1, <1>2, <1>3 DEF TakeFlow, clock, fall, TInv, TypeOK
<1>5. Stand'
  BY DEF TakeFlow, Linking, TInv, Stand
<1>6. QED
  BY <1>4, <1>5 DEF TInv

LEMMA ClosePeriodTyped == TInv /\ ClosePeriod => TInv'
<1> SUFFICES ASSUME TInv, ClosePeriod
             PROVE  TInv'
  OBVIOUS
<1>1. NextPoint \in points /\ NextPoint \in Points /\ NextPoint.value \in Nat
  BY NextPointType, PointType DEF ClosePeriod, Linking, TInv
<1>2. here \in Points /\ here.value \in Nat \ {0} /\ injection \in Int
  BY PointType DEF ClosePeriod, TInv, TypeOK
<1>3. taken \subseteq 1 .. MaxLog
  BY BoundsAssumption DEF TInv, TypeOK, Flows
<1>4. periods' \subseteq Periods
  <2>1. [from |-> here, to |-> NextPoint, taken |-> taken] \in Periods
    BY <1>1, <1>2, <1>3 DEF Periods
  <2>2. periods' = periods \union {[from |-> here, to |-> NextPoint, taken |-> taken]}
    BY DEF ClosePeriod
  <2>3. QED
    BY <2>1, <2>2 DEF TInv, TypeOK
<1>5. growth' \in Fractions
  <2>1. growth.n \in Int /\ growth.d \in Nat \ {0}
    BY DEF TInv, TypeOK, Fractions
  <2>2. /\ Return(here.value, NextPoint.value, injection).n \in Int
        /\ Return(here.value, NextPoint.value, injection).d \in Nat \ {0}
    BY <1>1, <1>2 DEF Return
  <2>3. \A x, y \in Nat \ {0} : x * y \in Nat \ {0}
    BY SMT
  <2>4. \A x, y \in Int : x * y \in Int
    BY SMT
  <2>5. growth' = [n |-> growth.n * Return(here.value, NextPoint.value, injection).n,
                   d |-> growth.d * Return(here.value, NextPoint.value, injection).d]
    BY DEF ClosePeriod
  <2>6. QED
    BY <2>1, <2>2, <2>3, <2>4, <2>5 DEF Fractions
<1>6. here' \in points /\ here' \in Points /\ taken' = {} /\ injection' = 0 /\ Flows' = Flows
  BY <1>1 DEF ClosePeriod, clock, Flows
<1>7. TypeOK'
  BY <1>4, <1>5, <1>6 DEF ClosePeriod, clock, fall, TInv, TypeOK
<1>8. Stand'
  BY <1>6 DEF ClosePeriod, Linking, TInv, Stand
<1>9. QED
  BY <1>7, <1>8 DEF TInv

LEMMA FallTyped == TInv /\ Fall => TInv'
<1> SUFFICES ASSUME TInv, Fall
             PROVE  TInv'
  OBVIOUS
<1>1. NextPoint \in points /\ NextPoint \in Points /\ NextPoint.value \in Nat
  BY NextPointType, PointType DEF Fall, TInv
<1> DEFINE top == IF NextPoint.value > peak THEN NextPoint.value ELSE peak
<1>2. top \in Nat /\ peak' = top /\ deepest' = Deeper(NextPoint.value, top)
  BY <1>1 DEF Fall, TInv, TypeOK
<1>3. Deeper(NextPoint.value, top) \in Fractions
  <2>1. top > 0 => Below(NextPoint.value, top) \in Fractions
    BY <1>1, <1>2 DEF Below, Fractions
  <2>2. QED
    BY <2>1 DEF Deeper, TInv, TypeOK
<1>4. here' \in points /\ here' \in Points /\ Flows' = Flows
  BY <1>1 DEF Fall, clock, Flows
<1> HIDE DEF top
<1>5. TypeOK'
  BY <1>2, <1>3, <1>4 DEF Fall, clock, TInv, TypeOK
<1>6. Stand'
  BY <1>4 DEF Fall, TInv, Stand
<1>7. QED
  BY <1>5, <1>6 DEF TInv

\* Every step preserves the types.
LEMMA NextTyped == TInv /\ [Next]_vars => TInv'
<1> SUFFICES ASSUME TInv, [Next]_vars
             PROVE  TInv'
  OBVIOUS
<1>1. CASE Tick
  <2>1. Flows' = Flows
    BY <1>1 DEF Tick, Flows
  <2>2. QED
    BY <1>1, <2>1 DEF Tick, pass, fall, TInv, TypeOK, Stand
<1>2. CASE Enter
  <2>1. PICK t \in Transactions : log' = Append(log, t)
    BY <1>2 DEF Enter
  <2>2. log' \in Seq(Transactions) /\ Len(log') <= MaxLog
    BY <1>2, <2>1, BoundsAssumption DEF Enter, TInv, TypeOK
  <2>3. left = {} /\ taken = {}
    BY <1>2 DEF Enter, TInv, Stand
  <2>4. QED
    BY <1>2, <2>2, <2>3 DEF Enter, pass, fall, TInv, TypeOK, Stand
<1>3. CASE NotComputable
  <2>1. points # {}
    BY <1>3 DEF NotComputable, Linking, TInv, Stand
  <2>2. First \in points /\ First \in Points
    BY <2>1, FirstType DEF TInv
  <2>3. Flows' = Flows
    BY <1>3 DEF NotComputable, clock, Flows
  <2>4. QED
    BY <1>3, <2>2, <2>3
    DEF NotComputable, clock, fall, TInv, TypeOK, Stand, Stages, Statuses
<1>4. CASE Compound
  <2>1. points # {}
    BY <1>4 DEF Compound, TInv, Stand
  <2>2. First \in points /\ First \in Points
    BY <2>1, FirstType DEF TInv
  <2>3. Flows' = Flows
    BY <1>4 DEF Compound, clock, Flows
  <2>4. \/ stage' = "raised" /\ UNCHANGED <<here, twr>>
        \/ stage' = "fall" /\ here' = First /\ twr' = "ok"
    BY <1>4 DEF Compound
  <2>5. UNCHANGED <<clock, value, points, left, taken, injection, periods, growth, fall>>
    BY <1>4 DEF Compound
  <2>6. QED
    BY <2>2, <2>3, <2>4, <2>5 DEF clock, fall, TInv, TypeOK, Stand, Stages, Statuses
<1>5. CASE FallDone
  <2>1. Recovery \in Recoveries
    BY DEF Recovery, Recoveries
  <2>2. Flows' = Flows
    BY <1>5 DEF FallDone, clock, Flows
  <2>3. QED
    BY <1>5, <2>1, <2>2 DEF FallDone, clock, pass, TInv, TypeOK, Stand, Stages
<1>6. CASE Store
  <2>1. [at |-> now, value |-> value] \in Points
    BY DEF TInv, TypeOK, Points
  <2>2. snapshots' \subseteq Points
    BY <1>6, <2>1 DEF Store, TInv, TypeOK
  <2>3. QED
    BY <1>6, <2>2, OverTyped DEF Store
<1>7. CASE Fail
  BY <1>7, OverTyped DEF Fail, clock, TInv, TypeOK
<1>8. CASE UNCHANGED vars
  BY <1>8 DEF vars, clock, pass, fall, TInv, TypeOK, Stand, Flows
<1>9. QED
  BY <1>1, <1>2, <1>3, <1>4, <1>5, <1>6, <1>7, <1>8, RefreshTyped, TakeFlowTyped,
     ClosePeriodTyped, FallTyped DEF Next

\* TypeOK (period_returns.py, twr_calculator.py, drawdown_calculator.py): no
\* return and no fall is ever a division by nothing or by less.
THEOREM TypeCorrect == Spec => []TypeOK
<1>1. TInv => TypeOK
  BY DEF TInv
<1>2. QED
  BY <1>1, InitTyped, NextTyped, PTL DEF Spec

----------------------------------------------------------------------------
(* Every flow falls into one period *)

\* The periods done lie one after the other between the first boundary and
\* here; what is left and what is taken are the flows after here.
PeriodsRight == \A p \in periods : p.taken = FlowsWithin(p.from.at, p.to.at)

Apart(p, q) == p.to.at <= q.from.at \/ q.to.at <= p.from.at

InLine == \A p \in periods : /\ First.at <= p.from.at /\ p.to.at <= here.at
                             /\ p.from.at < p.to.at

Covered == \A t \in Times : First.at < t /\ t <= here.at
             => \E p \in periods : p.from.at < t /\ t <= p.to.at

Merge ==
  stage = "link" =>
    /\ left \union taken = {i \in Flows : log[i].at > here.at}
    /\ left \intersect taken = {}
    /\ \A i \in taken : After(here) # {} /\ log[i].at <= NextPoint.at
    /\ InLine
    /\ \A p, q \in periods : p = q \/ Apart(p, q)
    /\ Covered

FInv == TInv /\ PeriodsRight /\ Merge

LEMMA InitFlows == Init => FInv
<1> SUFFICES ASSUME Init
             PROVE  FInv
  OBVIOUS
<1>1. PeriodsRight /\ Merge
  BY DEF Init, PeriodsRight, Merge
<1>2. QED
  BY <1>1, InitTyped DEF FInv

LEMMA RefreshFlows == FInv /\ Refresh => PeriodsRight' /\ Merge'
<1> SUFFICES ASSUME FInv, Refresh
             PROVE  PeriodsRight' /\ Merge'
  OBVIOUS
<1>1. periods = {} /\ taken = {} /\ periods' = {} /\ taken' = {} /\ UNCHANGED clock
  BY DEF Refresh, FInv, TInv, Stand
<1>2. TInv'
  BY RefreshTyped DEF FInv
<1>3. PeriodsRight'
  BY <1>1 DEF PeriodsRight
<1>4. ASSUME stage' = "link"
      PROVE  Merge'
  <2>1. PICK q \in Quotes : Begin(Worth(q))
    BY DEF Refresh
  <2>2. /\ points' = Boundaries(Worth(q)) /\ here' = Earliest(points')
        /\ left' = Left(Earliest(points').at)
    BY <2>1, <1>4 DEF Begin
  <2>3. here' = First'
    BY <2>2 DEF First
  <2>4. left' = {i \in Flows' : log'[i].at > here'.at}
    BY <2>2, <1>1 DEF Left, Flows, clock
  <2>5. First'.at \in Int
    BY <2>3, <1>2, PointType DEF TInv, TypeOK
  <2>6. \A t \in Times : t \in Int
    BY BoundsAssumption DEF Times
  <2>7. Covered'
    BY <2>3, <2>5, <2>6 DEF Covered
  <2>8. InLine'
    BY <1>1 DEF InLine
  <2>9. QED
    BY <1>1, <2>4, <2>7, <2>8 DEF Merge
<1>5. QED
  BY <1>3, <1>4 DEF Merge

LEMMA TakeFlowFlows == FInv /\ TakeFlow => PeriodsRight' /\ Merge'
<1> SUFFICES ASSUME FInv, TakeFlow
             PROVE  PeriodsRight' /\ Merge'
  OBVIOUS
<1>1. PICK i \in left : /\ Falls(i) /\ left' = left \ {i} /\ taken' = taken \union {i}
  BY DEF TakeFlow
<1>2. /\ UNCHANGED <<log, periods, points, here, stage>>
      /\ stage = "link" /\ After(here) # {}
  BY DEF TakeFlow, clock, Linking
<1>3. NextPoint' = NextPoint /\ After(here)' = After(here) /\ First' = First /\ Flows' = Flows
  BY <1>2 DEF NextPoint, After, First, Flows
<1>4. PeriodsRight'
  BY <1>2, <1>3 DEF FInv, PeriodsRight, FlowsWithin
<1>5. InLine' /\ Covered'
  BY <1>2, <1>3 DEF FInv, Merge, InLine, Covered
<1>6. /\ left' \union taken' = {j \in Flows' : log'[j].at > here'.at}
      /\ left' \intersect taken' = {}
  <2>1. left' \union taken' = left \union taken
    BY <1>1
  <2>2. QED
    BY <1>1, <1>2, <1>3, <2>1 DEF FInv, Merge
<1>7. \A j \in taken' : After(here)' # {} /\ log'[j].at <= NextPoint'.at
  BY <1>1, <1>2, <1>3 DEF FInv, Merge, Falls
<1>8. \A p, q \in periods' : p = q \/ Apart(p, q)
  BY <1>2 DEF FInv, Merge
<1>9. QED
  BY <1>4, <1>5, <1>6, <1>7, <1>8 DEF Merge, Apart

\* A period is closed with just the flows that lie within it.
LEMMA ClosesRight ==
  ASSUME FInv, ClosePeriod
  PROVE  /\ taken = FlowsWithin(here.at, NextPoint.at)
         /\ left = {i \in Flows : log[i].at > NextPoint.at}
<1>1. /\ stage = "link" /\ After(here) # {} /\ ~ \E i \in left : Falls(i)
      /\ log \in Seq(Transactions) /\ left \subseteq Flows
  BY DEF ClosePeriod, Linking, FInv, TInv, TypeOK
<1>2. NextPoint.at \in Int /\ here.at \in Int /\ here.at < NextPoint.at
  BY <1>1, NextPointType, PointType DEF FInv, TInv, TypeOK
<1>3. \A i \in Flows : log[i].at \in Int
  BY <1>1, EntryType DEF Flows
<1>4. \A i \in left : log[i].at > NextPoint.at
  <2>1. CASE left = {}
    BY <2>1
  <2>2. CASE left # {}
    <3>1. PICK i \in left : NextFlow(i) /\ \A j \in left : log[i].at <= log[j].at
      BY <1>1, <2>2, NextFlowExists
    <3>2. ~ (log[i].at <= NextPoint.at)
      BY <3>1, <1>1 DEF Falls
    <3>3. QED
      BY <3>1, <3>2, <1>1, <1>2, <1>3
  <2>3. QED
    BY <2>1, <2>2
<1>5. /\ \A i \in taken : log[i].at <= NextPoint.at
      /\ left \union taken = {i \in Flows : log[i].at > here.at}
  BY <1>1 DEF FInv, Merge
<1>6. QED
  BY <1>1, <1>2, <1>3, <1>4, <1>5 DEF FlowsWithin

LEMMA ClosePeriodFlows == FInv /\ ClosePeriod => PeriodsRight' /\ Merge'
<1> SUFFICES ASSUME FInv, ClosePeriod
             PROVE  PeriodsRight' /\ Merge'
  OBVIOUS
<1> DEFINE new == [from |-> here, to |-> NextPoint, taken |-> taken]
<1>1. /\ periods' = periods \union {new} /\ taken' = {} /\ here' = NextPoint
      /\ UNCHANGED <<log, points, stage, left>> /\ stage = "link" /\ After(here) # {}
  BY DEF ClosePeriod, clock, Linking
<1>2. new.from = here /\ new.to = NextPoint /\ new.taken = taken
  OBVIOUS
<1> HIDE DEF new
<1>3. First' = First /\ Flows' = Flows
  BY <1>1 DEF First, Flows
<1>4. NextPoint.at \in Int /\ here.at \in Int /\ here.at < NextPoint.at
  BY <1>1, NextPointType, PointType DEF FInv, TInv, TypeOK
<1>5. First.at \in Int /\ First.at <= here.at
  <2>1. here \in points
    BY <1>1 DEF FInv, TInv, Stand
  <2>2. QED
    BY <2>1, FirstType, PointType DEF FInv, TInv
<1>6. \A p \in periods : p.from.at \in Int /\ p.to.at \in Int
  <2>1. ASSUME NEW p \in periods
        PROVE  p.from.at \in Int /\ p.to.at \in Int
    <3>1. p.from \in Points /\ p.to \in Points
      BY DEF FInv, TInv, TypeOK, Periods
    <3>2. QED
      BY <3>1, PointType
  <2>2. QED
    BY <2>1
<1>7. PeriodsRight'
  BY <1>1, <1>2, <1>3, ClosesRight DEF FInv, PeriodsRight, FlowsWithin
<1>8. InLine'
  BY <1>1, <1>2, <1>3, <1>4, <1>5, <1>6 DEF FInv, Merge, InLine
<1>9. \A p, q \in periods' : p = q \/ Apart(p, q)
  <2>1. \A p \in periods : Apart(p, new)
    BY <1>1, <1>2 DEF FInv, Merge, InLine, Apart
  <2>2. \A p \in periods : Apart(new, p)
    BY <2>1 DEF Apart
  <2>3. QED
    BY <2>1, <2>2, <1>1 DEF FInv, Merge
<1>10. Covered'
  <2>1. ASSUME NEW t \in Times, First.at < t, t <= NextPoint.at
        PROVE  \E p \in periods' : p.from.at < t /\ t <= p.to.at
    <3>1. t \in Int
      BY BoundsAssumption DEF Times
    <3>2. CASE t <= here.at
      BY <3>2, <2>1, <1>1 DEF FInv, Merge, Covered
    <3>3. CASE t > here.at
      BY <3>3, <2>1, <1>1, <1>2
    <3>4. QED
      BY <3>1, <3>2, <3>3, <1>4
  <2>2. QED
    BY <2>1, <1>1, <1>3 DEF Covered
<1>11. left' \union taken' = {i \in Flows' : log'[i].at > here'.at}
  BY <1>1, <1>3, ClosesRight
<1>12. QED
  BY <1>1, <1>7, <1>8, <1>9, <1>10, <1>11 DEF Merge, Apart

\* Every other step leaves the periods as they are, or forgets them.
LEMMA NextMerge == FInv /\ [Next]_vars => PeriodsRight' /\ Merge'
<1> SUFFICES ASSUME FInv, [Next]_vars
             PROVE  PeriodsRight' /\ Merge'
  OBVIOUS
<1>1. ASSUME periods' = periods, log' = log, stage' # "link"
      PROVE  PeriodsRight' /\ Merge'
  BY <1>1 DEF FInv, PeriodsRight, Merge, FlowsWithin, Flows
<1>2. ASSUME Over
      PROVE  PeriodsRight' /\ Merge'
  BY <1>2 DEF Over, PeriodsRight, Merge
<1>3. CASE Tick
  BY <1>3, <1>1 DEF Tick, pass
<1>4. CASE Enter
  BY <1>4 DEF Enter, pass, FInv, TInv, Stand, PeriodsRight, Merge
<1>5. CASE NotComputable
  BY <1>5, <1>1 DEF NotComputable, clock
<1>6. CASE Compound
  BY <1>6, <1>1 DEF Compound, clock
<1>7. CASE Fall
  BY <1>7, <1>1 DEF Fall, clock
<1>8. CASE FallDone
  BY <1>8, <1>1 DEF FallDone, clock, pass
<1>9. CASE UNCHANGED vars
  <2>1. UNCHANGED <<log, periods, points, here, stage, left, taken>>
    BY <1>9 DEF vars, clock, pass
  <2>2. NextPoint' = NextPoint /\ After(here)' = After(here) /\ First' = First /\ Flows' = Flows
    BY <2>1 DEF NextPoint, After, First, Flows
  <2>3. QED
    BY <2>1, <2>2 DEF FInv, PeriodsRight, Merge, FlowsWithin, InLine, Covered, Apart
<1>10. QED
  BY <1>2, <1>3, <1>4, <1>5, <1>6, <1>7, <1>8, <1>9, RefreshFlows, TakeFlowFlows,
     ClosePeriodFlows DEF Next, Store, Fail

LEMMA NextFlows == FInv /\ [Next]_vars => FInv'
BY NextMerge, NextTyped DEF FInv

LEMMA FlowsInvImplies == FInv => FlowsFallOnce
<1> SUFFICES ASSUME FInv
             PROVE  FlowsFallOnce
  OBVIOUS
<1>1. ASSUME stage = "link", NEW i \in FlowsWithin(First.at, here.at)
      PROVE  \E p \in periods : i \in p.taken /\ \A q \in periods \ {p} : i \notin q.taken
  <2>1. i \in Flows /\ First.at < log[i].at /\ log[i].at <= here.at
    BY <1>1 DEF FlowsWithin
  <2>2. log[i].at \in Times /\ log[i].at \in Int
    BY <2>1, EntryType DEF FInv, TInv, TypeOK, Flows
  <2>3. PICK p \in periods : p.from.at < log[i].at /\ log[i].at <= p.to.at
    BY <1>1, <2>1, <2>2 DEF FInv, Merge, Covered
  <2>4. i \in p.taken
    BY <2>1, <2>3 DEF FInv, PeriodsRight, FlowsWithin
  <2>5. ASSUME NEW q \in periods, q # p, i \in q.taken
        PROVE  FALSE
    <3>1. q.from.at < log[i].at /\ log[i].at <= q.to.at
      BY <2>5 DEF FInv, PeriodsRight, FlowsWithin
    <3>2. Apart(p, q)
      BY <1>1, <2>5 DEF FInv, Merge
    <3>3. /\ p.from \in Points /\ p.to \in Points
          /\ q.from \in Points /\ q.to \in Points
      BY DEF FInv, TInv, TypeOK, Periods
    <3>4. /\ p.from.at \in Int /\ p.to.at \in Int
          /\ q.from.at \in Int /\ q.to.at \in Int
      BY <3>3, PointType
    <3>5. QED
      BY <2>2, <2>3, <3>1, <3>2, <3>4 DEF Apart
  <2>6. QED
    BY <2>4, <2>5
<1>2. QED
  BY <1>1 DEF FInv, PeriodsRight, FlowsFallOnce

\* FlowsFallOnce (period_returns.py:76-89): the merge loses no flow and
\* counts none twice, for any number of snapshots and entries, in whatever
\* order and with whatever dates they were recorded.
THEOREM EachFlowFallsOnce == Spec => []FlowsFallOnce
<1>1. QED
  BY InitFlows, NextFlows, FlowsInvImplies, PTL DEF Spec

----------------------------------------------------------------------------
(* The return of the whole *)

\* One snapshot a day: no two boundaries are of one moment.
OnePerDay == \A s, t \in snapshots : DayOf(s.at) = DayOf(t.at) => s = t
Distinct  == \A p, q \in points : p.at = q.at => p = q

\* The periods done began with something, nothing was injected where nothing
\* was taken, and without flows the product is that of the values.
Passed == stage = "link" =>
            /\ \A p \in points : p.at < here.at => p.value # 0
            /\ taken = {} => injection = 0

Quiet == FlowsWithin(First.at, Last.at) = {}

Telescopes == stage = "link" /\ Quiet => growth.n * First.value = growth.d * here.value

RInv == FInv /\ OnePerDay /\ Distinct /\ Passed /\ Telescopes
          /\ ComputableIffPositive /\ TwrIsValueRatio

LEMMA LastType ==
  ASSUME TypeOK, points # {}
  PROVE  Last \in points /\ \A q \in points : q.at <= Last.at
<1>1. points \in SUBSET Points
  BY DEF TypeOK
<1>2. \E p \in points : \A q \in points : q.at <= p.at
  BY <1>1, LatestExists
<1>3. QED
  BY <1>2 DEF Last

\* A boundary that none comes after is the last.
LEMMA HereIsLast ==
  ASSUME TypeOK, Distinct, here \in points
  PROVE  After(here) = {} <=> here = Last
<1>1. Last \in points /\ \A q \in points : q.at <= Last.at
  BY LastType
<1>2. \A q \in points : q.at \in Int
  BY PointType DEF TypeOK
<1>3. CASE After(here) = {}
  <2>1. ~ (Last.at > here.at)
    BY <1>1, <1>3 DEF After
  <2>2. Last.at = here.at
    BY <2>1, <1>1, <1>2
  <2>3. QED
    BY <2>2, <1>1, <1>3 DEF Distinct
<1>4. CASE After(here) # {}
  <2>1. PICK q \in points : q.at > here.at
    BY <1>4 DEF After
  <2>2. QED
    BY <2>1, <1>1, <1>2, <1>4
<1>5. QED
  BY <1>3, <1>4

\* Multiplying by the next return keeps the product that of the values.
LEMMA Chain ==
  ASSUME NEW n \in Int, NEW d \in Int, NEW f \in Int, NEW v0 \in Int, NEW v1 \in Int,
         n * f = d * v0
  PROVE  (n * v1) * f = (d * v0) * v1
<1>1. (n * v1) * f = (n * f) * v1
  BY SMT
<1>2. QED
  BY <1>1

\* None is none of the statuses.
LEMMA NoneIsNoStatus == None \notin {"ok", "not_computable"}
BY NoneAssumption

LEMMA InitReturns == Init => RInv
<1> SUFFICES ASSUME Init
             PROVE  RInv
  OBVIOUS
<1>1. twr # "ok" /\ twr # "not_computable"
  BY InitTyped, NoneIsNoStatus DEF Init
<1>2. QED
  BY <1>1, InitFlows DEF Init, RInv, OnePerDay, Distinct, Passed, Telescopes,
     ComputableIffPositive, TwrIsValueRatio

LEMMA RefreshReturns == RInv /\ Refresh => RInv'
<1> SUFFICES ASSUME RInv, Refresh
             PROVE  RInv'
  OBVIOUS
<1>1. FInv'
  BY NextFlows DEF RInv, Next
<1>2. PICK q \in Quotes : Begin(Worth(q))
  BY DEF Refresh
<1> DEFINE live == [at |-> now, value |-> Worth(q)]
<1>3. OnePerDay'
  BY DEF Refresh, clock, RInv, OnePerDay
<1>4. points' = Boundaries(Worth(q))
  BY <1>2 DEF Begin
<1>5. Distinct'
  <2>1. \A s, t \in snapshots : s.at = t.at => s = t
    BY DEF RInv, OnePerDay
  <2>2. CASE points' \subseteq snapshots
    BY <2>1, <2>2 DEF Distinct
  <2>3. CASE ~ (points' \subseteq snapshots)
    <3>1. points' = {s \in snapshots : s.at <= now} \union {live}
      BY <2>3, <1>4 DEF Boundaries
    <3>2. \A s \in {s \in snapshots : s.at <= now} : s.at < now
      BY <2>3, <1>4 DEF Boundaries
    <3>3. \A s \in snapshots : s.at \in Int
      BY PointType DEF RInv, FInv, TInv, TypeOK
    <3>4. now \in Int
      BY BoundsAssumption DEF RInv, FInv, TInv, TypeOK, Times
    <3>5. live.at = now
      OBVIOUS
    <3> HIDE DEF live
    <3>6. QED
      BY <2>1, <3>1, <3>2, <3>3, <3>4, <3>5 DEF Distinct
  <2>4. QED
    BY <2>2, <2>3
<1>6. twr' \in {"no_data", "insufficient_data", None}
  BY <1>2 DEF Begin
<1>7. ComputableIffPositive' /\ TwrIsValueRatio'
  BY <1>6, NoneIsNoStatus DEF ComputableIffPositive, TwrIsValueRatio
<1>8. ASSUME stage' = "link"
      PROVE  Passed' /\ Telescopes'
  <2>1. here' = First' /\ points' # {}
    BY <1>2, <1>8 DEF Begin, First
  <2>2. growth' = One /\ taken' = {} /\ injection' = 0
    BY DEF Refresh, RInv, FInv, TInv, Stand
  <2>3. TypeOK'
    BY <1>1 DEF FInv, TInv
  <2>4. First' \in points' /\ First' \in Points /\ \A p \in points' : First'.at <= p.at
    <3>1. points' \in SUBSET Points
      BY <2>3 DEF TypeOK
    <3>2. First' = Earliest(points')
      BY DEF First
    <3>3. Earliest(points') \in points' /\ \A p \in points' : Earliest(points').at <= p.at
      BY <3>1, <2>1, EarliestIsFirst
    <3>4. QED
      BY <3>1, <3>2, <3>3
  <2>5. First'.value \in Int /\ First'.at \in Int /\ \A p \in points' : p.at \in Int
    BY <2>3, <2>4, PointType DEF TypeOK
  <2>6. Passed'
    <3>1. \A p \in points' : ~ (p.at < here'.at)
      BY <2>1, <2>4, <2>5
    <3>2. QED
      BY <3>1, <2>2 DEF Passed
  <2>7. growth'.n = 1 /\ growth'.d = 1
    BY <2>2 DEF One
  <2>8. QED
    BY <2>1, <2>5, <2>6, <2>7 DEF Telescopes
<1>9. QED
  BY <1>1, <1>3, <1>5, <1>7, <1>8 DEF RInv, Passed, Telescopes

\* The period at hand lies between the first boundary and the last.
LEMMA PeriodWithin ==
  ASSUME RInv, stage = "link", After(here) # {}
  PROVE  /\ First.at <= here.at /\ here.at < NextPoint.at /\ NextPoint.at <= Last.at
         /\ First.at \in Int /\ here.at \in Int /\ NextPoint.at \in Int /\ Last.at \in Int
<1>1. here \in points /\ TypeOK
  BY DEF RInv, FInv, TInv, Stand
<1>2. First.at <= here.at /\ First \in Points
  BY <1>1, FirstType
<1>3. NextPoint \in points /\ here.at < NextPoint.at /\ NextPoint \in Points /\ here \in Points
  BY <1>1, NextPointType, PointType DEF TypeOK
<1>4. NextPoint.at <= Last.at /\ Last \in Points
  BY <1>1, <1>3, LastType DEF TypeOK
<1>5. QED
  BY <1>2, <1>3, <1>4, PointType

\* Where no flow lies between the first boundary and the last, none is taken.
LEMMA QuietTakesNone ==
  ASSUME RInv, stage = "link", After(here) # {}, Quiet, NEW i \in left \union taken,
         log[i].at <= NextPoint.at
  PROVE  FALSE
<1>1. i \in Flows /\ log[i].at > here.at
  BY DEF RInv, FInv, Merge
<1>2. log[i].at \in Int
  BY <1>1, EntryType DEF RInv, FInv, TInv, TypeOK, Flows
<1>3. i \in FlowsWithin(First.at, Last.at)
  BY <1>1, <1>2, PeriodWithin DEF FlowsWithin
<1>4. QED
  BY <1>3 DEF Quiet

LEMMA TakeFlowReturns == RInv /\ TakeFlow => RInv'
<1> SUFFICES ASSUME RInv, TakeFlow
             PROVE  RInv'
  OBVIOUS
<1>1. FInv'
  BY NextFlows DEF RInv, Next
<1>2. PICK i \in left : Falls(i) /\ taken' = taken \union {i}
  BY DEF TakeFlow
<1>3. /\ UNCHANGED <<now, log, snapshots, stage, value, points, here, periods, growth, twr>>
      /\ stage = "link" /\ After(here) # {}
  BY DEF TakeFlow, clock, Linking
<1>4. First' = First /\ Last' = Last /\ Flows' = Flows
  BY <1>3 DEF First, Last, Flows
<1>5. ~Quiet
  BY <1>2, <1>3, QuietTakesNone DEF Falls
<1>6. ~Quiet'
  BY <1>3, <1>4, <1>5 DEF Quiet, FlowsWithin
<1>7. Passed'
  BY <1>2, <1>3 DEF RInv, Passed
<1>8. ComputableIffPositive' /\ TwrIsValueRatio'
  BY <1>3, <1>4, <1>6 DEF RInv, ComputableIffPositive, TwrIsValueRatio, Quiet
<1>9. QED
  BY <1>1, <1>3, <1>6, <1>7, <1>8 DEF RInv, OnePerDay, Distinct, Telescopes

LEMMA ClosePeriodReturns == RInv /\ ClosePeriod => RInv'
<1> SUFFICES ASSUME RInv, ClosePeriod
             PROVE  RInv'
  OBVIOUS
<1>1. FInv'
  BY NextFlows DEF RInv, Next
<1>2. /\ UNCHANGED <<now, log, snapshots, stage, points, twr>>
      /\ here' = NextPoint /\ taken' = {} /\ injection' = 0
      /\ stage = "link" /\ After(here) # {} /\ here.value > 0 /\ here \in points
  BY DEF ClosePeriod, clock, Linking, RInv, FInv, TInv, Stand
<1>3. First' = First /\ Last' = Last /\ Flows' = Flows
  BY <1>2 DEF First, Last, Flows
<1>4. TypeOK /\ Distinct /\ FInv
  BY DEF RInv, FInv, TInv
<1>5. \A p \in points : p.at \in Int /\ p.value \in Int
  BY <1>4, PointType DEF TypeOK
<1>6. /\ NextPoint \in points /\ NextPoint.at > here.at
      /\ \A q \in After(here) : NextPoint.at <= q.at
  BY <1>2, <1>4, NextPointType
<1>7. ASSUME NEW p \in points, p.at < NextPoint.at
      PROVE  p.value # 0
  <2>1. ~ (p.at > here.at)
    BY <1>5, <1>6, <1>7 DEF After
  <2>2. CASE p.at < here.at
    BY <2>2, <1>2 DEF RInv, Passed
  <2>3. CASE p.at = here.at
    BY <2>3, <1>2, <1>4 DEF Distinct
  <2>4. QED
    BY <2>1, <2>2, <2>3, <1>2, <1>5
<1>8. Passed'
  BY <1>2, <1>7 DEF Passed
<1>9. ASSUME Quiet
      PROVE  growth'.n * First.value = growth'.d * NextPoint.value
  <2>1. taken = {}
    <3>1. \A i \in taken : log[i].at <= NextPoint.at
      BY <1>2, <1>4 DEF FInv, Merge
    <3>2. QED
      BY <3>1, <1>2, <1>9, QuietTakesNone
  <2>2. injection = 0
    BY <2>1, <1>2 DEF RInv, Passed
  <2>3. growth.n * First.value = growth.d * here.value
    BY <1>2, <1>9 DEF RInv, Telescopes
  <2>4. /\ growth.n \in Int /\ growth.d \in Int /\ First.value \in Int
        /\ here.value \in Int /\ NextPoint.value \in Int
    BY <1>2, <1>4, <1>5, <1>6, FirstType DEF TypeOK, Fractions
  <2>5. growth' = [n |-> growth.n * Return(here.value, NextPoint.value, injection).n,
                   d |-> growth.d * Return(here.value, NextPoint.value, injection).d]
    BY DEF ClosePeriod
  <2>6. Return(here.value, NextPoint.value, injection).n = NextPoint.value
    BY <2>2, <2>4 DEF Return
  <2>7. Return(here.value, NextPoint.value, injection).d = here.value
    BY DEF Return
  <2>8. growth'.n = growth.n * NextPoint.value /\ growth'.d = growth.d * here.value
    BY <2>5, <2>6, <2>7
  <2>9. QED
    BY <2>3, <2>4, <2>8, Chain
<1>10. Telescopes'
  BY <1>2, <1>3, <1>9 DEF Telescopes, Quiet, FlowsWithin
<1>11. ComputableIffPositive'
  BY <1>2, <1>3 DEF RInv, ComputableIffPositive
<1>12. twr # "ok"
  BY <1>2, <1>4, NoneIsNoStatus DEF FInv, TInv, Stand
<1>13. TwrIsValueRatio'
  BY <1>2, <1>12 DEF TwrIsValueRatio
<1>14. QED
  BY <1>1, <1>2, <1>8, <1>10, <1>11, <1>13 DEF RInv, OnePerDay, Distinct

LEMMA NotComputableReturns == RInv /\ NotComputable => RInv'
<1> SUFFICES ASSUME RInv, NotComputable
             PROVE  RInv'
  OBVIOUS
<1>1. FInv'
  BY NextFlows DEF RInv, Next
<1>2. /\ UNCHANGED <<snapshots, points>> /\ stage' = "fall" /\ twr' = "not_computable"
      /\ stage = "link" /\ After(here) # {} /\ here.value <= 0
  BY DEF NotComputable, clock, Linking
<1>3. TypeOK /\ Distinct /\ here \in points
  BY <1>2 DEF RInv, FInv, TInv, Stand
<1>4. here.value = 0
  BY <1>2, <1>3, PointType DEF TypeOK
<1>5. here \in points \ {Last}
  BY <1>2, <1>3, HereIsLast
<1>6. Last' = Last
  BY <1>2 DEF Last
<1>7. ComputableIffPositive'
  BY <1>2, <1>4, <1>5, <1>6 DEF ComputableIffPositive
<1>8. QED
  BY <1>1, <1>2, <1>7 DEF RInv, OnePerDay, Distinct, Passed, Telescopes, TwrIsValueRatio

LEMMA CompoundReturns == RInv /\ Compound => RInv'
<1> SUFFICES ASSUME RInv, Compound
             PROVE  RInv'
  OBVIOUS
<1>1. FInv'
  BY NextFlows DEF RInv, Next
<1>2. /\ UNCHANGED <<log, snapshots, points, growth>>
      /\ stage = "link" /\ After(here) = {} /\ stage' # "link"
      /\ twr' = "ok" \/ twr' = twr
  BY DEF Compound, clock
<1>3. TypeOK /\ Distinct /\ here \in points /\ twr = None
  BY <1>2 DEF RInv, FInv, TInv, Stand
<1>4. here = Last /\ First' = First /\ Last' = Last /\ Flows' = Flows
  BY <1>2, <1>3, HereIsLast DEF First, Last, Flows
<1>5. \A p \in points \ {Last} : p.value # 0
  <2>1. ASSUME NEW p \in points, p # here
        PROVE  p.value # 0
    <3>1. ~ (p.at > here.at) /\ p.at # here.at
      BY <1>2, <1>3, <2>1 DEF After, Distinct
    <3>2. p.at < here.at
      BY <3>1, <1>3, PointType DEF TypeOK
    <3>3. QED
      BY <3>2, <1>2 DEF RInv, Passed
  <2>2. QED
    BY <2>1, <1>4
<1>6. ComputableIffPositive'
  BY <1>2, <1>3, <1>4, <1>5, NoneIsNoStatus DEF ComputableIffPositive
<1>7. TwrIsValueRatio'
  BY <1>2, <1>4 DEF RInv, Telescopes, Quiet, TwrIsValueRatio, FlowsWithin
<1>8. QED
  BY <1>1, <1>2, <1>6, <1>7 DEF RInv, OnePerDay, Distinct, Passed, Telescopes

\* The end of a refresh, whatever it stores.
LEMMA OverReturns ==
  ASSUME Over, FInv', OnePerDay'
  PROVE  RInv'
<1>1. twr' # "ok" /\ twr' # "not_computable" /\ points' = {} /\ stage' = "idle"
  BY NoneIsNoStatus DEF Over
<1>2. QED
  BY <1>1 DEF RInv, Distinct, Passed, Telescopes, ComputableIffPositive, TwrIsValueRatio

LEMMA NextReturns == RInv /\ [Next]_vars => RInv'
<1> SUFFICES ASSUME RInv, [Next]_vars
             PROVE  RInv'
  OBVIOUS
<1>1. FInv'
  BY NextFlows DEF RInv
<1>2. ASSUME UNCHANGED <<log, snapshots, points, growth, twr>>, stage # "link", stage' = stage
      PROVE  RInv'
  <2>1. First' = First /\ Last' = Last /\ Flows' = Flows
    BY <1>2 DEF First, Last, Flows
  <2>2. ComputableIffPositive' /\ TwrIsValueRatio'
    BY <1>2, <2>1 DEF RInv, ComputableIffPositive, TwrIsValueRatio, FlowsWithin
  <2>3. QED
    BY <1>1, <1>2, <2>2 DEF RInv, OnePerDay, Distinct, Passed, Telescopes
<1>3. CASE Tick
  BY <1>3, <1>2 DEF Tick, pass
<1>4. CASE Enter
  <2>1. twr # "ok" /\ twr # "not_computable" /\ UNCHANGED <<snapshots, points, stage, twr>>
    BY <1>4, NoneIsNoStatus DEF Enter, RInv, FInv, TInv, Stand
  <2>2. stage = "idle"
    BY <1>4 DEF Enter
  <2>3. QED
    BY <1>1, <2>1, <2>2 DEF RInv, OnePerDay, Distinct, Passed, Telescopes,
       ComputableIffPositive, TwrIsValueRatio
<1>5. CASE Fall
  BY <1>5, <1>2 DEF Fall, clock
<1>6. CASE FallDone
  <2>1. /\ UNCHANGED <<log, snapshots, points, growth, twr>>
        /\ stage # "link" /\ stage' # "link"
    BY <1>6 DEF FallDone, clock, pass
  <2>2. First' = First /\ Last' = Last /\ Flows' = Flows
    BY <2>1 DEF First, Last, Flows
  <2>3. ComputableIffPositive' /\ TwrIsValueRatio'
    BY <2>1, <2>2 DEF RInv, ComputableIffPositive, TwrIsValueRatio, FlowsWithin
  <2>4. QED
    BY <1>1, <2>1, <2>3 DEF RInv, OnePerDay, Distinct, Passed, Telescopes
<1>7. CASE Store
  <2>1. OnePerDay'
    BY <1>7 DEF Store, Due, RInv, OnePerDay
  <2>2. QED
    BY <1>1, <1>7, <2>1, OverReturns DEF Store
<1>8. CASE Fail
  BY <1>1, <1>8, OverReturns DEF Fail, clock, RInv, OnePerDay
<1>9. CASE UNCHANGED vars
  <2>1. UNCHANGED <<log, snapshots, points, growth, twr, stage, here, taken, injection>>
    BY <1>9 DEF vars, clock, pass
  <2>2. First' = First /\ Last' = Last /\ Flows' = Flows
    BY <2>1 DEF First, Last, Flows
  <2>3. ComputableIffPositive' /\ TwrIsValueRatio'
    BY <2>1, <2>2 DEF RInv, ComputableIffPositive, TwrIsValueRatio, FlowsWithin
  <2>4. QED
    BY <1>1, <2>1, <2>2, <2>3 DEF RInv, OnePerDay, Distinct, Passed, Telescopes, Quiet,
       FlowsWithin
<1>10. QED
  BY <1>3, <1>4, <1>5, <1>6, <1>7, <1>8, <1>9, RefreshReturns, TakeFlowReturns,
     ClosePeriodReturns, NotComputableReturns, CompoundReturns DEF Next

\* ComputableIffPositive (period_returns.py:83-84): there is a return if and
\* only if every period begins with something, for any number of snapshots.
THEOREM ComputableExactlyIfPositive == Spec => []ComputableIffPositive
<1>1. RInv => ComputableIffPositive
  BY DEF RInv
<1>2. QED
  BY <1>1, InitReturns, NextReturns, PTL DEF Spec

\* TwrIsValueRatio (twr_calculator.py:44-47): without a flow the periods
\* telescope to the last value over the first, however many they are.
THEOREM TwrTelescopes == Spec => []TwrIsValueRatio
<1>1. RInv => TwrIsValueRatio
  BY DEF RInv
<1>2. QED
  BY <1>1, InitReturns, NextReturns, PTL DEF Spec

----------------------------------------------------------------------------
(* The snapshots are a series *)

\* A snapshot that is due is the first of its day.
LEMMA StoreIsSeries ==
  ASSUME TypeOK, Store
  PROVE  Series!Store \/ UNCHANGED snapshots
<1> DEFINE dates == {DayOf(t) : t \in Times}
           new == [at |-> now, value |-> value]
<1>1. CASE ~Due
  BY <1>1 DEF Store
<1>2. CASE Due
  <2>1. snapshots' = snapshots \union {new} /\ UNCHANGED now
    BY <1>2 DEF Store
  <2>2. DayOf(now) \in dates /\ DayOf(now) <= DayOf(now)
    BY BoundsAssumption DEF TypeOK, DayOf, Times
  <2>3. SnapshotsOf(DayOf(now)) = 0
    <3>1. {s \in snapshots : DayOf(s.at) = DayOf(now)} = {}
      BY <1>2 DEF Due
    <3> QED
      BY <3>1, FS_EmptySet DEF SnapshotsOf
  <2>4. ASSUME NEW day \in dates
        PROVE  SnapshotsOf(day)' = IF day = DayOf(now) THEN 1 ELSE SnapshotsOf(day)
    <3> DEFINE then == {s \in snapshots' : DayOf(s.at) = day}
    <3>1. SnapshotsOf(day)' = Cardinality(then)
      BY DEF SnapshotsOf, DayOf
    <3>2. CASE day = DayOf(now)
      <4>1. then = {new}
        BY <1>2, <2>1, <3>2 DEF Due
      <4>2. Cardinality({new}) = 1
        BY FS_Singleton
      <4> QED
        BY <3>1, <3>2, <4>1, <4>2
    <3>3. CASE day # DayOf(now)
      <4>1. then = {s \in snapshots : DayOf(s.at) = day}
        BY <2>1, <3>3
      <4> QED
        BY <3>1, <3>3, <4>1 DEF SnapshotsOf
    <3> QED
      BY <3>2, <3>3
  <2>5. [day \in dates |-> SnapshotsOf(day)]'
          = [day \in dates |-> IF day = DayOf(now) THEN 1 ELSE SnapshotsOf(day)]
    BY <2>4 DEF DayOf
  <2>6. [day \in dates |-> SnapshotsOf(day)]'
          = [[day \in dates |-> SnapshotsOf(day)] EXCEPT ![DayOf(now)] = 1]
    BY <2>5
  <2> QED
    BY <2>1, <2>2, <2>3, <2>6 DEF Series!Store, DayOf
<1> QED
  BY <1>1, <1>2

\* The snapshots that the returns are computed from are a SnapshotSeries, as
\* the coordinator's are: what PeriodReturns stores at once is what
\* PortfolioCoordinator stores from await to await.
THEOREM ReturnsImplementSeries == Spec => ImplementsSeries
<1> DEFINE dates == {DayOf(t) : t \in Times}
           seen == <<DayOf(now), [day \in dates |-> SnapshotsOf(day)]>>
<1>1. Init => Series!Init
  <2> SUFFICES ASSUME Init PROVE Series!Init
    OBVIOUS
  <2>1. now \in Times
    BY BoundsAssumption DEF Init, Times
  <2>2. \A day \in dates : SnapshotsOf(day) = 0
    BY FS_EmptySet DEF Init, SnapshotsOf
  <2> QED
    BY <2>1, <2>2 DEF Series!Init
<1>2. TypeOK /\ [Next]_vars => [Series!Next]_seen
  <2> SUFFICES ASSUME TypeOK, [Next]_vars PROVE Series!Next \/ UNCHANGED seen
    OBVIOUS
  <2>1. CASE Store
    BY <2>1, StoreIsSeries DEF Store, Series!Next, SnapshotsOf, DayOf
  <2>2. CASE Tick
    <3>1. DayOf(now)' \in dates /\ UNCHANGED snapshots
      BY <2>2 DEF Tick, DayOf
    <3> QED
      BY <3>1 DEF Series!Next, Series!Pass, SnapshotsOf, DayOf
  <2>3. CASE UNCHANGED <<now, snapshots>>
    BY <2>3 DEF SnapshotsOf, DayOf
  <2> QED
    BY <2>1, <2>2, <2>3 DEF Next, Enter, Refresh, NotComputable, TakeFlow, ClosePeriod, Compound, Fall,
                            FallDone, Fail, clock, vars
<1>3. Spec => []TypeOK
  BY TypeCorrect
<1> QED
  BY <1>1, <1>2, <1>3, PTL DEF Spec, ImplementsSeries, Series!Spec

----------------------------------------------------------------------------
(* Flows earn nothing *)

Paid == [i \in Flows |-> Injected(log[i])]

\* What is injected is the sum of what was taken, and as long as only flows
\* changed the value the product of the returns is 1.
InjectionIsSum == injection = SumOn(Paid, taken)

NeutralSoFar ==
  stage = "link" /\ (\A p \in points : p.at < here.at => EarnsNothing(p)) => growth.n = growth.d

NInv == InjectionIsSum /\ NeutralSoFar /\ NeutralToFlows

\* The flows of the log are finitely many, with whole amounts.
LEMMA FlowsAreFinite ==
  ASSUME TypeOK
  PROVE  /\ IsFiniteSet(Flows) /\ DOMAIN Paid = Flows
         /\ \A i \in Flows : Paid[i] \in Int /\ Paid[i] = Injected(log[i])
<1>1. log \in Seq(Transactions)
  BY DEF TypeOK
<1>2. IsFiniteSet(DOMAIN log)
  <2>1. DOMAIN log = 1 .. Len(log) /\ Len(log) \in Nat
    BY <1>1
  <2> QED
    BY <2>1, FS_Interval
<1>3. IsFiniteSet(Flows)
  BY <1>2, FS_Subset DEF Flows
<1>4. \A i \in Flows : Injected(log[i]) \in Int
  BY <1>1, EntryType DEF Flows
<1> QED
  BY <1>3, <1>4 DEF Paid

\* The portfolio receives what the investor pays.
LEMMA InjectedIsPaidIn ==
  ASSUME TypeOK, NEW i \in Flows
  PROVE  PaidIn(log[i]) = Injected(log[i])
<1>1. log[i] \in Transactions /\ log[i].type \in {"deposit", "transfer_in", "withdrawal", "transfer_out"}
  BY DEF Flows, External, FlowSign, TypeOK
<1>2. FlowMagnitude(log[i]) \in Int
  BY <1>1, TransactionsAssumption DEF Flows
<1>3. FlowMagnitude(log[i]) = IF log[i].type \in {"transfer_in", "transfer_out"}
                              THEN log[i].shares * log[i].price ELSE log[i].amount
  BY DEF FlowMagnitude
<1>4. Injected(log[i]) = -(FlowSign[log[i].type] * FlowMagnitude(log[i]))
  BY DEF Injected, SignedFlow
<1>5. /\ FlowSign["deposit"] = -1 /\ FlowSign["transfer_in"] = -1
      /\ FlowSign["withdrawal"] = 1 /\ FlowSign["transfer_out"] = 1
  BY DEF FlowSign
<1> DEFINE m == FlowMagnitude(log[i])
<1> HIDE DEF m
<1>6. /\ -(-1 * m) = m /\ -(1 * m) = -m
  BY <1>2 DEF m
<1>7. CASE log[i].type = "deposit"
  BY <1>2, <1>3, <1>4, <1>5, <1>6, <1>7 DEF PaidIn, m
<1>8. CASE log[i].type = "transfer_in"
  BY <1>2, <1>3, <1>4, <1>5, <1>6, <1>8 DEF PaidIn, m
<1>9. CASE log[i].type = "withdrawal"
  BY <1>2, <1>3, <1>4, <1>5, <1>6, <1>9 DEF PaidIn, m
<1>10. CASE log[i].type = "transfer_out"
  BY <1>2, <1>3, <1>4, <1>5, <1>6, <1>10 DEF PaidIn, m
<1> QED
  BY <1>1, <1>7, <1>8, <1>9, <1>10

\* The injection of a period that is closed is what was paid within it.
LEMMA InjectionIsPaidWithin ==
  ASSUME RInv, InjectionIsSum, ClosePeriod
  PROVE  injection = SumOn([i \in Flows |-> PaidIn(log[i])], FlowsWithin(here.at, NextPoint.at))
<1> DEFINE in == [i \in Flows |-> PaidIn(log[i])]
<1>1. FInv /\ TypeOK
  BY DEF RInv, FInv, TInv
<1>2. taken = FlowsWithin(here.at, NextPoint.at) /\ taken \subseteq Flows
  BY <1>1, ClosesRight DEF TypeOK
<1>3. IsFiniteSet(taken)
  BY <1>1, <1>2, FlowsAreFinite, FS_Subset
<1>4. \A i \in taken : Paid[i] = in[i]
  BY <1>1, <1>2, FlowsAreFinite, InjectedIsPaidIn
<1> HIDE DEF in
<1>5. SumOn(Paid, taken) = SumOn(in, taken)
  BY <1>3, <1>4, SumEqual
<1> QED
  BY <1>2, <1>5 DEF InjectionIsSum, in

LEMMA InitNeutral == Init => NInv
<1> SUFFICES ASSUME Init PROVE NInv
  OBVIOUS
<1>1. twr # "ok"
  BY NoneIsNoStatus DEF Init
<1>2. InjectionIsSum
  BY SumEmpty DEF Init, InjectionIsSum
<1> QED
  BY <1>1, <1>2 DEF Init, NInv, NeutralSoFar, NeutralToFlows

\* One more flow is taken: the sum grows by it, the rest stays.
LEMMA TakeFlowNeutral == RInv /\ NInv /\ TakeFlow => NInv'
<1> SUFFICES ASSUME RInv, NInv, TakeFlow PROVE NInv'
  OBVIOUS
<1>1. PICK i \in left : /\ taken' = taken \union {i}
                        /\ injection' = injection + Injected(log[i])
  BY DEF TakeFlow
<1>2. /\ UNCHANGED <<log, points, here, stage, growth, twr>> /\ stage = "link"
  BY DEF TakeFlow, clock, Linking
<1>3. TypeOK /\ i \in Flows /\ i \notin taken /\ taken \subseteq Flows
  BY <1>1, <1>2 DEF RInv, FInv, TInv, Merge, TypeOK
<1>4. Paid' = Paid /\ Flows' = Flows
  BY <1>2 DEF Paid, Flows
<1>5. InjectionIsSum'
  <2>1. IsFiniteSet(taken) /\ \A j \in taken : Paid[j] \in Int
    BY <1>3, FlowsAreFinite, FS_Subset
  <2>2. Paid[i] \in Int /\ Paid[i] = Injected(log[i])
    BY <1>3, FlowsAreFinite
  <2>3. SumOn(Paid, taken \union {i}) = SumOn(Paid, taken) + Paid[i]
    BY <1>3, <2>1, <2>2, SumAdd
  <2> QED
    BY <1>1, <1>4, <2>2, <2>3 DEF NInv, InjectionIsSum
<1>6. NeutralSoFar'
  BY <1>2, <1>4 DEF NInv, NeutralSoFar, EarnsNothing, After, FlowsWithin
<1>7. twr' # "ok"
  BY <1>2, NoneIsNoStatus DEF RInv, FInv, TInv, Stand
<1> QED
  BY <1>5, <1>6, <1>7 DEF NInv, NeutralToFlows

\* A period that earned nothing has the return 1.
LEMMA ClosePeriodNeutral == RInv /\ NInv /\ ClosePeriod => NInv'
<1> SUFFICES ASSUME RInv, NInv, ClosePeriod PROVE NInv'
  OBVIOUS
<1>1. /\ UNCHANGED <<log, points, stage, twr>> /\ stage = "link"
      /\ here' = NextPoint /\ taken' = {} /\ injection' = 0 /\ here \in points /\ After(here) # {}
  BY DEF ClosePeriod, clock, Linking, RInv, FInv, TInv, Stand
<1>2. InjectionIsSum'
  BY <1>1, SumEmpty DEF InjectionIsSum
<1>3. TypeOK
  BY DEF RInv, FInv, TInv
<1>4. /\ here.at \in Int /\ NextPoint.at \in Int /\ here.at < NextPoint.at
      /\ here.value \in Int /\ NextPoint.value \in Int
      /\ \A p \in points : p.at \in Int
  BY <1>1, <1>3, NextPointType, PointType DEF TypeOK
<1>5. ASSUME \A p \in points : p.at < NextPoint.at => EarnsNothing(p)
      PROVE  growth'.n = growth'.d
  <2>1. \A p \in points : p.at < here.at => EarnsNothing(p)
    BY <1>4, <1>5
  <2>2. growth.n = growth.d
    BY <1>1, <2>1 DEF NInv, NeutralSoFar
  <2>3. EarnsNothing(here)
    BY <1>1, <1>4, <1>5
  <2>4. NextPoint.value - here.value = injection
    BY <2>3, InjectionIsPaidWithin DEF EarnsNothing, NextPoint, NInv
  <2>5. NextPoint.value - injection = here.value
    BY <1>4, <2>4
  <2>6. growth' = [n |-> growth.n * here.value, d |-> growth.d * here.value]
    BY <2>5 DEF ClosePeriod, Return
  <2> QED
    BY <2>2, <2>6
<1>6. \A p \in points : EarnsNothing(p)' = EarnsNothing(p)
  BY <1>1 DEF EarnsNothing, After, FlowsWithin, Flows
<1>7. NeutralSoFar'
  <2> SUFFICES ASSUME \A p \in points : p.at < NextPoint.at => EarnsNothing(p)'
               PROVE  growth'.n = growth'.d
    BY <1>1 DEF NeutralSoFar
  <2> QED
    BY <1>5, <1>6
<1>8. twr' # "ok"
  BY <1>1, NoneIsNoStatus DEF RInv, FInv, TInv, Stand
<1> QED
  BY <1>2, <1>7, <1>8 DEF NInv, NeutralToFlows

\* At the end every boundary but the last lies before the one at hand.
LEMMA CompoundNeutral == RInv /\ NInv /\ Compound => NInv'
<1> SUFFICES ASSUME RInv, NInv, Compound PROVE NInv'
  OBVIOUS
<1>1. /\ UNCHANGED <<log, points, growth, taken, injection>>
      /\ stage = "link" /\ After(here) = {} /\ stage' # "link"
  BY DEF Compound, clock
<1>2. TypeOK /\ here \in points /\ Distinct
  BY <1>1 DEF RInv, FInv, TInv, Stand
<1>3. Flows' = Flows /\ Paid' = Paid /\ Last' = Last /\ here = Last
  BY <1>1, <1>2, HereIsLast DEF Flows, Paid, Last
<1>4. InjectionIsSum'
  BY <1>1, <1>3 DEF NInv, InjectionIsSum
<1>5. \A p \in points : EarnsNothing(p)' = EarnsNothing(p)
  BY <1>1, <1>3 DEF EarnsNothing, After, FlowsWithin
<1>6. \A p \in points : p.at < here.at => p # Last
  BY <1>2, <1>3, PointType DEF TypeOK
<1>7. NeutralToFlows'
  <2> SUFFICES ASSUME \A p \in points \ {Last} : EarnsNothing(p)'
               PROVE  growth.n = growth.d
    BY <1>1, <1>3 DEF NeutralToFlows
  <2>1. \A p \in points : p.at < here.at => EarnsNothing(p)
    BY <1>5, <1>6
  <2> QED
    BY <1>1, <2>1 DEF NInv, NeutralSoFar
<1> QED
  BY <1>1, <1>4, <1>7 DEF NInv, NeutralSoFar

LEMMA NextNeutral == RInv /\ NInv /\ [Next]_vars => NInv'
<1> SUFFICES ASSUME RInv, NInv, [Next]_vars PROVE NInv'
  OBVIOUS
<1>1. ASSUME UNCHANGED <<log, points, growth, twr, taken, injection>>,
             stage' # "link" \/ UNCHANGED <<stage, here>>
      PROVE  NInv'
  <2>1. Last' = Last /\ Flows' = Flows /\ Paid' = Paid
    BY <1>1 DEF Last, Flows, Paid
  <2>2. \A p \in points : EarnsNothing(p)' = EarnsNothing(p)
    BY <1>1, <2>1 DEF EarnsNothing, After, FlowsWithin
  <2>3. InjectionIsSum'
    BY <1>1, <2>1 DEF NInv, InjectionIsSum
  <2>4. NeutralSoFar'
    BY <1>1, <2>2 DEF NInv, NeutralSoFar
  <2>5. NeutralToFlows'
    BY <1>1, <2>1, <2>2 DEF NInv, NeutralToFlows
  <2> QED
    BY <2>3, <2>4, <2>5 DEF NInv
<1>2. ASSUME twr' # "ok", taken' = {}, injection' = 0, growth' = One PROVE NInv'
  <2>1. InjectionIsSum'
    BY <1>2, SumEmpty DEF InjectionIsSum
  <2> QED
    BY <1>2, <2>1 DEF NInv, NeutralSoFar, NeutralToFlows, One
<1>3. CASE Tick
  BY <1>1, <1>3 DEF Tick, pass
<1>4. CASE Enter
  <2>1. twr' # "ok" /\ taken' = {} /\ injection' = 0 /\ growth' = One
    BY <1>4, NoneIsNoStatus DEF Enter, pass, RInv, FInv, TInv, Stand
  <2> QED
    BY <1>2, <2>1
<1>5. CASE Refresh
  <2>1. twr' # "ok"
    BY <1>5, NoneIsNoStatus DEF Refresh, Begin
  <2>2. taken' = {} /\ injection' = 0 /\ growth' = One
    BY <1>5 DEF Refresh, RInv, FInv, TInv, Stand
  <2> QED
    BY <1>2, <2>1, <2>2
<1>6. CASE NotComputable
  <2>1. /\ UNCHANGED <<log, taken, injection>> /\ stage' # "link" /\ twr' # "ok"
    BY <1>6 DEF NotComputable, clock
  <2>2. InjectionIsSum'
    BY <2>1 DEF NInv, InjectionIsSum, Paid, Flows
  <2> QED
    BY <2>1, <2>2 DEF NInv, NeutralSoFar, NeutralToFlows
<1>7. CASE Fall
  <2>1. UNCHANGED <<log, points, growth, twr, taken, injection>> /\ stage' # "link"
    BY <1>7 DEF Fall, clock
  <2> QED
    BY <1>1, <2>1
<1>8. CASE FallDone
  <2>1. UNCHANGED <<log, points, growth, twr, taken, injection>> /\ stage' # "link"
    BY <1>8 DEF FallDone, clock, pass
  <2> QED
    BY <1>1, <2>1
<1>9. CASE Over
  BY <1>2, <1>9, NoneIsNoStatus DEF Over
<1>10. CASE UNCHANGED vars
  BY <1>1, <1>10 DEF vars, clock, pass
<1> QED
  BY <1>3, <1>4, <1>5, <1>6, <1>7, <1>8, <1>9, <1>10, TakeFlowNeutral, ClosePeriodNeutral,
     CompoundNeutral DEF Next, Store, Fail

\* NeutralToFlows (twr_calculator.py:10-13): where the value changed by what was
\* paid in and out alone, TWR is 0, whatever the flows and however many.
THEOREM FlowsEarnNothing == Spec => []NeutralToFlows
<1>1. NInv => NeutralToFlows
  BY DEF NInv
<1> QED
  BY <1>1, InitReturns, NextReturns, InitNeutral, NextNeutral, PTL DEF Spec

----------------------------------------------------------------------------
(* The deepest fall *)

\* What has been visited, its highest value, and its deepest fall.
Seen == {p \in points : p.at <= here.at}

PeakOfSeen == (\A p \in Seen : p.value <= peak) /\ (\E p \in Seen : p.value = peak)

FallOf(f, S) == \E p, q \in S : p.at <= q.at /\ p.value > 0 /\ f = Below(q.value, p.value)

DeepestOfSeen ==
  /\ deepest = Zero \/ FallOf(deepest, Seen)
  /\ \A p, q \in Seen : p.at <= q.at /\ p.value > 0
                          => ~Less(Below(q.value, p.value), deepest)

Fallen ==
  /\ stage \in {"idle", "link"} => deepest = Zero
  /\ stage = "link" => peak = First.value
  /\ stage = "fall" => PeakOfSeen /\ DeepestOfSeen

DInv == RInv /\ Fallen /\ DeepestOfAllFalls

\* Not to be less is transitive for fractions with positive denominators.
LEMMA NotLessTransitive ==
  ASSUME NEW f \in Fractions, NEW g \in Fractions, NEW h \in Fractions,
         ~Less(f, g), ~Less(g, h)
  PROVE  ~Less(f, h)
<1>1. /\ f.n \in Int /\ g.n \in Int /\ h.n \in Int
      /\ f.d \in Int /\ g.d \in Int /\ h.d \in Int
      /\ f.d > 0 /\ g.d > 0 /\ h.d > 0
  BY DEF Fractions
<1>2. g.n * f.d <= f.n * g.d /\ h.n * g.d <= g.n * h.d
  BY <1>1 DEF Less
<1>3. \A x, y, z \in Int : x <= y /\ z > 0 => x * z <= y * z
  BY SMT
<1>4. \A x, y \in Int : x * y \in Int
  BY SMT
<1>5. (g.n * f.d) * h.d <= (f.n * g.d) * h.d /\ (h.n * g.d) * f.d <= (g.n * h.d) * f.d
  BY <1>1, <1>2, <1>3, <1>4
<1>6. \A x, y, z \in Int : (x * y) * z = (x * z) * y
  BY SMT
<1>7. (h.n * f.d) * g.d <= (f.n * h.d) * g.d
  <2>1. /\ (h.n * g.d) * f.d = (h.n * f.d) * g.d
        /\ (g.n * h.d) * f.d = (g.n * f.d) * h.d
        /\ (f.n * g.d) * h.d = (f.n * h.d) * g.d
    BY <1>1, <1>6
  <2>2. /\ (h.n * f.d) * g.d \in Int /\ (g.n * f.d) * h.d \in Int
        /\ (f.n * h.d) * g.d \in Int
    BY <1>1, <1>4
  <2>3. QED
    BY <1>5, <2>1, <2>2
<1>8. \A x, y, z \in Int : x < y /\ z > 0 => x * z < y * z
  BY SMT
<1>9. ~ (f.n * h.d < h.n * f.d)
  <2>1. f.n * h.d \in Int /\ h.n * f.d \in Int
    BY <1>1, <1>4
  <2>2. /\ (f.n * h.d) * g.d \in Int /\ (h.n * f.d) * g.d \in Int
    BY <2>1, <1>1, <1>4
  <2>3. QED
    BY <1>7, <1>8, <1>1, <2>1, <2>2
<1>10. QED
  BY <1>9 DEF Less

\* Less is a strict order of fractions.
LEMMA LessIrreflexive ==
  ASSUME NEW f \in Fractions
  PROVE  ~Less(f, f)
<1>1. f.n * f.d \in Int
  BY SMT DEF Fractions
<1>2. QED
  BY <1>1 DEF Less

LEMMA LessAsymmetric ==
  ASSUME NEW f \in Fractions, NEW g \in Fractions, Less(f, g)
  PROVE  ~Less(g, f)
<1>1. f.n \in Int /\ g.n \in Int /\ f.d \in Int /\ g.d \in Int
  BY DEF Fractions
<1>2. f.n * g.d \in Int /\ g.n * f.d \in Int
  BY <1>1, SMT
<1>3. QED
  BY <1>2 DEF Less

\* A fall from a higher peak is the deeper one.
LEMMA DeeperFromHigher ==
  ASSUME NEW v \in Nat, NEW low \in Nat, NEW top \in Nat, low > 0, low <= top
  PROVE  /\ ~Less(Below(v, low), Below(v, top))
         /\ Below(v, low) \in Fractions /\ Below(v, top) \in Fractions
<1>1. v * low <= v * top
  BY SMT
<1>2. (v - low) * top = v * top - low * top /\ (v - top) * low = v * low - top * low
  BY SMT
<1>3. top * low = low * top /\ v * low \in Int /\ v * top \in Int /\ low * top \in Int
  BY SMT
<1>4. ~ ((v - low) * top < (v - top) * low)
  BY <1>1, <1>2, <1>3
<1>5. QED
  BY <1>4 DEF Below, Less, Fractions

\* One boundary visited: it is the peak, and nothing has fallen.
LEMMA FirstSeen ==
  ASSUME NEW S, NEW p \in Points, S = {p}
  PROVE  \A x, y \in S : x.value > 0 => ~Less(Below(y.value, x.value), Zero)
<1>1. p.value \in Nat
  BY PointType
<1>2. (p.value - p.value) * 1 = 0 /\ 0 * p.value = 0
  BY <1>1
<1>3. ~Less(Below(p.value, p.value), Zero)
  BY <1>1, <1>2 DEF Less, Below, Zero
<1>4. QED
  BY <1>3

\* A fall that is about to be measured stands at the first boundary.
LEMMA FallBegins ==
  ASSUME TypeOK', Distinct', points' # {}, here' = First', peak' = First'.value,
         deepest' = Zero
  PROVE  PeakOfSeen' /\ DeepestOfSeen'
<1>1. points' \in SUBSET Points /\ First' = Earliest(points')
  BY DEF TypeOK, First
<1>2. First' \in points' /\ First' \in Points /\ \A p \in points' : First'.at <= p.at
  BY <1>1, EarliestIsFirst
<1>3. \A p \in points' : p.at \in Int /\ p.value \in Nat
  BY <1>1, PointType
<1>4. Seen' = {First'}
  <2>1. \A p \in points' : p.at <= First'.at => p.at = First'.at
    BY <1>2, <1>3
  <2>2. \A p \in points' : p.at <= First'.at => p = First'
    BY <2>1, <1>2 DEF Distinct
  <2>3. First'.at <= First'.at
    BY <1>2, <1>3
  <2>4. QED
    BY <2>2, <2>3, <1>2 DEF Seen
<1>5. PeakOfSeen'
  BY <1>2, <1>3, <1>4 DEF PeakOfSeen
<1>6. \A p, q \in Seen' : p.value > 0 => ~Less(Below(q.value, p.value), Zero)
  BY <1>2, <1>4, FirstSeen
<1>7. DeepestOfSeen'
  BY <1>6 DEF DeepestOfSeen
<1>8. QED
  BY <1>5, <1>7

LEMMA InitFallen == Init => DInv
BY InitReturns DEF Init, DInv, Fallen, DeepestOfAllFalls

LEMMA FallFallen == DInv /\ Fall => Fallen'
<1> SUFFICES ASSUME DInv, Fall
             PROVE  Fallen'
  OBVIOUS
<1> DEFINE v   == NextPoint.value
           top == IF v > peak THEN v ELSE peak
<1>1. /\ UNCHANGED points /\ here' = NextPoint /\ stage = "fall" /\ stage' = "fall"
      /\ peak' = top /\ deepest' = Deeper(v, top) /\ After(here) # {}
  BY DEF Fall
<1>2. TypeOK /\ Distinct /\ PeakOfSeen /\ DeepestOfSeen /\ here \in points
  BY <1>1 DEF DInv, RInv, FInv, TInv, Stand, Fallen
<1>3. /\ NextPoint \in points /\ NextPoint.at > here.at
      /\ \A q \in After(here) : NextPoint.at <= q.at
  BY <1>1, <1>2, NextPointType
<1>4. \A p \in points : p.at \in Int /\ p.value \in Nat
  BY <1>2, PointType DEF TypeOK
<1>5. /\ v \in Nat /\ top \in Nat /\ peak \in Nat /\ peak <= top /\ v <= top
      /\ top = v \/ top = peak
  BY <1>2, <1>3, <1>4 DEF TypeOK
<1> HIDE DEF v, top
<1>6. Seen' = Seen \union {NextPoint}
  <2>1. \A p \in points : p.at <= NextPoint.at <=> p.at <= here.at \/ p = NextPoint
    <3>1. \A p \in points : p.at > here.at => NextPoint.at <= p.at
      BY <1>3 DEF After
    <3>2. \A p \in points : p.at = NextPoint.at => p = NextPoint
      BY <1>2, <1>3 DEF Distinct
    <3>3. QED
      BY <3>1, <3>2, <1>2, <1>3, <1>4
  <2>2. QED
    BY <2>1, <1>1, <1>3 DEF Seen
<1>7. \A p \in Seen : p \in points /\ p.at <= here.at /\ p.value \in Nat /\ p.at \in Int
  BY <1>4 DEF Seen
<1>8. v = NextPoint.value
  BY DEF v
<1>9. PeakOfSeen'
  <2>1. \A p \in Seen' : p.value <= top
    BY <1>2, <1>5, <1>6, <1>7, <1>8 DEF PeakOfSeen
  <2>2. \E p \in Seen' : p.value = top
    BY <1>2, <1>5, <1>6, <1>8 DEF PeakOfSeen
  <2>3. QED
    BY <2>1, <2>2, <1>1 DEF PeakOfSeen
<1>10. PICK m \in Seen' : m.value = top
  BY <1>9, <1>1 DEF PeakOfSeen
<1>11. m.at <= NextPoint.at /\ m \in points
  BY <1>1, <1>10 DEF Seen
<1>12. deepest \in Fractions /\ (top > 0 => Below(v, top) \in Fractions)
  BY <1>2, <1>5 DEF TypeOK, Below, Fractions
<1>13. deepest' = deepest \/ (top > 0 /\ deepest' = Below(v, top) /\ Less(Below(v, top), deepest))
  BY <1>1 DEF Deeper
<1>14. deepest' = Zero \/ FallOf(deepest', Seen')
  <2>1. CASE deepest' = deepest
    BY <2>1, <1>2, <1>6 DEF DeepestOfSeen, FallOf
  <2>2. CASE top > 0 /\ deepest' = Below(v, top)
    BY <2>2, <1>6, <1>8, <1>10, <1>11 DEF FallOf
  <2>3. QED
    BY <2>1, <2>2, <1>13
<1>15. deepest' \in Fractions /\ ~Less(deepest, deepest') 
  <2>1. CASE deepest' = deepest
    BY <2>1, <1>12, LessIrreflexive
  <2>2. CASE top > 0 /\ deepest' = Below(v, top) /\ Less(Below(v, top), deepest)
    BY <2>2, <1>12, LessAsymmetric
  <2>3. QED
    BY <2>1, <2>2, <1>13
<1>16. top > 0 => ~Less(Below(v, top), deepest')
  <2>1. CASE deepest' = deepest /\ top > 0
    <3>1. ~Less(Below(v, top), deepest) \/ deepest' = Below(v, top)
      BY <2>1, <1>1 DEF Deeper
    <3>2. QED
      BY <3>1, <2>1, <1>12, LessIrreflexive
  <2>2. CASE top > 0 /\ deepest' = Below(v, top)
    BY <2>2, <1>12, LessIrreflexive
  <2>3. QED
    BY <2>1, <2>2, <1>13
<1>17. ASSUME NEW p \in Seen', NEW q \in Seen', p.at <= q.at, p.value > 0
       PROVE  ~Less(Below(q.value, p.value), deepest')
  <2>1. p.value \in Nat /\ q.value \in Nat /\ p \in points /\ q \in points
    BY <1>1, <1>4 DEF Seen
  <2>2. p.value <= top
    BY <1>9, <1>1 DEF PeakOfSeen
  <2>3. Below(q.value, p.value) \in Fractions
    BY <2>1, <1>17 DEF Below, Fractions
  <2>4. CASE q = NextPoint
    <3>1. top > 0
      BY <2>1, <2>2, <1>17, <1>5
    <3>2. ~Less(Below(v, p.value), Below(v, top)) /\ Below(v, p.value) \in Fractions
      BY <2>1, <2>2, <1>5, <1>17, DeeperFromHigher
    <3>3. QED
      BY <3>1, <3>2, <2>4, <1>8, <1>12, <1>15, <1>16, NotLessTransitive
  <2>5. CASE q # NextPoint
    <3>1. q \in Seen
      BY <2>5, <1>6
    <3>2. p \in Seen
      <4>1. p # NextPoint
        BY <3>1, <1>3, <1>4, <1>7, <1>17, <1>2
      <4>2. QED
        BY <4>1, <1>6
    <3>3. ~Less(Below(q.value, p.value), deepest)
      BY <3>1, <3>2, <1>2, <1>17 DEF DeepestOfSeen
    <3>4. QED
      BY <3>3, <2>3, <1>12, <1>15, NotLessTransitive
  <2>6. QED
    BY <2>4, <2>5
<1>18. QED
  BY <1>1, <1>9, <1>14, <1>17 DEF Fallen, DeepestOfSeen

\* What the drawdown is measured on does not change in other steps.
LEMMA NextFallen == DInv /\ [Next]_vars => Fallen'
<1> SUFFICES ASSUME DInv, [Next]_vars
             PROVE  Fallen'
  OBVIOUS
<1>1. RInv'
  BY NextReturns DEF DInv
<1>2. TypeOK' /\ Distinct'
  BY <1>1 DEF RInv, FInv, TInv
<1>3. CASE Over
  BY <1>3 DEF Over, Fallen
<1>4. CASE Tick \/ Enter
  BY <1>4 DEF Tick, Enter, pass, fall, DInv, Fallen
<1>5. CASE Refresh
  <2>1. deepest' = Zero /\ stage = "idle"
    BY <1>5 DEF Refresh, DInv, Fallen
  <2>2. PICK q \in Quotes : Begin(Worth(q))
    BY <1>5 DEF Refresh
  <2>3. stage' \in {"link", "fall"} => points' # {} /\ here' = First' /\ peak' = First'.value
    BY <2>2 DEF Begin, First
  <2>4. stage' # "idle"
    BY <2>2 DEF Begin
  <2>5. stage' = "fall" => PeakOfSeen' /\ DeepestOfSeen'
    BY <1>2, <2>1, <2>3, FallBegins
  <2>6. QED
    BY <2>1, <2>3, <2>5 DEF Fallen
<1>6. CASE NotComputable \/ Compound
  <2>1. /\ UNCHANGED <<points, peak, deepest>> /\ stage = "link"
        /\ \/ stage' = "fall" /\ here' = First
           \/ stage' = "raised"
    BY <1>6 DEF NotComputable, Compound, Linking, fall
  <2>2. peak = First.value /\ deepest = Zero /\ here \in points
    BY <2>1 DEF DInv, Fallen, RInv, FInv, TInv, Stand
  <2>3. First' = First
    BY <2>1 DEF First
  <2>4. stage' = "fall" => PeakOfSeen' /\ DeepestOfSeen'
    BY <1>2, <2>1, <2>2, <2>3, FallBegins
  <2>5. QED
    BY <2>1, <2>4 DEF Fallen
<1>7. CASE TakeFlow \/ ClosePeriod
  <2>1. UNCHANGED <<points, peak, deepest, stage>> /\ stage = "link"
    BY <1>7 DEF TakeFlow, ClosePeriod, Linking, fall
  <2>2. QED
    BY <2>1 DEF DInv, Fallen, First
<1>8. CASE FallDone
  BY <1>8 DEF FallDone, Fallen
<1>9. CASE UNCHANGED vars
  <2>1. UNCHANGED <<points, here, peak, deepest, stage>>
    BY <1>9 DEF vars, pass, fall
  <2>2. Seen' = Seen /\ First' = First
    BY <2>1 DEF Seen, First
  <2>3. QED
    BY <2>1, <2>2 DEF DInv, Fallen, PeakOfSeen, DeepestOfSeen
<1>10. QED
  BY <1>3, <1>4, <1>5, <1>6, <1>7, <1>8, <1>9, FallFallen DEF Next, Store, Fail

\* The end of the loop has visited every boundary.
LEMMA FallDoneDeepest == DInv /\ FallDone => DeepestOfAllFalls'
<1> SUFFICES ASSUME DInv, FallDone
             PROVE  DeepestOfAllFalls'
  OBVIOUS
<1>1. /\ UNCHANGED <<points, deepest>> /\ stage = "fall" /\ After(here) = {}
  BY DEF FallDone
<1>2. DeepestOfSeen /\ here \in points /\ TypeOK
  BY <1>1 DEF DInv, Fallen, RInv, FInv, TInv, Stand
<1>3. Seen = points
  <2>1. \A p \in points : p.at \in Int /\ ~ (p.at > here.at)
    BY <1>1, <1>2, PointType DEF TypeOK, After
  <2>2. QED
    BY <2>1, <1>2 DEF Seen
<1> DEFINE falls == {Below(e[2].value, e[1].value) :
                       e \in {e \in points \X points : e[1].at <= e[2].at /\ e[1].value > 0}}
<1>4. deepest \in falls \union {Zero}
  <2>1. ASSUME FallOf(deepest, points)
        PROVE  deepest \in falls
    <3>1. PICK p \in points, q \in points :
            p.at <= q.at /\ p.value > 0 /\ deepest = Below(q.value, p.value)
      BY <2>1 DEF FallOf
    <3>2. <<p, q>> \in {e \in points \X points : e[1].at <= e[2].at /\ e[1].value > 0}
      BY <3>1
    <3>3. deepest = Below(<<p, q>>[2].value, <<p, q>>[1].value)
      BY <3>1
    <3>4. QED
      BY <3>2, <3>3
  <2>2. QED
    BY <2>1, <1>2, <1>3 DEF DeepestOfSeen
<1>5. \A f \in falls : ~Less(f, deepest)
  BY <1>2, <1>3 DEF DeepestOfSeen
<1> HIDE DEF falls
<1>6. QED
  BY <1>1, <1>4, <1>5 DEF DeepestOfAllFalls, falls

LEMMA NextDeepest == DInv /\ [Next]_vars => DInv'
<1> SUFFICES ASSUME DInv, [Next]_vars
             PROVE  DInv'
  OBVIOUS
<1>1. RInv' /\ Fallen'
  BY NextReturns, NextFallen DEF DInv
<1>2. CASE FallDone
  BY <1>1, <1>2, FallDoneDeepest DEF DInv
<1>3. CASE stage' = "store" /\ UNCHANGED <<stage, points, deepest>>
  BY <1>1, <1>3 DEF DInv, DeepestOfAllFalls
<1>4. CASE Refresh
  <2>1. stage' = "store" => points' = {}
    BY <1>4 DEF Refresh, Begin
  <2>2. QED
    BY <1>1, <2>1 DEF DInv, DeepestOfAllFalls
<1>5. CASE stage' # "store"
  BY <1>1, <1>5 DEF DInv, DeepestOfAllFalls
<1>6. QED
  BY <1>2, <1>3, <1>4, <1>5
  DEF Next, Tick, Enter, NotComputable, TakeFlow, ClosePeriod, Compound, Fall, Store, Fail,
      Over, Linking, fall, vars

\* DeepestOfAllFalls (drawdown_calculator.py:53-60): the running peak finds the
\* deepest fall between any two boundaries, for any number of them.
THEOREM MaximumDrawdown == Spec => []DeepestOfAllFalls
<1>1. DInv => DeepestOfAllFalls
  BY DEF DInv
<1>2. QED
  BY <1>1, InitFallen, NextDeepest, PTL DEF Spec

----------------------------------------------------------------------------
(* The recovery *)

\* Products with a positive number keep an order.
LEMMA Scale == \A x, y \in Int : \A z \in Nat \ {0} : (x < y <=> x * z < y * z) /\ (x <= y <=> x * z <= y * z)
<1> SUFFICES ASSUME NEW x \in Int, NEW y \in Int, NEW z \in Nat \ {0}
             PROVE  (x < y <=> x * z < y * z) /\ (x <= y <=> x * z <= y * z)
  OBVIOUS
<1>1. ASSUME NEW a \in Int, NEW b \in Int, a < b PROVE a * z < b * z
  <2>1. PICK e \in Nat \ {0} : b = a + e
    BY <1>1
  <2>2. b * z = a * z + e * z /\ e * z > 0
    BY <2>1
  <2> QED
    BY <2>2
<1>2. x * z \in Int /\ y * z \in Int
  OBVIOUS
<1>3. CASE x < y
  BY <1>1, <1>2, <1>3
<1>4. CASE x = y
  BY <1>2, <1>4
<1>5. CASE y < x
  BY <1>1, <1>2, <1>5
<1> QED
  BY <1>3, <1>4, <1>5

\* Rounded is within half a unit of the percentage.
LEMMA RoundedIsNear ==
  ASSUME NEW n \in Int, NEW d \in Nat \ {0}
  PROVE  LET k == Rounded([n |-> n, d |-> d])
         IN  /\ k \in Int
             /\ 2 * (k * d) <= 2000000 * n + d
             /\ 2000000 * n + d < 2 * (k * d) + 2 * d
<1> DEFINE a == 2000000 * n + d
           b == 2 * d
           k == a \div b
<1>1. a \in Int /\ b \in Nat \ {0} /\ Rounded([n |-> n, d |-> d]) = k
  BY DEF Rounded
<1> HIDE DEF a, b
<1>2. k \in Int /\ b * k <= a /\ a < b * k + b
  BY <1>1
<1> HIDE DEF k
<1>3. b * k = 2 * (k * d)
  BY <1>2 DEF b
<1> QED
  BY <1>1, <1>2, <1>3 DEF a, b

\* A number without remainder is a multiple.
LEMMA Divides ==
  ASSUME NEW a \in Int, NEW t \in Nat \ {0}, a % t = 0
  PROVE  \E m \in Int : a = m * t
OBVIOUS

\* What the rounded fall k from the peak, compared with the deepest fall N / D,
\* says of the exact one.
SaysOfFall(v, top, N, D, k) ==
  /\ k >= -100 => 9900 * (top - v) <= top
  /\ k < -100 /\ k * D > N * 1000000 /\ (1000000 * (v - top)) % top = 0
       => N * top < (v - top) * D
  /\ k < -100 /\ k * D <= N * 1000000
       => v - top < 0 /\ 2000000 * ((v - top) * D - N * top) <= top * D

\* The rounded fall says as much, whatever it is compared with.
LEMMA RecoveryOfFall ==
  ASSUME NEW v \in Nat, NEW top \in Nat \ {0}, v <= top, NEW N \in Int, NEW D \in Nat \ {0},
         NEW k, k = Rounded([n |-> v - top, d |-> top])
  PROVE  SaysOfFall(v, top, N, D, k)
<1> DEFINE n == v - top
<1>1. n \in Int /\ n <= 0
  OBVIOUS
<1>2. k \in Int /\ 2 * (k * top) <= 2000000 * n + top /\ 2000000 * n + top < 2 * (k * top) + 2 * top
  BY RoundedIsNear
<1>3. n = v - top
  OBVIOUS
<1> HIDE DEF n
<1>4. ASSUME k >= -100 PROVE 9900 * (top - v) <= top
  <2>1. (-100) * top <= k * top
    BY <1>2, <1>4, Scale
  <2>2. k * top \in Int
    BY <1>2
  <2> QED
    BY <1>1, <1>2, <1>3, <2>1, <2>2
<1>5. ASSUME k < -100, k * D > N * 1000000, (1000000 * n) % top = 0
      PROVE  N * top < n * D
  <2>1. PICK m \in Int : 1000000 * n = m * top
    <3> DEFINE a == 1000000 * n
    <3>1. a \in Int /\ a % top = 0
      BY <1>1, <1>5
    <3> HIDE DEF a
    <3>2. \E m \in Int : a = m * top
      BY <3>1, Divides
    <3> QED
      BY <3>2 DEF a
  <2>2. k = m
    <3>1. k * top \in Int /\ m * top \in Int
      BY <1>2
    <3>2. /\ 2 * (k * top) <= 2 * (m * top) + top
          /\ 2 * (m * top) + top < 2 * (k * top) + 2 * top
      BY <1>1, <1>2, <2>1
    <3>3. (k - m) * top < 1 * top /\ (m - k) * top < 1 * top
      <4>1. (k - m) * top = k * top - m * top /\ (m - k) * top = m * top - k * top
        BY <1>2
      <4> QED
        BY <3>1, <3>2, <4>1
    <3>4. k - m < 1 /\ m - k < 1
      BY <1>2, <3>3, Scale
    <3> QED
      BY <1>2, <3>4
  <2>3. (N * 1000000) * top < (k * D) * top
    <3>1. N * 1000000 \in Int /\ k * D \in Int
      BY <1>2
    <3> QED
      BY <1>5, <3>1, Scale
  <2>4. (k * D) * top = (1000000 * n) * D
    BY <1>2, <2>1, <2>2
  <2>5. (N * top) * 1000000 < (n * D) * 1000000
    BY <1>1, <2>3, <2>4
  <2>6. N * top \in Int /\ n * D \in Int
    BY <1>1
  <2> QED
    BY <2>5, <2>6
<1>6. ASSUME k < -100, k * D <= N * 1000000
      PROVE  n < 0 /\ 2000000 * (n * D - N * top) <= top * D
  <2>1. k * top \in Int /\ k * D \in Int /\ N * 1000000 \in Int
    BY <1>2
  <2>2. k * top < (-100) * top
    BY <1>2, <1>6, Scale
  <2>3. n < 0
    BY <1>1, <1>2, <2>1, <2>2
  <2>4. (2000000 * n) * D < (2 * (k * top) + top) * D
    <3>1. 2000000 * n \in Int /\ 2 * (k * top) + top \in Int
      BY <1>1, <2>1
    <3>2. 2000000 * n < 2 * (k * top) + top
      BY <1>1, <1>2, <2>1
    <3> QED
      BY <3>1, <3>2, Scale
  <2>5. (k * D) * top <= (N * 1000000) * top
    BY <1>6, <2>1, Scale
  <2>6. /\ (2000000 * n) * D = 2000000 * (n * D)
        /\ (2 * (k * top) + top) * D = 2 * ((k * D) * top) + top * D
        /\ (N * 1000000) * top = 1000000 * (N * top)
        /\ n * D \in Int /\ N * top \in Int /\ (k * D) * top \in Int /\ top * D \in Int
    BY <1>1, <1>2
  <2> QED
    BY <2>3, <2>4, <2>5, <2>6
<1> QED
  BY <1>3, <1>4, <1>5, <1>6 DEF SaysOfFall

\* A refresh has a recovery only once the fall is measured.
Recovered == (stage # "store" => recovery = None) /\ RecoveryOfTheValueLine

LEMMA FallDoneRecovered == DInv /\ FallDone => Recovered'
<1> SUFFICES ASSUME DInv, FallDone PROVE Recovered'
  OBVIOUS
<1>1. /\ UNCHANGED <<points, deepest>> /\ stage = "fall" /\ After(here) = {} /\ stage' = "store"
      /\ recovery' = Recovery
  BY DEF FallDone
<1>2. /\ PeakOfSeen /\ here \in points /\ TypeOK /\ Distinct
      /\ deepest.n \in Int /\ deepest.d \in Nat \ {0} /\ peak \in Nat
  BY <1>1 DEF DInv, Fallen, RInv, FInv, TInv, Stand, TypeOK, Fractions
<1>3. \A p \in points : p.value \in Nat /\ p.at \in Int
  BY <1>2, PointType DEF TypeOK
<1>4. here = Last /\ Last' = Last
  BY <1>1, <1>2, HereIsLast DEF Last
<1>5. Seen = points
  <2>1. \A p \in points : ~ (p.at > here.at)
    BY <1>1 DEF After
  <2> QED
    BY <1>2, <1>3, <2>1 DEF Seen
<1>6. Max({p.value : p \in points}) = peak
  <2> DEFINE S == {p.value : p \in points}
  <2>1. peak \in S /\ \A x \in S : x <= peak /\ x \in Int
    BY <1>2, <1>3, <1>5 DEF PeakOfSeen
  <2> HIDE DEF S
  <2>2. Max(S) \in S /\ \A x \in S : Max(S) >= x
    BY <1>2, <2>1 DEF Max
  <2> DEFINE m == Max(S)
  <2> HIDE DEF m
  <2>3. m = peak
    <3>1. m \in S /\ m >= peak
      BY <2>1, <2>2 DEF m
    <3>2. m \in Int /\ m <= peak /\ peak \in Int
      BY <2>1, <3>1
    <3> QED
      BY <3>1, <3>2
  <2> QED
    BY <2>3 DEF m, S
<1> DEFINE v == here.value
           fallen == Below(v, peak)
           k == Rounded(fallen)
<1>7. v \in Nat /\ v <= peak /\ fallen.n = v - peak /\ fallen.d = peak
  BY <1>2, <1>3, <1>5 DEF PeakOfSeen, Below
<1>8. /\ recovery' = "recovering" => Less(deepest, fallen)
                                     \/ (~Less(fallen, deepest) /\ (1000000 * fallen.n) % fallen.d # 0)
      /\ recovery' = "in_drawdown" =>
           /\ fallen.n < 0
           /\ 2000000 * (fallen.n * deepest.d - deepest.n * fallen.d) <= fallen.d * deepest.d
      /\ recovery' = "at_peak" => 9900 * (peak - v) <= peak
  <2>1. CASE peak = 0
    <3>1. recovery' = "at_peak"
      BY <1>1, <2>1 DEF Recovery
    <3> QED
      BY <1>7, <2>1, <3>1
  <2>2. CASE peak # 0
    <3>1. fallen = [n |-> v - peak, d |-> peak]
      BY DEF Below
    <3>2. /\ k >= -100 => 9900 * (peak - v) <= peak
          /\ k < -100 /\ k * deepest.d > deepest.n * 1000000 /\ (1000000 * fallen.n) % fallen.d = 0
               => Less(deepest, fallen)
          /\ k < -100 /\ k * deepest.d <= deepest.n * 1000000
               => /\ fallen.n < 0
                  /\ 2000000 * (fallen.n * deepest.d - deepest.n * fallen.d) <= fallen.d * deepest.d
      <4> DEFINE N == deepest.n
                 D == deepest.d
      <4> HIDE DEF v, k, fallen, N, D
      <4>1. k = Rounded([n |-> v - peak, d |-> peak])
        BY <3>1 DEF k
      <4>2. v \in Nat /\ v <= peak /\ peak \in Nat \ {0} /\ N \in Int /\ D \in Nat \ {0}
        BY <1>2, <1>7, <2>2 DEF N, D
      <4>3. SaysOfFall(v, peak, N, D, k)
        BY <4>1, <4>2, RecoveryOfFall
      <4> QED
        BY <1>7, <4>3 DEF SaysOfFall, Less, N, D
    <3>3. k \in Int
      <4> DEFINE n == v - peak
      <4>1. n \in Int /\ k = Rounded([n |-> n, d |-> peak])
        BY <1>2, <1>7, <3>1
      <4> HIDE DEF n, k
      <4> QED
        BY <1>2, <2>2, <4>1, RoundedIsNear
    <3>4. recovery' = IF k >= -100 THEN "at_peak"
                      ELSE IF k * deepest.d > deepest.n * 1000000 THEN "recovering"
                      ELSE "in_drawdown"
      BY <1>1, <1>2, <2>2 DEF Recovery
    <3>5. ~Less(fallen, deepest)
      <4>1. DeepestOfAllFalls'
        BY FallDoneDeepest
      <4>2. PICK p \in points : p.value = peak
        BY <1>2, <1>5 DEF PeakOfSeen
      <4>3. <<p, here>> \in {e \in points \X points : e[1].at <= e[2].at /\ e[1].value > 0}
        BY <1>2, <1>5, <2>2, <4>2 DEF Seen
      <4>4. fallen = Below(<<p, here>>[2].value, <<p, here>>[1].value)
        BY <4>2
      <4> HIDE DEF fallen
      <4> QED
        BY <1>1, <4>1, <4>3, <4>4 DEF DeepestOfAllFalls
    <3> HIDE DEF v, k, fallen
    <3>6. k * deepest.d \in Int /\ deepest.n * 1000000 \in Int
      BY <1>2, <3>3
    <3>7. /\ recovery' = "at_peak" => k >= -100
          /\ recovery' = "recovering" => k < -100 /\ k * deepest.d > deepest.n * 1000000
          /\ recovery' = "in_drawdown" => k < -100 /\ k * deepest.d <= deepest.n * 1000000
      BY <3>3, <3>4, <3>6
    <3> DEFINE rest == (1000000 * fallen.n) % fallen.d
    <3>8. ASSUME recovery' = "recovering"
          PROVE  Less(deepest, fallen) \/ (~Less(fallen, deepest) /\ rest # 0)
      <4>1. rest = 0 => Less(deepest, fallen)
        BY <3>2, <3>7, <3>8
      <4> HIDE DEF rest
      <4> QED
        BY <3>5, <4>1
    <3>9. ASSUME recovery' = "in_drawdown"
          PROVE  /\ fallen.n < 0
                 /\ 2000000 * (fallen.n * deepest.d - deepest.n * fallen.d) <= fallen.d * deepest.d
      BY <3>2, <3>7, <3>9
    <3>10. ASSUME recovery' = "at_peak" PROVE 9900 * (peak - v) <= peak
      BY <3>2, <3>7, <3>10
    <3> QED
      BY <3>8, <3>9, <3>10
  <2> QED
    BY <2>1, <2>2
<1> HIDE DEF fallen
<1>9. RecoveryOfTheValueLine'
  BY <1>1, <1>4, <1>6, <1>8 DEF RecoveryOfTheValueLine, fallen
<1> QED
  BY <1>1, <1>9 DEF Recovered

\* Before a recovery is told there is nothing to check.
LEMMA NoRecovery ==
  ASSUME recovery' = None PROVE Recovered'
BY NoneAssumption DEF Recovered, RecoveryOfTheValueLine

LEMMA InitRecovered == Init => Recovered
BY NoneAssumption DEF Init, Recovered, RecoveryOfTheValueLine

LEMMA NextRecovered == DInv /\ Recovered /\ [Next]_vars => Recovered'
<1> SUFFICES ASSUME DInv, Recovered, [Next]_vars PROVE Recovered'
  OBVIOUS
<1>1. CASE FallDone
  BY <1>1, FallDoneRecovered
<1>2. CASE Over
  BY <1>2, NoRecovery DEF Over
<1>3. CASE stage # "store" /\ recovery' = recovery
  BY <1>3, NoRecovery DEF Recovered
<1>4. CASE UNCHANGED <<stage, points, deepest, recovery>>
  BY <1>4 DEF Recovered, RecoveryOfTheValueLine, Last
<1> QED
  BY <1>1, <1>2, <1>3, <1>4
  DEF Next, Tick, Enter, Refresh, NotComputable, TakeFlow, ClosePeriod, Compound, Fall, Store, Fail,
      Linking, fall, vars

\* RecoveryOfTheValueLine (drawdown_calculator.py:61-72): what the recovery
\* status says of the last value, the peak and the deepest fall, to within half
\* of the last decimal.
THEOREM RecoveryIsRight == Spec => []RecoveryOfTheValueLine
<1>1. Recovered => RecoveryOfTheValueLine
  BY DEF Recovered
<1> QED
  BY <1>1, InitFallen, NextDeepest, InitRecovered, NextRecovered, PTL DEF Spec

----------------------------------------------------------------------------
(* MoneyWeightedReturn: the inductive invariant of the search *)

\* The sign of the NPV over the bracket, as a function of the growth.
Sign == [g \in Low .. High |-> Positive(g)]

\* What the solver searches, halved as often as it has iterated.
Bracketed ==
  pc = "bisection" => /\ lo \in Low .. High /\ hi \in Low .. High
                      /\ lo < hi
                      /\ iteration \in 0 .. MaxBisection - 1
                      /\ hi - lo <= Widths[iteration]
                      /\ Sign[lo] # Sign[hi]

\* A search without a result has found no change of sign.
Fruitless == result.status = "not_computable" => Sign[Low] = Sign[High]

\* Until it ends there is no result.
Pending == pc # "done" => result.status = "none"

Inv == Bracketed /\ Fruitless /\ Pending

----------------------------------------------------------------------------
\* The solver changes none of what the sign depends on.
LEMMA SignIsKept ==
  ASSUME UNCHANGED <<inputs, years>>
  PROVE  Sign' = Sign
BY DEF Sign, Positive, Npv, Terms, Span, Flow, CashFlows, inputs

\* Half of a bracket is half as wide, rounded up, and not empty.
LEMMA Halves ==
  ASSUME NEW a \in Nat, NEW b \in Nat, NEW w \in Nat, b - a <= w, b - a > 1
  PROVE  /\ (a + b) \div 2 \in Nat
         /\ a < (a + b) \div 2 /\ (a + b) \div 2 < b
         /\ b - (a + b) \div 2 <= (w + 1) \div 2
         /\ (a + b) \div 2 - a <= (w + 1) \div 2
OBVIOUS

\* The bracket that the search starts from is not empty.
LEMMA Bounds == /\ Low \in Nat /\ High \in Nat /\ Low < High
                /\ MaxBisection \in Nat \ {0}
                /\ Low \in Low .. High /\ High \in Low .. High
BY BracketAssumption

\* The ends of the bracket have different signs when the bisection begins.
LEMMA BracketKeeps ==
  ASSUME Inv, Bracket
  PROVE  Inv'
<1>1. UNCHANGED <<inputs, years>>
  BY DEF Bracket
<1>2. Sign' = Sign
  BY <1>1, SignIsKept
<1>3. Sign[Low] = Positive(Low) /\ Sign[High] = Positive(High)
  BY Bounds DEF Sign
<1>4. CASE pc' = "bisection"
  <2>1. lo' = Low /\ hi' = High /\ iteration' = 0 /\ Positive(Low) # Positive(High)
    BY <1>4 DEF Bracket, Ends
  <2>2. hi' - lo' <= Widths[iteration']
    BY <2>1, HalvingAssumption, Bounds
  <2>3. result' = result /\ result.status = "none"
    BY <1>4 DEF Bracket, Ends, Inv, Pending
  <2> QED
    BY <1>2, <1>3, <1>4, <2>1, <2>2, <2>3, Bounds DEF Inv, Bracketed, Fruitless, Pending
<1>5. CASE pc' # "bisection"
  <2>1. pc' = "done" /\ (result'.status = "not_computable" => Positive(Low) = Positive(High))
    BY <1>5 DEF Bracket, Ends, NoRate, Found
  <2> QED
    BY <1>2, <1>3, <2>1 DEF Inv, Bracketed, Fruitless, Pending
<1> QED
  BY <1>4, <1>5

\* The half that is kept has a change of sign in it.
LEMMA BisectKeeps ==
  ASSUME Inv, Bisect
  PROVE  Inv'
<1>1. Sign' = Sign
  BY SignIsKept DEF Bisect
<1>2. /\ lo \in Nat /\ hi \in Nat /\ lo \in Low .. High /\ hi \in Low .. High
      /\ iteration \in 0 .. MaxBisection - 1
      /\ hi - lo <= Widths[iteration] /\ hi - lo > 1
      /\ Sign[lo] # Sign[hi]
  BY Bounds DEF Bisect, Narrow, Inv, Bracketed
<1>3. Widths[iteration] \in Nat
  BY <1>2, HalvingAssumption, Bounds
<1>4. /\ Mid \in Nat /\ lo < Mid /\ Mid < hi
      /\ hi - Mid <= (Widths[iteration] + 1) \div 2 /\ Mid - lo <= (Widths[iteration] + 1) \div 2
  <2> DEFINE w == Widths[iteration]
  <2>1. w \in Nat /\ hi - lo <= w
    BY <1>2, <1>3
  <2> HIDE DEF w
  <2>2. /\ (lo + hi) \div 2 \in Nat /\ lo < (lo + hi) \div 2 /\ (lo + hi) \div 2 < hi
        /\ hi - (lo + hi) \div 2 <= (w + 1) \div 2 /\ (lo + hi) \div 2 - lo <= (w + 1) \div 2
    BY <1>2, <2>1, Halves
  <2> QED
    BY <2>2 DEF Mid, w
<1>5. Mid \in Low .. High
  BY <1>2, <1>4, Bounds
<1>6. Positive(Mid) = Sign[Mid] /\ Positive(lo) = Sign[lo]
  BY <1>2, <1>5 DEF Sign
\* A bracket that is wider than 1 has not been halved often enough.
<1>7. iteration + 1 \in 0 .. MaxBisection - 1
  <2>1. ASSUME iteration = MaxBisection - 1
        PROVE  FALSE
    <3>1. Widths[MaxBisection - 1] <= 1
      BY HalvingAssumption
    <3>2. Widths[iteration] <= 1
      BY <2>1, <3>1
    <3> QED
      BY <1>2, <1>3, <3>2
  <2> QED
    BY <1>2, <2>1, Bounds
<1>8. Widths[iteration + 1] = (Widths[iteration] + 1) \div 2
  <2>1. iteration + 1 \in 1 .. MaxBisection /\ (iteration + 1) - 1 = iteration
    BY <1>7, <1>2, Bounds
  <2> QED
    BY <2>1, HalvingAssumption
<1>9. /\ iteration' = iteration + 1 /\ pc' = pc /\ result' = result
      /\ \/ Sign[Mid] = Sign[lo] /\ lo' = Mid /\ hi' = hi
         \/ Sign[Mid] # Sign[lo] /\ hi' = Mid /\ lo' = lo
  BY <1>6, <1>7 DEF Bisect
<1>10. Bracketed'
  <2>1. CASE Sign[Mid] = Sign[lo] /\ lo' = Mid /\ hi' = hi
    BY <1>1, <1>2, <1>4, <1>5, <1>7, <1>8, <1>9, <2>1 DEF Bracketed
  <2>2. CASE Sign[Mid] # Sign[lo] /\ hi' = Mid /\ lo' = lo
    BY <1>1, <1>2, <1>4, <1>5, <1>7, <1>8, <1>9, <2>2 DEF Bracketed
  <2> QED
    BY <1>9, <2>1, <2>2
<1> QED
  BY <1>1, <1>9, <1>10 DEF Inv, Fruitless, Pending

\* Newton's steps, and the end of a bisection that has converged.
LEMMA OthersKeep ==
  ASSUME Inv, Calculate \/ NewtonConverges \/ NewtonRaises \/ NewtonMoves \/ NewtonGivesUp \/ BisectConverges
  PROVE  Inv'
<1>1. /\ pc' # "bisection" /\ (pc' # "done" => result' = result)
      /\ pc # "done"
      /\ result'.status # "not_computable" \/ result' = result
  BY DEF Calculate, NewtonConverges, NewtonRaises, NewtonMoves, NewtonGivesUp, BisectConverges, Iterates,
         Ends, NoRate, Found
<1>2. result.status = "none"
  BY <1>1 DEF Inv, Pending
<1> QED
  BY <1>1, <1>2 DEF Inv, Bracketed, Fruitless, Pending

LEMMA SpecInv == SolverSpec => []Inv
<1>1. SolverInit => Inv
  BY DEF SolverInit, Inv, Bracketed, Fruitless, Pending, NoRate
<1>2. Inv /\ [SolverNext]_solverVars => Inv'
  <2> SUFFICES ASSUME Inv, [SolverNext]_solverVars PROVE Inv'
    OBVIOUS
  <2>1. CASE UNCHANGED solverVars
    <3>1. Sign' = Sign
      BY <2>1, SignIsKept DEF solverVars
    <3> QED
      BY <2>1, <3>1 DEF solverVars, Inv, Bracketed, Fruitless, Pending
  <2>2. CASE SolverNext
    BY <2>2, BracketKeeps, BisectKeeps, OthersKeep DEF SolverNext
  <2> QED
    BY <2>1, <2>2
<1> QED
  BY <1>1, <1>2, PTL DEF SolverSpec

----------------------------------------------------------------------------
\* _bisection (xirr.py:137-163): whenever it halves, the NPV changes its sign
\* within the bracket.
THEOREM BisectionBrackets == SolverSpec => []BracketsARoot
<1>1. Inv => BracketsARoot
  <2> SUFFICES ASSUME Inv, pc = "bisection"
               PROVE  lo < hi /\ Positive(lo) # Positive(hi)
    BY DEF BracketsARoot
  <2>1. lo \in Low .. High /\ hi \in Low .. High /\ Sign[lo] # Sign[hi]
    BY DEF Inv, Bracketed
  <2> QED
    BY <2>1, Bounds DEF Inv, Bracketed, Sign
<1> QED
  BY <1>1, SpecInv, PTL

\* MwrCalculator's "not_computable" (mwr_calculator.py:56-59): there is no change
\* of sign over the bracket.  The bisection never runs out of iterations, for any
\* tolerance that MAX_BISECTION_ITERATIONS halvings reach.
THEOREM NotComputableIsNoFailure == SolverSpec => []NotComputableMeansNoBracket
<1>1. Inv => NotComputableMeansNoBracket
  BY Bounds DEF Inv, Fruitless, NotComputableMeansNoBracket, Sign
<1> QED
  BY <1>1, SpecInv, PTL

----------------------------------------------------------------------------
(* How far the discounting reaches *)

\* Among finitely many numbers one is the greatest.
LEMMA GreatestOf ==
  ASSUME NEW N \in Nat \ {0}, NEW f \in [1 .. N -> Nat]
  PROVE  \E y \in {f[i] : i \in 1 .. N} : \A i \in 1 .. N : f[i] <= y
<1> DEFINE Has(n) == \E j \in 1 .. n : \A i \in 1 .. n : f[i] <= f[j]
           Lacks == {n \in 1 .. N : ~Has(n)}
<1>1. ASSUME NEW n \in 1 .. N, n # 1, Has(n - 1) PROVE Has(n)
  <2>1. n - 1 \in Nat /\ n - 1 \in 1 .. N
    BY <1>1
  <2>2. PICK j \in 1 .. n - 1 : \A i \in 1 .. n - 1 : f[i] <= f[j]
    BY <1>1
  <2>3. \A i \in 1 .. n : i = n \/ i \in 1 .. n - 1
    OBVIOUS
  <2>4. j \in 1 .. n /\ n \in 1 .. n /\ \A i \in 1 .. n : f[i] \in Nat
    BY <2>1, <2>2
  <2>5. CASE f[n] <= f[j]
    <3>1. \A i \in 1 .. n : f[i] <= f[j]
      BY <2>2, <2>3, <2>5
    <3> QED
      BY <2>4, <3>1
  <2>6. CASE f[j] <= f[n]
    <3>1. \A i \in 1 .. n : f[i] <= f[n]
      BY <2>2, <2>3, <2>4, <2>6
    <3> QED
      BY <2>4, <3>1
  <2> QED
    BY <2>4, <2>5, <2>6
<1>2. Has(1)
  <2>1. \A i \in 1 .. 1 : i = 1 /\ f[i] \in Nat
    OBVIOUS
  <2>2. \A i \in 1 .. 1 : f[i] <= f[1]
    BY <2>1
  <2> QED
    BY <2>2
<1> HIDE DEF Has
<1>3. ASSUME Lacks # {} PROVE FALSE
  <2>1. Lacks \in SUBSET Nat
    OBVIOUS
  <2> HIDE DEF Lacks
  <2>2. PICK n \in Lacks : \A m \in Lacks : n <= m
    BY <1>3, <2>1, Least
  <2>3. n \in 1 .. N /\ ~Has(n)
    BY <2>2 DEF Lacks
  <2>4. n # 1
    BY <1>2, <2>3
  <2>5. n - 1 \in 1 .. N /\ n - 1 \notin Lacks
    BY <2>2, <2>3, <2>4
  <2>6. Has(n - 1)
    BY <2>5 DEF Lacks
  <2> QED
    BY <1>1, <2>3, <2>4, <2>6
<1>4. N \in 1 .. N
  OBVIOUS
<1>5. Has(N)
  BY <1>3, <1>4
<1>6. PICK j \in 1 .. N : \A i \in 1 .. N : f[i] <= f[j]
  BY <1>5 DEF Has
<1> QED
  BY <1>6

\* The days between two points in time.
LEMMA Days ==
  ASSUME NEW t \in Nat, NEW u \in Nat, u <= t, NEW d \in Nat \ {0}
  PROVE  (t - u) \div d \in Nat
OBVIOUS

\* Each flow is discounted for a number of years.
LEMMA YearsType ==
  ASSUME external \in Histories, asOf \in AsOf, totalValue \in Values
  PROVE  /\ Flow = 1 .. Len(external) + 1 /\ Len(external) \in Nat
         /\ Years \in [Flow -> Nat]
<1>1. /\ external \in Seq([at : Nat, amount : Int])
      /\ [at |-> asOf, amount |-> totalValue] \in [at : Nat, amount : Int]
      /\ Instants \in Nat \ {0}
  BY HistoriesAssumption
<1>2. /\ CashFlows \in Seq([at : Nat, amount : Int])
      /\ Len(CashFlows) = Len(external) + 1 /\ Len(external) \in Nat
  BY <1>1 DEF CashFlows
<1>3. Flow = 1 .. Len(external) + 1 /\ \A i \in Flow : CashFlows[i].at \in Nat
  <2> DEFINE flows == CashFlows
  <2>1. flows \in Seq([at : Nat, amount : Int]) /\ Len(flows) = Len(external) + 1
    BY <1>2
  <2> HIDE DEF flows
  <2>2. /\ DOMAIN flows = 1 .. Len(external) + 1
        /\ \A i \in DOMAIN flows : flows[i] \in [at : Nat, amount : Int]
    <3>1. DOMAIN flows = 1 .. Len(flows)
      BY <2>1, LenProperties
    <3>2. \A i \in 1 .. Len(flows) : flows[i] \in [at : Nat, amount : Int]
      BY <2>1, ElementOfSeq
    <3> QED
      BY <2>1, <3>1, <3>2
  <2>3. \A i \in DOMAIN flows : flows[i].at \in Nat
    BY <2>2
  <2> QED
    BY <2>2, <2>3 DEF Flow, flows
<1> DEFINE times == {CashFlows[i].at : i \in Flow}
           t0 == CHOOSE t \in times : \A i \in Flow : t <= CashFlows[i].at
<1>4. times \in SUBSET Nat /\ times # {}
  BY <1>2, <1>3
<1>5. \E t \in times : \A i \in Flow : t <= CashFlows[i].at
  <2>1. PICK t \in times : \A u \in times : t <= u
    BY <1>4, Least
  <2> QED
    BY <2>1
<1>6. t0 \in times /\ \A i \in Flow : t0 <= CashFlows[i].at
  BY <1>5
<1> HIDE DEF t0
<1>7. t0 \in Nat
  BY <1>4, <1>6
<1>8. \A i \in Flow : (CashFlows[i].at - t0) \div Instants \in Nat
  BY <1>1, <1>3, <1>6, <1>7, Days
<1>9. Years = [i \in Flow |-> (CashFlows[i].at - t0) \div Instants]
  BY DEF Years, t0
<1> QED
  BY <1>2, <1>3, <1>8, <1>9

\* Inputs are what they are, and while the solver runs its rate is on the grid
\* and the span of the discounting a number.
Running ==
  /\ external \in Histories /\ asOf \in AsOf /\ totalValue \in Values
  /\ rate \in Nat /\ rate > Low
  /\ iteration \in Nat
  /\ pc \in {"calculate", "newton", "bracket", "bisection", "done"}
  /\ pc \in {"newton", "bracket", "bisection"} => Span \in Nat
  /\ years = << >> \/ years \in [Flow -> Nat]

\* A growth in the bracket raises only if the lowest does, one year later at
\* the latest.
LEMMA LowRaisesFirst ==
  ASSUME NEW n \in Nat, NEW g \in Low .. High, Raises(g, n)
  PROVE  Raises(Low, n) /\ Raises(Low, n + 1)
<1>1. Raises(Low, n)
  BY PowersAssumption DEF Raises
<1>2. ASSUME n + 1 \in DOMAIN Representable, Low \in Representable[n + 1] PROVE FALSE
  <2>1. n > 0 /\ n + 1 > 1 /\ (n + 1) - 1 = n
    BY <1>1 DEF Raises
  <2>2. n \in DOMAIN Representable /\ Low \in Representable[n]
    BY <1>2, <2>1, PowersAssumption
  <2> QED
    BY <1>1, <2>2 DEF Raises
<1> QED
  BY <1>1, <1>2 DEF Raises

LEMMA RunningNext == Running /\ [SolverNext]_solverVars => Running'
<1> SUFFICES ASSUME Running, [SolverNext]_solverVars PROVE Running'
  OBVIOUS
<1>1. UNCHANGED inputs /\ Flow' = Flow
  BY DEF SolverNext, Calculate, NewtonConverges, NewtonRaises, NewtonMoves, NewtonGivesUp, Bracket,
         BisectConverges, Bisect, solverVars, Flow, CashFlows, inputs
<1>2. CASE Calculate
  <2>1. years' \in [Flow -> Nat] /\ Flow = 1 .. Len(external) + 1 /\ Len(external) \in Nat
    BY <1>2, YearsType DEF Calculate, Running
  <2>2. DOMAIN years' = 1 .. Len(external) + 1 /\ years' \in [1 .. Len(external) + 1 -> Nat]
    BY <2>1
  <2>3. \E y \in {years'[i] : i \in DOMAIN years'} : \A i \in DOMAIN years' : years'[i] <= y
    <3> DEFINE N == Len(external) + 1
    <3>1. N \in Nat \ {0} /\ years' \in [1 .. N -> Nat] /\ DOMAIN years' = 1 .. N
      BY <2>1, <2>2
    <3> HIDE DEF N
    <3> QED
      BY <3>1, GreatestOf
  <2>4. Span' \in {years'[i] : i \in DOMAIN years'}
    BY <2>3 DEF Span
  <2>5. Span' \in Nat
    BY <2>2, <2>4
  <2>6. pc' \in {"done", "newton"}
    BY <1>2 DEF Calculate, Ends
  <2> QED
    BY <1>1, <1>2, <2>1, <2>5, <2>6 DEF Calculate, Running, inputs
<1>3. CASE ~Calculate
  <2>1. years' = years /\ Span' = Span
    BY <1>3 DEF SolverNext, NewtonConverges, NewtonRaises, NewtonMoves, NewtonGivesUp, Bracket,
           BisectConverges, Bisect, solverVars, Span
  <2>2. rate' \in Nat /\ rate' > Low
    BY <1>3 DEF Running, SolverNext, NewtonConverges, NewtonRaises, NewtonMoves, NewtonGivesUp, Bracket,
           BisectConverges, Bisect, solverVars
  <2>3. iteration' \in Nat
    BY <1>3 DEF Running, SolverNext, NewtonConverges, NewtonRaises, NewtonMoves, NewtonGivesUp, Bracket,
           BisectConverges, Bisect, solverVars
  <2>4. /\ pc' \in {"calculate", "newton", "bracket", "bisection", "done"}
        /\ pc' \in {"newton", "bracket", "bisection"} => pc \in {"newton", "bracket", "bisection"}
    BY <1>3 DEF Running, SolverNext, NewtonConverges, NewtonRaises, NewtonMoves, NewtonGivesUp, Bracket,
           BisectConverges, Bisect, Iterates, Ends, solverVars
  <2> QED
    BY <1>1, <2>1, <2>2, <2>3, <2>4 DEF Running, inputs
<1> QED
  BY <1>2, <1>3

LEMMA RunningInit == SolverInit => Running
BY BracketAssumption DEF SolverInit, Running

\* Only two actions end in an exception.
LEMMA RaisedNext ==
  Running /\ RaisesOnlyFarOut /\ (pc # "done" => result.status = "none") /\ [SolverNext]_solverVars
    => RaisesOnlyFarOut'
<1> SUFFICES ASSUME Running, RaisesOnlyFarOut, pc # "done" => result.status = "none", [SolverNext]_solverVars
             PROVE  RaisesOnlyFarOut'
  OBVIOUS
<1>1. CASE NewtonRaises
  <2>1. rate' = rate /\ Span' = Span /\ Span \in Nat /\ rate \in Nat /\ rate > Low
    BY <1>1 DEF NewtonRaises, Span, Running
  <2>2. CASE rate > High
    BY <2>1, <2>2 DEF RaisesOnlyFarOut
  <2>3. CASE ~(rate > High)
    <3>1. rate \in Low .. High
      BY <2>1, <2>3, Bounds
    <3>2. CASE Raises(rate, Span)
      BY <2>1, <3>1, <3>2, LowRaisesFirst DEF RaisesOnlyFarOut, Raises
    <3>3. CASE Raises(rate, Span + 1)
      BY <2>1, <3>1, <3>3, LowRaisesFirst DEF RaisesOnlyFarOut, Raises
    <3> QED
      BY <1>1, <3>2, <3>3 DEF NewtonRaises
  <2> QED
    BY <2>2, <2>3
<1>2. CASE Bracket
  <2>1. rate' = rate /\ Span' = Span /\ Span \in Nat
    BY <1>2 DEF Bracket, Span, Running
  <2>2. CASE Raises(Low, Span) \/ Raises(High, Span)
    BY <2>1, <2>2, LowRaisesFirst, Bounds DEF RaisesOnlyFarOut, Raises
  <2>3. CASE ~(Raises(Low, Span) \/ Raises(High, Span))
    <3>1. result'.status # "raised"
      BY <1>2, <2>3 DEF Bracket, Ends, Found, NoRate
    <3> QED
      BY <3>1 DEF RaisesOnlyFarOut
  <2> QED
    BY <2>2, <2>3
<1>3. CASE SolverNext /\ ~NewtonRaises /\ ~Bracket
  <2>1. result'.status # "raised"
    BY <1>3 DEF SolverNext, Calculate, NewtonConverges, NewtonMoves, NewtonGivesUp,
           BisectConverges, Bisect, Iterates, Ends, Found, NoRate
  <2> QED
    BY <2>1 DEF RaisesOnlyFarOut
<1>4. CASE UNCHANGED solverVars
  BY <1>4 DEF solverVars, RaisesOnlyFarOut, Raises, Span
<1> QED
  BY <1>1, <1>2, <1>3, <1>4

LEMMA RaisedInit == SolverInit => RaisesOnlyFarOut
BY DEF SolverInit, RaisesOnlyFarOut, NoRate

\* xirr raises, and with it the refresh, only at a rate that Newton's method has
\* taken beyond the bracket, or for a history over which the lowest rate cannot
\* be compounded.
THEOREM OnlyFarOutRaises == SolverSpec => []RaisesOnlyFarOut
<1>1. Inv => (pc # "done" => result.status = "none")
  BY DEF Inv, Pending
<1> QED
  BY <1>1, SpecInv, RunningInit, RunningNext, RaisedInit, RaisedNext, PTL DEF SolverSpec

----------------------------------------------------------------------------
(* The rate that is found *)

\* The rates at which the NPV is taken for 0, or next to which it changes its sign.
Roots == {g \in Nat : Vanishes(g) \/ NearRoot(g)}

OkIsNearRoot == result.status = "ok" => result.rate \in Roots

\* Once the years are known nothing changes what the roots depend on.
LEMMA RootsAreKept ==
  ASSUME UNCHANGED <<inputs, years>>
  PROVE  Roots' = Roots
BY DEF Roots, Vanishes, NearRoot, Positive, Npv, Terms, Span, Flow, CashFlows, inputs

\* The middle of a bracket that is no wider than 1 is its lower end.
LEMMA NarrowIsNear ==
  ASSUME Inv, pc = "bisection"
  PROVE  Mid \in Nat /\ (Narrow => NearRoot(Mid))
<1>1. /\ lo \in Nat /\ hi \in Nat /\ lo < hi /\ lo \in Low .. High /\ hi \in Low .. High
      /\ Sign[lo] # Sign[hi]
  BY Bounds DEF Inv, Bracketed
<1>2. Mid \in Nat
  BY <1>1 DEF Mid
<1>3. ASSUME Narrow PROVE NearRoot(Mid)
  <2>1. hi = lo + 1
    BY <1>1, <1>3 DEF Narrow
  <2>2. Mid = lo
    BY <1>1, <2>1 DEF Mid
  <2>3. Positive(hi) # Positive(lo) /\ hi \in {lo - 1, lo, lo + 1} \ {0}
    BY <1>1, <2>1 DEF Sign
  <2> QED
    BY <2>2, <2>3 DEF NearRoot
<1> QED
  BY <1>2, <1>3

LEMMA FoundNext == Running /\ Inv /\ OkIsNearRoot /\ [SolverNext]_solverVars => OkIsNearRoot'
<1> SUFFICES ASSUME Running, Inv, OkIsNearRoot, [SolverNext]_solverVars
             PROVE  OkIsNearRoot'
  OBVIOUS
<1>1. CASE NewtonConverges
  <2>1. Roots' = Roots
    BY <1>1, RootsAreKept DEF NewtonConverges
  <2>2. rate \in Roots
    BY <1>1 DEF NewtonConverges, Running, Roots
  <2>3. result' = Found(rate, "newton")
    BY <1>1 DEF NewtonConverges, Ends
  <2> QED
    BY <2>1, <2>2, <2>3 DEF OkIsNearRoot, Found
<1>2. CASE BisectConverges
  <2>1. Roots' = Roots
    BY <1>2, RootsAreKept DEF BisectConverges
  <2>2. Mid \in Roots
    BY <1>2, NarrowIsNear DEF BisectConverges, Roots
  <2>3. result' = Found(Mid, "bisection")
    BY <1>2 DEF BisectConverges, Ends
  <2> QED
    BY <2>1, <2>2, <2>3 DEF OkIsNearRoot, Found
<1>3. CASE Bracket
  <2>1. Roots' = Roots
    BY <1>3, RootsAreKept DEF Bracket
  <2>2. ASSUME NEW g \in {Low, High}, Npv(g) = 0 PROVE g \in Roots
    <3>1. g \in Nat /\ g \in {g - 1, g, g + 1} \ {0}
      BY <2>2, Bounds, BracketAssumption
    <3> QED
      BY <2>2, <3>1 DEF Roots, NearRoot
  <2>3. \/ \E g \in {Low, High} : Npv(g) = 0 /\ result' = Found(g, "bisection")
        \/ result' \in {NoRate("raised"), NoRate("not_computable")}
        \/ result' = result
    BY <1>3 DEF Bracket, Ends
  <2> QED
    BY <2>1, <2>2, <2>3 DEF OkIsNearRoot, Found, NoRate
<1>4. CASE Calculate \/ NewtonRaises \/ NewtonMoves \/ NewtonGivesUp \/ Bisect
  <2>1. \/ \E s \in {"raised", "no_data", "insufficient_data", "not_computable"} : result' = NoRate(s)
        \/ result' = result /\ pc # "done"
    BY <1>4 DEF Calculate, NewtonRaises, NewtonMoves, NewtonGivesUp, Bisect, Iterates, Ends
  <2>2. result'.status # "ok"
    BY <2>1 DEF Inv, Pending, NoRate
  <2> QED
    BY <2>2 DEF OkIsNearRoot
<1>5. CASE UNCHANGED solverVars
  <2>1. Roots' = Roots
    BY <1>5, RootsAreKept DEF solverVars
  <2> QED
    BY <1>5, <2>1 DEF solverVars, OkIsNearRoot
<1> QED
  BY <1>1, <1>2, <1>3, <1>4, <1>5 DEF SolverNext

\* A rate that is reported is one at which the NPV is as good as 0, or one next
\* to which it changes its sign, for any history (xirr.py:115-163).
THEOREM FoundIsNearRoot ==
  SolverSpec => [](result.status = "ok" => Vanishes(result.rate) \/ NearRoot(result.rate))
<1>1. SolverInit => OkIsNearRoot
  BY DEF SolverInit, OkIsNearRoot, NoRate
<1>2. OkIsNearRoot => (result.status = "ok" => Vanishes(result.rate) \/ NearRoot(result.rate))
  BY DEF OkIsNearRoot, Roots
<1> QED
  BY <1>1, <1>2, SpecInv, RunningInit, RunningNext, FoundNext, PTL DEF SolverSpec

----------------------------------------------------------------------------
(* The types of the search *)

Results == [status : Outcomes, rate : Nat, method : {"newton", "bisection", "none"}]

\* The bracket lies within the bounds of the search.
Ranges == lo \in Low .. High /\ hi \in Low .. High /\ result \in Results

\* What the search returns is a result.
LEMMA ResultTypes ==
  /\ \A s \in Outcomes : NoRate(s) \in Results
  /\ \A r \in Nat, m \in {"newton", "bisection"} : Found(r, m) \in Results
BY DEF NoRate, Found, Results, Outcomes

LEMMA RangesNext == Running /\ Inv /\ Ranges /\ [SolverNext]_solverVars => Ranges'
<1> SUFFICES ASSUME Running, Inv, Ranges, [SolverNext]_solverVars PROVE Ranges'
  OBVIOUS
<1>0. lo \in Nat /\ hi \in Nat /\ Low \in Nat
  BY Bounds DEF Ranges
<1>1. Mid \in Nat
  BY <1>0 DEF Mid
<1>2. CASE Bisect
  <2>1. Mid \in Low .. High
    <3>1. hi - lo > 1
      BY <1>0, <1>2 DEF Bisect, Narrow
    <3>2. lo < Mid /\ Mid < hi
      BY <1>0, <3>1 DEF Mid
    <3> QED
      BY <1>0, <1>1, <3>2, Bounds DEF Ranges
  <2>2. result' \in {result, NoRate("not_computable")}
    BY <1>2 DEF Bisect, Ends
  <2>3. result' \in Results
    BY <2>2, ResultTypes DEF Ranges, Outcomes
  <2> QED
    BY <1>2, <2>1, <2>3 DEF Bisect, Ranges
<1>3. CASE Bracket
  <2>1. lo' \in Low .. High /\ hi' \in Low .. High
    BY <1>3, Bounds DEF Bracket
  <2>2. \/ result' \in {NoRate("raised"), NoRate("not_computable"), result}
        \/ \E r \in {Low, High} : result' = Found(r, "bisection")
    BY <1>3 DEF Bracket, Ends
  <2>3. result' \in Results
    BY <2>2, ResultTypes, Bounds DEF Ranges, Outcomes
  <2> QED
    BY <2>1, <2>3 DEF Ranges
<1>4. CASE ~Bisect /\ ~Bracket
  <2>1. lo' = lo /\ hi' = hi
    BY <1>4 DEF SolverNext, Calculate, NewtonConverges, NewtonRaises, NewtonMoves, NewtonGivesUp,
           BisectConverges, solverVars
  <2>2. \/ \E s \in Outcomes : result' = NoRate(s)
        \/ result' = Found(rate, "newton") \/ result' = Found(Mid, "bisection")
        \/ result' = result
    BY <1>4 DEF SolverNext, Calculate, NewtonConverges, NewtonRaises, NewtonMoves, NewtonGivesUp,
           BisectConverges, solverVars, Ends, Outcomes
  <2>3. result' \in Results
    BY <1>1, <2>2, ResultTypes DEF Ranges, Running
  <2> QED
    BY <2>1, <2>3 DEF Ranges
<1> QED
  BY <1>2, <1>3, <1>4

LEMMA RangesInit == SolverInit => Ranges
BY Bounds, ResultTypes DEF SolverInit, Ranges, Outcomes

\* Every variable of the search has its type: rates stay above MIN_RATE, the
\* bracket within its bounds.
THEOREM SolverTypeCorrect == SolverSpec => []SolverTypeOK
<1>1. Running /\ Ranges => SolverTypeOK
  BY DEF Running, Ranges, Results, SolverTypeOK
<1> QED
  BY <1>1, SpecInv, RunningInit, RunningNext, RangesInit, RangesNext, PTL DEF SolverSpec
=============================================================================
