----------------------- MODULE TransactionReplay_proofs -----------------------
(***************************************************************************)
(* Proofs about TransactionReplay for any symbols, transactions, declared  *)
(* holdings and lengths of the log: the types, what keeps an average price *)
(* a price, and that the totals are those of the log, with which the       *)
(* declared ones agree when the status is "ok".                            *)
(***************************************************************************)
EXTENDS TransactionReplay, Sums_proofs, SequenceTheorems

Prices == [n : Int, d : Nat \ {0}]

\* A fraction of numbers is a price.
LEMMA FractionType ==
  ASSUME NEW n \in Int, NEW d \in Int \ {0}
  PROVE  Fraction(n, d) \in Prices
BY DEF Fraction, Prices

LEMMA TypeInit == Init => TypeOK
BY FractionType DEF Init, TypeOK, Statuses, Prices

\* What the validation of transactions gives for one of the log.
LEMMA LogIsValid ==
  ASSUME TypeOK, NEW i \in left
  PROVE  Valid(log[i])
<1>1. log[i] \in Transactions
  BY ElementOfSeq DEF TypeOK
<1> QED
  BY <1>1, TransactionsAssumption

\* Both ways of moving a symbol's total keep the accumulators' types.
LEMMA AccumulateType ==
  ASSUME TypeOK, NEW s \in Symbols, NEW total \in Int, NEW price \in Prices,
         Accumulate(s, total, price)
  PROVE  /\ seen' \subseteq Symbols /\ shares' \in [Symbols -> Int]
         /\ avg' \in [Symbols -> Prices] /\ short' \subseteq Symbols
BY DEF Accumulate, TypeOK, Prices

\* A transaction of a valid log keeps them.
LEMMA MovesType ==
  ASSUME TypeOK, NEW t, Valid(t),
         \/ t.type \in Increases /\ Increase(t)
         \/ t.type \in Decreases /\ Decrease(t)
  PROVE  /\ seen' \subseteq Symbols /\ shares' \in [Symbols -> Int]
         /\ avg' \in [Symbols -> Prices] /\ short' \subseteq Symbols
<1> DEFINE s == t.symbol
           old == avg[s]
<1>1. s \in Symbols /\ t.shares \in Nat /\ t.price \in Nat /\ t.shares > 0
  BY NoneAssumption DEF Valid, Positions
<1>2. old.n \in Int /\ old.d \in Nat \ {0} /\ shares[s] \in Int /\ old \in Prices
  BY <1>1 DEF TypeOK, Prices
<1>3. Fraction(t.price, 1) \in Prices
  BY <1>1, FractionType
<1>4. CASE t.type \in Increases /\ Increase(t)
  <2> DEFINE total == shares[s] + t.shares
  <2>1. CASE s \notin seen
    BY <1>1, <1>3, <1>4, <2>1, AccumulateType DEF Increase
  <2>2. CASE s \in seen /\ total = 0
    BY <1>1, <1>2, <1>4, <2>2, AccumulateType DEF Increase
  <2>3. CASE s \in seen /\ total # 0
    <3>1. total \in Int \ {0}
      BY <1>1, <1>2, <2>3
    <3>2. old.d * total \in Int \ {0}
      BY <1>2, <3>1
    <3>3. shares[s] * old.n + t.shares * t.price * old.d \in Int
      BY <1>1, <1>2
    <3> DEFINE price == Fraction(shares[s] * old.n + t.shares * t.price * old.d,
                                 old.d * total)
    <3>4. price \in Prices
      BY <3>2, <3>3, FractionType
    <3>5. Accumulate(s, total, price)
      BY <1>4, <2>3 DEF Increase
    <3> QED
      BY <1>1, <3>1, <3>4, <3>5, AccumulateType
  <2> QED
    BY <2>1, <2>2, <2>3
<1>5. CASE t.type \in Decreases /\ Decrease(t)
  <2>1. CASE s \notin seen
    BY <1>1, <1>3, <1>5, <2>1, AccumulateType DEF Decrease
  <2>2. CASE s \in seen
    BY <1>1, <1>2, <1>5, <2>2, AccumulateType DEF Decrease
  <2> QED
    BY <2>1, <2>2
<1> QED
  BY <1>4, <1>5

LEMMA TypeNext == TypeOK /\ [Next]_vars => TypeOK'
<1> SUFFICES ASSUME TypeOK, [Next]_vars PROVE TypeOK'
  OBVIOUS
<1>1. CASE Replay
  <2> PICK i \in left :
        /\ left' = left \ {i}
        /\ cash' = cash + CashEffectSign(log[i].type) * log[i].amount
        /\ \/ log[i].type \in Increases /\ Increase(log[i])
           \/ log[i].type \in Decreases /\ Decrease(log[i])
           \/ log[i].type \notin Positions /\ UNCHANGED <<accumulators, short>>
    BY <1>1 DEF Replay
  <2>1. Valid(log[i])
    BY LogIsValid
  <2>2. cash' \in Int
    BY <2>1 DEF Valid, CashEffectSign, TypeOK
  <2>3. /\ seen' \subseteq Symbols /\ shares' \in [Symbols -> Int]
        /\ avg' \in [Symbols -> Prices] /\ short' \subseteq Symbols
    <3>1. CASE UNCHANGED <<accumulators, short>>
      BY <3>1 DEF accumulators, TypeOK, Prices
    <3> QED
      BY <2>1, <3>1, MovesType
  <2>4. UNCHANGED <<log, declared, warnings, status>>
    BY <1>1 DEF Replay
  <2> QED
    BY <2>2, <2>3, <2>4 DEF TypeOK, Prices
<1>2. CASE Finish
  BY <1>2 DEF Finish, TypeOK, Statuses, accumulators
<1>3. ASSUME NEW t \in Transactions, Record(t) PROVE TypeOK'
  <2>1. log' \in Seq(Transactions) /\ DOMAIN log' = 1 .. Len(log) + 1
    BY <1>3, AppendProperties DEF Record, TypeOK
  <2>2. Fraction(0, 1) \in Prices
    BY FractionType
  <2> QED
    BY <1>3, <2>1, <2>2 DEF Record, TypeOK, Statuses, Prices
<1>4. CASE UNCHANGED vars
  BY <1>4 DEF vars, accumulators, TypeOK
<1> QED
  BY <1>1, <1>2, <1>3, <1>4 DEF Next

\* The replay's variables have their types.
THEOREM ReplayTypeCorrect == Spec => []TypeOK
BY TypeInit, TypeNext, PTL DEF Spec

----------------------------------------------------------------------------
(* Average prices *)

\* A mean of a price p for q shares and of n / d for S shares lies above p if
\* n / d does, and above whatever is below both.
LEMMA MeanAbove ==
  ASSUME NEW S \in Nat, NEW q \in Nat \ {0}, NEW p \in Nat, NEW n \in Int,
         NEW d \in Nat \ {0}, NEW low \in Nat, low * d <= n
  PROVE  \/ p * (d * (S + q)) <= S * n + q * p * d
         \/ low * (d * (S + q)) <= S * n + q * p * d
<1>1. CASE p * d <= n
  <2>1. S * (p * d) <= S * n
    BY <1>1
  <2>2. p * (d * (S + q)) = S * (p * d) + q * p * d
    OBVIOUS
  <2> QED
    BY <2>1, <2>2
<1>2. CASE n <= p * d
  <2>1. S * (low * d) <= S * n
    OBVIOUS
  <2>2. q * (low * d) <= q * (p * d)
    BY <1>2
  <2>3. low * (d * (S + q)) = S * (low * d) + q * (low * d)
    OBVIOUS
  <2> QED
    BY <2>1, <2>2, <2>3
<1> QED
  BY <1>1, <1>2

\* A mean of two prices is at most the greater one.
LEMMA MeanBelow ==
  ASSUME NEW S \in Nat, NEW q \in Nat \ {0}, NEW p \in Nat, NEW n \in Int,
         NEW d \in Nat \ {0}, NEW high \in Nat, high * d >= n
  PROVE  \/ p * (d * (S + q)) >= S * n + q * p * d
         \/ high * (d * (S + q)) >= S * n + q * p * d
<1>1. CASE p * d >= n
  <2>1. S * (p * d) >= S * n
    BY <1>1
  <2>2. p * (d * (S + q)) = S * (p * d) + q * p * d
    OBVIOUS
  <2> QED
    BY <2>1, <2>2
<1>2. CASE n >= p * d
  <2>1. S * (high * d) >= S * n
    OBVIOUS
  <2>2. q * (high * d) >= q * (p * d)
    BY <1>2
  <2>3. high * (d * (S + q)) = S * (high * d) + q * (high * d)
    OBVIOUS
  <2> QED
    BY <2>1, <2>2, <2>3
<1> QED
  BY <1>1, <1>2

\* The lots of a symbol among those replayed, and its average price between
\* the lowest and the highest of them.
Lots(s) == {i \in Done : log[i].symbol = s /\ log[i].type \in Increases}

Between(s) ==
  /\ \E i \in Lots(s) : log[i].price * avg[s].d <= avg[s].n
  /\ \E i \in Lots(s) : log[i].price * avg[s].d >= avg[s].n

\* The inductive invariant: a symbol that was never oversold has no negative
\* total, and its average price is one of prices paid.
PriceInv ==
  /\ TypeOK
  /\ \A s \in seen \ short : shares[s] >= 0 /\ Between(s)
  /\ \A s \in Symbols \ seen : avg[s].n = 0
  /\ short \subseteq seen
  /\ status = "raised" => Raises

LEMMA PriceInit == Init => PriceInv
BY TypeInit DEF Init, PriceInv, Fraction

\* A symbol whose average price lies between prices has no negative one.
LEMMA BetweenIsPrice ==
  ASSUME PriceInv, NEW s \in seen \ short
  PROVE  avg[s].n >= 0
<1>1. PICK i \in Lots(s) : log[i].price * avg[s].d <= avg[s].n
  BY DEF PriceInv, Between
<1>2. log[i] \in Transactions
  BY ElementOfSeq DEF Lots, Done, PriceInv, TypeOK
<1>3. log[i].price \in Nat
  BY <1>2, TransactionsAssumption DEF Valid
<1>4. avg[s].d \in Nat /\ avg[s].n \in Int
  BY DEF PriceInv, TypeOK
<1>5. log[i].price * avg[s].d >= 0
  BY <1>3, <1>4
<1> QED
  BY <1>1, <1>3, <1>4, <1>5

LEMMA PriceNext == PriceInv /\ [Next]_vars => PriceInv'
<1> SUFFICES ASSUME PriceInv, [Next]_vars PROVE PriceInv'
  OBVIOUS
<1>0. TypeOK /\ TypeOK'
  BY TypeNext DEF PriceInv
<1>1. CASE Replay
  <2> PICK i \in left :
        /\ left' = left \ {i}
        /\ \/ log[i].type \in Increases /\ Increase(log[i])
           \/ log[i].type \in Decreases /\ Decrease(log[i])
           \/ log[i].type \notin Positions /\ UNCHANGED <<accumulators, short>>
    BY <1>1 DEF Replay
  <2>a. log[i] \in Transactions
    BY <1>0, ElementOfSeq DEF TypeOK
  <2> PICK t \in Transactions : t = log[i]
    BY <2>a
  <2>b. t.symbol \in Symbols \union {None}
    BY TransactionsAssumption DEF Valid
  <2> PICK s \in Symbols \union {None} : s = t.symbol
    BY <2>b
  <2>1. UNCHANGED <<log, status>> /\ status = "replaying"
    BY <1>1 DEF Replay
  <2>2. Valid(t)
    BY <1>0, LogIsValid
  <2>3. \A x \in Symbols : /\ Lots(x) \subseteq Lots(x)'
                           /\ t.symbol = x /\ t.type \in Increases => i \in Lots(x)'
    BY <1>0, <2>1 DEF Lots, Done, TypeOK
  \* What does not move keeps its price between the lots there are.
  <2>4. ASSUME NEW x \in Symbols, Between(x), avg'[x] = avg[x] PROVE Between(x)'
    BY <2>1, <2>3, <2>4 DEF Between
  <2>5. CASE t.type \notin Positions /\ UNCHANGED <<accumulators, short>>
    BY <1>0, <2>1, <2>4, <2>5 DEF PriceInv, accumulators, TypeOK
  <2>6. ASSUME s \in Symbols, NEW total \in Int, NEW price, Accumulate(s, total, price),
               total < 0 \/ Between(s)'
        PROVE  PriceInv'
    <3>1. /\ seen' = seen \union {s}
          /\ \A x \in Symbols : x # s => avg'[x] = avg[x] /\ shares'[x] = shares[x]
          /\ shares'[s] = total
          /\ short' = IF total < 0 THEN short \union {s} ELSE short
      BY <1>0, <2>6 DEF Accumulate, TypeOK
    <3>2. \A x \in seen' \ short' : shares'[x] >= 0 /\ Between(x)'
      <4> TAKE x \in seen' \ short'
      <4>1. CASE x = s
        BY <2>6, <3>1, <4>1
      <4>2. CASE x # s
        <5>1. x \in Symbols /\ x \in seen \ short
          BY <1>0, <3>1, <4>2 DEF TypeOK
        <5>2. shares[x] >= 0 /\ Between(x)
          BY <5>1 DEF PriceInv
        <5>3. avg'[x] = avg[x] /\ shares'[x] = shares[x]
          BY <3>1, <4>2, <5>1
        <5> QED
          BY <2>4, <5>1, <5>2, <5>3
      <4> QED
        BY <4>1, <4>2
    <3> QED
      BY <1>0, <2>1, <2>6, <3>1, <3>2 DEF PriceInv
  <2>7. CASE t.type \in Increases /\ Increase(t)
    <3>0. s \in Symbols /\ t.shares \in Nat \ {0} /\ t.price \in Nat
      BY <2>2, <2>7, NoneAssumption DEF Valid, Positions
    <3>1. /\ s \in Symbols /\ t.shares \in Nat \ {0} /\ t.price \in Nat
          /\ i \in Lots(s)' /\ Lots(s) \subseteq Lots(s)'
      BY <2>3, <2>7, <3>0
    <3>2. CASE s \notin seen
      <4>1. Accumulate(s, t.shares, Fraction(t.price, 1))
        BY <2>7, <3>2 DEF Increase
      <4>2. avg'[s] = [n |-> t.price, d |-> 1]
        BY <1>0, <3>1, <4>1 DEF Accumulate, Fraction, TypeOK
      <4>3. Between(s)'
        BY <2>1, <3>1, <4>2 DEF Between
      <4> QED
        BY <2>6, <3>1, <4>1, <4>3
    <3>3. CASE s \in seen
      <4> DEFINE S == shares[s]
                 n == avg[s].n
                 d == avg[s].d
                 total == S + t.shares
                 num == S * n + t.shares * t.price * d
                 price == IF total = 0 THEN avg[s] ELSE Fraction(num, d * total)
      <4>1. S \in Int /\ n \in Int /\ d \in Nat \ {0} /\ total \in Int
        BY <1>0, <3>1 DEF TypeOK
      <4>2. Accumulate(s, total, price)
        BY <2>7, <3>3 DEF Increase
      <4>3. CASE s \in short
        <5>1. s \in short'
          BY <4>2, <4>3 DEF Accumulate
        <5>2. /\ seen' = seen
              /\ \A x \in Symbols : x # s => avg'[x] = avg[x] /\ shares'[x] = shares[x]
              /\ short' = short
          BY <1>0, <3>3, <4>2, <4>3 DEF Accumulate, TypeOK
        <5>3. \A x \in seen' \ short' : x # s /\ x \in Symbols /\ x \in seen \ short
          BY <1>0, <5>1, <5>2 DEF TypeOK
        <5>4. \A x \in seen' \ short' : shares'[x] >= 0 /\ Between(x)'
          BY <2>4, <5>2, <5>3 DEF PriceInv
        <5> QED
          BY <1>0, <2>1, <3>3, <5>2, <5>4 DEF PriceInv
      <4>4. CASE s \notin short
        <5>1. S \in Nat /\ Between(s) /\ total \in Nat \ {0}
          BY <3>1, <3>3, <4>1, <4>4 DEF PriceInv
        <5>2. d * total \in Nat \ {0} /\ num \in Int
          BY <3>1, <4>1, <5>1
        <5>3. avg'[s] = [n |-> num, d |-> d * total]
          BY <1>0, <3>1, <4>2, <5>1, <5>2 DEF Accumulate, Fraction, TypeOK
        <5>4. PICK low \in Lots(s) : log[low].price * d <= n
          BY <5>1 DEF Between
        <5>5. PICK high \in Lots(s) : log[high].price * d >= n
          BY <5>1 DEF Between
        <5>6. log[low].price \in Nat /\ log[high].price \in Nat
          BY <1>0, ElementOfSeq, TransactionsAssumption DEF Lots, Done, TypeOK, Valid
        <5>7. \/ t.price * (d * total) <= num
              \/ log[low].price * (d * total) <= num
          BY <3>1, <4>1, <5>1, <5>4, <5>6, MeanAbove
        <5>8. \/ t.price * (d * total) >= num
              \/ log[high].price * (d * total) >= num
          BY <3>1, <4>1, <5>1, <5>5, <5>6, MeanBelow
        <5>9. low \in Lots(s)' /\ high \in Lots(s)'
          BY <3>1, <5>4, <5>5
        <5>10. /\ \E j \in Lots(s)' : log[j].price * (d * total) <= num
               /\ \E j \in Lots(s)' : log[j].price * (d * total) >= num
          BY <3>1, <5>7, <5>8, <5>9
        <5>11. Between(s)'
          BY <2>1, <5>3, <5>10 DEF Between
        <5> QED
          BY <2>6, <3>1, <4>1, <4>2, <5>11
      <4> QED
        BY <4>3, <4>4
    <3> QED
      BY <3>2, <3>3
  <2>8. CASE t.type \in Decreases /\ Decrease(t)
    <3>1. s \in Symbols /\ t.shares \in Nat \ {0}
      BY <2>2, <2>8, NoneAssumption DEF Valid, Positions
    <3>2. CASE s \notin seen
      <4>1. Accumulate(s, -t.shares, Fraction(t.price, 1)) /\ -t.shares < 0 /\ -t.shares \in Int
        BY <2>8, <3>1, <3>2 DEF Decrease
      <4> QED
        BY <2>6, <3>1, <4>1
    <3>3. CASE s \in seen
      <4> DEFINE total == shares[s] - t.shares
      <4>1. Accumulate(s, total, avg[s]) /\ total \in Int
        BY <1>0, <2>8, <3>1, <3>3 DEF Decrease, TypeOK
      <4>2. avg'[s] = avg[s]
        BY <1>0, <3>1, <4>1 DEF Accumulate, TypeOK
      <4>3. CASE s \in short
        <5>1. /\ seen' = seen /\ s \in short' /\ avg' = avg /\ short' = short
              /\ \A x \in Symbols : x # s => shares'[x] = shares[x]
          BY <1>0, <3>1, <3>3, <4>1, <4>3 DEF Accumulate, TypeOK
        <5>2. \A x \in seen' \ short' : shares'[x] >= 0 /\ Between(x)'
          BY <1>0, <2>4, <5>1 DEF PriceInv, TypeOK
        <5> QED
          BY <1>0, <2>1, <5>1, <5>2 DEF PriceInv
      <4>4. CASE s \notin short
        <5>0. Between(s)
          BY <3>3, <4>4 DEF PriceInv
        <5>1. Between(s)'
          BY <2>4, <3>1, <4>2, <5>0
        <5> QED
          BY <2>6, <3>1, <4>1, <5>1
      <4> QED
        BY <4>3, <4>4
    <3> QED
      BY <3>2, <3>3
  <2> QED
    BY <2>5, <2>7, <2>8
<1>2. CASE Finish
  <2>1. UNCHANGED <<log, declared, left, seen, shares, avg, cash, short>>
    BY <1>2 DEF Finish, accumulators
  <2>2. status' = "raised" => Raises
    BY <1>2 DEF Finish
  <2> QED
    BY <1>0, <2>1, <2>2 DEF PriceInv, Between, Lots, Done, Raises
<1>3. ASSUME NEW t \in Transactions, Record(t) PROVE PriceInv'
  BY <1>0, <1>3 DEF Record, PriceInv, Fraction
<1>4. CASE UNCHANGED vars
  BY <1>0, <1>4 DEF vars, accumulators, PriceInv, Between, Lots, Done, Raises
<1> QED
  BY <1>1, <1>2, <1>3, <1>4 DEF Next

\* A symbol that was never oversold has an average price between the lowest
\* and the highest price paid for it (transaction_replay.py:78-84).
THEOREM AverageIsWithinPrices == Spec => []AverageWithinPrices
<1>1. PriceInv => AverageWithinPrices
  BY DEF PriceInv, AverageWithinPrices, Between, Lots
<1> QED
  BY PriceInit, PriceNext, <1>1, PTL DEF Spec

\* A log that never oversells never fails the refresh
\* (transaction_replay.py:101-109).
THEOREM OnlyOversoldRaises == Spec => []RaisesOnlyIfOversold
<1>1. PriceInv => RaisesOnlyIfOversold
  <2> SUFFICES ASSUME PriceInv PROVE RaisesOnlyIfOversold
    OBVIOUS
  <2>1. \A s \in Symbols \ short : avg[s].n >= 0
    BY BetweenIsPrice DEF PriceInv
  <2>2. Raises => \E s \in seen : avg[s].n < 0 /\ s \in Symbols /\ avg[s].n \in Int
    BY DEF Raises, PriceInv, TypeOK
  <2>3. status = "raised" => short # {}
    BY <2>1, <2>2 DEF PriceInv
  <2> QED
    BY <2>1, <2>3 DEF RaisesOnlyIfOversold
<1> QED
  BY PriceInit, PriceNext, <1>1, PTL DEF Spec

----------------------------------------------------------------------------
(* Totals *)

\* What is summed: whole numbers, over a part of the log.
LEMMA SummandsType ==
  ASSUME TypeOK
  PROVE  /\ IsFiniteSet(DOMAIN log) /\ IsFiniteSet(Done)
         /\ \A i \in DOMAIN log : /\ Valid(log[i])
                                  /\ CashEffectSign(log[i].type) * log[i].amount \in Int
                                  /\ \A s \in Symbols : Moves(log[i], s) \in Int
<1>1. Len(log) \in Nat /\ DOMAIN log = 1 .. Len(log)
  BY DEF TypeOK
<1>2. IsFiniteSet(DOMAIN log)
  BY <1>1, FS_Interval
<1>3. IsFiniteSet(Done)
  BY <1>2, FS_Subset DEF Done
<1>4. \A i \in DOMAIN log : Valid(log[i])
  BY ElementOfSeq, TransactionsAssumption DEF TypeOK
<1>5. \A i \in DOMAIN log : CashEffectSign(log[i].type) * log[i].amount \in Int
  <2> TAKE i \in DOMAIN log
  <2>1. log[i].amount \in Nat /\ CashEffectSign(log[i].type) \in Int
    BY <1>4 DEF Valid, CashEffectSign
  <2> QED
    BY <2>1
<1>6. \A i \in DOMAIN log : \A s \in Symbols : Moves(log[i], s) \in Int
  BY <1>4 DEF Valid, Moves
<1> QED
  BY <1>2, <1>3, <1>4, <1>5, <1>6

\* The inductive invariant: the totals are the sums of what has been replayed,
\* and the status says what the reconciliation found.
SumInv ==
  /\ TypeOK
  /\ TotalsAreSums
  /\ status = "ok" => left = {} /\ Discrepancies = {}

LEMMA SumInit == Init => SumInv
<1> SUFFICES ASSUME Init PROVE SumInv
  OBVIOUS
<1>1. TypeOK
  BY TypeInit
<1>2. Done = {}
  BY DEF Init, Done
<1>3. NetCash = 0 /\ \A s \in Symbols : NetShares(s) = 0
  BY <1>2, SumEmpty DEF NetCash, NetShares
<1> QED
  BY <1>1, <1>3 DEF Init, SumInv, TotalsAreSums

\* A round adds its transaction to the sums.
LEMMA SumsGrow ==
  ASSUME TypeOK, NEW i \in left, left' = left \ {i}, log' = log
  PROVE  /\ NetCash' = NetCash + CashEffectSign(log[i].type) * log[i].amount
         /\ \A s \in Symbols : NetShares(s)' = NetShares(s) + Moves(log[i], s)
<1>1. Done' = Done \union {i} /\ i \notin Done /\ i \in DOMAIN log /\ Done \subseteq DOMAIN log
  BY DEF TypeOK, Done
<1>2. NetCash' = NetCash + CashEffectSign(log[i].type) * log[i].amount
  <2> DEFINE f == [j \in DOMAIN log |-> CashEffectSign(log[j].type) * log[j].amount]
  <2>1. f[i] = CashEffectSign(log[i].type) * log[i].amount /\ f[i] \in Int
        /\ \A j \in Done : f[j] \in Int
    BY <1>1, SummandsType
  <2>2. NetCash = SumOn(f, Done) /\ NetCash' = SumOn(f, Done \union {i})
    BY <1>1 DEF NetCash
  <2> HIDE DEF f
  <2> QED
    BY <1>1, <2>1, <2>2, SummandsType, SumAdd
<1>3. ASSUME NEW s \in Symbols PROVE NetShares(s)' = NetShares(s) + Moves(log[i], s)
  <2> DEFINE f == [j \in DOMAIN log |-> Moves(log[j], s)]
  <2>1. f[i] = Moves(log[i], s) /\ f[i] \in Int /\ \A j \in Done : f[j] \in Int
    BY <1>1, SummandsType
  <2>2. NetShares(s) = SumOn(f, Done) /\ NetShares(s)' = SumOn(f, Done \union {i})
    BY <1>1 DEF NetShares
  <2> HIDE DEF f
  <2> QED
    BY <1>1, <2>1, <2>2, SummandsType, SumAdd
<1> QED
  BY <1>2, <1>3

\* The running total of a symbol, nothing where it has no accumulator.
Total(s) == IF s \in seen THEN shares[s] ELSE 0

\* A round moves the totals by what its transaction moves.
LEMMA TotalsMove ==
  ASSUME TypeOK, Replay
  PROVE  \E i \in left :
           /\ left' = left \ {i} /\ log' = log
           /\ cash' = cash + CashEffectSign(log[i].type) * log[i].amount
           /\ \A s \in Symbols : Total(s)' = Total(s) + Moves(log[i], s)
<1>1. PICK i \in left :
        /\ left' = left \ {i} /\ log' = log
        /\ cash' = cash + CashEffectSign(log[i].type) * log[i].amount
        /\ \/ log[i].type \in Increases /\ Increase(log[i])
           \/ log[i].type \in Decreases /\ Decrease(log[i])
           \/ log[i].type \notin Positions /\ UNCHANGED <<accumulators, short>>
  BY DEF Replay
<1> DEFINE t == log[i]
<1>2. Valid(t)
  BY LogIsValid
<1>3. t.type \in Increases => t.type \notin Decreases
  BY DEF Increases, Decreases
<1>4. ASSUME NEW s \in Symbols, NEW total \in Int, NEW price, Accumulate(s, total, price),
             t.symbol = s, total = Total(s) + Moves(t, s)
      PROVE  \A x \in Symbols : Total(x)' = Total(x) + Moves(t, x)
  <2> TAKE x \in Symbols
  <2>1. Total(x) \in Int
    BY DEF Total, TypeOK
  <2>2. x # s => Moves(t, x) = 0 /\ Total(x)' = Total(x)
    BY <1>4 DEF Moves, Total, Accumulate, TypeOK
  <2>3. x = s => Total(x)' = total
    BY <1>4 DEF Total, Accumulate, TypeOK
  <2> QED
    BY <1>4, <2>1, <2>2, <2>3
<1>5. \A s \in Symbols : Total(s)' = Total(s) + Moves(t, s)
  <2>1. CASE t.type \in Increases /\ Increase(t)
    <3> DEFINE s == t.symbol
    <3>1. s \in Symbols /\ t.shares \in Nat /\ shares[s] \in Int
      BY <1>2, <2>1, NoneAssumption DEF Valid, Positions, TypeOK
    <3>2. Moves(t, s) = t.shares
      BY <2>1 DEF Moves
    <3>3. CASE s \notin seen
      <4>1. Accumulate(s, t.shares, Fraction(t.price, 1)) /\ Total(s) = 0
        BY <2>1, <3>3 DEF Increase, Total
      <4> QED
        BY <1>4, <3>1, <3>2, <4>1
    <3>4. CASE s \in seen
      <4>1. \E price : Accumulate(s, shares[s] + t.shares, price)
        BY <2>1, <3>4 DEF Increase
      <4>2. Total(s) = shares[s]
        BY <3>4 DEF Total
      <4>3. shares[s] + t.shares \in Int
        BY <3>1
      <4> QED
        BY <1>4, <3>1, <3>2, <4>1, <4>2, <4>3
    <3> QED
      BY <3>3, <3>4
  <2>2. CASE t.type \in Decreases /\ Decrease(t)
    <3> DEFINE s == t.symbol
    <3>1. s \in Symbols /\ t.shares \in Nat /\ shares[s] \in Int
      BY <1>2, <2>2, NoneAssumption DEF Valid, Positions, TypeOK
    <3>2. Moves(t, s) = -t.shares
      BY <1>3, <2>2 DEF Moves
    <3>3. CASE s \notin seen
      <4>1. Accumulate(s, -t.shares, Fraction(t.price, 1)) /\ Total(s) = 0
        BY <2>2, <3>3 DEF Decrease, Total
      <4>2. -t.shares \in Int /\ -t.shares = 0 + -t.shares
        BY <3>1
      <4> QED
        BY <1>4, <3>1, <3>2, <4>1, <4>2
    <3>4. CASE s \in seen
      <4>1. Accumulate(s, shares[s] - t.shares, avg[s])
        BY <2>2, <3>4 DEF Decrease
      <4>2. Total(s) = shares[s]
        BY <3>4 DEF Total
      <4>3. shares[s] - t.shares \in Int /\ shares[s] - t.shares = shares[s] + -t.shares
        BY <3>1
      <4> QED
        BY <1>4, <3>1, <3>2, <4>1, <4>2, <4>3
    <3> QED
      BY <3>3, <3>4
  <2>3. CASE t.type \notin Positions /\ UNCHANGED <<accumulators, short>>
    <3>1. \A s \in Symbols : Moves(t, s) = 0 /\ Total(s) \in Int /\ Total(s)' = Total(s)
      BY <2>3 DEF Moves, Positions, Total, accumulators, TypeOK
    <3> QED
      BY <3>1
  <2> QED
    BY <1>1, <2>1, <2>2, <2>3
<1> QED
  BY <1>1, <1>5

\* The discrepancies are a matter of what is declared and what was replayed.
LEMMA DiscrepanciesStay ==
  ASSUME UNCHANGED <<declared, seen, shares, avg, cash>>
  PROVE  Discrepancies' = Discrepancies
<1>1. Held' = Held
  BY DEF Held, Accounts
<1>2. \A s \in Held : DeclaredHolding(s)' = DeclaredHolding(s)
  BY DEF DeclaredHolding, Accounts
<1>3. \A s : Reconstructed(s)' = Reconstructed(s)
  BY DEF Reconstructed
<1>4. \A s : DeclaredShares(s)' = DeclaredShares(s)
  BY DEF DeclaredShares, DeclaredHolding, Held, Accounts
<1> QED
  BY <1>1, <1>2, <1>3, <1>4 DEF Discrepancies

LEMMA SumNext == SumInv /\ [Next]_vars => SumInv'
<1> SUFFICES ASSUME SumInv, [Next]_vars PROVE SumInv'
  OBVIOUS
<1>0. TypeOK /\ TypeOK' /\ TotalsAreSums
  BY TypeNext DEF SumInv
<1>1. CASE Replay
  <2> PICK i \in left :
        /\ left' = left \ {i} /\ log' = log
        /\ cash' = cash + CashEffectSign(log[i].type) * log[i].amount
        /\ \A s \in Symbols : Total(s)' = Total(s) + Moves(log[i], s)
    BY <1>0, <1>1, TotalsMove
  <2>1. /\ NetCash' = NetCash + CashEffectSign(log[i].type) * log[i].amount
        /\ \A s \in Symbols : NetShares(s)' = NetShares(s) + Moves(log[i], s)
    BY <1>0, SumsGrow
  <2>2. TotalsAreSums'
    BY <1>0, <2>1 DEF TotalsAreSums, Total
  <2>3. status' # "ok"
    BY <1>1 DEF Replay
  <2> QED
    BY <1>0, <2>2, <2>3 DEF SumInv
<1>2. CASE Finish
  <2>1. UNCHANGED <<log, declared, left, seen, shares, avg, cash>>
    BY <1>2 DEF Finish, accumulators
  <2>2. TotalsAreSums'
    BY <1>0, <2>1 DEF TotalsAreSums, NetShares, NetCash, Done
  <2>3. status' = "ok" => left' = {} /\ Discrepancies'= {}
    BY <1>2, <2>1, DiscrepanciesStay DEF Finish
  <2> QED
    BY <1>0, <2>2, <2>3 DEF SumInv
<1>3. ASSUME NEW t \in Transactions, Record(t) PROVE SumInv'
  <2>1. DOMAIN log' = 1 .. Len(log) + 1
    BY <1>0, <1>3, AppendProperties DEF Record, TypeOK
  <2>2. Done' = {}
    BY <1>3, <2>1 DEF Record, Done
  <2>3. NetCash' = 0 /\ \A s \in Symbols : NetShares(s)' = 0
    BY <2>2, SumEmpty DEF NetCash, NetShares
  <2> QED
    BY <1>0, <1>3, <2>3 DEF Record, SumInv, TotalsAreSums
<1>4. CASE UNCHANGED vars
  BY <1>0, <1>4, DiscrepanciesStay DEF vars, accumulators, SumInv, TotalsAreSums, NetShares,
                                       NetCash, Done
<1> QED
  BY <1>1, <1>2, <1>3, <1>4 DEF Next

\* The running totals are the sums of what has been replayed, in whatever order
\* it was dated and recorded (transaction_replay.py:81-93).
THEOREM ReplayTotalsAreSums == Spec => []TotalsAreSums
<1>1. SumInv => TotalsAreSums
  BY DEF SumInv
<1> QED
  BY SumInit, SumNext, <1>1, PTL DEF Spec

\* A symbol that at most one account holds is declared in total as it is by the
\* account that the reconciliation looks at.
LEMMA OneAccountIsAll ==
  ASSUME TypeOK, NEW s \in Symbols, \A i, j \in Accounts(s) : i = j
  PROVE  DeclaredTotal(s) = DeclaredShares(s)
<1> DEFINE f == [i \in DOMAIN declared.holdings |-> declared.holdings[i].shares]
<1>1. ValidDeclaration(declared)
  BY DeclaredAssumption DEF TypeOK
<1>2. \A i \in DOMAIN declared.holdings : declared.holdings[i].shares \in Nat /\ i \in Int
  <2>1. declared.holdings \in Seq([symbol : Symbols, shares : Nat, avg : Nat])
    BY <1>1 DEF ValidDeclaration
  <2>2. DOMAIN declared.holdings = 1 .. Len(declared.holdings) /\ Len(declared.holdings) \in Nat
    BY <2>1, LenProperties
  <2>3. \A i \in 1 .. Len(declared.holdings) :
          declared.holdings[i] \in [symbol : Symbols, shares : Nat, avg : Nat]
    BY <2>1, ElementOfSeq
  <2> QED
    BY <2>2, <2>3
<1>3. CASE Accounts(s) = {}
  BY <1>3, SumEmpty DEF DeclaredTotal, DeclaredShares, Held
<1>4. CASE Accounts(s) # {}
  <2>1. PICK i \in Accounts(s) : Accounts(s) = {i}
    BY <1>4
  <2>2. i \in DOMAIN declared.holdings /\ i \in Int
    BY <1>2 DEF Accounts
  <2>3. SumOn(f, {} \union {i}) = SumOn(f, {}) + f[i]
    <3>1. IsFiniteSet({}) /\ i \notin {} /\ f[i] \in Int
      BY <1>2, <2>2, FS_EmptySet
    <3> QED
      BY <3>1, SumAdd
  <2>4. SumOn(f, {i}) = f[i]
    <3>1. SumOn(f, {}) = 0 /\ f[i] \in Int
      BY <1>2, <2>2, SumEmpty
    <3> HIDE DEF f
    <3> QED
      BY <2>3, <3>1
  <2>5. Max({i}) = i
    BY <2>2 DEF Max
  <2> QED
    BY <1>4, <2>1, <2>2, <2>4, <2>5 DEF DeclaredTotal, DeclaredShares, DeclaredHolding, Held
<1> QED
  BY <1>3, <1>4

\* A status of "ok" means that the declared holdings and cash are what the log
\* adds up to, for every symbol, but for one held in several accounts, of which
\* the last alone agrees (reconciliation_calculator.py:30-96).
THEOREM OkIsAgreement == Spec => []OkMeansAgreement
<1>1. SumInv => OkMeansAgreement
  <2> SUFFICES ASSUME SumInv, status = "ok"
               PROVE  /\ declared.cash = NetCash
                      /\ \A s \in Symbols :
                           \/ DeclaredTotal(s) = Max({0, NetShares(s)})
                           \/ /\ \E i, j \in Accounts(s) : i # j
                              /\ DeclaredHolding(s).shares = Max({0, NetShares(s)})
    BY DEF OkMeansAgreement
  <2>1. TypeOK /\ TotalsAreSums /\ Discrepancies = {}
    BY DEF SumInv
  <2>2. declared.cash = NetCash
    BY <2>1 DEF Discrepancies, TotalsAreSums
  <2>3. ASSUME NEW s \in Symbols PROVE DeclaredShares(s) = Max({0, NetShares(s)})
    <3>1. NetShares(s) = Total(s) /\ Total(s) \in Int
      BY <2>1 DEF TotalsAreSums, Total, TypeOK
    <3>2. Max({0, NetShares(s)}) = IF Total(s) > 0 THEN Total(s) ELSE 0
      <4> DEFINE m == IF Total(s) > 0 THEN Total(s) ELSE 0
      <4>1. m \in {0, NetShares(s)} /\ \A y \in {0, NetShares(s)} : m >= y /\ y \in Int
        BY <3>1
      <4>2. \A x \in {0, NetShares(s)} : (\A y \in {0, NetShares(s)} : x >= y) => x = m
        BY <3>1, <4>1
      <4> HIDE DEF m
      <4>3. (CHOOSE x \in {0, NetShares(s)} : \A y \in {0, NetShares(s)} : x >= y) = m
        BY <4>1, <4>2
      <4> QED
        BY <4>3 DEF Max, m
    <3>3. Reconstructed(s) = IF Total(s) > 0 THEN Total(s) ELSE 0
      BY <3>1 DEF Reconstructed, Total
    <3>4. CASE s \in Held \union seen
      <4>1. DeclaredShares(s) = Reconstructed(s)
        BY <2>1, <3>4 DEF Discrepancies
      <4> QED
        BY <3>2, <3>3, <4>1
    <3>5. CASE s \notin Held \union seen
      <4>1. DeclaredShares(s) = 0 /\ Total(s) = 0
        BY <3>5 DEF DeclaredShares, Total
      <4> QED
        BY <3>2, <4>1
    <3> QED
      BY <3>4, <3>5
  <2>4. ASSUME NEW s \in Symbols, \E i, j \in Accounts(s) : i # j
        PROVE  DeclaredHolding(s).shares = Max({0, NetShares(s)})
    BY <2>3, <2>4 DEF DeclaredShares, Held
  <2>5. ASSUME NEW s \in Symbols, \A i, j \in Accounts(s) : i = j
        PROVE  DeclaredTotal(s) = Max({0, NetShares(s)})
    BY <2>1, <2>3, <2>5, OneAccountIsAll
  <2> QED
    BY <2>2, <2>4, <2>5
<1> QED
  BY SumInit, SumNext, <1>1, PTL DEF Spec
=============================================================================
