-------------------------- MODULE TransactionReplay --------------------------
(***************************************************************************)
(* replay_transactions and ReconciliationCalculator: on every refresh the  *)
(* transaction log is replayed from nothing into holdings and cash, one    *)
(* transaction at a time in the order of their dates, and the result is    *)
(* compared with what the user declares in holdings.yaml.  Between         *)
(* refreshes the log grows (apply_import, or a user's edit).               *)
(*                                                                         *)
(* Shares, prices and amounts are whole numbers; an average price is an    *)
(* exact fraction, where the code rounds to six digits.                    *)
(***************************************************************************)
EXTENDS Integers, Sequences, Sums

CONSTANTS Symbols,
          Transactions,  \* what may be recorded in the log
          Declared,      \* what the user's holdings.yaml may say
          MaxLog,        \* bound on the length of the log
          None

----------------------------------------------------------------------------
(* Transactions and holdings *)

Increases == {"buy", "transfer_in"}
Decreases == {"sell", "transfer_out"}
Transfers == {"transfer_in", "transfer_out"}
Positions == Increases \union Decreases
Types     == Positions \union {"dividend", "deposit", "withdrawal", "fee"}

CashEffectSign(type) ==
  CASE type \in {"buy", "withdrawal", "fee"} -> -1
    [] type \in {"sell", "deposit", "dividend"} -> 1
    [] OTHER -> 0

\* Transaction.__post_init__; no shares or price (None in the code) are 0 here.
Valid(t) ==
  /\ t.type \in Types
  /\ t.date \in Nat
  /\ t.amount \in Nat /\ (t.amount = 0 <=> t.type \in Transfers)
  /\ t.symbol \in Symbols \union {None}
  /\ t.shares \in Nat /\ t.price \in Nat
  /\ IF t.type \in Positions
     THEN t.symbol # None /\ t.shares > 0 /\ t.price > 0
     ELSE /\ t.symbol # None <=> t.type = "dividend"
          /\ t.shares = 0 /\ t.price = 0

\* The holdings of all accounts in file order, where one symbol may be held in
\* several; Holding and Portfolio insist that nothing is negative.
ValidDeclaration(d) ==
  /\ d.holdings \in Seq([symbol : Symbols, shares : Nat, avg : Nat])
  /\ d.cash \in Nat

ASSUME TransactionsAssumption == \A t \in Transactions : Valid(t)
ASSUME DeclaredAssumption     == \A d \in Declared : ValidDeclaration(d)
ASSUME MaxLogAssumption       == MaxLog \in Nat
ASSUME NoneAssumption         == None \notin Symbols

----------------------------------------------------------------------------
VARIABLES log,       \* transactions.yaml, in file order
          declared,  \* holdings.yaml
          left,      \* positions in the log that are still to be replayed
          seen,      \* the symbols that have an accumulator
          shares,    \* per symbol: the running total, which may be negative
          avg,       \* per symbol: the average price, a fraction
          cash,
          warnings,  \* the symbols reported as oversold
          status     \* "replaying", the reconciliation's status, or "raised"

\* History: the symbols whose running total has been negative in this replay.
VARIABLE short

accumulators == <<seen, shares, avg>>
vars == <<log, declared, left, accumulators, cash, warnings, status, short>>

Statuses == {"replaying", "no_data", "ok", "discrepancy", "raised"}

\* A fraction n / d with d > 0.
Fraction(n, d) == IF d < 0 THEN [n |-> -n, d |-> -d] ELSE [n |-> n, d |-> d]

\* The stable sort by date: the earliest of those left, the first in the file
\* of those of one day.
NextUp(i) ==
  /\ i \in left
  /\ \A j \in left : \/ log[i].date < log[j].date
                     \/ log[i].date = log[j].date /\ i <= j

Accumulate(s, total, price) ==
  /\ seen' = seen \union {s}
  /\ shares' = [shares EXCEPT ![s] = total]
  /\ avg' = [avg EXCEPT ![s] = price]
  /\ short' = IF total < 0 THEN short \union {s} ELSE short

\* A weighted average divided by the shares held before.
IncreaseOverOld(t) ==
  LET s   == t.symbol
      old == avg[s]
  IN  IF s \notin seen \/ shares[s] = 0
      THEN Accumulate(s, t.shares, Fraction(t.price, 1))
      ELSE Accumulate(s, shares[s] + t.shares,
             Fraction(shares[s] * old.n + t.shares * t.price * old.d, old.d * shares[s]))

\* _apply_increase: the average price is weighed by shares; it stays where it
\* was when there are none.
Increase(t) ==
  LET s     == t.symbol
      total == shares[s] + t.shares
      old   == avg[s]
  IN  IF s \notin seen
      THEN Accumulate(s, t.shares, Fraction(t.price, 1))
      ELSE Accumulate(s, total,
             IF total = 0 THEN old
             ELSE Fraction(shares[s] * old.n + t.shares * t.price * old.d,
                           old.d * total))

\* A decrease that takes the proceeds out of the cost.
DecreaseByProceeds(t) ==
  LET s     == t.symbol
      total == shares[s] - t.shares
      old   == avg[s]
  IN  IF s \notin seen
      THEN Accumulate(s, -t.shares, Fraction(t.price, 1))
      ELSE Accumulate(s, total,
             IF total = 0 THEN old
             ELSE Fraction(shares[s] * old.n - t.shares * t.price * old.d, old.d * total))

\* _apply_decrease: the average price stays; a symbol never bought goes
\* negative at the price it was sold for.
Decrease(t) ==
  LET s == t.symbol
  IN  IF s \notin seen
      THEN Accumulate(s, -t.shares, Fraction(t.price, 1))
      ELSE Accumulate(s, shares[s] - t.shares, avg[s])

\* One round of replay_transactions' loop.
Replay ==
  /\ status = "replaying"
  /\ \E i \in left :
       /\ NextUp(i)
       /\ left' = left \ {i}
       /\ cash' = cash + CashEffectSign(log[i].type) * log[i].amount
       /\ \/ log[i].type \in Increases /\ Increase(log[i])
          \/ log[i].type \in Decreases /\ Decrease(log[i])
          \/ log[i].type \notin Positions /\ UNCHANGED <<accumulators, short>>
  /\ UNCHANGED <<log, declared, warnings, status>>

----------------------------------------------------------------------------
(* The end of a replay, and the reconciliation *)

Reconstructed(s) == IF s \in seen /\ shares[s] > 0 THEN shares[s] ELSE 0

\* Differences of 0.01 and less are noise.
FarFrom(price, fraction) ==
  LET difference == price * fraction.d - fraction.n
  IN  100 * difference > fraction.d \/ -100 * difference > fraction.d

\* The accounts that hold a symbol, by their place in the file.
Accounts(s) == {i \in DOMAIN declared.holdings : declared.holdings[i].symbol = s}

Held == {s \in Symbols : Accounts(s) # {}}

\* declared_by_symbol: of the holdings of one symbol the last one is kept.
DeclaredHolding(s) == declared.holdings[Max(Accounts(s))]

DeclaredShares(s) == IF s \in Held THEN DeclaredHolding(s).shares ELSE 0

\* A reconciliation that looks at the declared holdings only.
DiscrepanciesOfDeclared ==
  { <<s, "shares">> : s \in {x \in Held : DeclaredShares(x) # Reconstructed(x)} }
  \union (IF declared.cash # cash THEN { <<None, "cash_balance">> } ELSE {})

\* ReconciliationCalculator.calculate: shares of every symbol on either side,
\* the average price where both sides know the symbol, and cash.
Discrepancies ==
  { <<s, "shares">> :
      s \in {x \in Held \union seen : DeclaredShares(x) # Reconstructed(x)} }
  \union { <<s, "avg_price">> :
      s \in {x \in Held \intersect seen : FarFrom(DeclaredHolding(x).avg, avg[x])} }
  \union (IF declared.cash # cash THEN { <<None, "cash_balance">> } ELSE {})

\* A Holding is made of every accumulator: with a negative average price it
\* raises ValueError, and so does the refresh.
Raises == \E s \in seen : avg[s].n < 0

Finish ==
  /\ status = "replaying" /\ left = {}
  /\ \/ /\ Raises
        /\ status' = "raised" /\ UNCHANGED warnings
     \/ /\ ~Raises
        /\ warnings' = {s \in seen : shares[s] < 0}
        /\ status' = IF Discrepancies = {} THEN "ok" ELSE "discrepancy"
  /\ UNCHANGED <<log, declared, left, accumulators, cash, short>>

\* The next refresh, after one more transaction was recorded.
Record(t) ==
  /\ status # "replaying"
  /\ Len(log) < MaxLog
  /\ log' = Append(log, t)
  /\ left' = 1 .. Len(log) + 1
  /\ seen' = {} /\ shares' = [s \in Symbols |-> 0]
  /\ avg' = [s \in Symbols |-> Fraction(0, 1)]
  /\ cash' = 0 /\ warnings' = {} /\ short' = {}
  /\ status' = "replaying"
  /\ UNCHANGED declared

Init ==
  /\ log = <<>>
  /\ declared \in Declared
  /\ left = {} /\ seen = {} /\ shares = [s \in Symbols |-> 0]
  /\ avg = [s \in Symbols |-> Fraction(0, 1)]
  /\ cash = 0 /\ warnings = {} /\ short = {}
  /\ status = "no_data"

Next == Replay \/ Finish \/ \E t \in Transactions : Record(t)

Spec == Init /\ [][Next]_vars

----------------------------------------------------------------------------
(* Properties *)

TypeOK ==
  /\ log \in Seq(Transactions)
  /\ declared \in Declared
  /\ left \subseteq DOMAIN log
  /\ seen \subseteq Symbols
  /\ shares \in [Symbols -> Int]
  /\ avg \in [Symbols -> [n : Int, d : Nat \ {0}]]
  /\ cash \in Int
  /\ warnings \subseteq Symbols
  /\ status \in Statuses
  /\ short \subseteq Symbols

Done == DOMAIN log \ left

\* The shares of a symbol that a transaction adds or takes.
Moves(t, s) == IF t.symbol # s THEN 0
               ELSE IF t.type \in Increases THEN t.shares
               ELSE IF t.type \in Decreases THEN -t.shares
               ELSE 0

NetShares(s) == SumOn([i \in DOMAIN log |-> Moves(log[i], s)], Done)

NetCash == SumOn([i \in DOMAIN log |-> CashEffectSign(log[i].type) * log[i].amount], Done)

\* The running totals are the sums of what has been replayed, in whatever
\* order it was dated and recorded (transaction_replay.py:81-93).
TotalsAreSums ==
  /\ \A s \in Symbols : (IF s \in seen THEN shares[s] ELSE 0) = NetShares(s)
  /\ cash = NetCash

\* A symbol that was never oversold has an average price between the lowest
\* and the highest price that was paid for it so far.
AverageWithinPrices ==
  \A s \in seen \ short :
    LET lots == {i \in Done : log[i].symbol = s /\ log[i].type \in Increases}
    IN  /\ \E i \in lots : log[i].price * avg[s].d <= avg[s].n
        /\ \E i \in lots : log[i].price * avg[s].d >= avg[s].n

\* Only the average price of an oversold symbol can become negative, so only
\* a log that oversells can fail the refresh.
RaisesOnlyIfOversold ==
  /\ status = "raised" => short # {}
  /\ \A s \in Symbols \ short : avg[s].n >= 0

DeclaredTotal(s) ==
  SumOn([i \in DOMAIN declared.holdings |-> declared.holdings[i].shares], Accounts(s))

\* The reconciliation says "ok" only if what is declared, over all accounts, is
\* what the log adds up to, where a symbol that the log oversells counts as not
\* held.  The exception is a symbol held in several accounts: there it is the
\* last account alone that agrees with the whole log (declared_by_symbol,
\* reconciliation_calculator.py:41).
OkMeansAgreement ==
  status = "ok" =>
    /\ declared.cash = NetCash
    /\ \A s \in Symbols :
         \/ DeclaredTotal(s) = Max({0, NetShares(s)})
         \/ /\ \E i, j \in Accounts(s) : i # j
            /\ DeclaredHolding(s).shares = Max({0, NetShares(s)})
=============================================================================
