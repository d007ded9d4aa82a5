------------------------ MODULE MCTransactionReplay ------------------------
(* Small instances of TransactionReplay. *)
EXTENDS TransactionReplay

CONSTANTS aapl, vwce

Trade(type, date, symbol, n, price) ==
  [type |-> type, date |-> date, symbol |-> symbol, shares |-> n, price |-> price,
   amount |-> IF type \in Transfers THEN 0 ELSE n * price]

Payment(type, date, symbol, amount) ==
  [type |-> type, date |-> date, symbol |-> symbol, shares |-> 0, price |-> 0,
   amount |-> amount]

\* Trades of one symbol at different prices and dates, one of another symbol,
\* and payments.
MCTransactions ==
  { Trade("buy", 1, aapl, 1, 2), Trade("buy", 2, aapl, 3, 5),
    Trade("sell", 1, aapl, 1, 3), Trade("sell", 2, aapl, 2, 4),
    Trade("transfer_in", 1, aapl, 2, 1), Trade("transfer_out", 2, aapl, 1, 1),
    Trade("buy", 1, vwce, 1, 1),
    Payment("deposit", 1, None, 6), Payment("dividend", 2, aapl, 1) }

Holding(symbol, n, price) == [symbol |-> symbol, shares |-> n, avg |-> price]

Declares(holdings, money) == [holdings |-> holdings, cash |-> money]

\* Nothing, one holding, one symbol in two accounts of which the last, the
\* first, or both together may be what the log adds up to, and two symbols.
MCDeclared ==
  { Declares(<<>>, 0), Declares(<<>>, 3),
    Declares(<<Holding(aapl, 1, 2)>>, 4), Declares(<<Holding(aapl, 2, 1)>>, 6),
    Declares(<<Holding(aapl, 2, 1), Holding(aapl, 0, 2)>>, 4),
    Declares(<<Holding(aapl, 1, 2), Holding(vwce, 1, 1), Holding(aapl, 2, 1)>>, 5) }
=============================================================================
