--------------------------- MODULE MCBrokerImport ---------------------------
(* Small exports for BrokerImport: two brokers' views of the same few       *)
(* trades, in units of a third of the tolerance.                           *)
EXTENDS BrokerImport

CONSTANTS usd, msft

Csv(id, type, symbol, shares, price, amount) ==
  [kind |-> "csv", id |-> id, type |-> type, date |-> 1, symbol |-> symbol,
   shares |-> shares, price |-> price, amount |-> amount, currency |-> usd,
   surplus |-> FALSE]

Trade(id, shares, price, amount) ==
  [kind |-> "trade", id |-> id, type |-> IF shares < 0 THEN "sell" ELSE "buy",
   date |-> 1, symbol |-> msft, shares |-> shares, price |-> price,
   amount |-> amount, currency |-> usd]

Cash(id, type, symbol, amount) ==
  [kind |-> "cash", id |-> id, type |-> type, date |-> 1, symbol |-> symbol,
   amount |-> amount, currency |-> usd]

Export(rows) == [sound |-> TRUE, rows |-> rows]

\* A purchase without an id, and the same at another price: one derived id.
Bought == Csv(Absent, "buy", msft, 200, 50, 10000)
BoughtDearer == Csv(Absent, "buy", msft, 200, 51, 10000)

\* A purchase and a deposit that claim one id.
BoughtAsOne == Csv(<<"own", 1>>, "buy", msft, 200, 50, 10000)
PaidInAsOne == Csv(<<"own", 1>>, "deposit", Absent, Absent, Absent, 30)

\* A deposit of nan, and rows that are refused.
PaidInNaN == Csv(Absent, "deposit", Absent, Absent, Absent, NaN)
BadAmount == Csv(Absent, "fee", Absent, Absent, Absent, Bad)
NoPrice   == Csv(Absent, "sell", msft, 200, Absent, 10000)
FreeTransfer == Csv(Absent, "transfer_in", msft, 100, 50, NaN)
Overlong  == [Csv(Absent, "fee", Absent, Absent, Absent, 7) EXCEPT !.surplus = TRUE]

MCExports ==
  {Export(<<Bought, PaidInNaN, BadAmount>>),
   Export(<<Bought, Bought>>),
   Export(<<Bought, BoughtDearer, NoPrice>>),
   Export(<<BoughtAsOne, PaidInAsOne>>),
   Export(<<PaidInAsOne, FreeTransfer>>),
   Export(<<Csv(<<"own", 1>>, "deposit", Absent, Absent, Absent, 50)>>),
   Export(<<Bought, Overlong>>),
   [sound |-> FALSE, rows |-> <<Bought>>],
   \* The first purchase as IBKR tells it, with the commission in its amount.
   Export(<<Cash(2, "deposits", Absent, 30), Trade(1, 200, 50, -10001)>>),
   Export(<<Cash(2, "deposits", msft, -30), Cash(3, "dividends", msft, 3),
            Trade(1, 200, 50, Absent)>>),
   Export(<<Trade(4, -200, 55, 11000), Trade(4, -100, 55, Absent),
            Cash(5, "interest", Absent, 4), Cash(Absent, "fees", Absent, 1)>>)}

\* The first purchase, and a deposit, as the user remembers them.
Remembered(type, symbol, shares, price, amount) ==
  [id |-> <<"new", type>>, type |-> type, date |-> 1, symbol |-> symbol,
   shares |-> shares, price |-> price, amount |-> amount, currency |-> usd]

MCHandWritten == {Remembered("buy", msft, 200, 50, 9999),
                  Remembered("deposit", Absent, Absent, Absent, 31)}
=============================================================================
