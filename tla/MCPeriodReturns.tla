--------------------------- MODULE MCPeriodReturns ---------------------------
(* Two holdings, one share and three shares, that may lose their quotes; flows  *)
(* of each kind and a purchase, of sizes that the value does and does not    *)
(* follow.                                                                   *)
EXTENDS PeriodReturns

CONSTANTS a, b

MCSymbols == {a, b}
MCShares  == [s \in MCSymbols |-> IF s = a THEN 1 ELSE 3]
Prices(pa, pb) == [s \in MCSymbols |-> IF s = a THEN pa ELSE pb]

\* Worth 7, 4, 1 (b has no quote) and 0 (neither has one).
MCQuotes == {Prices(1, 2), Prices(1, 1), Prices(1, None), Prices(None, None)}

Entry(type, at, amount) ==
  [type |-> type, at |-> at, amount |-> amount, shares |-> 0, price |-> 0]
Transfer(type, at, shares, price) ==
  [type |-> type, at |-> at, amount |-> 0, shares |-> shares, price |-> price]

MCTransactions == {Entry("deposit", 1, 3), Entry("deposit", 3, 9),
                   Entry("withdrawal", 2, 3), Transfer("transfer_in", 3, 1, 3),
                   Entry("dividend", 2, 1)}
=============================================================================
