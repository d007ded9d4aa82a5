----------------------- MODULE MCMoneyWeightedReturn -----------------------
(* Up to three flows in or out, at two hours of the first day and once on  *)
(* the next ones; a year of the model is a day.                            *)
EXTENDS MoneyWeightedReturn

FlowsAt(T, A) == [at : T, amount : A]
Ordered(s) == \A i \in 1 .. Len(s) - 1 : s[i].at <= s[i + 1].at

MCHistories == UNION {{s \in [1 .. n -> FlowsAt({0, 1, 2, 4}, {-3, -1, 1})] : Ordered(s)} : n \in 0 .. 3}

\* Powers up to 100000000; the lowest rate cannot be raised to the third.
MCRepresentable == <<1 .. 10000, 1 .. 10000, 2 .. 464, 2 .. 100>>

MCWidths == [i \in 0 .. MaxBisection |->
  CASE i = 0 -> 31 [] i = 1 -> 16 [] i = 2 -> 8 [] i = 3 -> 4 [] i = 4 -> 2 [] OTHER -> 1]
=============================================================================
