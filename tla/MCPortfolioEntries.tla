------------------------- MODULE MCPortfolioEntries -------------------------
(* Two folders with a portfolio of the same name, one of which can be typed *)
(* in two ways; two entries, one guided dialog at a time and two edits of   *)
(* the one entry or the other.                                              *)
EXTENDS PortfolioEntries, TLC
CONSTANTS a, a2, b, A, B, e1, e2, f1, m1, m2
FolderTyped == (a :> A) @@ (a2 :> A) @@ (b :> B)
Symmetry == Permutations({a, a2}) \union Permutations(Minutes)
=============================================================================
