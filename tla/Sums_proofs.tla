---------------------------- MODULE Sums_proofs ----------------------------
(***************************************************************************)
(* What is known of a sum over a finite set: the lemmas behind the proofs  *)
(* about totals (TransactionReplay_proofs), shares (MarketRefresh_proofs)  *)
(* and the value of a portfolio (Returns_proofs).                          *)
(*                                                                         *)
(* An induction over subsets is stated with a set Good of those that have  *)
(* the property, as strict inclusion is well founded on the subsets of a   *)
(* finite set.  A sum unfolds one element at a time (SumRecursion), and    *)
(* which one is taken first makes no difference (SumRemove).               *)
(***************************************************************************)
EXTENDS Sums, FiniteSetTheorems, TLAPS

\* What a subset has if all its parts have it, every subset has.
LEMMA SubsetInduction ==
  ASSUME NEW S, IsFiniteSet(S), NEW Good,
         \A T \in SUBSET S : (\A U \in SUBSET T : U # T => U \in Good) => T \in Good
  PROVE  SUBSET S \subseteq Good
<1> DEFINE Bad == (SUBSET S) \ Good
<1>1. SUFFICES ASSUME Bad # {} PROVE FALSE
  OBVIOUS
<1>2. IsWellFoundedOn(StrictSubsetOrdering(S), SUBSET S)
  BY FS_StrictSubsetOrderingWellFounded, FS_FiniteSubsetsOfFinite
<1>3. PICK T \in Bad : \A U \in Bad : ~ (<<U, T>> \in StrictSubsetOrdering(S))
  <2>1. Bad \subseteq SUBSET S
    OBVIOUS
  <2> HIDE DEF Bad
  <2> QED
    BY <1>1, <1>2, <2>1, WFMin
<1>4. \A U \in SUBSET T : U # T => U \in Good
  BY <1>3 DEF StrictSubsetOrdering
<1> QED
  BY <1>3, <1>4

----------------------------------------------------------------------------
(* One element after the other *)

\* The element whose term is added next, and what a function that gives the
\* sum over every subset of S has to satisfy.
SumPick(s) == CHOOSE x \in s : TRUE
SumStep(g, f, s) == IF s = {} THEN 0 ELSE f[SumPick(s)] + g[s \ {SumPick(s)}]
IsSum(g, f, S) == g = [s \in SUBSET S |-> SumStep(g, f, s)]

\* There is something to pick.
LEMMA SumPickIn == ASSUME NEW s, s # {} PROVE SumPick(s) \in s
BY DEF SumPick

\* The fold of the community modules is such a function at the whole set.
LEMMA SumIsFold ==
  ASSUME NEW f, NEW S
  PROVE  SumOn(f, S) = (CHOOSE g : IsSum(g, f, S))[S]
BY DEF SumOn, MapThenSumSet, MapThenFoldSet, IsSum, SumStep, SumPick

\* Such functions on two sets agree where both are defined.
LEMMA SumsAgree ==
  ASSUME NEW f, NEW S, NEW T, NEW g, NEW h, IsSum(g, f, S), IsSum(h, f, T),
         IsFiniteSet(S), S \subseteq T
  PROVE  \A s \in SUBSET S : g[s] = h[s]
<1> DEFINE Good == {s \in SUBSET S : g[s] = h[s]}
<1>1. \A s \in SUBSET S : (\A U \in SUBSET s : U # s => U \in Good) => s \in Good
  <2> SUFFICES ASSUME NEW s \in SUBSET S, \A U \in SUBSET s : U # s => U \in Good
               PROVE  g[s] = h[s]
    OBVIOUS
  <2>1. s \in SUBSET T
    OBVIOUS
  <2>2. g[s] = SumStep(g, f, s) /\ h[s] = SumStep(h, f, s)
    BY <2>1 DEF IsSum
  <2>3. CASE s = {}
    BY <2>2, <2>3 DEF SumStep
  <2>4. CASE s # {}
    <3>1. s \ {SumPick(s)} \in Good
      BY <2>4, SumPickIn
    <3> QED
      BY <3>1, <2>2, <2>4 DEF SumStep
  <2> QED
    BY <2>3, <2>4
<1>2. SUBSET S \subseteq Good
  <2> HIDE DEF Good
  <2> QED
    BY <1>1, SubsetInduction
<1> QED
  BY <1>2

\* There is such a function.
LEMMA SumExists ==
  ASSUME NEW f, NEW S, IsFiniteSet(S)
  PROVE  \E g : IsSum(g, f, S)
<1> DEFINE Good == {T \in SUBSET S : \E g : IsSum(g, f, T)}
           G(T) == CHOOSE g : IsSum(g, f, T)
<1>1. \A T \in SUBSET S : (\A U \in SUBSET T : U # T => U \in Good) => T \in Good
  <2> SUFFICES ASSUME NEW T \in SUBSET S, \A U \in SUBSET T : U # T => U \in Good
               PROVE  \E g : IsSum(g, f, T)
    OBVIOUS
  <2>1. \A U \in SUBSET T : U # T => IsSum(G(U), f, U)
    OBVIOUS
  <2> DEFINE h == [U \in SUBSET T |-> IF U = T THEN SumStep([V \in SUBSET T |-> G(V)[V]], f, T) ELSE G(U)[U]]
  <2>2. ASSUME NEW U \in SUBSET T PROVE h[U] = SumStep(h, f, U)
    <3>1. CASE U = {}
      <4>1. U = T => h[U] = 0
        BY <3>1 DEF SumStep
      <4>2. U # T => h[U] = 0
        <5>1. SUFFICES ASSUME U # T PROVE G(U)[U] = 0
          OBVIOUS
        <5>2. IsSum(G(U), f, U)
          BY <5>1, <2>1
        <5> QED
          BY <5>2, <3>1 DEF IsSum, SumStep
      <4> QED
        BY <4>1, <4>2, <3>1 DEF SumStep
    <3>2. CASE U # {}
      <4> DEFINE V == U \ {SumPick(U)}
      <4>1. V \in SUBSET T /\ V # T /\ V \in SUBSET U /\ V # U
        BY <3>2, SumPickIn
      <4>2. h[V] = G(V)[V]
        BY <4>1
      <4>3. CASE U = T
        BY <4>1, <4>2, <4>3, <3>2 DEF SumStep
      <4>4. CASE U # T
        <5>1. h[U] = G(U)[U]
          BY <4>4
        <5>2. IsSum(G(U), f, U) /\ IsSum(G(V), f, V)
          BY <2>1, <4>1, <4>4
        <5>3. G(U)[U] = SumStep(G(U), f, U)
          BY <5>2 DEF IsSum
        <5>4. IsFiniteSet(V)
          BY <4>1, FS_Subset
        <5>5. G(U)[V] = G(V)[V]
          <6> HIDE DEF G, V
          <6> QED
            BY <5>2, <5>4, <4>1, SumsAgree
        <5> QED
          BY <5>1, <5>3, <5>5, <4>2, <3>2 DEF SumStep
      <4> QED
        BY <4>3, <4>4
    <3> QED
      BY <3>1, <3>2
  <2>3. IsSum(h, f, T)
    <3> DEFINE k == [s \in SUBSET T |-> SumStep(h, f, s)]
    <3>1. \A s \in SUBSET T : h[s] = k[s]
      BY <2>2
    <3>2. h = k
      BY <3>1
    <3> HIDE DEF h
    <3> QED
      BY <3>2 DEF IsSum
  <2> QED
    BY <2>3
<1>2. SUBSET S \subseteq Good
  <2> HIDE DEF Good
  <2> QED
    BY <1>1, SubsetInduction
<1> QED
  BY <1>2

\* A sum is one term, and the sum of the others.
LEMMA SumRecursion ==
  ASSUME NEW f, NEW S, IsFiniteSet(S)
  PROVE  SumOn(f, S) = IF S = {} THEN 0 ELSE f[SumPick(S)] + SumOn(f, S \ {SumPick(S)})
<1> DEFINE G(T) == CHOOSE g : IsSum(g, f, T)
           V == S \ {SumPick(S)}
<1>1. IsFiniteSet(V)
  BY FS_RemoveElement
<1>2. IsSum(G(S), f, S) /\ IsSum(G(V), f, V)
  BY <1>1, SumExists
<1>3. G(S)[S] = SumStep(G(S), f, S)
  <2> HIDE DEF G
  <2> QED
    BY <1>2 DEF IsSum
<1>4. G(S)[V] = G(V)[V]
  <2> HIDE DEF G
  <2>1. V \subseteq S
    OBVIOUS
  <2> HIDE DEF V
  <2> QED
    BY <1>1, <1>2, <2>1, SumsAgree
<1> QED
  BY <1>3, <1>4, SumIsFold DEF SumStep

\* Nothing adds up to 0.
LEMMA SumEmpty == ASSUME NEW f PROVE SumOn(f, {}) = 0
BY SumRecursion, FS_EmptySet

----------------------------------------------------------------------------
(* Sums *)

\* Sums are integers.
LEMMA SumInt ==
  ASSUME NEW f, NEW S, IsFiniteSet(S), \A x \in S : f[x] \in Int
  PROVE  SumOn(f, S) \in Int
<1> DEFINE Good == {T \in SUBSET S : SumOn(f, T) \in Int}
<1>1. \A T \in SUBSET S : (\A U \in SUBSET T : U # T => U \in Good) => T \in Good
  <2> SUFFICES ASSUME NEW T \in SUBSET S, \A U \in SUBSET T : U # T => U \in Good
               PROVE  SumOn(f, T) \in Int
    OBVIOUS
  <2>1. IsFiniteSet(T)
    BY FS_Subset
  <2>2. CASE T = {}
    BY <2>2, SumEmpty
  <2>3. CASE T # {}
    <3>1. SumPick(T) \in T
      BY <2>3, SumPickIn
    <3>2. SumOn(f, T \ {SumPick(T)}) \in Int
      BY <3>1
    <3>3. SumOn(f, T) = f[SumPick(T)] + SumOn(f, T \ {SumPick(T)})
      BY <2>1, <2>3, SumRecursion
    <3>4. f[SumPick(T)] \in Int
      BY <3>1
    <3> QED
      BY <3>2, <3>3, <3>4
  <2> QED
    BY <2>2, <2>3
<1>2. SUBSET S \subseteq Good
  <2> HIDE DEF Good
  <2> QED
    BY <1>1, SubsetInduction
<1> QED
  BY <1>2

\* An element of choice can be taken out.
LEMMA SumRemove ==
  ASSUME NEW f, NEW S, IsFiniteSet(S), \A x \in S : f[x] \in Int, NEW y \in S
  PROVE  SumOn(f, S) = f[y] + SumOn(f, S \ {y})
<1> DEFINE Good == {T \in SUBSET S : \A x \in T : SumOn(f, T) = f[x] + SumOn(f, T \ {x})}
<1>1. \A T \in SUBSET S : (\A U \in SUBSET T : U # T => U \in Good) => T \in Good
  <2> SUFFICES ASSUME NEW T \in SUBSET S, \A U \in SUBSET T : U # T => U \in Good, NEW x \in T
               PROVE  SumOn(f, T) = f[x] + SumOn(f, T \ {x})
    OBVIOUS
  <2> DEFINE p == SumPick(T)
             V == T \ {p}
             W == T \ {x}
  <2>1. IsFiniteSet(T) /\ IsFiniteSet(W) /\ IsFiniteSet(W \ {p})
    BY FS_Subset
  <2>2. p \in T
    BY SumPickIn
  <2>3. SumOn(f, T) = f[p] + SumOn(f, V)
    BY <2>1, SumRecursion
  <2>4. CASE x = p
    BY <2>3, <2>4
  <2>5. CASE x # p
    <3>1. V \in Good /\ W \in Good /\ x \in V /\ p \in W
      BY <2>2, <2>5
    <3>2. SumOn(f, V) = f[x] + SumOn(f, V \ {x})
      BY <3>1
    <3>3. SumOn(f, W) = f[p] + SumOn(f, W \ {p})
      BY <3>1
    <3>4. V \ {x} = W \ {p}
      OBVIOUS
    <3>5. SumOn(f, W \ {p}) \in Int
      BY <2>1, SumInt
    <3>6. f[x] \in Int /\ f[p] \in Int
      BY <2>2
    <3>7. SumOn(f, T) = f[p] + (f[x] + SumOn(f, W \ {p}))
      BY <2>3, <3>2, <3>4
    <3> HIDE DEF p, V, W
    <3>8. SumOn(f, T) = f[x] + SumOn(f, W)
      BY <3>3, <3>5, <3>6, <3>7
    <3> QED
      BY <3>8 DEF W
  <2> QED
    BY <2>4, <2>5
<1>2. SUBSET S \subseteq Good
  <2> HIDE DEF Good
  <2> QED
    BY <1>1, SubsetInduction
<1> QED
  BY <1>2

\* One element more adds its term.
LEMMA SumAdd ==
  ASSUME NEW f, NEW S, IsFiniteSet(S), \A x \in S : f[x] \in Int, NEW y, y \notin S, f[y] \in Int
  PROVE  SumOn(f, S \union {y}) = SumOn(f, S) + f[y]
<1>1. IsFiniteSet(S \union {y}) /\ (S \union {y}) \ {y} = S
  BY FS_AddElement
<1>2. SumOn(f, S \union {y}) = f[y] + SumOn(f, (S \union {y}) \ {y})
  BY <1>1, SumRemove
<1>3. SumOn(f, S) \in Int
  BY SumInt
<1>4. SumOn(f, S \union {y}) = f[y] + SumOn(f, S)
  BY <1>1, <1>2
<1> QED
  BY <1>3, <1>4

\* Functions that agree on a set have one sum there.
LEMMA SumEqual ==
  ASSUME NEW f, NEW g, NEW S, IsFiniteSet(S), \A x \in S : f[x] = g[x]
  PROVE  SumOn(f, S) = SumOn(g, S)
<1> DEFINE Good == {T \in SUBSET S : SumOn(f, T) = SumOn(g, T)}
<1>1. \A T \in SUBSET S : (\A U \in SUBSET T : U # T => U \in Good) => T \in Good
  <2> SUFFICES ASSUME NEW T \in SUBSET S, \A U \in SUBSET T : U # T => U \in Good
               PROVE  SumOn(f, T) = SumOn(g, T)
    OBVIOUS
  <2>1. IsFiniteSet(T)
    BY FS_Subset
  <2>2. CASE T = {}
    BY <2>2, SumEmpty
  <2>3. CASE T # {}
    <3>1. SumPick(T) \in T
      BY <2>3, SumPickIn
    <3>2. SumOn(f, T \ {SumPick(T)}) = SumOn(g, T \ {SumPick(T)})
      BY <3>1
    <3>3. SumOn(f, T) = f[SumPick(T)] + SumOn(f, T \ {SumPick(T)})
      BY <2>1, <2>3, SumRecursion
    <3>4. SumOn(g, T) = g[SumPick(T)] + SumOn(g, T \ {SumPick(T)})
      BY <2>1, <2>3, SumRecursion
    <3> QED
      BY <3>1, <3>2, <3>3, <3>4
  <2> QED
    BY <2>2, <2>3
<1>2. SUBSET S \subseteq Good
  <2> HIDE DEF Good
  <2> QED
    BY <1>1, SubsetInduction
<1> QED
  BY <1>2

\* A sum splits over a part of the set and the rest.
LEMMA SumSplit ==
  ASSUME NEW f, NEW S, NEW P, IsFiniteSet(S), P \subseteq S, \A x \in S : f[x] \in Int
  PROVE  SumOn(f, S) = SumOn(f, P) + SumOn(f, S \ P)
<1> DEFINE Good == {T \in SUBSET S : T \subseteq P => SumOn(f, S) = SumOn(f, T) + SumOn(f, S \ T)}
<1>1. \A T \in SUBSET S : (\A U \in SUBSET T : U # T => U \in Good) => T \in Good
  <2> SUFFICES ASSUME NEW T \in SUBSET S, \A U \in SUBSET T : U # T => U \in Good,
                      T \subseteq P
               PROVE  SumOn(f, S) = SumOn(f, T) + SumOn(f, S \ T)
    OBVIOUS
  <2>1. IsFiniteSet(T) /\ IsFiniteSet(S \ T)
    BY FS_Subset
  <2>2. CASE T = {}
    <3>1. S \ T = S /\ SumOn(f, S) \in Int
      BY <2>2, SumInt
    <3> QED
      BY <3>1, <2>2, SumEmpty
  <2>3. CASE T # {}
    <3> DEFINE p == SumPick(T)
               V == T \ {p}
    <3>1. p \in T
      BY <2>3, SumPickIn
    <3>2. V \in Good /\ V \subseteq P
      BY <3>1
    <3>3. SumOn(f, T) = f[p] + SumOn(f, V)
      BY <2>1, <3>1, SumRemove
    <3>4. S \ T = (S \ V) \ {p} /\ p \in S \ V
      BY <3>1
    <3>5. IsFiniteSet(S \ V) /\ IsFiniteSet(V)
      BY FS_Subset
    <3>6. SumOn(f, S \ V) = f[p] + SumOn(f, (S \ V) \ {p})
      BY <3>4, <3>5, SumRemove
    <3>7. f[p] \in Int /\ SumOn(f, V) \in Int /\ SumOn(f, S \ T) \in Int
      BY <3>1, <3>5, <2>1, SumInt
    <3>8. SumOn(f, S) = SumOn(f, V) + SumOn(f, S \ V)
      BY <3>2
    <3>9. SumOn(f, S \ V) = f[p] + SumOn(f, S \ T)
      BY <3>4, <3>6
    <3> HIDE DEF p, V
    <3> QED
      BY <3>3, <3>7, <3>8, <3>9
  <2> QED
    BY <2>2, <2>3
<1>2. SUBSET S \subseteq Good
  <2> HIDE DEF Good
  <2> QED
    BY <1>1, SubsetInduction
<1>3. P \in SUBSET S
  OBVIOUS
<1> QED
  BY <1>2, <1>3

\* A sum of nothing negative is not negative.
LEMMA SumNat ==
  ASSUME NEW f, NEW S, IsFiniteSet(S), \A x \in S : f[x] \in Nat
  PROVE  SumOn(f, S) \in Nat
<1> DEFINE Good == {T \in SUBSET S : SumOn(f, T) \in Nat}
<1>1. \A T \in SUBSET S : (\A U \in SUBSET T : U # T => U \in Good) => T \in Good
  <2> SUFFICES ASSUME NEW T \in SUBSET S, \A U \in SUBSET T : U # T => U \in Good
               PROVE  SumOn(f, T) \in Nat
    OBVIOUS
  <2>1. IsFiniteSet(T)
    BY FS_Subset
  <2>2. CASE T = {}
    BY <2>2, SumEmpty
  <2>3. CASE T # {}
    <3>1. SumPick(T) \in T
      BY <2>3, SumPickIn
    <3>2. SumOn(f, T \ {SumPick(T)}) \in Nat
      BY <3>1
    <3>3. SumOn(f, T) = f[SumPick(T)] + SumOn(f, T \ {SumPick(T)})
      BY <2>1, <2>3, SumRecursion
    <3>4. f[SumPick(T)] \in Nat
      BY <3>1
    <3> QED
      BY <3>2, <3>3, <3>4
  <2> QED
    BY <2>2, <2>3
<1>2. SUBSET S \subseteq Good
  <2> HIDE DEF Good
  <2> QED
    BY <1>1, SubsetInduction
<1> QED
  BY <1>2

\* More of what is not negative does not add up to less.
LEMMA SumMonotone ==
  ASSUME NEW f, NEW S, NEW P, IsFiniteSet(S), P \subseteq S, \A x \in S : f[x] \in Nat
  PROVE  SumOn(f, P) <= SumOn(f, S)
<1>1. SumOn(f, S) = SumOn(f, P) + SumOn(f, S \ P)
  BY SumSplit
<1>2. IsFiniteSet(P) /\ IsFiniteSet(S \ P)
  BY FS_Subset
<1>3. SumOn(f, P) \in Nat /\ SumOn(f, S \ P) \in Nat
  BY <1>2, SumNat
<1> QED
  BY <1>1, <1>3

\* One term is at most the sum.
LEMMA SumTerm ==
  ASSUME NEW f, NEW S, IsFiniteSet(S), \A x \in S : f[x] \in Nat, NEW y \in S
  PROVE  f[y] <= SumOn(f, S)
<1>1. SumOn(f, S) = f[y] + SumOn(f, S \ {y})
  BY SumRemove
<1>2. IsFiniteSet(S \ {y})
  BY FS_RemoveElement
<1>3. SumOn(f, S \ {y}) \in Nat
  BY <1>2, SumNat
<1>4. f[y] \in Nat
  OBVIOUS
<1> QED
  BY <1>1, <1>3, <1>4

\* Zeros add up to 0.
LEMMA SumZero ==
  ASSUME NEW f, NEW S, IsFiniteSet(S), \A x \in S : f[x] = 0
  PROVE  SumOn(f, S) = 0
<1> DEFINE Good == {T \in SUBSET S : SumOn(f, T) = 0}
<1>1. \A T \in SUBSET S : (\A U \in SUBSET T : U # T => U \in Good) => T \in Good
  <2> SUFFICES ASSUME NEW T \in SUBSET S, \A U \in SUBSET T : U # T => U \in Good
               PROVE  SumOn(f, T) = 0
    OBVIOUS
  <2>1. IsFiniteSet(T)
    BY FS_Subset
  <2>2. CASE T = {}
    BY <2>2, SumEmpty
  <2>3. CASE T # {}
    <3>1. SumPick(T) \in T
      BY <2>3, SumPickIn
    <3>2. SumOn(f, T \ {SumPick(T)}) = 0
      BY <3>1
    <3>3. SumOn(f, T) = f[SumPick(T)] + SumOn(f, T \ {SumPick(T)})
      BY <2>1, <2>3, SumRecursion
    <3> QED
      BY <3>1, <3>2, <3>3
  <2> QED
    BY <2>2, <2>3
<1>2. SUBSET S \subseteq Good
  <2> HIDE DEF Good
  <2> QED
    BY <1>1, SubsetInduction
<1> QED
  BY <1>2

\* Sums of two functions add up.
LEMMA SumPlus ==
  ASSUME NEW f, NEW g, NEW h, NEW S, IsFiniteSet(S),
         \A x \in S : f[x] \in Int /\ g[x] \in Int /\ h[x] = f[x] + g[x]
  PROVE  SumOn(h, S) = SumOn(f, S) + SumOn(g, S)
<1> DEFINE Good == {T \in SUBSET S : SumOn(h, T) = SumOn(f, T) + SumOn(g, T)}
<1>1. \A T \in SUBSET S : (\A U \in SUBSET T : U # T => U \in Good) => T \in Good
  <2> SUFFICES ASSUME NEW T \in SUBSET S, \A U \in SUBSET T : U # T => U \in Good
               PROVE  SumOn(h, T) = SumOn(f, T) + SumOn(g, T)
    OBVIOUS
  <2>1. IsFiniteSet(T)
    BY FS_Subset
  <2>2. CASE T = {}
    BY <2>2, SumEmpty
  <2>3. CASE T # {}
    <3> DEFINE p == SumPick(T)
               V == T \ {p}
    <3>1. p \in T
      BY <2>3, SumPickIn
    <3>2. SumOn(h, V) = SumOn(f, V) + SumOn(g, V)
      BY <3>1
    <3>3. /\ SumOn(h, T) = h[p] + SumOn(h, V)
          /\ SumOn(f, T) = f[p] + SumOn(f, V)
          /\ SumOn(g, T) = g[p] + SumOn(g, V)
      BY <2>1, <2>3, SumRecursion
    <3>4. IsFiniteSet(V)
      BY <2>1, FS_RemoveElement
    <3>5. SumOn(f, V) \in Int /\ SumOn(g, V) \in Int
      BY <3>4, SumInt
    <3>6. f[p] \in Int /\ g[p] \in Int /\ h[p] = f[p] + g[p]
      BY <3>1
    <3> HIDE DEF p, V
    <3> QED
      BY <3>2, <3>3, <3>5, <3>6
  <2> QED
    BY <2>2, <2>3
<1>2. SUBSET S \subseteq Good
  <2> HIDE DEF Good
  <2> QED
    BY <1>1, SubsetInduction
<1> QED
  BY <1>2

\* What a finite set is mapped to is finite.
LEMMA FiniteImage ==
  ASSUME NEW h, NEW S, IsFiniteSet(S)
  PROVE  IsFiniteSet({h[x] : x \in S})
<1> DEFINE T == {h[x] : x \in S}
           g == [x \in S |-> h[x]]
<1>1. g \in Surjection(S, T)
  BY DEF Surjection
<1> HIDE DEF g, T
<1>2. IsFiniteSet(T)
  BY <1>1, FS_Surjection
<1> QED
  BY <1>2 DEF T

\* A sum over what is labelled is the sum over the labels.
LEMMA SumRelabel ==
  ASSUME NEW f, NEW h, NEW S, IsFiniteSet(S), \A x \in S : f[h[x]] \in Int,
         \A x, y \in S : h[x] = h[y] => x = y
  PROVE  SumOn(f, {h[x] : x \in S}) = SumOn([x \in S |-> f[h[x]]], S)
<1> DEFINE g == [x \in S |-> f[h[x]]]
           Image(T) == {h[x] : x \in T}
           Good == {T \in SUBSET S : SumOn(f, Image(T)) = SumOn(g, T)}
<1>1. \A T \in SUBSET S : (\A U \in SUBSET T : U # T => U \in Good) => T \in Good
  <2> SUFFICES ASSUME NEW T \in SUBSET S, \A U \in SUBSET T : U # T => U \in Good
               PROVE  SumOn(f, Image(T)) = SumOn(g, T)
    OBVIOUS
  <2>1. IsFiniteSet(T)
    BY FS_Subset
  <2>2. CASE T = {}
    <3>1. Image(T) = {}
      BY <2>2
    <3> QED
      BY <2>2, <3>1, SumEmpty
  <2>3. CASE T # {}
    <3> DEFINE p == SumPick(T)
               V == T \ {p}
    <3>1. p \in T
      BY <2>3, SumPickIn
    <3>2. SumOn(f, Image(V)) = SumOn(g, V)
      BY <3>1
    <3>3. SumOn(g, T) = g[p] + SumOn(g, V)
      BY <2>1, <2>3, SumRecursion
    <3>4. IsFiniteSet(V) /\ IsFiniteSet(Image(V))
      <4>1. IsFiniteSet(V)
        BY <2>1, FS_RemoveElement
      <4> HIDE DEF V
      <4> QED
        BY <4>1, FiniteImage
    <3>5. Image(T) = Image(V) \union {h[p]} /\ h[p] \notin Image(V)
      BY <3>1
    <3>6. f[h[p]] \in Int /\ g[p] = f[h[p]] /\ \A y \in Image(V) : f[y] \in Int
      BY <3>1
    <3> HIDE DEF p, V, g, Image
    <3>7. SumOn(f, Image(T)) = SumOn(f, Image(V)) + f[h[p]]
      BY <3>4, <3>5, <3>6, SumAdd
    <3>8. SumOn(f, Image(V)) \in Int
      BY <3>4, <3>6, SumInt
    <3> QED
      BY <3>2, <3>3, <3>6, <3>7, <3>8
  <2> QED
    BY <2>2, <2>3
<1>2. SUBSET S \subseteq Good
  <2> HIDE DEF Good
  <2> QED
    BY <1>1, SubsetInduction
<1> QED
  BY <1>2

\* A sum by groups: every element is in the group of its key.
LEMMA SumByGroups ==
  ASSUME NEW f, NEW key, NEW S, IsFiniteSet(S), \A x \in S : f[x] \in Int,
         NEW L, IsFiniteSet(L), \A x \in S : key[x] \in L
  PROVE  SumOn([l \in L |-> SumOn(f, {x \in S : key[x] = l})], L) = SumOn(f, S)
<1> DEFINE Of(M) == {x \in S : key[x] \in M}
           G(l) == {x \in S : key[x] = l}
           g == [l \in L |-> SumOn(f, G(l))]
           Good == {M \in SUBSET L : SumOn(g, M) = SumOn(f, Of(M))}
<1>0. \A T \in SUBSET S : IsFiniteSet(T) /\ SumOn(f, T) \in Int
  BY FS_Subset, SumInt
<1>1. \A M \in SUBSET L : (\A U \in SUBSET M : U # M => U \in Good) => M \in Good
  <2> SUFFICES ASSUME NEW M \in SUBSET L, \A U \in SUBSET M : U # M => U \in Good
               PROVE  SumOn(g, M) = SumOn(f, Of(M))
    OBVIOUS
  <2>1. IsFiniteSet(M)
    BY FS_Subset
  <2>2. CASE M = {}
    <3>1. Of(M) = {}
      BY <2>2
    <3> QED
      BY <2>2, <3>1, SumEmpty
  <2>3. CASE M # {}
    <3> DEFINE p == SumPick(M)
               V == M \ {p}
    <3>1. p \in M
      BY <2>3, SumPickIn
    <3>2. SumOn(g, V) = SumOn(f, Of(V))
      BY <3>1
    <3>3. SumOn(g, M) = g[p] + SumOn(g, V)
      BY <2>1, <2>3, SumRecursion
    <3>4. g[p] = SumOn(f, G(p))
      BY <3>1
    <3>5. Of(V) = Of(M) \ G(p) /\ G(p) \subseteq Of(M) /\ Of(M) \subseteq S
      BY <3>1
    <3> HIDE DEF p, V, g, Of, G
    <3>6. SumOn(f, Of(M)) = SumOn(f, G(p)) + SumOn(f, Of(V))
      BY <1>0, <3>5, SumSplit
    <3> QED
      BY <3>2, <3>3, <3>4, <3>6
  <2> QED
    BY <2>2, <2>3
<1>2. SUBSET L \subseteq Good
  <2> HIDE DEF Good
  <2> QED
    BY <1>1, SubsetInduction
<1>3. Of(L) = S
  OBVIOUS
<1> QED
  BY <1>2, <1>3

----------------------------------------------------------------------------
(* Squares *)

\* The square of a sum lies between the sum of the squares and as many times
\* that as there are terms.
LEMMA SquareStep ==
  ASSUME NEW n \in Nat, NEW a \in Nat, NEW b \in Nat, NEW v \in Nat,
         a * a <= n * b, b <= a * a
  PROVE  /\ (v + a) * (v + a) <= (n + 1) * (v * v + b)
         /\ v * v + b <= (v + a) * (v + a)
<1>1. (v + a) * (v + a) = v * v + 2 * (a * v) + a * a
  OBVIOUS
<1>2. (n + 1) * (v * v + b) = n * (v * v) + n * b + v * v + b
  OBVIOUS
<1>3. a * v \in Nat
  OBVIOUS
<1>4. 2 * (a * v) <= n * (v * v) + b
  <2>1. CASE n = 0
    <3>1. a * a <= 0
      BY <2>1
    <3>2. a = 0
      BY <3>1
    <3> QED
      BY <2>1, <3>2
  <2>2. CASE n # 0
    <3>1. (a - n * v) * (a - n * v) >= 0
      OBVIOUS
    <3>2. (a - n * v) * (a - n * v) = a * a - 2 * (n * (a * v)) + n * (n * (v * v))
      OBVIOUS
    <3>3. n * (2 * (a * v)) = 2 * (n * (a * v))
      OBVIOUS
    <3>4. n * (n * (v * v) + b) = n * (n * (v * v)) + n * b
      OBVIOUS
    <3>5. n * (2 * (a * v)) <= n * (n * (v * v) + b)
      BY <3>1, <3>2, <3>3, <3>4
    <3>6. \A x, y \in Nat : n * x <= n * y => x <= y
      BY <2>2
    <3>7. 2 * (a * v) \in Nat /\ n * (v * v) + b \in Nat
      OBVIOUS
    <3> QED
      BY <3>5, <3>6, <3>7
  <2> QED
    BY <2>1, <2>2
<1> QED
  BY <1>1, <1>2, <1>3, <1>4

\* So a sum of squares compares with the square of the sum.
LEMMA SumOfSquares ==
  ASSUME NEW f, NEW g, NEW S, IsFiniteSet(S), \A x \in S : f[x] \in Nat /\ g[x] = f[x] * f[x]
  PROVE  /\ SumOn(f, S) * SumOn(f, S) <= Cardinality(S) * SumOn(g, S)
         /\ SumOn(g, S) <= SumOn(f, S) * SumOn(f, S)
<1> DEFINE Holds(T) == /\ SumOn(f, T) * SumOn(f, T) <= Cardinality(T) * SumOn(g, T)
                       /\ SumOn(g, T) <= SumOn(f, T) * SumOn(f, T)
           Good == {T \in SUBSET S : Holds(T)}
<1>1. \A T \in SUBSET S : (\A U \in SUBSET T : U # T => U \in Good) => T \in Good
  <2> SUFFICES ASSUME NEW T \in SUBSET S, \A U \in SUBSET T : U # T => U \in Good
               PROVE  Holds(T)
    OBVIOUS
  <2>1. IsFiniteSet(T)
    BY FS_Subset
  <2>2. CASE T = {}
    BY <2>2, SumEmpty, FS_EmptySet
  <2>3. CASE T # {}
    <3> DEFINE p == SumPick(T)
               V == T \ {p}
               n == Cardinality(V)
               a == SumOn(f, V)
               b == SumOn(g, V)
    <3>1. p \in T
      BY <2>3, SumPickIn
    <3>2. Holds(V)
      BY <3>1
    <3>3. SumOn(f, T) = f[p] + a /\ SumOn(g, T) = g[p] + b
      BY <2>1, <2>3, SumRecursion
    <3>4. IsFiniteSet(V) /\ Cardinality(V) = Cardinality(T) - 1 /\ n \in Nat /\ Cardinality(T) \in Nat
      BY <2>1, <3>1, FS_RemoveElement, FS_CardinalityType
    <3>5. \A x \in V : f[x] \in Nat /\ g[x] \in Nat
      OBVIOUS
    <3>6. a \in Nat /\ b \in Nat
      <4> HIDE DEF V
      <4> QED
        BY <3>4, <3>5, SumNat
    <3>7. f[p] \in Nat /\ g[p] = f[p] * f[p]
      BY <3>1
    <3>8. Cardinality(T) = n + 1
      BY <3>4
    <3> HIDE DEF p, V, n, a, b
    <3>9. a * a <= n * b /\ b <= a * a
      BY <3>2 DEF a, b, n
    <3>10. /\ (f[p] + a) * (f[p] + a) <= (n + 1) * (f[p] * f[p] + b)
           /\ f[p] * f[p] + b <= (f[p] + a) * (f[p] + a)
      BY <3>4, <3>6, <3>7, <3>9, SquareStep
    <3> QED
      BY <3>3, <3>7, <3>8, <3>10
  <2> QED
    BY <2>2, <2>3
<1>2. SUBSET S \subseteq Good
  <2> HIDE DEF Good
  <2> QED
    BY <1>1, SubsetInduction
<1> QED
  BY <1>2

----------------------------------------------------------------------------
(* Orders *)

\* A strict order on a finite set leaves someone whom nobody precedes.
LEMMA SomeoneIsFirst ==
  ASSUME NEW S, IsFiniteSet(S), S # {}, NEW R, \A x \in S : <<x, x>> \notin R,
         \A x, y, z \in S : <<x, y>> \in R /\ <<y, z>> \in R => <<x, z>> \in R
  PROVE  \E x \in S : \A y \in S : <<y, x>> \notin R
<1> DEFINE Good == {T \in SUBSET S : T # {} => \E x \in T : \A y \in T : <<y, x>> \notin R}
<1>1. \A T \in SUBSET S : (\A U \in SUBSET T : U # T => U \in Good) => T \in Good
  <2> SUFFICES ASSUME NEW T \in SUBSET S, \A U \in SUBSET T : U # T => U \in Good, T # {}
               PROVE  \E x \in T : \A y \in T : <<y, x>> \notin R
    OBVIOUS
  <2> DEFINE p == SumPick(T)
             V == T \ {p}
  <2>1. p \in T
    BY SumPickIn
  <2>2. V \in SUBSET T /\ V # T
    BY <2>1
  <2>3. CASE V = {}
    BY <2>1, <2>3
  <2>4. CASE V # {}
    <3>1. PICK x \in V : \A y \in V : <<y, x>> \notin R
      <4> HIDE DEF V
      <4> QED
        BY <2>2, <2>4
    <3> QED
      BY <2>1, <3>1
  <2> QED
    BY <2>3, <2>4
<1>2. SUBSET S \subseteq Good
  <2> HIDE DEF Good
  <2> QED
    BY <1>1, SubsetInduction
<1> QED
  BY <1>2

\* Someone is first by B and, among those who are level by B, by L.
LEMMA FirstByBoth ==
  ASSUME NEW S, IsFiniteSet(S), S # {}, NEW B, NEW L,
         \A x, y \in S : <<x, y>> \in B => <<y, x>> \notin B,
         \A x, y, z \in S : <<x, z>> \in B => <<x, y>> \in B \/ <<y, z>> \in B,
         \A x, y \in S : <<x, y>> \in L => <<y, x>> \notin L,
         \A x, y, z \in S : <<x, y>> \in L /\ <<y, z>> \in L => <<x, z>> \in L,
         \A x, y \in S : x # y => <<x, y>> \in L \/ <<y, x>> \in L
  PROVE  \E x \in S : \A y \in S \ {x} : <<x, y>> \in B \/ (<<y, x>> \notin B /\ <<x, y>> \in L)
<1> DEFINE R == {e \in S \X S : \/ <<e[1], e[2]>> \in B
                                \/ <<e[2], e[1]>> \notin B /\ <<e[1], e[2]>> \in L}
<1>1. \A x, y \in S : <<x, y>> \in R <=> <<x, y>> \in B \/ (<<y, x>> \notin B /\ <<x, y>> \in L)
  OBVIOUS
<1> HIDE DEF R
<1>2. \A x \in S : <<x, x>> \notin R
  BY <1>1
<1>3. \A x, y, z \in S : <<x, y>> \in R /\ <<y, z>> \in R => <<x, z>> \in R
  <2> SUFFICES ASSUME NEW x \in S, NEW y \in S, NEW z \in S, <<x, y>> \in R, <<y, z>> \in R
               PROVE  <<x, z>> \in R
    OBVIOUS
  <2>1. <<y, x>> \notin B /\ <<z, y>> \notin B
    BY <1>1
  <2>2. <<z, x>> \notin B
    BY <2>1
  <2>3. CASE <<x, y>> \in B \/ <<y, z>> \in B
    BY <1>1, <2>1, <2>3
  <2>4. CASE <<x, y>> \notin B /\ <<y, z>> \notin B
    BY <1>1, <2>2, <2>4
  <2> QED
    BY <2>3, <2>4
<1>4. PICK x \in S : \A y \in S : <<y, x>> \notin R
  BY <1>2, <1>3, SomeoneIsFirst
<1>5. \A y \in S \ {x} : <<x, y>> \in B \/ (<<y, x>> \notin B /\ <<x, y>> \in L)
  BY <1>1, <1>4
<1> QED
  BY <1>5
=============================================================================
