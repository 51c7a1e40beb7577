------------------------------- MODULE SumLemmas -------------------------------
(***************************************************************************)
(* What the folds of the community modules compute, for every finite set.  *)
(* They are defined by recursion over subsets; here that recursion is      *)
(* shown to have a solution, and the sums to be what one expects of sums.  *)
(***************************************************************************)
EXTENDS Functions, FiniteSetsExt, FiniteSetTheorems, WellFoundedInduction, TLAPS

\* Induction, for what can be said by membership in a set.
LEMMA InductionInSet ==
  ASSUME NEW T, 0 \in T, \A n \in Nat : n \in T => n + 1 \in T
  PROVE  \A n \in Nat : n \in T
<1>. SUFFICES ASSUME NEW n \in Nat, n \notin T PROVE FALSE
  OBVIOUS
<1>. DEFINE Out == Nat \ T
<1>1. PICK m \in Out : \A k \in Out : ~(<<k, m>> \in OpToRel(<, Nat))
  <2>1. Out \subseteq Nat /\ Out # {}
    OBVIOUS
  <2>. HIDE DEF Out
  <2>. QED
    BY <2>1, NatLessThanWellFounded, WFMin
<1>2. \A k \in Out : ~(k < m)
  BY <1>1 DEF OpToRel
<1>3. m \in Nat /\ m # 0 /\ m \notin T
  OBVIOUS
<1>4. m - 1 \in Nat /\ m - 1 < m /\ (m - 1) + 1 = m
  BY <1>3
<1>5. m - 1 \in T
  BY <1>2, <1>4
<1>. QED
  BY <1>3, <1>4, <1>5

-----------------------------------------------------------------------------
\* A recursion that takes one element after the other out of a set.
ChoosesFrom(choice, S) == \A s \in SUBSET S : s # {} => choice[s] \in s

StepsWithin(step, S, V) == \A x \in S, v \in V : step[x][v] \in V

Recurses(G, S, base, choice, step) ==
  \A s \in SUBSET S :
    G[s] = IF s = {} THEN base ELSE step[choice[s]][G[s \ {choice[s]}]]

LEMMA OneElementLess ==
  ASSUME NEW S, IsFiniteSet(S)
  PROVE  \A s \in SUBSET S :
           /\ IsFiniteSet(s) /\ Cardinality(s) \in Nat
           /\ Cardinality(s) <= Cardinality(S)
           /\ s = {} <=> Cardinality(s) = 0
           /\ \A x \in s : Cardinality(s \ {x}) = Cardinality(s) - 1
BY FS_Subset, FS_CardinalityType, FS_EmptySet, FS_RemoveElement

\* It has a solution when the set is finite,
LEMMA RecursionIsSolved ==
  ASSUME NEW S, IsFiniteSet(S), NEW V, NEW base \in V, NEW choice, NEW step,
         ChoosesFrom(choice, S), StepsWithin(step, S, V)
  PROVE  \E G \in [SUBSET S -> V] : Recurses(G, S, base, choice, step)
<1>. DEFINE Upto(n) == {s \in SUBSET S : Cardinality(s) <= n}
            Solves(G, n) ==
              /\ G \in [Upto(n) -> V]
              /\ \A s \in Upto(n) :
                   G[s] = IF s = {} THEN base
                          ELSE step[choice[s]][G[s \ {choice[s]}]]
            T == {n \in Nat : \E G : Solves(G, n)}
<1>1. \A s \in SUBSET S : /\ Cardinality(s) \in Nat
                          /\ s = {} <=> Cardinality(s) = 0
  BY OneElementLess
<1>2. ASSUME NEW s \in SUBSET S, s # {}
      PROVE  /\ choice[s] \in S
             /\ s \ {choice[s]} \in SUBSET S
             /\ Cardinality(s \ {choice[s]}) = Cardinality(s) - 1
  BY <1>2, OneElementLess DEF ChoosesFrom
<1>3. 0 \in T
  <2>. DEFINE G == [s \in Upto(0) |-> base]
  <2>1. Upto(0) = {{}}
    <3>1. \A s \in SUBSET S : Cardinality(s) <= 0 <=> s = {}
      BY <1>1
    <3>2. {} \in SUBSET S
      OBVIOUS
    <3>. QED
      BY <3>1, <3>2
  <2>. HIDE DEF Upto
  <2>2. Solves(G, 0)
    BY <2>1
  <2>. QED
    BY <2>2
<1>4. ASSUME NEW n \in Nat, n \in T
      PROVE  n + 1 \in T
  <2>1. PICK G : Solves(G, n)
    BY <1>4
  <2>. DEFINE H == [s \in Upto(n + 1) |->
                      IF s = {} THEN base ELSE step[choice[s]][G[s \ {choice[s]}]]]
  <2>2. ASSUME NEW s \in Upto(n + 1), s # {}
        PROVE  choice[s] \in S /\ s \ {choice[s]} \in Upto(n)
    BY <1>1, <1>2, <2>2
  <2>3. \A s \in Upto(n) : s \in Upto(n + 1)
    BY <1>1
  <2>. HIDE DEF Upto
  <2>4. H \in [Upto(n + 1) -> V]
    BY <2>1, <2>2 DEF StepsWithin
  <2>5. \A s \in Upto(n) : H[s] = G[s]
    BY <2>1, <2>3
  <2>6. Solves(H, n + 1)
    <3>1. ASSUME NEW s \in Upto(n + 1)
          PROVE  H[s] = IF s = {} THEN base ELSE step[choice[s]][H[s \ {choice[s]}]]
      BY <2>2, <2>5
    <3>. QED
      BY <2>4, <3>1
  <2>. HIDE DEF Solves
  <2>7. \E F : Solves(F, n + 1)
    BY <2>6
  <2>. QED
    BY <2>7
<1>5. Cardinality(S) \in T
  <2>. HIDE DEF T
  <2>. QED
    BY <1>3, <1>4, FS_CardinalityType, InductionInSet
<1>6. \A s \in SUBSET S : Cardinality(s) <= Cardinality(S)
  BY OneElementLess
<1>7. PICK G : Solves(G, Cardinality(S))
  BY <1>5
<1>8. Upto(Cardinality(S)) = SUBSET S
  BY <1>6
<1>. QED
  BY <1>7, <1>8 DEF Recurses

\* and whatever agrees with it from one step to the next agrees everywhere.
LEMMA RecursionAgrees ==
  ASSUME NEW S, IsFiniteSet(S), NEW choice, ChoosesFrom(choice, S),
         NEW G, NEW H, G[{}] = H[{}],
         \A s \in SUBSET S :
           s # {} /\ G[s \ {choice[s]}] = H[s \ {choice[s]}] => G[s] = H[s]
  PROVE  \A s \in SUBSET S : G[s] = H[s]
<1>. DEFINE T == {n \in Nat : \A s \in SUBSET S :
                                Cardinality(s) = n => G[s] = H[s]}
<1>1. 0 \in T
  BY OneElementLess
<1>2. ASSUME NEW n \in Nat, n \in T
      PROVE  n + 1 \in T
  <2>. SUFFICES ASSUME NEW s \in SUBSET S, Cardinality(s) = n + 1
                PROVE  G[s] = H[s]
    OBVIOUS
  <2>1. s # {} /\ choice[s] \in s
    BY OneElementLess DEF ChoosesFrom
  <2>2. s \ {choice[s]} \in SUBSET S /\ Cardinality(s \ {choice[s]}) = n
    BY <2>1, OneElementLess
  <2>3. G[s \ {choice[s]}] = H[s \ {choice[s]}]
    BY <1>2, <2>2
  <2>. QED
    BY <2>1, <2>3
<1>3. \A n \in Nat : n \in T
  <2>. HIDE DEF T
  <2>. QED
    BY <1>1, <1>2, InductionInSet
<1>. QED
  BY <1>3, OneElementLess

-----------------------------------------------------------------------------
\* What the definition of a sum over a set S recurses through.
PartialSums(fun, S) ==
  CHOOSE iter : iter = [s \in SUBSET S |->
    IF s = {} THEN 0
    ELSE LET x == CHOOSE x \in s : TRUE IN fun[x] + iter[s \ {x}]]

LEMMA SumIsPartial ==
  ASSUME NEW fun, NEW S
  PROVE  SumFunctionOnSet(fun, S) = PartialSums(fun, S)[S]
BY DEF SumFunctionOnSet, FoldFunctionOnSet, MapThenFoldSet, PartialSums

AnyOf(S) == [s \in SUBSET S |-> CHOOSE x \in s : TRUE]
Adds(fun, S) == [x \in S |-> [v \in Int |-> fun[x] + v]]

LEMMA PartialSumsRecurse ==
  ASSUME NEW S, IsFiniteSet(S), NEW fun, \A x \in S : fun[x] \in Int
  PROVE  /\ PartialSums(fun, S) \in [SUBSET S -> Int]
         /\ Recurses(PartialSums(fun, S), S, 0, AnyOf(S), Adds(fun, S))
         /\ ChoosesFrom(AnyOf(S), S)
<1>1. 0 \in Int /\ ChoosesFrom(AnyOf(S), S) /\ StepsWithin(Adds(fun, S), S, Int)
  BY DEF ChoosesFrom, AnyOf, StepsWithin, Adds
<1>2. PICK G \in [SUBSET S -> Int] : Recurses(G, S, 0, AnyOf(S), Adds(fun, S))
  BY <1>1, RecursionIsSolved
<1>. DEFINE Unfolds(I) == I = [s \in SUBSET S |->
                 IF s = {} THEN 0
                 ELSE LET x == CHOOSE x \in s : TRUE IN fun[x] + I[s \ {x}]]
<1>3. Unfolds(G)
  <2>1. ASSUME NEW s \in SUBSET S, s # {}
        PROVE  LET x == CHOOSE x \in s : TRUE IN G[s] = fun[x] + G[s \ {x}]
    <3>. DEFINE x == CHOOSE x \in s : TRUE
    <3>1. x \in S /\ AnyOf(S)[s] = x /\ G[s \ {x}] \in Int
      BY <2>1 DEF AnyOf
    <3>. QED
      BY <1>2, <2>1, <3>1 DEF Recurses, Adds
  <2>2. G[{}] = 0
    BY <1>2 DEF Recurses
  <2>. QED
    BY <2>1, <2>2
<1>4. Unfolds(PartialSums(fun, S))
  BY <1>3 DEF PartialSums
<1>5. \A s \in SUBSET S : G[s] = PartialSums(fun, S)[s]
  <2>. DEFINE I == PartialSums(fun, S)
  <2>1. G[{}] = I[{}]
    BY <1>3, <1>4
  <2>2. ASSUME NEW s \in SUBSET S, s # {},
               G[s \ {AnyOf(S)[s]}] = I[s \ {AnyOf(S)[s]}]
        PROVE  G[s] = I[s]
    <3>. DEFINE x == CHOOSE x \in s : TRUE
    <3>1. AnyOf(S)[s] = x
      BY DEF AnyOf
    <3>2. G[s] = fun[x] + G[s \ {x}] /\ I[s] = fun[x] + I[s \ {x}]
      BY <1>3, <1>4, <2>2
    <3>. QED
      BY <2>2, <3>1, <3>2
  <2>3. \A s \in SUBSET S : G[s] = I[s]
    <3>. HIDE DEF I, Unfolds
    <3>. QED
      BY <1>1, <2>1, <2>2, RecursionAgrees
  <2>. QED
    BY <2>3
<1>6. PartialSums(fun, S) = G
  BY <1>4, <1>5
<1>. QED
  BY <1>1, <1>2, <1>6

\* A sum is an integer, nothing adds nothing, and any element may go first.
LEMMA SumType ==
  ASSUME NEW S, IsFiniteSet(S), NEW fun, \A x \in S : fun[x] \in Int
  PROVE  SumFunctionOnSet(fun, S) \in Int
BY PartialSumsRecurse, SumIsPartial

LEMMA SumEmpty ==
  ASSUME NEW fun
  PROVE  SumFunctionOnSet(fun, {}) = 0
<1>1. IsFiniteSet({}) /\ \A x \in {} : fun[x] \in Int
  BY FS_EmptySet
<1>. QED
  BY <1>1, PartialSumsRecurse, SumIsPartial DEF Recurses

\* The sums over subsets that the sum over a set passes through.
LEMMA SumOfSubset ==
  ASSUME NEW S, IsFiniteSet(S), NEW fun, \A x \in S : fun[x] \in Int,
         NEW U \in SUBSET S
  PROVE  PartialSums(fun, S)[U] = SumFunctionOnSet(fun, U)
<1>. DEFINE G == PartialSums(fun, S)
            H == PartialSums(fun, U)
<1>1. /\ IsFiniteSet(U) /\ \A x \in U : fun[x] \in Int
      /\ Recurses(G, S, 0, AnyOf(S), Adds(fun, S)) /\ G \in [SUBSET S -> Int]
      /\ Recurses(H, U, 0, AnyOf(U), Adds(fun, U)) /\ H \in [SUBSET U -> Int]
      /\ ChoosesFrom(AnyOf(U), U)
  BY FS_Subset, PartialSumsRecurse
<1>. HIDE DEF G, H
<1>2. G[{}] = H[{}]
  BY <1>1 DEF Recurses
<1>3. ASSUME NEW s \in SUBSET U, s # {},
             G[s \ {AnyOf(U)[s]}] = H[s \ {AnyOf(U)[s]}]
      PROVE  G[s] = H[s]
  <2>. DEFINE x == AnyOf(U)[s]
  <2>1. x \in s /\ AnyOf(S)[s] = x
    BY <1>1, <1>3 DEF ChoosesFrom, AnyOf
  <2>2. /\ G[s] = Adds(fun, S)[x][G[s \ {x}]]
        /\ H[s] = Adds(fun, U)[x][H[s \ {x}]]
    BY <1>1, <1>3, <2>1 DEF Recurses
  <2>3. G[s \ {x}] \in Int /\ H[s \ {x}] \in Int
    BY <1>1
  <2>. HIDE DEF x
  <2>4. /\ Adds(fun, S)[x][G[s \ {x}]] = fun[x] + G[s \ {x}]
        /\ Adds(fun, U)[x][H[s \ {x}]] = fun[x] + H[s \ {x}]
    BY <2>1, <2>3 DEF Adds
  <2>. QED
    BY <1>3, <2>2, <2>4 DEF x
<1>4. \A s \in SUBSET U : G[s] = H[s]
  <2>1. IsFiniteSet(U) /\ ChoosesFrom(AnyOf(U), U)
    BY <1>1
  <2>. QED
    BY <1>2, <1>3, <2>1, RecursionAgrees
<1>. QED
  BY <1>4, SumIsPartial DEF G, H

LEMMA SumSplit ==
  ASSUME NEW S, IsFiniteSet(S), NEW fun, \A x \in S : fun[x] \in Int,
         NEW e \in S
  PROVE  SumFunctionOnSet(fun, S) = fun[e] + SumFunctionOnSet(fun, S \ {e})
<1>. DEFINE G == PartialSums(fun, S)
            T == {n \in Nat : \A s \in SUBSET S : Cardinality(s) = n =>
                    \A y \in s : G[s] = fun[y] + G[s \ {y}]}
<1>1. /\ Recurses(G, S, 0, AnyOf(S), Adds(fun, S)) /\ G \in [SUBSET S -> Int]
      /\ ChoosesFrom(AnyOf(S), S)
  BY PartialSumsRecurse
<1>. HIDE DEF G
<1>2. \A s \in SUBSET S : s # {} =>
        \E x \in s : G[s] = fun[x] + G[s \ {x}]
  <2>. SUFFICES ASSUME NEW s \in SUBSET S, s # {}
                PROVE  \E x \in s : G[s] = fun[x] + G[s \ {x}]
    OBVIOUS
  <2>. DEFINE x == AnyOf(S)[s]
  <2>1. x \in s /\ G[s] = Adds(fun, S)[x][G[s \ {x}]] /\ G[s \ {x}] \in Int
    BY <1>1 DEF ChoosesFrom, Recurses
  <2>. HIDE DEF x
  <2>. QED
    BY <2>1 DEF Adds
<1>3. 0 \in T
  BY OneElementLess
<1>4. ASSUME NEW n \in Nat, n \in T
      PROVE  n + 1 \in T
  <2>. SUFFICES ASSUME NEW s \in SUBSET S, Cardinality(s) = n + 1, NEW y \in s
                PROVE  G[s] = fun[y] + G[s \ {y}]
    OBVIOUS
  <2>1. PICK x \in s : G[s] = fun[x] + G[s \ {x}]
    BY <1>2
  <2>2. CASE x # y
    <3>1. /\ s \ {x} \in SUBSET S /\ Cardinality(s \ {x}) = n /\ y \in s \ {x}
          /\ s \ {y} \in SUBSET S /\ Cardinality(s \ {y}) = n /\ x \in s \ {y}
      BY <2>2, OneElementLess
    <3>2. /\ G[s \ {x}] = fun[y] + G[(s \ {x}) \ {y}]
          /\ G[s \ {y}] = fun[x] + G[(s \ {y}) \ {x}]
      BY <1>4, <3>1
    <3>3. (s \ {x}) \ {y} = (s \ {y}) \ {x}
      OBVIOUS
    <3>4. fun[x] \in Int /\ fun[y] \in Int /\ G[(s \ {x}) \ {y}] \in Int
      BY <1>1
    <3>5. \A a, b, c \in Int : a + (b + c) = b + (a + c)
      OBVIOUS
    <3>6. G[s] = fun[x] + (fun[y] + G[(s \ {x}) \ {y}])
      BY <2>1, <3>2
    <3>7. fun[y] + G[s \ {y}] = fun[y] + (fun[x] + G[(s \ {x}) \ {y}])
      BY <3>2, <3>3
    <3>. QED
      BY <3>4, <3>5, <3>6, <3>7
  <2>. QED
    BY <2>1, <2>2
<1>5. Cardinality(S) \in T
  <2>. HIDE DEF T
  <2>. QED
    BY <1>3, <1>4, FS_CardinalityType, InductionInSet
<1>6. G[S] = fun[e] + G[S \ {e}]
  BY <1>5
<1>. QED
  BY <1>6, SumOfSubset, SumIsPartial DEF G

-----------------------------------------------------------------------------
\* What holds of the empty set, and of a set with one element more, holds of
\* every subset of a finite set.
LEMMA InductionOverSubsets ==
  ASSUME NEW S, IsFiniteSet(S), NEW Good, {} \in Good,
         \A s \in SUBSET S, x \in S :
           x \in s /\ s \ {x} \in Good => s \in Good
  PROVE  S \in Good
<1>. DEFINE T == {n \in Nat : \A s \in SUBSET S : Cardinality(s) = n => s \in Good}
<1>1. 0 \in T
  BY OneElementLess
<1>2. ASSUME NEW n \in Nat, n \in T
      PROVE  n + 1 \in T
  <2>. SUFFICES ASSUME NEW s \in SUBSET S, Cardinality(s) = n + 1
                PROVE  s \in Good
    OBVIOUS
  <2>1. PICK x \in s : TRUE
    BY OneElementLess
  <2>2. s \ {x} \in SUBSET S /\ Cardinality(s \ {x}) = n
    BY OneElementLess
  <2>. QED
    BY <1>2, <2>2
<1>3. Cardinality(S) \in T
  <2>. HIDE DEF T
  <2>. QED
    BY <1>1, <1>2, FS_CardinalityType, InductionInSet
<1>. QED
  BY <1>3

\* The sum of two amounts is the sum of the sums.
LEMMA SumPlus ==
  ASSUME NEW S, IsFiniteSet(S), NEW f, NEW g, NEW h,
         \A x \in S : f[x] \in Int /\ g[x] \in Int /\ h[x] = f[x] + g[x]
  PROVE  SumFunctionOnSet(h, S) = SumFunctionOnSet(f, S) + SumFunctionOnSet(g, S)
<1>. DEFINE Of(k, s) == SumFunctionOnSet(k, s)
            Good == {s \in SUBSET S : Of(h, s) = Of(f, s) + Of(g, s)}
<1>1. \A s \in SUBSET S :
        /\ Of(f, s) \in Int /\ Of(g, s) \in Int /\ Of(h, s) \in Int
        /\ \A x \in s : /\ Of(f, s) = f[x] + Of(f, s \ {x})
                        /\ Of(g, s) = g[x] + Of(g, s \ {x})
                        /\ Of(h, s) = h[x] + Of(h, s \ {x})
  <2>. SUFFICES ASSUME NEW s \in SUBSET S
                PROVE  /\ Of(f, s) \in Int /\ Of(g, s) \in Int /\ Of(h, s) \in Int
                       /\ \A x \in s : /\ Of(f, s) = f[x] + Of(f, s \ {x})
                                       /\ Of(g, s) = g[x] + Of(g, s \ {x})
                                       /\ Of(h, s) = h[x] + Of(h, s \ {x})
    OBVIOUS
  <2>1. /\ IsFiniteSet(s)
        /\ \A x \in s : f[x] \in Int /\ g[x] \in Int /\ h[x] \in Int
    BY FS_Subset
  <2>. QED
    BY <2>1, SumType, SumSplit
<1>2. Of(f, {}) = 0 /\ Of(g, {}) = 0 /\ Of(h, {}) = 0
  BY SumEmpty
<1>. HIDE DEF Of
<1>3. {} \in Good
  BY <1>2
<1>4. ASSUME NEW s \in SUBSET S, NEW x \in S, x \in s, s \ {x} \in Good
      PROVE  s \in Good
  <2>1. s \ {x} \in SUBSET S
    OBVIOUS
  <2>2. /\ f[x] \in Int /\ g[x] \in Int
        /\ Of(f, s \ {x}) \in Int /\ Of(g, s \ {x}) \in Int
    BY <1>1, <2>1
  <2>3. /\ Of(f, s) = f[x] + Of(f, s \ {x})
        /\ Of(g, s) = g[x] + Of(g, s \ {x})
        /\ Of(h, s) = (f[x] + g[x]) + (Of(f, s \ {x}) + Of(g, s \ {x}))
    BY <1>1, <1>4
  <2>. QED
    BY <2>2, <2>3
<1>5. S \in Good
  <2>. HIDE DEF Good
  <2>. QED
    BY <1>3, <1>4, InductionOverSubsets
<1>. QED
  BY <1>5 DEF Of

\* Larger amounts have the larger sum.
LEMMA SumMonotone ==
  ASSUME NEW S, IsFiniteSet(S), NEW f, NEW g,
         \A x \in S : f[x] \in Int /\ g[x] \in Int /\ f[x] <= g[x]
  PROVE  SumFunctionOnSet(f, S) <= SumFunctionOnSet(g, S)
<1>. DEFINE Of(k, s) == SumFunctionOnSet(k, s)
            Good == {s \in SUBSET S : Of(f, s) <= Of(g, s)}
<1>1. \A s \in SUBSET S :
        /\ Of(f, s) \in Int /\ Of(g, s) \in Int
        /\ \A x \in s : /\ Of(f, s) = f[x] + Of(f, s \ {x})
                        /\ Of(g, s) = g[x] + Of(g, s \ {x})
  <2>. SUFFICES ASSUME NEW s \in SUBSET S
                PROVE  /\ Of(f, s) \in Int /\ Of(g, s) \in Int
                       /\ \A x \in s : /\ Of(f, s) = f[x] + Of(f, s \ {x})
                                       /\ Of(g, s) = g[x] + Of(g, s \ {x})
    OBVIOUS
  <2>1. IsFiniteSet(s) /\ \A x \in s : f[x] \in Int /\ g[x] \in Int
    BY FS_Subset
  <2>. QED
    BY <2>1, SumType, SumSplit
<1>2. Of(f, {}) = 0 /\ Of(g, {}) = 0
  BY SumEmpty
<1>. HIDE DEF Of
<1>3. {} \in Good
  BY <1>2
<1>4. ASSUME NEW s \in SUBSET S, NEW x \in S, x \in s, s \ {x} \in Good
      PROVE  s \in Good
  <2>1. s \ {x} \in SUBSET S
    OBVIOUS
  <2>2. /\ f[x] \in Int /\ g[x] \in Int /\ f[x] <= g[x]
        /\ Of(f, s \ {x}) \in Int /\ Of(g, s \ {x}) \in Int
    BY <1>1, <2>1
  <2>3. /\ Of(f, s) = f[x] + Of(f, s \ {x})
        /\ Of(g, s) = g[x] + Of(g, s \ {x})
    BY <1>1, <1>4
  <2>. QED
    BY <1>4, <2>2, <2>3
<1>5. S \in Good
  <2>. HIDE DEF Good
  <2>. QED
    BY <1>3, <1>4, InductionOverSubsets
<1>. QED
  BY <1>5 DEF Of

\* A sum asks of the amounts what they are on its set, and nothing else.
LEMMA SumSame ==
  ASSUME NEW S, IsFiniteSet(S), NEW f, NEW g,
         \A x \in S : f[x] \in Int /\ g[x] = f[x]
  PROVE  SumFunctionOnSet(f, S) = SumFunctionOnSet(g, S)
<1>1. /\ SumFunctionOnSet(f, S) <= SumFunctionOnSet(g, S)
      /\ SumFunctionOnSet(g, S) <= SumFunctionOnSet(f, S)
      /\ SumFunctionOnSet(f, S) \in Int /\ SumFunctionOnSet(g, S) \in Int
  <2>1. \A x \in S : f[x] \in Int /\ g[x] \in Int /\ f[x] <= g[x] /\ g[x] <= f[x]
    OBVIOUS
  <2>. QED
    BY <2>1, SumMonotone, SumType
<1>. QED
  BY <1>1

\* Only where two amounts differ do their sums.
LEMMA SumChangedAt ==
  ASSUME NEW S, IsFiniteSet(S), NEW f, NEW g, NEW e \in S,
         \A x \in S : f[x] \in Int /\ g[x] \in Int /\ (x # e => g[x] = f[x])
  PROVE  SumFunctionOnSet(g, S) = SumFunctionOnSet(f, S) - f[e] + g[e]
<1>1. IsFiniteSet(S \ {e})
  BY FS_Subset
<1>2. SumFunctionOnSet(f, S \ {e}) = SumFunctionOnSet(g, S \ {e})
  BY <1>1, SumSame
<1>3. /\ SumFunctionOnSet(f, S) = f[e] + SumFunctionOnSet(f, S \ {e})
      /\ SumFunctionOnSet(g, S) = g[e] + SumFunctionOnSet(g, S \ {e})
      /\ SumFunctionOnSet(f, S \ {e}) \in Int
      /\ f[e] \in Int /\ g[e] \in Int
  BY <1>1, SumSplit, SumType
<1>. QED
  BY <1>2, <1>3

\* An element more adds its amount.
LEMMA SumOneMore ==
  ASSUME NEW S, IsFiniteSet(S), NEW e, e \notin S, NEW f, NEW g,
         g[e] \in Int, \A x \in S : f[x] \in Int /\ g[x] = f[x]
  PROVE  SumFunctionOnSet(g, S \cup {e}) = SumFunctionOnSet(f, S) + g[e]
<1>1. IsFiniteSet(S \cup {e}) /\ e \in S \cup {e} /\ (S \cup {e}) \ {e} = S
  BY FS_AddElement
<1>2. \A x \in S \cup {e} : g[x] \in Int
  OBVIOUS
<1>3. SumFunctionOnSet(g, S \cup {e}) = g[e] + SumFunctionOnSet(g, S)
  BY <1>1, <1>2, SumSplit
<1>4. SumFunctionOnSet(f, S) = SumFunctionOnSet(g, S)
  BY SumSame
<1>5. SumFunctionOnSet(f, S) \in Int
  BY SumType
<1>. QED
  BY <1>3, <1>4, <1>5

\* Amounts of zero can be left out of a sum.
LEMMA SumWithin ==
  ASSUME NEW S, IsFiniteSet(S), NEW U \in SUBSET S, NEW f,
         \A x \in S : f[x] \in Int /\ (x \notin U => f[x] = 0)
  PROVE  SumFunctionOnSet(f, S) = SumFunctionOnSet(f, U)
<1>. DEFINE Of(s) == SumFunctionOnSet(f, s)
            Good == {s \in SUBSET S : Of(s) = Of(s \cap U)}
<1>1. \A s \in SUBSET S : /\ Of(s) \in Int
                          /\ \A x \in s : Of(s) = f[x] + Of(s \ {x})
  <2>. SUFFICES ASSUME NEW s \in SUBSET S
                PROVE  Of(s) \in Int /\ \A x \in s : Of(s) = f[x] + Of(s \ {x})
    OBVIOUS
  <2>1. IsFiniteSet(s) /\ \A x \in s : f[x] \in Int
    BY FS_Subset
  <2>. QED
    BY <2>1, SumType, SumSplit
<1>. HIDE DEF Of
<1>2. {} \in Good
  <2>1. {} \cap U = {}
    OBVIOUS
  <2>. QED
    BY <2>1
<1>3. ASSUME NEW s \in SUBSET S, NEW x \in S, x \in s, s \ {x} \in Good
      PROVE  s \in Good
  <2>1. Of(s) = f[x] + Of((s \ {x}) \cap U)
    BY <1>1, <1>3
  <2>2. CASE x \in U
    <3>1. (s \ {x}) \cap U = (s \cap U) \ {x} /\ x \in s \cap U
      BY <1>3, <2>2
    <3>2. s \cap U \in SUBSET S
      OBVIOUS
    <3>3. Of(s \cap U) = f[x] + Of((s \cap U) \ {x})
      BY <1>1, <3>1, <3>2
    <3>. QED
      BY <2>1, <3>1, <3>3
  <2>3. CASE x \notin U
    <3>1. (s \ {x}) \cap U = s \cap U /\ f[x] = 0
      BY <2>3
    <3>2. s \cap U \in SUBSET S
      OBVIOUS
    <3>3. Of(s \cap U) \in Int
      BY <1>1, <3>2
    <3>4. Of(s) = 0 + Of(s \cap U)
      BY <2>1, <3>1
    <3>. QED
      BY <3>3, <3>4
  <2>. QED
    BY <2>2, <2>3
<1>4. S \in Good
  <2>. HIDE DEF Good
  <2>. QED
    BY <1>2, <1>3, InductionOverSubsets
<1>5. S \cap U = U
  OBVIOUS
<1>. QED
  BY <1>4, <1>5 DEF Of

\* A multiple of the amounts has the multiple of the sum.
LEMMA SumScaled ==
  ASSUME NEW S, IsFiniteSet(S), NEW c \in Int, NEW f, NEW h,
         \A x \in S : f[x] \in Int /\ h[x] = c * f[x]
  PROVE  SumFunctionOnSet(h, S) = c * SumFunctionOnSet(f, S)
<1>. DEFINE Of(k, s) == SumFunctionOnSet(k, s)
            Good == {s \in SUBSET S : Of(h, s) = c * Of(f, s)}
<1>0. \A x, y \in Int : c * (x + y) = c * x + c * y /\ c * x \in Int
  OBVIOUS
<1>1. \A s \in SUBSET S :
        /\ Of(f, s) \in Int
        /\ \A x \in s : /\ Of(f, s) = f[x] + Of(f, s \ {x})
                        /\ Of(h, s) = h[x] + Of(h, s \ {x})
  <2>. SUFFICES ASSUME NEW s \in SUBSET S
                PROVE  /\ Of(f, s) \in Int
                       /\ \A x \in s : /\ Of(f, s) = f[x] + Of(f, s \ {x})
                                       /\ Of(h, s) = h[x] + Of(h, s \ {x})
    OBVIOUS
  <2>1. IsFiniteSet(s) /\ \A x \in s : f[x] \in Int /\ h[x] \in Int
    BY <1>0, FS_Subset
  <2>. QED
    BY <2>1, SumType, SumSplit
<1>2. Of(f, {}) = 0 /\ Of(h, {}) = 0
  BY SumEmpty
<1>. HIDE DEF Of
<1>3. {} \in Good
  BY <1>2
<1>4. ASSUME NEW s \in SUBSET S, NEW x \in S, x \in s, s \ {x} \in Good
      PROVE  s \in Good
  <2>1. Of(f, s \ {x}) \in Int /\ f[x] \in Int
    BY <1>1
  <2>2. /\ Of(f, s) = f[x] + Of(f, s \ {x})
        /\ Of(h, s) = c * f[x] + c * Of(f, s \ {x})
    BY <1>1, <1>4
  <2>. QED
    BY <1>0, <2>1, <2>2
<1>5. S \in Good
  <2>. HIDE DEF Good
  <2>. QED
    BY <1>3, <1>4, InductionOverSubsets
<1>. QED
  BY <1>5 DEF Of

\* The same amount everywhere is counted once an element.
LEMMA SumConstant ==
  ASSUME NEW S, IsFiniteSet(S), NEW c \in Int, NEW f, \A x \in S : f[x] = c
  PROVE  SumFunctionOnSet(f, S) = c * Cardinality(S)
<1>. DEFINE Of(s) == SumFunctionOnSet(f, s)
            Good == {s \in SUBSET S : Of(s) = c * Cardinality(s)}
<1>1. {} \in Good
  BY SumEmpty, FS_EmptySet
<1>2. ASSUME NEW s \in SUBSET S, NEW x \in S, x \in s, s \ {x} \in Good
      PROVE  s \in Good
  <2>1. IsFiniteSet(s) /\ \A y \in s : f[y] \in Int
    BY FS_Subset
  <2>2. Of(s) = c + Of(s \ {x})
    BY <1>2, <2>1, SumSplit
  <2>3. Cardinality(s) \in Nat /\ Cardinality(s \ {x}) = Cardinality(s) - 1
    BY <1>2, <2>1, FS_CardinalityType, FS_RemoveElement
  <2>. HIDE DEF Of
  <2>4. Of(s \ {x}) = c * (Cardinality(s) - 1)
    BY <1>2, <2>3
  <2>5. \A n \in Int : c * n = c + c * (n - 1)
    OBVIOUS
  <2>. QED
    BY <2>2, <2>3, <2>4, <2>5
<1>3. S \in Good
  <2>. HIDE DEF Good
  <2>. QED
    BY <1>1, <1>2, InductionOverSubsets
<1>. QED
  BY <1>3

\* Some amount over a set that is not empty is the largest.
LEMMA LargestExists ==
  ASSUME NEW S, IsFiniteSet(S), S # {}, NEW f, \A x \in S : f[x] \in Int
  PROVE  \E m \in S : \A x \in S : f[x] <= f[m]
<1>. DEFINE Good == {s \in SUBSET S :
                       s # {} => \E m \in s : \A x \in s : f[x] <= f[m]}
<1>1. {} \in Good
  OBVIOUS
<1>2. ASSUME NEW s \in SUBSET S, NEW x \in S, x \in s, s \ {x} \in Good
      PROVE  s \in Good
  <2>1. CASE s \ {x} = {}
    <3>1. \A y \in s : y = x
      BY <2>1
    <3>. QED
      BY <1>2, <3>1
  <2>2. CASE s \ {x} # {}
    <3>1. PICK m \in s \ {x} : \A y \in s \ {x} : f[y] <= f[m]
      BY <1>2, <2>2
    <3>2. CASE f[x] <= f[m]
      BY <3>1, <3>2
    <3>3. CASE ~(f[x] <= f[m])
      <4>1. \A y \in s : f[y] <= f[x]
        BY <3>1, <3>3
      <4>. QED
        BY <1>2, <4>1
    <3>. QED
      BY <3>2, <3>3
  <2>. QED
    BY <2>1, <2>2
<1>3. S \in Good
  <2>. HIDE DEF Good
  <2>. QED
    BY <1>1, <1>2, InductionOverSubsets
<1>. QED
  BY <1>3
=============================================================================
