------------------------------ MODULE SetFacts ------------------------------
(***************************************************************************)
(* Facts about finite sets of numbers and about sums that the proofs of    *)
(* several components need: which extremes exist, and what MapThenSumSet   *)
(* adds up.  Induction over a finite set is done with the least set that   *)
(* would refute the claim.                                                 *)
(***************************************************************************)
EXTENDS Integers, FiniteSets, FiniteSetsExt, FiniteSetTheorems, TLAPS

\* Of some finite sets there is one that contains no other of them.
LEMMA LeastSet ==
  ASSUME NEW S, NEW T \in SUBSET FiniteSubsetsOf(S), T # {}
  PROVE  \E X \in T : \A Y \in T : Y \subseteq X => Y = X
<1>1. PICK X \in T : \A Y \in T : <<Y, X>> \notin StrictSubsetOrdering(S)
  BY FS_StrictSubsetOrderingWellFounded, WFMin
<1>2. QED
  BY <1>1 DEF FiniteSubsetsOf, StrictSubsetOrdering

\* A set of natural numbers has a least element.
LEMMA LeastNumber ==
  ASSUME NEW S \in SUBSET Nat, S # {}
  PROVE  \E x \in S : \A y \in S : x <= y
<1> DEFINE R == {ss \in Nat \X Nat : ss[1] < ss[2]}
<1>1. R = OpToRel(<, Nat)
  BY DEF OpToRel
<1>2. IsWellFoundedOn(R, Nat)
  BY <1>1, NatLessThanWellFounded
<1>3. PICK x \in S : \A y \in S : <<y, x>> \notin R
  <2> HIDE DEF R
  <2> QED BY <1>2, WFMin
<1>4. ASSUME NEW y \in S PROVE x <= y
  <2>1. x \in Nat /\ y \in Nat
    OBVIOUS
  <2>2. ~(y < x)
    BY <1>3, <2>1
  <2>3. QED
    BY <2>1, <2>2
<1>5. QED
  BY <1>4

\* A finite set of integers has a greatest element ...
LEMMA GreatestNumber ==
  ASSUME NEW S \in SUBSET Int, IsFiniteSet(S), S # {}
  PROVE  \E x \in S : \A y \in S : x >= y
<1> DEFINE Above(x) == {y \in S : y > x}
           T == {Above(x) : x \in S}
<1>1. T \in SUBSET FiniteSubsetsOf(S) /\ T # {}
  <2>1. FiniteSubsetsOf(S) = SUBSET S
    BY FS_FiniteSubsetsOfFinite
  <2>2. \A x \in S : Above(x) \in SUBSET S
    OBVIOUS
  <2> HIDE DEF Above
  <2>3. \A X \in T : X \in SUBSET S
    BY <2>2
  <2>4. T # {}
    <3>1. PICK x \in S : TRUE
      OBVIOUS
    <3>2. Above(x) \in T
      OBVIOUS
    <3>3. QED
      BY <3>2
  <2> HIDE DEF T
  <2>5. QED
    BY <2>1, <2>3, <2>4
<1>2. PICK X \in T : \A Y \in T : Y \subseteq X => Y = X
  <2> HIDE DEF T
  <2> QED BY <1>1, LeastSet
<1>3. PICK x \in S : X = Above(x)
  OBVIOUS
<1>4. ASSUME NEW y \in S, ~(x >= y) PROVE FALSE
  <2>1. Above(y) \subseteq Above(x) /\ y \in Above(x) /\ y \notin Above(y)
    <3>1. x \in Int /\ y \in Int /\ y > x /\ S \subseteq Int
      BY <1>4
    <3>2. y \in Above(x) /\ y \notin Above(y)
      BY <3>1
    <3>3. ASSUME NEW z \in Above(y) PROVE z \in Above(x)
      <4>1. z \in S /\ z \in Int /\ z > y
        BY <3>1
      <4>2. QED
        BY <3>1, <4>1
    <3> HIDE DEF Above
    <3>4. QED
      BY <3>2, <3>3
  <2>2. Above(y) \in T
    OBVIOUS
  <2>3. QED
    BY <2>1, <2>2, <1>2, <1>3
<1>5. QED
  BY <1>4

\* ... which is what Max chooses.
LEMMA MaxIsGreatest ==
  ASSUME NEW S \in SUBSET Int, IsFiniteSet(S), S # {}
  PROVE  Max(S) \in S /\ \A y \in S : Max(S) >= y
  BY GreatestNumber DEF Max

-----------------------------------------------------------------------------
(* Sums *)

\* The sum of f over S
Sum(f, S) == MapThenSumSet(LAMBDA i : f[i], S)

\* The element with which MapThenSumSet goes on
Chosen(s) == CHOOSE x \in s : TRUE

\* g has the sum of f over every subset of S, added up in the order of Chosen.
IsSums(g, f, S) ==
  g = [s \in SUBSET S |-> IF s = {} THEN 0 ELSE f[Chosen(s)] + g[s \ {Chosen(s)}]]

\* There is at most one such table, and a table of a set has one of each subset.
LEMMA SumsUnique ==
  ASSUME NEW f, NEW S, IsFiniteSet(S), NEW g, IsSums(g, f, S),
         NEW R \in SUBSET S, NEW h, IsSums(h, f, R)
  PROVE  \A s \in SUBSET R : g[s] = h[s]
<1> DEFINE T == {s \in SUBSET R : g[s] # h[s]}
<1>1. SUFFICES ASSUME T # {} PROVE FALSE
  OBVIOUS
<1>2. T \in SUBSET FiniteSubsetsOf(S)
  <2>1. FiniteSubsetsOf(S) = SUBSET S
    BY FS_FiniteSubsetsOfFinite
  <2>2. QED
    BY <2>1
<1>3. PICK X \in T : \A Y \in T : Y \subseteq X => Y = X
  <2> HIDE DEF T
  <2> QED BY <1>1, <1>2, LeastSet
<1>4. \A s \in SUBSET R :
        /\ g[s] = IF s = {} THEN 0 ELSE f[Chosen(s)] + g[s \ {Chosen(s)}]
        /\ h[s] = IF s = {} THEN 0 ELSE f[Chosen(s)] + h[s \ {Chosen(s)}]
  BY DEF IsSums
<1>5. X \in SUBSET R /\ g[X] # h[X]
  OBVIOUS
<1>6. X # {}
  BY <1>4, <1>5
<1>7. Chosen(X) \in X
  BY <1>6 DEF Chosen
<1> DEFINE Y == X \ {Chosen(X)}
<1>8. Y \in SUBSET R /\ Y \subseteq X /\ Y # X
  BY <1>5, <1>7
<1>9. g[Y] = h[Y]
  BY <1>3, <1>8
<1>10. QED
  BY <1>4, <1>5, <1>6, <1>9

\* Every finite set has such a table.
LEMMA SumsExist ==
  ASSUME NEW f, NEW S, IsFiniteSet(S)
  PROVE  \E g : IsSums(g, f, S)
<1> DEFINE Has(s) == \E g : IsSums(g, f, s)
           T == {s \in SUBSET S : ~Has(s)}
<1>1. SUFFICES ASSUME T # {} PROVE FALSE
  OBVIOUS
<1>2. T \in SUBSET FiniteSubsetsOf(S)
  <2>1. FiniteSubsetsOf(S) = SUBSET S
    BY FS_FiniteSubsetsOfFinite
  <2>2. QED
    BY <2>1
<1>3. PICK X \in T : \A Y \in T : Y \subseteq X => Y = X
  <2> HIDE DEF T
  <2> QED BY <1>1, <1>2, LeastSet
<1>4. X \in SUBSET S /\ ~Has(X) /\ \A Y \in SUBSET X : Y # X => Has(Y)
  BY <1>3
<1>5. \A Y \in SUBSET X : IsFiniteSet(Y)
  BY <1>4, FS_Subset
<1> DEFINE G(s) == CHOOSE g : IsSums(g, f, s)
           at(s) == G(s)[s]
           h == [s \in SUBSET X |-> IF s = {} THEN 0
                   ELSE f[Chosen(s)] + at(s \ {Chosen(s)})]
<1>6. \A Y \in SUBSET X : Y # X => IsSums(G(Y), f, Y)
  BY <1>4
<1> HIDE DEF T, G, Has
<1>7. \A s \in SUBSET X : s # {} => Chosen(s) \in s
  BY DEF Chosen
<1>8. ASSUME NEW s \in SUBSET X, s # X
      PROVE  h[s] = at(s)
  <2>1. IsSums(G(s), f, s)
    BY <1>6, <1>8
  <2>2. at(s) = IF s = {} THEN 0 ELSE f[Chosen(s)] + G(s)[s \ {Chosen(s)}]
    BY <2>1 DEF IsSums
  <2>3. CASE s = {}
    BY <2>2, <2>3
  <2>4. CASE s # {}
    <3> DEFINE r == s \ {Chosen(s)}
    <3>1. r \in SUBSET s /\ r \in SUBSET X /\ r # X /\ r \in SUBSET r
      BY <1>7, <2>4
    <3>2. IsSums(G(r), f, r) /\ IsFiniteSet(s)
      BY <1>5, <1>6, <3>1
    <3>3. G(s)[r] = G(r)[r]
      <4> HIDE DEF r
      <4> QED BY <2>1, <3>1, <3>2, SumsUnique
    <3>4. QED
      BY <2>2, <2>4, <3>3
  <2>5. QED
    BY <2>3, <2>4
<1>9. IsSums(h, f, X)
  <2>1. \A s \in SUBSET X : s # {} => h[s \ {Chosen(s)}] = at(s \ {Chosen(s)})
    <3> SUFFICES ASSUME NEW s \in SUBSET X, s # {}
                 PROVE  h[s \ {Chosen(s)}] = at(s \ {Chosen(s)})
      OBVIOUS
    <3> DEFINE r == s \ {Chosen(s)}
    <3>1. r \in SUBSET X /\ r # X
      BY <1>7
    <3> HIDE DEF r, h
    <3>2. h[r] = at(r)
      BY <3>1, <1>8
    <3>3. QED
      BY <3>2 DEF r
  <2>2. h = [s \in SUBSET X |-> IF s = {} THEN 0 ELSE f[Chosen(s)] + h[s \ {Chosen(s)}]]
    BY <2>1
  <2>3. QED
    BY <2>2 DEF IsSums
<1>10. QED
  BY <1>4, <1>9 DEF Has

\* What MapThenSumSet computes: the table's entry for the whole set.
LEMMA SumIsTable ==
  ASSUME NEW f, NEW S, IsFiniteSet(S)
  PROVE  \E g : IsSums(g, f, S) /\ Sum(f, S) = g[S]
<1>1. Sum(f, S) = (CHOOSE g : IsSums(g, f, S))[S]
  BY DEF Sum, MapThenSumSet, MapThenFoldSet, IsSums, Chosen
<1>2. QED
  BY <1>1, SumsExist

LEMMA SumOfNone ==
  ASSUME NEW f
  PROVE  Sum(f, {}) = 0
<1>1. PICK g : IsSums(g, f, {}) /\ Sum(f, {}) = g[{}]
  BY SumIsTable, FS_EmptySet
<1>2. QED
  BY <1>1 DEF IsSums

\* One step of the sum.
LEMMA SumStep ==
  ASSUME NEW f, NEW S, IsFiniteSet(S), S # {}
  PROVE  Chosen(S) \in S /\ Sum(f, S) = f[Chosen(S)] + Sum(f, S \ {Chosen(S)})
<1> DEFINE R == S \ {Chosen(S)}
<1>1. Chosen(S) \in S
  BY DEF Chosen
<1>2. R \in SUBSET S /\ IsFiniteSet(R) /\ R \in SUBSET R
  BY FS_Subset
<1>3. PICK g : IsSums(g, f, S) /\ Sum(f, S) = g[S]
  BY SumIsTable
<1>4. PICK h : IsSums(h, f, R) /\ Sum(f, R) = h[R]
  <2> HIDE DEF R
  <2> QED BY <1>2, SumIsTable
<1>5. g[R] = h[R]
  <2> HIDE DEF R
  <2> QED BY <1>2, <1>3, <1>4, SumsUnique
<1>6. g[S] = f[Chosen(S)] + g[R]
  BY <1>3 DEF IsSums
<1>7. QED
  BY <1>1, <1>3, <1>4, <1>5, <1>6

\* A sum of integers is an integer.
LEMMA SumIsInt ==
  ASSUME NEW f, NEW S, IsFiniteSet(S), \A x \in S : f[x] \in Int
  PROVE  Sum(f, S) \in Int
<1> DEFINE T == {s \in SUBSET S : Sum(f, s) \notin Int}
<1>1. SUFFICES ASSUME T # {} PROVE FALSE
  OBVIOUS
<1>2. T \in SUBSET FiniteSubsetsOf(S)
  <2>1. FiniteSubsetsOf(S) = SUBSET S
    BY FS_FiniteSubsetsOfFinite
  <2>2. QED
    BY <2>1
<1>3. PICK X \in T : \A Y \in T : Y \subseteq X => Y = X
  <2> HIDE DEF T
  <2> QED BY <1>1, <1>2, LeastSet
<1>4. X \in SUBSET S /\ Sum(f, X) \notin Int /\ IsFiniteSet(X)
  BY FS_Subset
<1>5. X # {}
  BY <1>4, SumOfNone
<1>6. Chosen(X) \in X /\ Sum(f, X) = f[Chosen(X)] + Sum(f, X \ {Chosen(X)})
  BY <1>4, <1>5, SumStep
<1>7. Sum(f, X \ {Chosen(X)}) \in Int
  BY <1>3, <1>4, <1>6
<1>8. QED
  BY <1>4, <1>6, <1>7

\* A sum may begin with any of its elements.
LEMMA SumRemove ==
  ASSUME NEW f, NEW S, IsFiniteSet(S), \A x \in S : f[x] \in Int
  PROVE  \A x \in S : Sum(f, S) = f[x] + Sum(f, S \ {x})
<1> DEFINE Begins(s, x) == Sum(f, s) = f[x] + Sum(f, s \ {x})
           T == {s \in SUBSET S : \E x \in s : ~Begins(s, x)}
<1>1. SUFFICES ASSUME T # {} PROVE FALSE
  OBVIOUS
<1>2. T \in SUBSET FiniteSubsetsOf(S)
  <2>1. FiniteSubsetsOf(S) = SUBSET S
    BY FS_FiniteSubsetsOfFinite
  <2>2. QED
    BY <2>1
<1>3. PICK X \in T : \A Y \in T : Y \subseteq X => Y = X
  <2> HIDE DEF T
  <2> QED BY <1>1, <1>2, LeastSet
<1>4. PICK x \in X : X \in SUBSET S /\ ~Begins(X, x)
  OBVIOUS
<1> DEFINE a == Chosen(X)
           Y == X \ {a}
           Z == X \ {x}
<1>5. IsFiniteSet(X) /\ X # {}
  BY <1>4, FS_Subset
<1>6. a \in X /\ Begins(X, a)
  BY <1>5, SumStep
<1>7. a # x
  BY <1>4, <1>6
<1>8. \A s \in SUBSET X : s # X => \A y \in s : Begins(s, y)
  BY <1>3, <1>4
<1> HIDE DEF a, T
<1>9. Sum(f, Y) = f[x] + Sum(f, Y \ {x})
  BY <1>4, <1>6, <1>7, <1>8
<1>10. Sum(f, Z) = f[a] + Sum(f, Z \ {a})
  BY <1>4, <1>6, <1>7, <1>8
<1>11. Y \ {x} = Z \ {a}
  OBVIOUS
<1>12. Sum(f, Y \ {x}) \in Int
  <2>1. IsFiniteSet(Y \ {x}) /\ Y \ {x} \in SUBSET S
    BY <1>4, <1>5, FS_Subset
  <2> HIDE DEF Y
  <2>2. QED
    BY <2>1, SumIsInt
<1>13. f[x] \in Int /\ f[a] \in Int
  BY <1>4, <1>6
<1> HIDE DEF Y, Z
<1>14. QED
  <2>1. Sum(f, X) = f[a] + Sum(f, Y) /\ Sum(f, X) # f[x] + Sum(f, Z)
    BY <1>4, <1>6 DEF Y, Z
  <2>2. Sum(f, Z) = f[a] + Sum(f, Y \ {x})
    BY <1>10, <1>11
  <2>3. Sum(f, X) = f[a] + (f[x] + Sum(f, Y \ {x}))
    BY <1>9, <2>1
  <2>4. Sum(f, X) # f[x] + (f[a] + Sum(f, Y \ {x}))
    BY <2>1, <2>2
  <2>5. QED
    BY <2>3, <2>4, <1>12, <1>13

\* Raising f by e on the elements of R raises its sum by the sum of e over R.
LEMMA SumRaise ==
  ASSUME NEW f, NEW e, NEW h, NEW S, IsFiniteSet(S), NEW R \in SUBSET S,
         \A x \in S : f[x] \in Int, \A x \in R : e[x] \in Int,
         \A x \in S : h[x] = f[x] + IF x \in R THEN e[x] ELSE 0
  PROVE  Sum(h, S) = Sum(f, S) + Sum(e, R)
<1> DEFINE Raised(s) == Sum(h, s) = Sum(f, s) + Sum(e, R \cap s)
           T == {s \in SUBSET S : ~Raised(s)}
<1>1. SUFFICES ASSUME T # {} PROVE FALSE
  <2>1. R \cap S = R
    OBVIOUS
  <2>2. T = {} => Raised(S)
    OBVIOUS
  <2>3. QED
    BY <2>1, <2>2
<1>2. T \in SUBSET FiniteSubsetsOf(S)
  <2>1. FiniteSubsetsOf(S) = SUBSET S
    BY FS_FiniteSubsetsOfFinite
  <2>2. QED
    BY <2>1
<1>3. PICK X \in T : \A Y \in T : Y \subseteq X => Y = X
  <2> HIDE DEF T
  <2> QED BY <1>1, <1>2, LeastSet
<1>4. X \in SUBSET S /\ ~Raised(X) /\ IsFiniteSet(X)
  BY FS_Subset
<1>5. X # {}
  <2>1. Raised({})
    <3>1. R \cap {} = {}
      OBVIOUS
    <3>2. QED
      BY <3>1, SumOfNone
  <2>2. QED
    BY <1>4, <2>1
<1> DEFINE a == Chosen(X)
           Y == X \ {a}
<1>6. /\ a \in X
      /\ Sum(h, X) = h[a] + Sum(h, Y) /\ Sum(f, X) = f[a] + Sum(f, Y)
  BY <1>4, <1>5, SumStep
<1> HIDE DEF a
<1>7. Raised(Y)
  BY <1>3, <1>4, <1>6
<1>8. IsFiniteSet(Y) /\ IsFiniteSet(R \cap X) /\ IsFiniteSet(R \cap Y)
  BY <1>4, FS_Subset
<1>9. Sum(f, Y) \in Int /\ Sum(e, R \cap Y) \in Int
  <2>1. (\A x \in Y : f[x] \in Int) /\ \A x \in R \cap Y : e[x] \in Int
    BY <1>4
  <2> HIDE DEF Y
  <2>2. QED
    BY <1>8, <2>1, SumIsInt
<1>10. Sum(e, R \cap X) = (IF a \in R THEN e[a] ELSE 0) + Sum(e, R \cap Y)
  <2>1. CASE a \in R
    <3>1. a \in R \cap X /\ \A x \in R \cap X : e[x] \in Int
      BY <1>6, <2>1
    <3>2. (R \cap X) \ {a} = R \cap Y
      OBVIOUS
    <3> HIDE DEF Y
    <3>3. Sum(e, R \cap X) = e[a] + Sum(e, (R \cap X) \ {a})
      BY <1>8, <3>1, SumRemove
    <3>4. QED
      BY <2>1, <3>2, <3>3
  <2>2. CASE a \notin R
    <3>1. R \cap X = R \cap Y
      BY <2>2
    <3> HIDE DEF Y
    <3>2. Sum(e, R \cap X) = Sum(e, R \cap Y)
      BY <3>1
    <3>3. QED
      BY <1>9, <2>2, <3>2
  <2>3. QED
    BY <2>1, <2>2
<1>11. f[a] \in Int /\ (a \in R => e[a] \in Int)
       /\ h[a] = f[a] + IF a \in R THEN e[a] ELSE 0
  BY <1>4, <1>6
<1> HIDE DEF Y
<1>12. QED
  BY <1>4, <1>6, <1>7, <1>9, <1>10, <1>11

\* A sum of zeros is 0.
LEMMA SumOfZeros ==
  ASSUME NEW f, NEW S, IsFiniteSet(S), \A x \in S : f[x] = 0
  PROVE  Sum(f, S) = 0
<1> DEFINE T == {s \in SUBSET S : Sum(f, s) # 0}
<1>1. SUFFICES ASSUME T # {} PROVE FALSE
  OBVIOUS
<1>2. T \in SUBSET FiniteSubsetsOf(S)
  <2>1. FiniteSubsetsOf(S) = SUBSET S
    BY FS_FiniteSubsetsOfFinite
  <2>2. QED
    BY <2>1
<1>3. PICK X \in T : \A Y \in T : Y \subseteq X => Y = X
  <2> HIDE DEF T
  <2> QED BY <1>1, <1>2, LeastSet
<1>4. X \in SUBSET S /\ Sum(f, X) # 0 /\ IsFiniteSet(X)
  BY FS_Subset
<1>5. X # {}
  BY <1>4, SumOfNone
<1>6. Chosen(X) \in X /\ Sum(f, X) = f[Chosen(X)] + Sum(f, X \ {Chosen(X)})
  BY <1>4, <1>5, SumStep
<1>7. Sum(f, X \ {Chosen(X)}) = 0
  BY <1>3, <1>4, <1>6
<1>8. QED
  BY <1>4, <1>6, <1>7
=============================================================================
