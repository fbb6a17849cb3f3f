----------------------------- MODULE Fold_lemmas -----------------------------
(***************************************************************************)
(* Facts about the natural numbers, finite sets and the sums over them     *)
(* (Functions!SumFunctionOnSet) that the proofs of the components cite.    *)
(*                                                                         *)
(* Induction is stated with the SET of what has the property, not with the *)
(* property as an operator: a set is an ordinary value, which every prover *)
(* can instantiate.  It rests on the least element of a set of numbers.    *)
(***************************************************************************)
EXTENDS Integers, FiniteSets, Functions, SequencesExt, FiniteSetTheorems, SequenceTheorems, WellFoundedInduction, TLAPS

-----------------------------------------------------------------------------
(* Induction.                                                              *)

\* A set of numbers that is not empty has a least element.
LEMMA LeastElement ==
  ASSUME NEW T, T \subseteq Nat, T # {}
  PROVE  \E n \in T : \A m \in T : n <= m
<1> DEFINE R == OpToRel(<, Nat)
<1>1. IsWellFoundedOn(R, Nat)
  BY NatLessThanWellFounded
<1>2. \A m, n \in Nat : m < n => <<m, n>> \in R
  BY DEF OpToRel
<1> HIDE DEF R
<1>3. PICK n \in T : \A m \in T : ~(<<m, n>> \in R)
  BY <1>1, WFMin
<1>4. \A m \in T : ~(m < n)
  BY <1>2, <1>3
<1>5. \A m \in T : n \in Nat /\ m \in Nat
  OBVIOUS
<1>6. \A m \in T : n <= m
  BY <1>4, <1>5
<1>7. QED
  BY <1>6

\* Induction over the numbers.
LEMMA InductionOverNat ==
  ASSUME NEW T, 0 \in T, \A n \in Nat : n \in T => n + 1 \in T
  PROVE  Nat \subseteq T
<1>1. SUFFICES ASSUME Nat \ T # {} PROVE FALSE
  OBVIOUS
<1>2. PICK n \in Nat \ T : \A m \in Nat \ T : n <= m
  BY <1>1, LeastElement
<1>3. n # 0 /\ n - 1 \in Nat /\ n - 1 \in T /\ (n - 1) + 1 = n
  BY <1>2
<1>4. QED
  BY <1>2, <1>3

\* Induction over the subsets of a finite set: a subset has the property when
\* it has it without any one of its elements.
LEMMA InductionOverSubsets ==
  ASSUME NEW S, IsFiniteSet(S), NEW T,
         \A s \in SUBSET S : (\A x \in s : s \ {x} \in T) => s \in T
  PROVE  SUBSET S \subseteq T
<1> DEFINE D == {n \in Nat : \A s \in SUBSET S : Cardinality(s) = n => s \in T}
<1>1. 0 \in D
  <2>1. \A s \in SUBSET S : Cardinality(s) = 0 => s = {}
    BY FS_EmptySet, FS_Subset
  <2>2. QED
    BY <2>1
<1>2. ASSUME NEW n \in Nat, n \in D PROVE n + 1 \in D
  <2>1. SUFFICES ASSUME NEW s \in SUBSET S, Cardinality(s) = n + 1 PROVE s \in T
    BY <1>2
  <2>2. IsFiniteSet(s)
    BY FS_Subset
  <2>3. ASSUME NEW x \in s PROVE s \ {x} \in T
    <3>1. Cardinality(s \ {x}) = Cardinality(s) - 1
      BY <2>2, FS_RemoveElement
    <3>2. Cardinality(s \ {x}) = n
      BY <2>1, <3>1
    <3>3. QED
      BY <1>2, <3>2
  <2>4. QED
    BY <2>3
<1>3. Nat \subseteq D
  <2> HIDE DEF D
  <2> QED
    BY <1>1, <1>2, InductionOverNat
<1>4. ASSUME NEW s \in SUBSET S PROVE s \in T
  <2>1. Cardinality(s) \in Nat
    BY FS_Subset, FS_CardinalityType
  <2>2. QED
    BY <1>3, <2>1
<1>5. QED
  BY <1>4

\* A function takes finitely many values on a finite domain.
LEMMA FiniteImage ==
  ASSUME NEW f, IsFiniteSet(DOMAIN f)
  PROVE  /\ IsFiniteSet({f[x] : x \in DOMAIN f})
         /\ Cardinality({f[x] : x \in DOMAIN f}) <= Cardinality(DOMAIN f)
<1> DEFINE g == [x \in DOMAIN f |-> f[x]]
<1>1. g \in Surjection(DOMAIN f, {f[x] : x \in DOMAIN f})
  BY DEF Surjection
<1>2. QED
  <2> HIDE DEF g
  <2> QED
    BY <1>1, FS_Surjection

-----------------------------------------------------------------------------
(* Sums over finite sets.  The fold of Functions takes the elements in the *)
(* order CHOOSE gives them, by a recursive function over the subsets.      *)

First(s) == CHOOSE x \in s : TRUE
SumsUp(g, f, s) == g[s] = IF s = {} THEN 0 ELSE f[First(s)] + g[s \ {First(s)}]
IsFold(g, f, S) ==
    g = [s \in SUBSET S |-> IF s = {} THEN 0 ELSE f[First(s)] + g[s \ {First(s)}]]

\* The recursive function exists.
LEMMA FoldExists ==
  ASSUME NEW S, IsFiniteSet(S), NEW f
  PROVE  \E g : IsFold(g, f, S)
<1> DEFINE D == {n \in Nat : \E g : \A s \in SUBSET S : Cardinality(s) <= n => SumsUp(g, f, s)}
<1>1. \A s \in SUBSET S : IsFiniteSet(s) /\ Cardinality(s) \in Nat
  BY FS_Subset, FS_CardinalityType
<1>2. 0 \in D
  <2> DEFINE g == [s \in SUBSET S |-> 0]
  <2>1. ASSUME NEW s \in SUBSET S, Cardinality(s) <= 0 PROVE SumsUp(g, f, s)
    <3>1. Cardinality(s) = 0
      BY <1>1, <2>1
    <3>2. s = {}
      BY <1>1, <3>1, FS_EmptySet
    <3>3. QED
      BY <3>2 DEF SumsUp
  <2>2. QED
    BY <2>1
<1>3. ASSUME NEW n \in Nat, n \in D PROVE n + 1 \in D
  <2>1. PICK g : \A s \in SUBSET S : Cardinality(s) <= n => SumsUp(g, f, s)
    BY <1>3
  <2> DEFINE h == [s \in SUBSET S |-> IF s = {} THEN 0 ELSE f[First(s)] + g[s \ {First(s)}]]
  <2>2. ASSUME NEW s \in SUBSET S, Cardinality(s) <= n + 1 PROVE SumsUp(h, f, s)
    <3>1. CASE s = {}
      BY <3>1 DEF SumsUp
    <3>2. CASE s # {}
      <4> DEFINE r == s \ {First(s)}
      <4>1. First(s) \in s /\ r \in SUBSET S
        BY <3>2 DEF First
      <4>2. Cardinality(r) = Cardinality(s) - 1
        BY <1>1, <4>1, FS_RemoveElement
      <4>3. Cardinality(r) <= n
        BY <1>1, <2>2, <4>2
      <4>4. SumsUp(g, f, r)
        BY <2>1, <4>1, <4>3
      <4>5. h[r] = g[r]
        BY <4>1, <4>4 DEF SumsUp
      <4>6. QED
        BY <3>2, <4>5 DEF SumsUp
    <3>3. QED
      BY <3>1, <3>2
  <2>3. \E k : \A s \in SUBSET S : Cardinality(s) <= n + 1 => SumsUp(k, f, s)
    <3> HIDE DEF h
    <3> QED
      BY <2>2
  <2>4. n + 1 \in Nat
    OBVIOUS
  <2> HIDE DEF h
  <2>5. QED
    BY <2>3, <2>4
<1>4. Nat \subseteq D
  <2> HIDE DEF D
  <2> QED
    BY <1>2, <1>3, InductionOverNat
<1>5. PICK g : \A s \in SUBSET S : Cardinality(s) <= Cardinality(S) => SumsUp(g, f, s)
  BY <1>1, <1>4
<1>6. \A s \in SUBSET S : SumsUp(g, f, s)
  BY <1>5, FS_Subset
<1> DEFINE h == [s \in SUBSET S |-> g[s]]
<1>7. \A s \in SUBSET S : s # {} => s \ {First(s)} \in SUBSET S
  OBVIOUS
<1>8. IsFold(h, f, S)
  BY <1>6, <1>7 DEF SumsUp, IsFold
<1>9. QED
  BY <1>8

\* Two such functions agree where both are defined.
LEMMA FoldsAgree ==
  ASSUME NEW S, IsFiniteSet(S), NEW R \in SUBSET S, NEW f, NEW g, NEW h,
         IsFold(g, f, S), IsFold(h, f, R)
  PROVE  g[R] = h[R]
<1> DEFINE T == {s \in SUBSET R : g[s] = h[s]}
<1>1. ASSUME NEW s \in SUBSET R, \A x \in s : s \ {x} \in T PROVE s \in T
  <2>1. s \in SUBSET S
    OBVIOUS
  <2>2. g[s] = IF s = {} THEN 0 ELSE f[First(s)] + g[s \ {First(s)}]
    BY <2>1 DEF IsFold
  <2>3. h[s] = IF s = {} THEN 0 ELSE f[First(s)] + h[s \ {First(s)}]
    BY DEF IsFold
  <2>4. CASE s = {}
    BY <2>2, <2>3, <2>4
  <2>5. CASE s # {}
    <3>1. First(s) \in s
      BY <2>5 DEF First
    <3>2. QED
      BY <1>1, <2>2, <2>3, <2>5, <3>1
  <2>6. QED
    BY <2>4, <2>5
<1>2. SUBSET R \subseteq T
  <2>1. IsFiniteSet(R)
    BY FS_Subset
  <2> HIDE DEF T
  <2> QED
    BY <1>1, <2>1, InductionOverSubsets
<1>3. QED
  BY <1>2

LEMMA SumIsFold ==
  ASSUME NEW S, IsFiniteSet(S), NEW f
  PROVE  \E g : IsFold(g, f, S) /\ SumFunctionOnSet(f, S) = g[S]
<1> DEFINE g == CHOOSE g : IsFold(g, f, S)
<1>1. IsFold(g, f, S)
  BY FoldExists
<1>2. SumFunctionOnSet(f, S) = g[S]
  BY DEF SumFunctionOnSet, FoldFunctionOnSet, MapThenFoldSet, IsFold, First
<1>3. QED
  BY <1>1, <1>2

\* A sum over nothing.
LEMMA SumEmpty ==
  ASSUME NEW f
  PROVE  SumFunctionOnSet(f, {}) = 0
<1>1. PICK g : IsFold(g, f, {}) /\ SumFunctionOnSet(f, {}) = g[{}]
  BY FS_EmptySet, SumIsFold
<1>2. QED
  BY <1>1 DEF IsFold

LEMMA SumFirst ==
  ASSUME NEW S, IsFiniteSet(S), S # {}, NEW f
  PROVE  /\ First(S) \in S
         /\ SumFunctionOnSet(f, S) = f[First(S)] + SumFunctionOnSet(f, S \ {First(S)})
<1> DEFINE R == S \ {First(S)}
<1>1. First(S) \in S
  BY DEF First
<1>2. PICK g : IsFold(g, f, S) /\ SumFunctionOnSet(f, S) = g[S]
  BY SumIsFold
<1>3. IsFiniteSet(R)
  BY FS_Subset
<1>4. PICK h : IsFold(h, f, R) /\ SumFunctionOnSet(f, R) = h[R]
  BY <1>3, SumIsFold
<1>5. g[R] = h[R]
  <2> HIDE DEF R
  <2>1. R \in SUBSET S
    BY DEF R
  <2> QED
    BY <1>2, <1>4, <2>1, FoldsAgree
<1>6. g[S] = f[First(S)] + g[R]
  BY <1>2 DEF IsFold
<1>7. QED
  BY <1>1, <1>2, <1>4, <1>5, <1>6

\* A sum of numbers is one.
LEMMA SumType ==
  ASSUME NEW S, IsFiniteSet(S), NEW f, \A x \in S : f[x] \in Nat
  PROVE  SumFunctionOnSet(f, S) \in Nat
<1> DEFINE T == {s \in SUBSET S : SumFunctionOnSet(f, s) \in Nat}
<1>1. ASSUME NEW s \in SUBSET S, \A x \in s : s \ {x} \in T PROVE s \in T
  <2>1. CASE s = {}
    BY <2>1, SumEmpty
  <2>2. CASE s # {}
    <3>1. IsFiniteSet(s)
      BY FS_Subset
    <3>2. First(s) \in s /\ SumFunctionOnSet(f, s) = f[First(s)] + SumFunctionOnSet(f, s \ {First(s)})
      BY <2>2, <3>1, SumFirst
    <3>3. SumFunctionOnSet(f, s \ {First(s)}) \in Nat /\ f[First(s)] \in Nat
      BY <1>1, <3>2
    <3>4. QED
      BY <3>2, <3>3
  <2>3. QED
    BY <2>1, <2>2
<1>2. SUBSET S \subseteq T
  <2> HIDE DEF T
  <2> QED
    BY <1>1, InductionOverSubsets
<1>3. QED
  BY <1>2

\* Any element may be taken out of a sum: the order does not matter.
LEMMA SumRemove ==
  ASSUME NEW S, IsFiniteSet(S), NEW f, \A x \in S : f[x] \in Nat, NEW x \in S
  PROVE  SumFunctionOnSet(f, S) = f[x] + SumFunctionOnSet(f, S \ {x})
<1> DEFINE Sum(s) == SumFunctionOnSet(f, s)
<1> DEFINE T == {s \in SUBSET S : \A y \in s : Sum(s) = f[y] + Sum(s \ {y})}
<1>1. \A s \in SUBSET S : IsFiniteSet(s) /\ Sum(s) \in Nat
  BY FS_Subset, SumType
<1>2. ASSUME NEW s \in SUBSET S, \A y \in s : s \ {y} \in T PROVE s \in T
  <2>1. SUFFICES ASSUME NEW y \in s PROVE Sum(s) = f[y] + Sum(s \ {y})
    OBVIOUS
  <2> DEFINE c == First(s)
  <2>2. c \in s /\ Sum(s) = f[c] + Sum(s \ {c})
    BY <1>1, SumFirst
  <2>3. CASE y = c
    BY <2>2, <2>3
  <2>4. CASE y # c
    <3> HIDE DEF c, Sum
    <3>1. y \in s \ {c} /\ c \in s \ {y} /\ (s \ {c}) \ {y} = (s \ {y}) \ {c}
      BY <2>2, <2>4
    <3>2. Sum(s \ {c}) = f[y] + Sum((s \ {c}) \ {y})
      BY <1>2, <2>2, <3>1
    <3>3. Sum(s \ {y}) = f[c] + Sum((s \ {c}) \ {y})
      BY <1>2, <3>1
    <3>4. Sum((s \ {c}) \ {y}) \in Nat /\ f[y] \in Nat /\ f[c] \in Nat
      BY <1>1, <2>2
    <3>5. QED
      BY <2>2, <3>2, <3>3, <3>4
  <2>5. QED
    BY <2>3, <2>4
<1>3. SUBSET S \subseteq T
  <2> HIDE DEF T
  <2> QED
    BY <1>2, InductionOverSubsets
<1>4. QED
  BY <1>3

\* An element more.
LEMMA SumAdd ==
  ASSUME NEW S, IsFiniteSet(S), NEW x, x \notin S, NEW f, \A y \in S \cup {x} : f[y] \in Nat
  PROVE  SumFunctionOnSet(f, S \cup {x}) = f[x] + SumFunctionOnSet(f, S)
<1>1. IsFiniteSet(S \cup {x}) /\ (S \cup {x}) \ {x} = S
  BY FS_AddElement
<1>2. SumFunctionOnSet(f, S \cup {x}) = f[x] + SumFunctionOnSet(f, (S \cup {x}) \ {x})
  BY <1>1, SumRemove
<1>3. QED
  BY <1>1, <1>2


\* A sum depends on the values at the elements, and grows with them.
LEMMA SumEqual ==
  ASSUME NEW S, IsFiniteSet(S), NEW f, NEW g, \A x \in S : f[x] = g[x]
  PROVE  SumFunctionOnSet(f, S) = SumFunctionOnSet(g, S)
<1> DEFINE T == {s \in SUBSET S : SumFunctionOnSet(f, s) = SumFunctionOnSet(g, s)}
<1>1. ASSUME NEW s \in SUBSET S, \A x \in s : s \ {x} \in T PROVE s \in T
  <2>1. CASE s = {}
    BY <2>1, SumEmpty
  <2>2. CASE s # {}
    <3>1. IsFiniteSet(s)
      BY FS_Subset
    <3>2. /\ First(s) \in s
          /\ SumFunctionOnSet(f, s) = f[First(s)] + SumFunctionOnSet(f, s \ {First(s)})
          /\ SumFunctionOnSet(g, s) = g[First(s)] + SumFunctionOnSet(g, s \ {First(s)})
      BY <2>2, <3>1, SumFirst
    <3>3. SumFunctionOnSet(f, s \ {First(s)}) = SumFunctionOnSet(g, s \ {First(s)})
      BY <1>1, <3>2
    <3>4. QED
      BY <3>2, <3>3
  <2>3. QED
    BY <2>1, <2>2
<1>2. SUBSET S \subseteq T
  <2> HIDE DEF T
  <2> QED
    BY <1>1, InductionOverSubsets
<1>3. QED
  BY <1>2

LEMMA SumMonotone ==
  ASSUME NEW S, IsFiniteSet(S), NEW f, NEW g,
         \A x \in S : f[x] \in Nat /\ g[x] \in Nat /\ f[x] <= g[x]
  PROVE  SumFunctionOnSet(f, S) <= SumFunctionOnSet(g, S)
<1> DEFINE T == {s \in SUBSET S : SumFunctionOnSet(f, s) <= SumFunctionOnSet(g, s)}
<1>1. \A s \in SUBSET S : /\ IsFiniteSet(s)
                          /\ SumFunctionOnSet(f, s) \in Nat
                          /\ SumFunctionOnSet(g, s) \in Nat
  BY FS_Subset, SumType
<1>2. ASSUME NEW s \in SUBSET S, \A x \in s : s \ {x} \in T PROVE s \in T
  <2>1. CASE s = {}
    BY <2>1, SumEmpty
  <2>2. CASE s # {}
    <3>1. /\ First(s) \in s
          /\ SumFunctionOnSet(f, s) = f[First(s)] + SumFunctionOnSet(f, s \ {First(s)})
          /\ SumFunctionOnSet(g, s) = g[First(s)] + SumFunctionOnSet(g, s \ {First(s)})
      BY <1>1, <2>2, SumFirst
    <3>2. SumFunctionOnSet(f, s \ {First(s)}) <= SumFunctionOnSet(g, s \ {First(s)})
      BY <1>2, <3>1
    <3>3. /\ f[First(s)] \in Nat /\ g[First(s)] \in Nat /\ f[First(s)] <= g[First(s)]
          /\ SumFunctionOnSet(f, s \ {First(s)}) \in Nat
          /\ SumFunctionOnSet(g, s \ {First(s)}) \in Nat
      BY <1>1, <3>1
    <3>4. SumFunctionOnSet(f, s) <= SumFunctionOnSet(g, s)
      BY <3>1, <3>2, <3>3
    <3>5. QED
      BY <3>4
  <2>3. QED
    BY <2>1, <2>2
<1>3. SUBSET S \subseteq T
  <2> HIDE DEF T
  <2> QED
    BY <1>2, InductionOverSubsets
<1>4. QED
  BY <1>3

\* The sum over two sets that share nothing.
LEMMA SumDisjoint ==
  ASSUME NEW S, NEW R, IsFiniteSet(S), IsFiniteSet(R), S \cap R = {},
         NEW f, \A x \in S \cup R : f[x] \in Nat
  PROVE  SumFunctionOnSet(f, S \cup R) = SumFunctionOnSet(f, S) + SumFunctionOnSet(f, R)
<1> DEFINE Sum(s) == SumFunctionOnSet(f, s)
<1> DEFINE T == {s \in SUBSET S : Sum(s \cup R) = Sum(s) + Sum(R)}
<1>1. /\ Sum(R) \in Nat
      /\ \A s \in SUBSET S : IsFiniteSet(s) /\ IsFiniteSet(s \cup R) /\ Sum(s) \in Nat
  BY FS_Subset, FS_Union, SumType
<1>2. ASSUME NEW s \in SUBSET S, \A x \in s : s \ {x} \in T PROVE s \in T
  <2>1. CASE s = {}
    <3>1. s \cup R = R
      BY <2>1
    <3>2. Sum({}) = 0
      BY SumEmpty
    <3>3. QED
      BY <1>1, <2>1, <3>1, <3>2
  <2>2. CASE s # {}
    <3>1. PICK x \in s : TRUE
      BY <2>2
    <3>2. (s \cup R) \ {x} = (s \ {x}) \cup R
      BY <3>1
    <3>3. Sum(s) = f[x] + Sum(s \ {x})
      BY <1>1, <3>1, SumRemove
    <3>4. Sum(s \cup R) = f[x] + Sum((s \ {x}) \cup R)
      <4>1. Sum(s \cup R) = f[x] + Sum((s \cup R) \ {x})
        BY <1>1, <3>1, SumRemove
      <4> QED
        BY <3>2, <4>1
    <3>5. Sum((s \ {x}) \cup R) = Sum(s \ {x}) + Sum(R)
      BY <1>2, <3>1
    <3>6. f[x] \in Nat /\ Sum(s \ {x}) \in Nat /\ Sum(R) \in Nat
      BY <1>1, <3>1
    <3> HIDE DEF Sum
    <3>7. Sum(s \cup R) = Sum(s) + Sum(R)
      BY <3>3, <3>4, <3>5, <3>6
    <3>8. QED
      BY <3>7
  <2>3. QED
    BY <2>1, <2>2
<1>3. SUBSET S \subseteq T
  <2> HIDE DEF T
  <2> QED
    BY <1>2, InductionOverSubsets
<1>4. QED
  BY <1>3

\* The sum over a part is no more than the whole.
LEMMA SumSubset ==
  ASSUME NEW S, IsFiniteSet(S), NEW R \in SUBSET S, NEW f, \A x \in S : f[x] \in Nat
  PROVE  SumFunctionOnSet(f, R) <= SumFunctionOnSet(f, S)
<1>1. IsFiniteSet(R) /\ IsFiniteSet(S \ R) /\ R \cup (S \ R) = S /\ R \cap (S \ R) = {}
  BY FS_Subset
<1>2. SumFunctionOnSet(f, S) = SumFunctionOnSet(f, R) + SumFunctionOnSet(f, S \ R)
  <2>1. SumFunctionOnSet(f, R \cup (S \ R)) = SumFunctionOnSet(f, R) + SumFunctionOnSet(f, S \ R)
    BY <1>1, SumDisjoint
  <2> QED
    BY <1>1, <2>1
<1>3. SumFunctionOnSet(f, R) \in Nat /\ SumFunctionOnSet(f, S \ R) \in Nat
  BY <1>1, SumType
<1>4. QED
  BY <1>2, <1>3

\* A sum above zero has an element above zero, and one with such an element
\* is above zero.
LEMMA SumPositive ==
  ASSUME NEW S, IsFiniteSet(S), NEW f, \A x \in S : f[x] \in Nat
  PROVE  SumFunctionOnSet(f, S) > 0 <=> \E x \in S : f[x] > 0
<1>1. ASSUME \A x \in S : ~(f[x] > 0) PROVE SumFunctionOnSet(f, S) = 0
  <2> DEFINE zero == [x \in S |-> 0]
  <2> DEFINE T == {s \in SUBSET S : SumFunctionOnSet(f, s) = 0}
  <2>1. ASSUME NEW s \in SUBSET S, \A x \in s : s \ {x} \in T PROVE s \in T
    <3>1. CASE s = {}
      BY <3>1, SumEmpty
    <3>2. CASE s # {}
      <4>1. /\ First(s) \in s
            /\ SumFunctionOnSet(f, s) = f[First(s)] + SumFunctionOnSet(f, s \ {First(s)})
        BY <3>2, FS_Subset, SumFirst
      <4>2. SumFunctionOnSet(f, s \ {First(s)}) = 0 /\ f[First(s)] = 0
        BY <1>1, <2>1, <4>1
      <4>3. QED
        BY <4>1, <4>2
    <3>3. QED
      BY <3>1, <3>2
  <2>2. SUBSET S \subseteq T
    <3> HIDE DEF T
    <3> QED
      BY <2>1, InductionOverSubsets
  <2>3. QED
    BY <2>2
<1>2. ASSUME NEW x \in S, f[x] > 0 PROVE SumFunctionOnSet(f, S) > 0
  <2>1. SumFunctionOnSet(f, S) = f[x] + SumFunctionOnSet(f, S \ {x})
    BY SumRemove
  <2>2. SumFunctionOnSet(f, S \ {x}) \in Nat /\ f[x] \in Nat
    BY FS_Subset, SumType
  <2>3. QED
    BY <1>2, <2>1, <2>2
<1>3. QED
  BY <1>1, <1>2

\* Parts of a finite set that share nothing have, together, no more elements
\* than it.
LEMMA SumOfParts ==
  ASSUME NEW U, IsFiniteSet(U), NEW S, IsFiniteSet(S), NEW part, NEW f,
         \A x \in S : part[x] \subseteq U /\ f[x] = Cardinality(part[x]),
         \A x, y \in S : x # y => part[x] \cap part[y] = {}
  PROVE  SumFunctionOnSet(f, S) <= Cardinality(U)
<1> DEFINE all(s) == UNION {part[x] : x \in s}
<1> DEFINE T == {s \in SUBSET S : SumFunctionOnSet(f, s) = Cardinality(all(s))}
<1>1. \A x \in S : IsFiniteSet(part[x]) /\ f[x] \in Nat
  BY FS_Subset, FS_CardinalityType
<1>2. ASSUME NEW s \in SUBSET S PROVE IsFiniteSet(s) /\ IsFiniteSet(all(s)) /\ all(s) \subseteq U
  <2>1. all(s) \subseteq U
    OBVIOUS
  <2>2. QED
    BY <2>1, FS_Subset
<1>3. ASSUME NEW s \in SUBSET S, \A x \in s : s \ {x} \in T PROVE s \in T
  <2>1. CASE s = {}
    <3>1. all(s) = {}
      BY <2>1
    <3>2. QED
      BY <2>1, <3>1, SumEmpty, FS_EmptySet
  <2>2. CASE s # {}
    <3>1. PICK x \in s : TRUE
      BY <2>2
    <3> DEFINE rest == s \ {x}
    <3>2. all(s) = all(rest) \cup part[x]
      BY <3>1
    <3>3. all(rest) \cap part[x] = {}
      BY <3>1
    <3>4. IsFiniteSet(all(rest)) /\ IsFiniteSet(part[x])
      BY <1>1, <1>2, <3>1
    <3>5. Cardinality(all(s)) = Cardinality(all(rest)) + Cardinality(part[x])
      <4> HIDE DEF all, rest
      <4>1. Cardinality(all(rest) \cap part[x]) = 0
        BY <3>3, FS_EmptySet
      <4>2. /\ Cardinality(all(rest) \cup part[x]) = Cardinality(all(rest))
                 + Cardinality(part[x]) - Cardinality(all(rest) \cap part[x])
            /\ Cardinality(all(rest)) \in Nat /\ Cardinality(part[x]) \in Nat
        BY <3>4, FS_Union, FS_CardinalityType
      <4>3. QED
        BY <3>2, <4>1, <4>2
    <3>6. SumFunctionOnSet(f, s) = f[x] + SumFunctionOnSet(f, rest)
      <4>1. IsFiniteSet(s) /\ \A y \in s : f[y] \in Nat
        BY <1>1, <1>2
      <4> QED
        BY <3>1, <4>1, SumRemove
    <3>7. SumFunctionOnSet(f, rest) = Cardinality(all(rest)) /\ f[x] = Cardinality(part[x])
      BY <1>3, <3>1
    <3>8. Cardinality(all(rest)) \in Nat /\ Cardinality(part[x]) \in Nat
      BY <3>4, FS_CardinalityType
    <3> HIDE DEF all, rest
    <3>9. SumFunctionOnSet(f, s) = Cardinality(all(s))
      BY <3>5, <3>6, <3>7, <3>8
    <3>10. QED
      BY <3>9
  <2>3. QED
    BY <2>1, <2>2
<1>4. SUBSET S \subseteq T
  <2> HIDE DEF T
  <2> QED
    BY <1>3, InductionOverSubsets
<1>5. SumFunctionOnSet(f, S) = Cardinality(all(S))
  BY <1>4
<1>6. IsFiniteSet(U) /\ all(S) \subseteq U
  BY <1>2
<1>7. Cardinality(all(S)) <= Cardinality(U)
  <2> HIDE DEF all
  <2> QED
    BY <1>6, FS_Subset
<1>8. QED
  BY <1>5, <1>7

\* A sum is no more than its greatest element so many times.
LEMMA SumBounded ==
  ASSUME NEW S, IsFiniteSet(S), NEW f, NEW n \in Nat, \A x \in S : f[x] \in Nat /\ f[x] <= n
  PROVE  SumFunctionOnSet(f, S) <= n * Cardinality(S)
<1> DEFINE T == {s \in SUBSET S : SumFunctionOnSet(f, s) <= n * Cardinality(s)}
<1>1. \A s \in SUBSET S : IsFiniteSet(s) /\ SumFunctionOnSet(f, s) \in Nat /\ Cardinality(s) \in Nat
  BY FS_Subset, FS_CardinalityType, SumType
<1>2. ASSUME NEW s \in SUBSET S, \A x \in s : s \ {x} \in T PROVE s \in T
  <2>1. CASE s = {}
    BY <2>1, SumEmpty, FS_EmptySet
  <2>2. CASE s # {}
    <3> DEFINE r == s \ {First(s)}
    <3>1. First(s) \in s /\ SumFunctionOnSet(f, s) = f[First(s)] + SumFunctionOnSet(f, r)
      BY <1>1, <2>2, SumFirst
    <3>2. Cardinality(r) = Cardinality(s) - 1
      BY <1>1, <3>1, FS_RemoveElement
    <3>3. SumFunctionOnSet(f, r) <= n * Cardinality(r)
      BY <1>2, <3>1
    <3>4. /\ f[First(s)] \in Nat /\ f[First(s)] <= n
          /\ SumFunctionOnSet(f, r) \in Nat /\ Cardinality(s) \in Nat
      BY <1>1, <3>1
    <3>5. n * Cardinality(s) = n * Cardinality(r) + n
      BY <3>2, <3>4
    <3> HIDE DEF r
    <3>6. SumFunctionOnSet(f, s) <= n * Cardinality(s)
      BY <3>1, <3>2, <3>3, <3>4, <3>5
    <3>7. QED
      BY <3>6
  <2>3. QED
    BY <2>1, <2>2
<1>3. SUBSET S \subseteq T
  <2> HIDE DEF T
  <2> QED
    BY <1>2, InductionOverSubsets
<1>4. QED
  BY <1>3

\* Sums over parts that share nothing are together no more than the sum over
\* the whole.
LEMMA SumOfSums ==
  ASSUME NEW U, IsFiniteSet(U), NEW g, \A u \in U : g[u] \in Nat,
         NEW S, IsFiniteSet(S), NEW part, NEW f,
         \A x \in S : part[x] \subseteq U /\ f[x] = SumFunctionOnSet(g, part[x]),
         \A x, y \in S : x # y => part[x] \cap part[y] = {}
  PROVE  SumFunctionOnSet(f, S) <= SumFunctionOnSet(g, U)
<1> DEFINE all(s) == UNION {part[x] : x \in s}
<1> DEFINE T == {s \in SUBSET S : SumFunctionOnSet(f, s) = SumFunctionOnSet(g, all(s))}
<1>1. \A x \in S : IsFiniteSet(part[x]) /\ f[x] \in Nat
  <2>1. ASSUME NEW x \in S PROVE IsFiniteSet(part[x]) /\ \A u \in part[x] : g[u] \in Nat
    BY FS_Subset
  <2>2. QED
    BY <2>1, SumType
<1>2. ASSUME NEW s \in SUBSET S PROVE IsFiniteSet(s) /\ IsFiniteSet(all(s)) /\ all(s) \subseteq U
  <2>1. all(s) \subseteq U
    OBVIOUS
  <2>2. QED
    BY <2>1, FS_Subset
<1>3. ASSUME NEW s \in SUBSET S, \A x \in s : s \ {x} \in T PROVE s \in T
  <2>1. CASE s = {}
    <3>1. all(s) = {}
      BY <2>1
    <3>2. QED
      BY <2>1, <3>1, SumEmpty
  <2>2. CASE s # {}
    <3>1. PICK x \in s : TRUE
      BY <2>2
    <3> DEFINE rest == s \ {x}
    <3>2. all(s) = all(rest) \cup part[x]
      BY <3>1
    <3>3. all(rest) \cap part[x] = {}
      BY <3>1
    <3>4. /\ IsFiniteSet(all(rest)) /\ IsFiniteSet(part[x])
          /\ \A u \in all(rest) \cup part[x] : g[u] \in Nat
      BY <1>1, <1>2, <3>1
    <3>5. SumFunctionOnSet(g, all(s)) = SumFunctionOnSet(g, all(rest)) + SumFunctionOnSet(g, part[x])
      <4> HIDE DEF all, rest
      <4>1. SumFunctionOnSet(g, all(rest) \cup part[x])
              = SumFunctionOnSet(g, all(rest)) + SumFunctionOnSet(g, part[x])
        BY <3>3, <3>4, SumDisjoint
      <4>2. QED
        BY <3>2, <4>1
    <3>6. SumFunctionOnSet(f, s) = f[x] + SumFunctionOnSet(f, rest)
      <4>1. IsFiniteSet(s) /\ \A y \in s : f[y] \in Nat
        BY <1>1, <1>2
      <4> QED
        BY <3>1, <4>1, SumRemove
    <3>7. /\ SumFunctionOnSet(f, rest) = SumFunctionOnSet(g, all(rest))
          /\ f[x] = SumFunctionOnSet(g, part[x])
      BY <1>3, <3>1
    <3>8. SumFunctionOnSet(g, all(rest)) \in Nat /\ SumFunctionOnSet(g, part[x]) \in Nat
      BY <3>4, SumType
    <3> HIDE DEF all, rest
    <3>9. SumFunctionOnSet(f, s) = SumFunctionOnSet(g, all(s))
      BY <3>5, <3>6, <3>7, <3>8
    <3>10. QED
      BY <3>9
  <2>3. QED
    BY <2>1, <2>2
<1>4. SUBSET S \subseteq T
  <2> HIDE DEF T
  <2> QED
    BY <1>3, InductionOverSubsets
<1>5. SumFunctionOnSet(f, S) = SumFunctionOnSet(g, all(S))
  BY <1>4
<1>6. all(S) \in SUBSET U
  BY <1>2
<1>7. SumFunctionOnSet(g, all(S)) <= SumFunctionOnSet(g, U)
  <2> HIDE DEF all
  <2> QED
    BY <1>6, SumSubset
<1>8. QED
  BY <1>5, <1>7

-----------------------------------------------------------------------------
(* Positions and lists of lists.                                          *)

\* A set of positions that is not empty has a last one.
LEMMA MaxIsLast ==
  ASSUME NEW n \in Nat, NEW T, T \subseteq 1..n, T # {}
  PROVE  /\ Max(T) \in T
         /\ \A x \in T : x <= Max(T)
<1> DEFINE Above == {m \in Nat : \A x \in T : x <= m}
<1>1. n \in Above /\ Above \subseteq Nat
  OBVIOUS
<1>2. PICK m \in Above : \A k \in Above : m <= k
  <2> HIDE DEF Above
  <2>1. QED
    BY <1>1, LeastElement
<1>3. m \in T
  <2>1. SUFFICES ASSUME m \notin T PROVE FALSE
    OBVIOUS
  <2>2. PICK x \in T : TRUE
    OBVIOUS
  <2>3. \A y \in T : y \in Nat /\ y <= m /\ y # m /\ y >= 1
    BY <2>1
  <2>4. m - 1 \in Nat /\ \A y \in T : y <= m - 1
    BY <2>2, <2>3
  <2>5. m - 1 \in Above
    BY <2>4
  <2>6. QED
    BY <1>2, <2>5
<1>4. \A x \in T : m >= x
  OBVIOUS
<1>5. Max(T) \in T /\ \A x \in T : Max(T) >= x
  BY <1>3, <1>4 DEF Max
<1>6. QED
  BY <1>5

\* And so has a finite set of numbers.
LEMMA MaxIsGreatest ==
  ASSUME NEW T, T \subseteq Nat, IsFiniteSet(T), T # {}
  PROVE  /\ Max(T) \in T
         /\ \A x \in T : x <= Max(T)
<1> DEFINE D == {s \in SUBSET T : s = {} \/ \E m \in s : \A x \in s : m >= x}
<1>1. ASSUME NEW s \in SUBSET T, \A x \in s : s \ {x} \in D PROVE s \in D
  <2>1. CASE s = {}
    BY <2>1
  <2>2. CASE s # {}
    <3>1. PICK x \in s : TRUE
      BY <2>2
    <3>2. CASE s \ {x} = {}
      BY <3>1, <3>2
    <3>3. CASE s \ {x} # {}
      <4>1. PICK m \in s \ {x} : \A y \in s \ {x} : m >= y
        BY <1>1, <3>1, <3>3
      <4>2. m \in Nat /\ x \in Nat
        BY <3>1, <4>1
      <4>3. \A y \in s : y \in Nat /\ (y = x \/ m >= y)
        BY <4>1
      <4>4. IF m >= x THEN \A y \in s : m >= y ELSE \A y \in s : x >= y
        BY <4>2, <4>3
      <4>5. QED
        BY <3>1, <4>1, <4>4
    <3>4. QED
      BY <3>2, <3>3
  <2>3. QED
    BY <2>1, <2>2
<1>2. SUBSET T \subseteq D
  <2> HIDE DEF D
  <2>1. QED
    BY <1>1, InductionOverSubsets
<1>3. PICK m \in T : \A x \in T : m >= x
  BY <1>2
<1>4. Max(T) \in T /\ \A x \in T : Max(T) >= x
  BY <1>3 DEF Max
<1>5. QED
  BY <1>4

\* The recursive function of FlattenSeq exists.
LEMMA JoinedExists ==
  ASSUME NEW lists, NEW n \in Nat
  PROVE  \E f : f = [i \in 1..n |-> IF i = 1 THEN lists[i] ELSE f[i - 1] \o lists[i]]
<1> DEFINE Is(f, m) == f = [i \in 1..m |-> IF i = 1 THEN lists[i] ELSE f[i - 1] \o lists[i]]
           T == {m \in Nat : \E f : Is(f, m)}
<1>1. 0 \in T
  <2>1. Is([i \in 1..0 |-> 0], 0)
    OBVIOUS
  <2>2. QED
    BY <2>1
<1>2. ASSUME NEW m \in Nat, m \in T PROVE m + 1 \in T
  <2>1. PICK f : Is(f, m)
    BY <1>2
  <2> DEFINE g == [i \in 1..(m + 1) |-> IF i \in 1..m THEN f[i]
                                        ELSE IF i = 1 THEN lists[i] ELSE f[i - 1] \o lists[i]]
  <2>2. \A i \in 1..(m + 1) : g[i] = IF i = 1 THEN lists[i] ELSE g[i - 1] \o lists[i]
    <3>1. ASSUME NEW i \in 1..m PROVE g[i] = IF i = 1 THEN lists[i] ELSE g[i - 1] \o lists[i]
      <4>1. g[i] = f[i] /\ (i # 1 => g[i - 1] = f[i - 1])
        OBVIOUS
      <4>2. f[i] = IF i = 1 THEN lists[i] ELSE f[i - 1] \o lists[i]
        BY <2>1
      <4>3. QED
        BY <4>1, <4>2
    <3>2. g[m + 1] = IF m + 1 = 1 THEN lists[m + 1] ELSE g[m + 1 - 1] \o lists[m + 1]
      <4>1. m + 1 \in 1..(m + 1) /\ m + 1 \notin 1..m /\ m + 1 - 1 = m
        OBVIOUS
      <4>2. g[m + 1] = IF m + 1 = 1 THEN lists[m + 1] ELSE f[m + 1 - 1] \o lists[m + 1]
        BY <4>1
      <4>3. m + 1 # 1 => m \in 1..(m + 1) /\ m \in 1..m
        OBVIOUS
      <4>4. m + 1 # 1 => g[m] = f[m]
        BY <4>3
      <4> HIDE DEF g
      <4>5. QED
        BY <4>1, <4>2, <4>4
    <3>3. \A i \in 1..(m + 1) : i \in 1..m \/ i = m + 1
      OBVIOUS
    <3> HIDE DEF g
    <3>4. QED
      BY <3>1, <3>2, <3>3
  <2>3. Is(g, m + 1)
    <3>1. g = [i \in 1..(m + 1) |-> g[i]]
      OBVIOUS
    <3> HIDE DEF g
    <3>2. QED
      BY <2>2, <3>1
  <2>4. \E h : Is(h, m + 1)
    BY <2>3
  <2> HIDE DEF Is
  <2>5. QED
    BY <2>4
<1>3. Nat \subseteq T
  <2> HIDE DEF T
  <2>1. QED
    BY <1>1, <1>2, InductionOverNat
<1>4. QED
  BY <1>3

\* The list of the elements of lists of S is a list of S.
LEMMA FlattenedIsList ==
  ASSUME NEW S, NEW lists \in Seq(Seq(S))
  PROVE  FlattenSeq(lists) \in Seq(S)
<1> DEFINE n == Len(lists)
<1>1. n \in Nat /\ \A i \in 1..n : lists[i] \in Seq(S)
  OBVIOUS
<1>2. CASE n = 0
  BY <1>2 DEF FlattenSeq
<1>3. CASE n # 0
  <2> DEFINE f == CHOOSE f : f = [i \in 1..n |-> IF i = 1 THEN lists[i] ELSE f[i - 1] \o lists[i]]
  <2>1. f = [i \in 1..n |-> IF i = 1 THEN lists[i] ELSE f[i - 1] \o lists[i]]
    BY <1>1, JoinedExists
  <2>2. FlattenSeq(lists) = f[n]
    BY <1>3 DEF FlattenSeq
  <2> HIDE DEF f
  <2> DEFINE T == {m \in Nat : m + 1 <= n => f[m + 1] \in Seq(S)}
  <2>3. 0 \in T
    <3>1. 1 <= n => 1 \in 1..n /\ lists[1] \in Seq(S)
      BY <1>1
    <3>2. QED
      BY <2>1, <3>1
  <2>4. ASSUME NEW m \in Nat, m \in T PROVE m + 1 \in T
    <3>1. SUFFICES ASSUME (m + 1) + 1 <= n PROVE f[(m + 1) + 1] \in Seq(S)
      OBVIOUS
    <3>2. (m + 1) + 1 \in 1..n /\ (m + 1) + 1 # 1 /\ ((m + 1) + 1) - 1 = m + 1
      BY <1>1, <3>1
    <3>3. f[(m + 1) + 1] = f[m + 1] \o lists[(m + 1) + 1]
      BY <2>1, <3>2
    <3>4. f[m + 1] \in Seq(S) /\ lists[(m + 1) + 1] \in Seq(S)
      BY <1>1, <2>4, <3>1, <3>2
    <3>5. QED
      BY <3>3, <3>4
  <2>5. Nat \subseteq T
    <3> HIDE DEF T
    <3> QED
      BY <2>3, <2>4, InductionOverNat
  <2>6. n - 1 \in Nat /\ (n - 1) + 1 = n /\ n <= n
    BY <1>1, <1>3
  <2>7. n - 1 \in T
    BY <2>5, <2>6
  <2> HIDE DEF n
  <2>8. f[(n - 1) + 1] \in Seq(S)
    BY <2>6, <2>7
  <2>9. QED
    BY <2>2, <2>6, <2>8
<1>4. QED
  BY <1>2, <1>3

\* Two lists joined have the elements of both.
LEMMA ConcatElements ==
  ASSUME NEW S, NEW s \in Seq(S), NEW t \in Seq(S)
  PROVE  s \o t \in Seq(S) /\ ToSet(s \o t) = ToSet(s) \cup ToSet(t)
<1>1. /\ s \o t \in Seq(S) /\ Len(s \o t) = Len(s) + Len(t)
      /\ \A i \in 1..(Len(s) + Len(t)) : (s \o t)[i] = IF i <= Len(s) THEN s[i] ELSE t[i - Len(s)]
      /\ Len(s) \in Nat /\ Len(t) \in Nat
      /\ DOMAIN s = 1..Len(s) /\ DOMAIN t = 1..Len(t) /\ DOMAIN (s \o t) = 1..Len(s \o t)
  BY ConcatProperties, LenProperties
<1>2. ASSUME NEW i \in DOMAIN (s \o t) PROVE (s \o t)[i] \in ToSet(s) \cup ToSet(t)
  <2>1. CASE i <= Len(s)
    BY <1>1, <1>2, <2>1 DEF ToSet
  <2>2. CASE i > Len(s)
    <3>1. i - Len(s) \in DOMAIN t /\ (s \o t)[i] = t[i - Len(s)]
      BY <1>1, <2>2
    <3>2. QED
      BY <3>1 DEF ToSet
  <2>3. QED
    BY <1>1, <2>1, <2>2
<1>3. ASSUME NEW i \in DOMAIN s PROVE s[i] \in ToSet(s \o t)
  <2>1. i \in DOMAIN (s \o t) /\ (s \o t)[i] = s[i]
    BY <1>1
  <2>2. QED
    BY <2>1 DEF ToSet
<1>4. ASSUME NEW i \in DOMAIN t PROVE t[i] \in ToSet(s \o t)
  <2>1. i + Len(s) \in DOMAIN (s \o t) /\ (i + Len(s)) - Len(s) = i /\ ~(i + Len(s) <= Len(s))
    BY <1>1
  <2>2. (s \o t)[i + Len(s)] = t[i]
    BY <1>1, <2>1
  <2>3. QED
    BY <2>1, <2>2 DEF ToSet
<1>5. QED
  BY <1>1, <1>2, <1>3, <1>4 DEF ToSet

\* A list of lists joined has the elements of all of them.
LEMMA FlattenedElements ==
  ASSUME NEW S, NEW lists \in Seq(Seq(S))
  PROVE  ToSet(FlattenSeq(lists)) = UNION {ToSet(lists[i]) : i \in DOMAIN lists}
<1> DEFINE n == Len(lists)
           Of(m) == UNION {ToSet(lists[i]) : i \in 1..m}
<1>1. n \in Nat /\ DOMAIN lists = 1..n /\ \A i \in 1..n : lists[i] \in Seq(S)
  OBVIOUS
<1>2. CASE n = 0
  <2>1. FlattenSeq(lists) = <<>> /\ DOMAIN lists = {}
    BY <1>1, <1>2 DEF FlattenSeq
  <2>2. QED
    BY <2>1 DEF ToSet
<1>3. CASE n # 0
  <2> DEFINE f == CHOOSE f : f = [i \in 1..n |-> IF i = 1 THEN lists[i] ELSE f[i - 1] \o lists[i]]
  <2>1. f = [i \in 1..n |-> IF i = 1 THEN lists[i] ELSE f[i - 1] \o lists[i]]
    BY <1>1, JoinedExists
  <2>2. FlattenSeq(lists) = f[n]
    BY <1>3 DEF FlattenSeq
  <2> HIDE DEF f
  <2> DEFINE T == {m \in Nat : m + 1 <= n => f[m + 1] \in Seq(S) /\ ToSet(f[m + 1]) = Of(m + 1)}
  <2>3. 0 \in T
    <3>1. 1 <= n => 1 \in 1..n /\ lists[1] \in Seq(S)
      BY <1>1
    <3>2. Of(0 + 1) = ToSet(lists[1])
      OBVIOUS
    <3> HIDE DEF Of
    <3>3. QED
      BY <2>1, <3>1, <3>2
  <2>4. ASSUME NEW m \in Nat, m \in T PROVE m + 1 \in T
    <3>1. SUFFICES ASSUME (m + 1) + 1 <= n
                   PROVE  f[(m + 1) + 1] \in Seq(S) /\ ToSet(f[(m + 1) + 1]) = Of((m + 1) + 1)
      OBVIOUS
    <3>2. (m + 1) + 1 \in 1..n /\ (m + 1) + 1 # 1 /\ ((m + 1) + 1) - 1 = m + 1
      BY <1>1, <3>1
    <3>3. f[(m + 1) + 1] = f[m + 1] \o lists[(m + 1) + 1]
      BY <2>1, <3>2
    <3>4. f[m + 1] \in Seq(S) /\ lists[(m + 1) + 1] \in Seq(S) /\ ToSet(f[m + 1]) = Of(m + 1)
      BY <1>1, <2>4, <3>1, <3>2
    <3>5. \A s, t \in Seq(S) : s \o t \in Seq(S) /\ ToSet(s \o t) = ToSet(s) \cup ToSet(t)
      BY ConcatElements
    <3>6. Of((m + 1) + 1) = Of(m + 1) \cup ToSet(lists[(m + 1) + 1])
      <4>1. 1..((m + 1) + 1) = 1..(m + 1) \cup {(m + 1) + 1}
        OBVIOUS
      <4>2. QED
        BY <4>1
    <3> HIDE DEF Of
    <3>7. QED
      BY <3>3, <3>4, <3>5, <3>6
  <2>5. Nat \subseteq T
    <3> HIDE DEF T
    <3> QED
      BY <2>3, <2>4, InductionOverNat
  <2>6. n - 1 \in Nat /\ (n - 1) + 1 = n /\ n <= n
    BY <1>1, <1>3
  <2>7. n - 1 \in T
    BY <2>5, <2>6
  <2> HIDE DEF n, Of
  <2>8. ToSet(f[(n - 1) + 1]) = Of((n - 1) + 1)
    BY <2>6, <2>7
  <2>9. Of(n) = UNION {ToSet(lists[i]) : i \in DOMAIN lists}
    BY <1>1 DEF Of
  <2>10. QED
    BY <2>2, <2>6, <2>8, <2>9
<1>4. QED
  BY <1>2, <1>3

\* Where the elements of each list have its number for their rank, the ranks
\* rise in the joined list.
Rises(s, rank) == \A i, j \in DOMAIN s : i < j => rank[s[i]] <= rank[s[j]]

LEMMA FlattenedRises ==
  ASSUME NEW S, NEW lists \in Seq(Seq(S)), NEW rank,
         \A i \in DOMAIN lists : \A x \in ToSet(lists[i]) : rank[x] = i
  PROVE  Rises(FlattenSeq(lists), rank)
<1> DEFINE n == Len(lists)
           Low(s, m) == \A i \in DOMAIN s : rank[s[i]] \in 1..m
<1>1. n \in Nat /\ DOMAIN lists = 1..n /\ \A i \in 1..n : lists[i] \in Seq(S)
  OBVIOUS
<1>2. CASE n = 0
  <2>1. FlattenSeq(lists) = <<>>
    BY <1>1, <1>2 DEF FlattenSeq
  <2>2. QED
    BY <2>1 DEF Rises
<1>3. CASE n # 0
  <2> DEFINE f == CHOOSE f : f = [i \in 1..n |-> IF i = 1 THEN lists[i] ELSE f[i - 1] \o lists[i]]
  <2>1. f = [i \in 1..n |-> IF i = 1 THEN lists[i] ELSE f[i - 1] \o lists[i]]
    BY <1>1, JoinedExists
  <2>2. FlattenSeq(lists) = f[n]
    BY <1>3 DEF FlattenSeq
  <2> HIDE DEF f
  <2> DEFINE T == {m \in Nat : m + 1 <= n => /\ f[m + 1] \in Seq(S)
                                             /\ Low(f[m + 1], m + 1) /\ Rises(f[m + 1], rank)}
  <2>3. \A m \in 1..n : \A i \in DOMAIN lists[m] : rank[lists[m][i]] = m
    BY <1>1 DEF ToSet
  <2>4. 0 \in T
    <3>1. SUFFICES ASSUME 1 <= n PROVE f[1] \in Seq(S) /\ Low(f[1], 1) /\ Rises(f[1], rank)
      OBVIOUS
    <3>2. f[1] = lists[1] /\ lists[1] \in Seq(S) /\ 1 \in 1..n
      BY <1>1, <2>1, <3>1
    <3>3. \A i \in DOMAIN f[1] : rank[f[1][i]] = 1
      BY <2>3, <3>2
    <3>4. QED
      BY <3>2, <3>3 DEF Rises
  <2>5. ASSUME NEW m \in Nat, m \in T PROVE m + 1 \in T
    <3> DEFINE s == f[m + 1]  t == lists[(m + 1) + 1]  u == f[(m + 1) + 1]
    <3>1. SUFFICES ASSUME (m + 1) + 1 <= n
                   PROVE  u \in Seq(S) /\ Low(u, (m + 1) + 1) /\ Rises(u, rank)
      OBVIOUS
    <3>2. (m + 1) + 1 \in 1..n /\ (m + 1) + 1 # 1 /\ ((m + 1) + 1) - 1 = m + 1
      BY <1>1, <3>1
    <3>3. u = s \o t
      BY <2>1, <3>2
    <3>4. s \in Seq(S) /\ t \in Seq(S) /\ Low(s, m + 1) /\ Rises(s, rank)
      BY <1>1, <2>5, <3>1, <3>2
    <3>5. \A i \in DOMAIN t : rank[t[i]] = m + 2
      BY <2>3, <3>2
    <3> HIDE DEF s, t, u
    <3>6. /\ u \in Seq(S) /\ DOMAIN u = 1..(Len(s) + Len(t))
          /\ \A i \in DOMAIN u : \/ i \in DOMAIN s /\ u[i] = s[i]
                                 \/ i - Len(s) \in DOMAIN t /\ i > Len(s) /\ u[i] = t[i - Len(s)]
      BY <3>3, <3>4
    <3>7. \A i \in DOMAIN s : rank[s[i]] \in 1..(m + 1)
      BY <3>4
    <3>8. \A i \in DOMAIN u : rank[u[i]] \in 1..(m + 2)
      <4>1. SUFFICES ASSUME NEW i \in DOMAIN u PROVE rank[u[i]] \in 1..(m + 2)
        OBVIOUS
      <4>2. CASE i \in DOMAIN s /\ u[i] = s[i]
        <5>1. rank[u[i]] \in 1..(m + 1)
          BY <3>7, <4>2
        <5>2. QED
          BY <5>1
      <4>3. CASE i - Len(s) \in DOMAIN t /\ u[i] = t[i - Len(s)]
        <5>1. rank[u[i]] = m + 2
          BY <3>5, <4>3
        <5>2. QED
          BY <5>1
      <4>4. QED
        BY <3>6, <4>2, <4>3
    <3>9. ASSUME NEW i \in DOMAIN u, NEW j \in DOMAIN u, i < j PROVE rank[u[i]] <= rank[u[j]]
      <4>1. CASE j \in DOMAIN s /\ u[j] = s[j]
        <5>1. i \in DOMAIN s /\ i \in Nat /\ j \in Nat /\ i <= Len(s)
          BY <3>4, <3>6, <3>9, <4>1
        <5>2. u[i] = s[i]
          BY <3>6, <5>1
        <5>3. QED
          BY <3>4, <3>9, <4>1, <5>1, <5>2 DEF Rises
      <4>2. CASE j - Len(s) \in DOMAIN t /\ u[j] = t[j - Len(s)]
        <5>1. rank[u[j]] = m + 2
          BY <3>5, <4>2
        <5>2. QED
          BY <3>8, <5>1
      <4>3. QED
        BY <3>6, <4>1, <4>2
    <3>10. QED
      BY <3>6, <3>8, <3>9 DEF Rises
  <2>6. Nat \subseteq T
    <3> HIDE DEF T
    <3> QED
      BY <2>4, <2>5, InductionOverNat
  <2>7. n - 1 \in Nat /\ (n - 1) + 1 = n /\ n <= n
    BY <1>1, <1>3
  <2>8. n - 1 \in T
    BY <2>6, <2>7
  <2> HIDE DEF n, Low
  <2>9. Rises(f[(n - 1) + 1], rank)
    BY <2>7, <2>8
  <2>10. QED
    BY <2>2, <2>7, <2>9
<1>4. QED
  BY <1>2, <1>3

=============================================================================
