----------------------------- MODULE QuotaLemmas -----------------------------
(***************************************************************************)
(* What the proofs about both quotas need to know of the bytes of a period *)
(* and of the order of period keys.  The first part is about sums of a     *)
(* table over any finite set: what the fold of the community modules       *)
(* computes, and how it changes with the table and with the set.  Its      *)
(* inductions go over sets of naturals, by the theorem that < is           *)
(* well-founded on Nat.                                                    *)
(***************************************************************************)
EXTENDS QuotaPeriods, FiniteSetTheorems, WellFoundedInduction, TLAPS

Sum(t, S) == MapThenSumSet(LAMBDA x : t[x], S)

Chosen(s) == CHOOSE x \in s : TRUE

-----------------------------------------------------------------------------
(* Induction.                                                              *)

LEMMA LeastElement ==
    ASSUME NEW T, T \subseteq Nat, T # {}
    PROVE  \E n \in T : \A m \in T : n <= m
<1>1. IsWellFoundedOn(OpToRel(<, Nat), Nat)
    BY NatLessThanWellFounded
<1>2. PICK n \in T : \A m \in T : ~ (<<m, n>> \in OpToRel(<, Nat))
    BY <1>1, WFMin
<1>3. \A m \in T : ~ (m < n)
    BY <1>2 DEF OpToRel
<1> QED BY <1>3

LEMMA NatInduct ==
    ASSUME NEW T, 0 \in T, \A n \in Nat : n \in T => n + 1 \in T
    PROVE  Nat \subseteq T
<1> SUFFICES ASSUME Nat \ T # {} PROVE FALSE
    OBVIOUS
<1>1. PICK n \in Nat \ T : \A m \in Nat \ T : n <= m
    BY LeastElement
<1>2. n # 0 /\ n - 1 \in Nat /\ n - 1 \notin Nat \ T
    BY <1>1
<1> QED BY <1>1, <1>2

\* A set of subsets that has each subset whose proper subsets it has.
LEMMA SubsetInduct ==
    ASSUME NEW S, IsFiniteSet(S), NEW T,
           \A s \in SUBSET S : (\A r \in SUBSET s : r # s => r \in T) => s \in T
    PROVE  SUBSET S \subseteq T
<1> SUFFICES ASSUME NEW b \in SUBSET S, b \notin T PROVE FALSE
    OBVIOUS
<1> DEFINE Sizes == {Cardinality(s) : s \in (SUBSET S) \ T}
<1>1. \A s \in SUBSET S : IsFiniteSet(s) /\ Cardinality(s) \in Nat
    BY FS_Subset, FS_CardinalityType
<1>2. PICK n \in Sizes : \A m \in Sizes : n <= m
  <2>1. Sizes \subseteq Nat
    BY <1>1
  <2>2. Cardinality(b) \in Sizes
    OBVIOUS
  <2> HIDE DEF Sizes
  <2> QED BY <2>1, <2>2, LeastElement
<1>3. PICK s \in (SUBSET S) \ T : n = Cardinality(s)
    BY <1>2
<1>4. ASSUME NEW r \in SUBSET s, r # s PROVE r \in T
  <2>1. Cardinality(r) <= Cardinality(s) /\ Cardinality(r) # Cardinality(s)
    BY <1>1, <1>4, FS_Subset
  <2>2. Cardinality(r) \in Nat /\ Cardinality(s) \in Nat /\ r \in SUBSET S
    BY <1>1
  <2>3. r \notin (SUBSET S) \ T
    BY <1>2, <1>3, <2>1, <2>2
  <2> QED BY <2>2, <2>3
<1> QED BY <1>3, <1>4

-----------------------------------------------------------------------------
(* The recursive function behind the fold exists, and two of them agree.   *)

Body(t, f, s) == IF s = {} THEN 0 ELSE t[Chosen(s)] + f[s \ {Chosen(s)}]

Equation(t, S, f) == f = [s \in SUBSET S |-> Body(t, f, s)]

LEMMA SumUnfolds ==
    ASSUME NEW t, NEW S
    PROVE  Sum(t, S) = (CHOOSE f : Equation(t, S, f))[S]
BY DEF Sum, MapThenSumSet, MapThenFoldSet, Equation, Body, Chosen

LEMMA ChosenIn == ASSUME NEW s, s # {} PROVE Chosen(s) \in s
BY DEF Chosen

LEMMA EquationHasSolution ==
    ASSUME NEW t, NEW S, IsFiniteSet(S)
    PROVE  \E f : Equation(t, S, f)
<1> DEFINE Small(n) == {s \in SUBSET S : Cardinality(s) <= n}
           Solves(f, n) == f = [s \in Small(n) |-> Body(t, f, s)]
           T == {n \in Nat : \E f : Solves(f, n)}
<1>1. \A s \in SUBSET S : IsFiniteSet(s) /\ Cardinality(s) \in Nat
    BY FS_Subset, FS_CardinalityType
<1>2. 0 \in T
  <2> DEFINE z == [s \in Small(0) |-> 0]
  <2>1. \A s \in Small(0) : s = {}
    BY <1>1, FS_EmptySet
  <2>2. Solves(z, 0)
    BY <2>1 DEF Body
  <2> QED BY <2>2
<1>3. ASSUME NEW n \in Nat, n \in T PROVE n + 1 \in T
  <2>1. PICK f : Solves(f, n)
    BY <1>3
  <2> DEFINE g == [s \in Small(n + 1) |-> Body(t, f, s)]
  <2>2. \A s \in Small(n) : s \in Small(n + 1) /\ g[s] = f[s]
    BY <1>1, <2>1
  <2>3. ASSUME NEW s \in Small(n + 1) PROVE Body(t, f, s) = Body(t, g, s)
    <3>1. CASE s = {}
      BY <3>1 DEF Body
    <3>2. CASE s # {}
      <4>1. s \ {Chosen(s)} \in Small(n)
        <5>1. Chosen(s) \in s
          BY <3>2, ChosenIn
        <5>2. Cardinality(s \ {Chosen(s)}) = Cardinality(s) - 1
          BY <1>1, <5>1, FS_RemoveElement
        <5> QED BY <1>1, <5>2
      <4> QED BY <3>2, <4>1, <2>2 DEF Body
    <3> QED BY <3>1, <3>2
  <2>4. Solves(g, n + 1)
    BY <2>3
  <2>5. \E h : Solves(h, n + 1)
    <3> HIDE DEF g, Solves
    <3> QED BY <2>4
  <2> QED BY <2>5
<1>4. Cardinality(S) \in T
  <2> HIDE DEF T
  <2> QED BY <1>1, <1>2, <1>3, NatInduct
<1>5. Small(Cardinality(S)) = SUBSET S
    BY FS_Subset
<1> QED BY <1>4, <1>5 DEF Equation

LEMMA EquationsAgree ==
    ASSUME NEW t, NEW S, NEW R, IsFiniteSet(S), R \subseteq S,
           NEW f, Equation(t, S, f), NEW g, Equation(t, R, g)
    PROVE  g[R] = f[R]
<1> DEFINE T == {s \in SUBSET R : f[s] = g[s]}
<1>1. \A s \in SUBSET R : f[s] = Body(t, f, s) /\ g[s] = Body(t, g, s)
    BY DEF Equation
<1>2. ASSUME NEW s \in SUBSET R, \A r \in SUBSET s : r # s => r \in T
      PROVE  s \in T
  <2>1. CASE s = {}
    BY <1>1, <2>1 DEF Body
  <2>2. CASE s # {}
    <3>1. s \ {Chosen(s)} \in T
      BY <1>2, <2>2, ChosenIn
    <3> QED BY <1>1, <2>2, <3>1 DEF Body
  <2> QED BY <2>1, <2>2
<1>3. IsFiniteSet(R)
    BY FS_Subset
<1>4. SUBSET R \subseteq T
  <2> HIDE DEF T
  <2> QED BY <1>2, <1>3, SubsetInduct
<1> QED BY <1>4

LEMMA SumEquation ==
    ASSUME NEW t, NEW S, IsFiniteSet(S)
    PROVE  Sum(t, S) = IF S = {} THEN 0
                       ELSE t[Chosen(S)] + Sum(t, S \ {Chosen(S)})
<1> DEFINE R == S \ {Chosen(S)}
           f == CHOOSE f : Equation(t, S, f)
           g == CHOOSE g : Equation(t, R, g)
<1>1. Equation(t, S, f)
    BY EquationHasSolution
<1>2. Equation(t, R, g)
    BY EquationHasSolution, FS_Subset, R \subseteq S
<1>3. Sum(t, S) = f[S] /\ Sum(t, R) = g[R]
    BY SumUnfolds
<1>4. g[R] = f[R]
  <2> HIDE DEF f, g
  <2> QED BY <1>1, <1>2, EquationsAgree
<1>5. f[S] = Body(t, f, S)
    BY <1>1 DEF Equation
<1> HIDE DEF f, g
<1> QED BY <1>3, <1>4, <1>5 DEF Body

-----------------------------------------------------------------------------
(* What the quotas need to know of a sum.                                  *)

LEMMA SumEmpty == ASSUME NEW t PROVE Sum(t, {}) = 0
BY SumEquation, FS_EmptySet

\* A sum of naturals is a natural.
LEMMA SumNat ==
    ASSUME NEW t, NEW S, IsFiniteSet(S), \A x \in S : t[x] \in Nat
    PROVE  Sum(t, S) \in Nat
<1> DEFINE T == {s \in SUBSET S : Sum(t, s) \in Nat}
<1>1. ASSUME NEW s \in SUBSET S, \A r \in SUBSET s : r # s => r \in T
      PROVE  s \in T
  <2>1. IsFiniteSet(s)
    BY FS_Subset
  <2>2. CASE s = {}
    BY <2>2, SumEmpty
  <2>3. CASE s # {}
    <3>1. Chosen(s) \in s /\ s \ {Chosen(s)} \in T
      BY <1>1, <2>3, ChosenIn
    <3> QED BY <2>1, <2>3, <3>1, SumEquation
  <2> QED BY <2>2, <2>3
<1>2. SUBSET S \subseteq T
  <2> HIDE DEF T
  <2> QED BY <1>1, SubsetInduct
<1> QED BY <1>2

\* Any element may be taken out first.
LEMMA SumRemove ==
    ASSUME NEW t, NEW S, IsFiniteSet(S), \A x \in S : t[x] \in Nat, NEW y \in S
    PROVE  Sum(t, S) = t[y] + Sum(t, S \ {y})
<1> DEFINE T == {s \in SUBSET S : \A x \in s : Sum(t, s) = t[x] + Sum(t, s \ {x})}
<1>1. ASSUME NEW s \in SUBSET S, \A r \in SUBSET s : r # s => r \in T,
             NEW x \in s
      PROVE  Sum(t, s) = t[x] + Sum(t, s \ {x})
  <2> DEFINE c == Chosen(s)
  <2>1. IsFiniteSet(s) /\ IsFiniteSet(s \ {c}) /\ IsFiniteSet(s \ {x})
        /\ IsFiniteSet((s \ {x}) \ {c})
    BY FS_Subset
  <2>2. c \in s
    BY ChosenIn
  <2>3. Sum(t, s) = t[c] + Sum(t, s \ {c})
    BY <2>1, SumEquation
  <2>4. CASE x = c
    BY <2>3, <2>4
  <2>5. CASE x # c
    <3>1. Sum(t, s \ {c}) = t[x] + Sum(t, (s \ {c}) \ {x})
      BY <1>1, <2>2, <2>5
    <3>2. Sum(t, s \ {x}) = t[c] + Sum(t, (s \ {x}) \ {c})
      BY <1>1, <2>2, <2>5
    <3>3. (s \ {c}) \ {x} = (s \ {x}) \ {c}
      OBVIOUS
    <3>4. Sum(t, (s \ {c}) \ {x}) = Sum(t, (s \ {x}) \ {c})
      BY <3>3
    <3>5. t[c] \in Nat /\ t[x] \in Nat /\ Sum(t, (s \ {x}) \ {c}) \in Nat
      BY <2>1, <2>2, SumNat
    <3> HIDE DEF c
    <3> QED BY <2>3, <3>1, <3>2, <3>4, <3>5
  <2> QED BY <2>4, <2>5
<1>2. SUBSET S \subseteq T
  <2>1. ASSUME NEW s \in SUBSET S, \A r \in SUBSET s : r # s => r \in T
        PROVE  s \in T
    BY <1>1, <2>1
  <2> HIDE DEF T
  <2> QED BY <2>1, SubsetInduct
<1> QED BY <1>2

\* Tables added entry by entry have added sums.
LEMMA SumPlus ==
    ASSUME NEW t, NEW u, NEW v, NEW S, IsFiniteSet(S),
           \A x \in S : t[x] \in Nat /\ u[x] \in Nat /\ v[x] = t[x] + u[x]
    PROVE  Sum(v, S) = Sum(t, S) + Sum(u, S)
<1> DEFINE T == {s \in SUBSET S : Sum(v, s) = Sum(t, s) + Sum(u, s)}
<1>1. ASSUME NEW s \in SUBSET S, \A r \in SUBSET s : r # s => r \in T
      PROVE  s \in T
  <2> DEFINE c == Chosen(s)
             r == s \ {c}
  <2>1. IsFiniteSet(s) /\ IsFiniteSet(r)
    BY FS_Subset
  <2>2. CASE s = {}
    BY <2>2, SumEmpty
  <2>3. CASE s # {}
    <3>1. c \in s /\ r \in T
      BY <1>1, <2>3, ChosenIn
    <3>2. Sum(v, s) = v[c] + Sum(v, r) /\ Sum(t, s) = t[c] + Sum(t, r)
          /\ Sum(u, s) = u[c] + Sum(u, r)
      BY <2>1, <2>3, SumEquation
    <3>3. Sum(t, r) \in Nat /\ Sum(u, r) \in Nat
      BY <2>1, SumNat
    <3> QED BY <3>1, <3>2, <3>3
  <2> QED BY <2>2, <2>3
<1>2. SUBSET S \subseteq T
  <2> HIDE DEF T
  <2> QED BY <1>1, SubsetInduct
<1> QED BY <1>2

\* A table that is smaller in each entry, over a smaller set, has a smaller sum.
LEMMA SumMonotone ==
    ASSUME NEW t, NEW u, NEW R, NEW S, IsFiniteSet(S), R \subseteq S,
           \A x \in S : u[x] \in Nat,
           \A x \in R : t[x] \in Nat /\ t[x] <= u[x]
    PROVE  Sum(t, R) <= Sum(u, S)
<1> DEFINE T == {s \in SUBSET S : Sum(t, s \cap R) <= Sum(u, s)}
<1>1. ASSUME NEW s \in SUBSET S, \A r \in SUBSET s : r # s => r \in T
      PROVE  s \in T
  <2> DEFINE c == Chosen(s)
             r == s \ {c}
  <2>1. IsFiniteSet(s) /\ IsFiniteSet(r) /\ IsFiniteSet(s \cap R)
        /\ IsFiniteSet(r \cap R)
    BY FS_Subset
  <2>2. CASE s = {}
    BY <2>2, SumEmpty, s \cap R = {}
  <2>3. CASE s # {}
    <3>1. c \in s /\ r \in T
      BY <1>1, <2>3, ChosenIn
    <3>2. Sum(u, s) = u[c] + Sum(u, r)
      BY <2>1, <2>3, SumEquation
    <3>3. Sum(t, r \cap R) \in Nat /\ Sum(u, r) \in Nat
      BY <2>1, SumNat
    <3>4. CASE c \in R
      <4>1. c \in s \cap R /\ (s \cap R) \ {c} = r \cap R
        BY <3>1, <3>4
      <4>2. Sum(t, s \cap R) = t[c] + Sum(t, r \cap R)
        BY <2>1, <4>1, SumRemove
      <4> QED BY <3>1, <3>2, <3>3, <3>4, <4>2
    <3>5. CASE c \notin R
      <4>1. s \cap R = r \cap R
        BY <3>5
      <4>2. Sum(t, s \cap R) = Sum(t, r \cap R)
        BY <4>1
      <4>3. u[c] \in Nat /\ Sum(t, r \cap R) <= Sum(u, r)
        BY <3>1
      <4>4. Sum(t, s \cap R) <= Sum(u, s)
        <5> HIDE DEF c, r
        <5> QED BY <3>2, <3>3, <4>2, <4>3
      <4> QED BY <4>4
    <3> QED BY <3>4, <3>5
  <2> QED BY <2>2, <2>3
<1>2. SUBSET S \subseteq T
  <2> HIDE DEF T
  <2> QED BY <1>1, SubsetInduct
<1>3. S \cap R = R
    OBVIOUS
<1> QED BY <1>2, <1>3

\* Entries that are zero outside a set need not be summed, and tables that
\* agree have the same sum.
LEMMA SumSame ==
    ASSUME NEW t, NEW u, NEW R, NEW S, IsFiniteSet(S), R \subseteq S,
           \A x \in R : u[x] \in Nat /\ t[x] = u[x],
           \A x \in S \ R : u[x] = 0
    PROVE  Sum(t, R) = Sum(u, S)
<1> DEFINE T == {s \in SUBSET S : Sum(t, s \cap R) = Sum(u, s)}
<1>1. ASSUME NEW s \in SUBSET S, \A r \in SUBSET s : r # s => r \in T
      PROVE  s \in T
  <2> DEFINE c == Chosen(s)
             r == s \ {c}
  <2>1. IsFiniteSet(s) /\ IsFiniteSet(r) /\ IsFiniteSet(s \cap R)
        /\ IsFiniteSet(r \cap R)
    BY FS_Subset
  <2>2. CASE s = {}
    BY <2>2, SumEmpty, s \cap R = {}
  <2>3. CASE s # {}
    <3>1. c \in s /\ r \in T
      BY <1>1, <2>3, ChosenIn
    <3>2. Sum(u, s) = u[c] + Sum(u, r)
      BY <2>1, <2>3, SumEquation
    <3>3. Sum(t, r \cap R) \in Nat /\ Sum(u, r) \in Nat
      BY <2>1, SumNat
    <3>4. CASE c \in R
      <4>1. c \in s \cap R /\ (s \cap R) \ {c} = r \cap R
        BY <3>1, <3>4
      <4>2. Sum(t, s \cap R) = t[c] + Sum(t, r \cap R)
        BY <2>1, <4>1, SumRemove
      <4> QED BY <3>1, <3>2, <3>3, <3>4, <4>2
    <3>5. CASE c \notin R
      <4>1. s \cap R = r \cap R
        BY <3>5
      <4>2. Sum(t, s \cap R) = Sum(t, r \cap R)
        BY <4>1
      <4>3. u[c] = 0 /\ Sum(t, r \cap R) = Sum(u, r)
        BY <3>1, <3>5
      <4>4. Sum(t, s \cap R) = Sum(u, s)
        <5> HIDE DEF c, r
        <5> QED BY <3>2, <3>3, <4>2, <4>3
      <4> QED BY <4>4
    <3> QED BY <3>4, <3>5
  <2> QED BY <2>2, <2>3
<1>2. SUBSET S \subseteq T
  <2> HIDE DEF T
  <2> QED BY <1>1, SubsetInduct
<1>3. S \cap R = R
    OBVIOUS
<1> QED BY <1>2, <1>3

\* A table with one entry.
LEMMA SumUnit ==
    ASSUME NEW t, NEW S, IsFiniteSet(S), NEW y, NEW c \in Nat,
           \A x \in S : t[x] = IF x = y THEN c ELSE 0
    PROVE  Sum(t, S) = IF y \in S THEN c ELSE 0
<1>1. CASE y \in S
  <2>1. IsFiniteSet(S \ {y}) /\ \A x \in S \ {y} : t[x] = 0
    BY FS_Subset
  <2>2. Sum(t, {}) = Sum(t, S \ {y})
    BY <2>1, SumSame
  <2>3. Sum(t, S) = t[y] + Sum(t, S \ {y})
    BY <1>1, SumRemove
  <2> QED BY <1>1, <2>2, <2>3, SumEmpty
<1>2. CASE y \notin S
  <2>1. \A x \in S : t[x] = 0
    BY <1>2
  <2>2. Sum(t, {}) = Sum(t, S)
    BY <2>1, SumSame
  <2> QED BY <1>2, <2>2, SumEmpty
<1> QED BY <1>1, <1>2

\* The union of two finite sets is finite.
LEMMA UnionFinite == ASSUME NEW S, NEW R, IsFiniteSet(S), IsFiniteSet(R) PROVE IsFiniteSet(S \cup R)
  BY FS_Union

\* The sum over two disjoint sets.
LEMMA SumUnion ==
    ASSUME NEW t, NEW S, NEW R, IsFiniteSet(S), IsFiniteSet(R), S \cap R = {},
           \A x \in S \cup R : t[x] \in Nat
    PROVE  Sum(t, S \cup R) = Sum(t, S) + Sum(t, R)
<1> DEFINE T == {s \in SUBSET S : Sum(t, s \cup R) = Sum(t, s) + Sum(t, R)}
<1>1. ASSUME NEW s \in SUBSET S, \A r \in SUBSET s : r # s => r \in T
      PROVE  s \in T
  <2> DEFINE c == Chosen(s)
             r == s \ {c}
  <2>1. IsFiniteSet(s) /\ IsFiniteSet(r) /\ IsFiniteSet(s \cup R) /\ Sum(t, R) \in Nat
    BY FS_Subset, FS_Union, SumNat
  <2>2. CASE s = {}
    BY <2>1, <2>2, SumEmpty, s \cup R = R
  <2>3. CASE s # {}
    <3>1. c \in s /\ r \in T
      BY <1>1, <2>3, ChosenIn
    <3>2. Sum(t, s) = t[c] + Sum(t, r) /\ t[c] \in Nat /\ Sum(t, r) \in Nat
      BY <2>1, <2>3, <3>1, SumEquation, SumNat
    <3>3. (s \cup R) \ {c} = r \cup R /\ c \in s \cup R /\ \A x \in s \cup R : t[x] \in Nat
      BY <3>1
    <3>4. Sum(t, s \cup R) = t[c] + Sum(t, r \cup R)
      <4> HIDE DEF c, r
      <4> QED BY <2>1, <3>3, SumRemove
    <3> QED BY <2>1, <3>1, <3>2, <3>4
  <2> QED BY <2>2, <2>3
<1>2. SUBSET S \subseteq T
  <2> HIDE DEF T
  <2> QED BY <1>1, SubsetInduct
<1> QED BY <1>2

\* The image of a finite set is finite.
LEMMA ImageFinite ==
    ASSUME NEW S, NEW g, IsFiniteSet(S)
    PROVE  IsFiniteSet({g[x] : x \in S})
<1> DEFINE R == {g[x] : x \in S}
           f == [x \in S |-> g[x]]
<1>1. f \in Surjection(S, R)
    BY DEF Surjection
<1> QED BY <1>1, FS_Surjection

\* A sum of the sums over the parts of a set that have one key each.
LEMMA SumParts ==
    ASSUME NEW t, NEW u, NEW S, NEW k, IsFiniteSet(S), \A x \in S : t[x] \in Nat,
           \A x \in S : u[k[x]] = Sum(t, {y \in S : k[y] = k[x]})
    PROVE  Sum(u, {k[x] : x \in S}) = Sum(t, S)
<1> DEFINE K == {k[x] : x \in S}
           Of(s) == {x \in S : k[x] \in s}
           T == {s \in SUBSET K : Sum(u, s) = Sum(t, Of(s))}
<1>1. IsFiniteSet(K)
    BY ImageFinite
<1>2. \A s \in SUBSET K : \A x \in s : u[x] = Sum(t, {y \in S : k[y] = x}) /\ u[x] \in Nat
  <2>1. ASSUME NEW x \in K PROVE u[x] = Sum(t, {y \in S : k[y] = x}) /\ u[x] \in Nat
    <3>1. PICK z \in S : x = k[z]
      OBVIOUS
    <3>2. IsFiniteSet({y \in S : k[y] = x})
      BY FS_Subset
    <3> QED BY <3>1, <3>2, SumNat
  <2> QED BY <2>1
<1>3. ASSUME NEW s \in SUBSET K, \A r \in SUBSET s : r # s => r \in T
      PROVE  s \in T
  <2> DEFINE c == Chosen(s)
             r == s \ {c}
             P == {y \in S : k[y] = c}
  <2>1. IsFiniteSet(s) /\ IsFiniteSet(Of(r)) /\ IsFiniteSet(P)
    BY <1>1, FS_Subset
  <2>2. CASE s = {}
    BY <2>2, SumEmpty, Of(s) = {}
  <2>3. CASE s # {}
    <3>1. c \in s /\ r \in T
      BY <1>3, <2>3, ChosenIn
    <3>2. Sum(u, s) = u[c] + Sum(u, r)
      BY <2>1, <2>3, SumEquation
    <3>3. u[c] = Sum(t, P)
      BY <1>2, <3>1
    <3>4. Of(s) = P \cup Of(r) /\ P \cap Of(r) = {}
      BY <3>1
    <3>5. Sum(t, Of(s)) = Sum(t, P) + Sum(t, Of(r))
      <4>1. \A x \in P \cup Of(r) : t[x] \in Nat
        OBVIOUS
      <4> DEFINE Q == Of(r)
      <4>2. Sum(t, P \cup Q) = Sum(t, P) + Sum(t, Q)
        <5>1. IsFiniteSet(P) /\ IsFiniteSet(Q) /\ P \cap Q = {} /\ \A x \in P \cup Q : t[x] \in Nat
          BY <2>1, <3>4, <4>1
        <5> HIDE DEF P, Q
        <5> QED BY <5>1, SumUnion
      <4> QED BY <3>4, <4>2
    <3> QED BY <3>1, <3>2, <3>3, <3>5
  <2> QED BY <2>2, <2>3
<1>4. SUBSET K \subseteq T
  <2> HIDE DEF T, K
  <2> QED BY <1>1, <1>3, SubsetInduct
<1>5. Of(K) = S
    OBVIOUS
<1> QED BY <1>4, <1>5

\* The sum over the image of a set under an injection.
LEMMA SumImage ==
    ASSUME NEW t, NEW u, NEW S, NEW g, IsFiniteSet(S), \A x \in S : t[x] \in Nat /\ u[g[x]] = t[x],
           \A x, y \in S : g[x] = g[y] => x = y
    PROVE  Sum(u, {g[x] : x \in S}) = Sum(t, S)
<1>1. ASSUME NEW x \in S PROVE u[g[x]] = Sum(t, {y \in S : g[y] = g[x]})
  <2>1. {y \in S : g[y] = g[x]} = {x}
    OBVIOUS
  <2>2. IsFiniteSet({x}) /\ {x} \ {x} = {}
    BY FS_Singleton
  <2>3. Sum(t, {x}) = t[x] + Sum(t, {x} \ {x})
    BY <2>2, SumRemove
  <2> QED BY <2>1, <2>2, <2>3, SumEmpty
<1> QED BY <1>1, SumParts

-----------------------------------------------------------------------------
(* Period keys.                                                            *)

\* Division by the days of a month is monotone: Euclidean division leaves
\* remainders below the divisor.
LEMMA DivMonotone ==
    ASSUME NEW d \in Nat \ {0}, NEW s \in Nat, NEW t \in Nat, s <= t
    PROVE  s \div d \in Nat /\ t \div d \in Nat /\ s \div d <= t \div d
<1>1. s \div d \in Nat /\ t \div d \in Nat
    OBVIOUS
<1>2. s \div d <= t \div d
    OBVIOUS
<1> QED BY <1>1, <1>2

\* A key tells its period and its place in the order of time.
LEMMA KeyFacts ==
    ASSUME NEW p \in Periods, NEW t \in Days
    PROVE  /\ periodKeyFor(p, t) \in PeriodKeys
           /\ periodKeyFor(p, t) \in Periods \X Nat
           /\ periodKeyFor(p, t)[1] = p
           /\ DaysOf(periodKeyFor(p, t)) =
                {d \in Days : periodKeyFor(p, d) = periodKeyFor(p, t)}
<1>1. t \div DaysPerMonth \in Nat
    BY CalendarAssumption, DivMonotone DEF Days
<1>2. periodKeyFor(p, t) \in Periods \X Nat /\ periodKeyFor(p, t)[1] = p
  <2>1. \E i \in Nat : periodKeyFor(p, t) = <<p, i>>
    BY <1>1, CalendarAssumption DEF periodKeyFor, Days, Periods
  <2> QED BY <2>1
<1>3. DaysOf(periodKeyFor(p, t)) =
        {d \in Days : periodKeyFor(p, d) = periodKeyFor(p, t)}
    BY <1>2 DEF DaysOf
<1> QED BY <1>2, <1>3 DEF PeriodKeys

\* Keys of one period are ordered as their days are, and told apart by their
\* second component.
LEMMA KeyOrder ==
    ASSUME NEW p \in Periods, NEW s \in Days, NEW t \in Days
    PROVE  /\ s <= t => periodKeyFor(p, s)[2] <= periodKeyFor(p, t)[2]
           /\ periodKeyFor(p, s)[2] = periodKeyFor(p, t)[2]
                => periodKeyFor(p, s) = periodKeyFor(p, t)
<1>1. s <= t => s \div DaysPerMonth <= t \div DaysPerMonth
    BY CalendarAssumption, DivMonotone DEF Days
<1> QED BY <1>1, CalendarAssumption DEF periodKeyFor, Periods, Days

LEMMA KeyOfPeriod ==
    ASSUME NEW k \in PeriodKeys
    PROVE  \E p \in Periods, t \in Days : k = periodKeyFor(p, t)
BY DEF PeriodKeys

LEMMA DaysFinite ==
    ASSUME NEW k
    PROVE  /\ IsFiniteSet(Days) /\ DaysOf(k) \subseteq Days
           /\ IsFiniteSet(DaysOf(k))
<1>1. IsFiniteSet(Days)
    BY CalendarAssumption, FS_Interval DEF Days
<1>2. DaysOf(k) \subseteq Days
    BY DEF DaysOf
<1> QED BY <1>1, <1>2, FS_Subset

-----------------------------------------------------------------------------
(* The bytes of a period.                                                  *)

LEMMA BytesInIsSum == ASSUME NEW t, NEW k PROVE BytesIn(t, k) = Sum(t, DaysOf(k))
BY DEF BytesIn, Sum

\* Bytes are a natural number, and none where the table has none.
LEMMA BytesNat ==
    ASSUME NEW t \in [Days -> Nat], NEW k
    PROVE  /\ BytesIn(t, k) \in Nat
           /\ (\A d \in DaysOf(k) : t[d] = 0) => BytesIn(t, k) = 0
<1>1. \A d \in DaysOf(k) : t[d] \in Nat
    BY DaysFinite
<1>2. BytesIn(t, k) \in Nat
    BY <1>1, DaysFinite, SumNat, BytesInIsSum
<1>3. ASSUME \A d \in DaysOf(k) : t[d] = 0 PROVE BytesIn(t, k) = 0
    BY <1>3, DaysFinite, SumSame, SumEmpty, BytesInIsSum
<1> QED BY <1>2, <1>3

\* The bytes of two tables together.
LEMMA BytesPlus ==
    ASSUME NEW t \in [Days -> Nat], NEW u \in [Days -> Nat], NEW v, NEW k,
           \A d \in Days : v[d] = t[d] + u[d]
    PROVE  BytesIn(v, k) = BytesIn(t, k) + BytesIn(u, k)
<1>1. \A d \in DaysOf(k) : t[d] \in Nat /\ u[d] \in Nat /\ v[d] = t[d] + u[d]
    BY DaysFinite
<1> QED BY <1>1, DaysFinite, SumPlus, BytesInIsSum

\* A smaller table has fewer bytes.
LEMMA BytesMonotone ==
    ASSUME NEW t \in [Days -> Nat], NEW u \in [Days -> Nat], NEW k,
           \A d \in Days : t[d] <= u[d]
    PROVE  BytesIn(t, k) <= BytesIn(u, k)
<1>1. \A d \in DaysOf(k) : t[d] \in Nat /\ u[d] \in Nat /\ t[d] <= u[d]
    BY DaysFinite
<1> QED BY <1>1, DaysFinite, SumMonotone, BytesInIsSum
-----------------------------------------------------------------------------
(* Rows of which there is at most one.                                     *)

AtMostOne(S) == \A x, y \in S : x = y

LEMMA AtMostOneCardinality ==
    ASSUME NEW S, AtMostOne(S) PROVE Cardinality(S) <= 1
<1>1. CASE S = {}
    BY <1>1, FS_EmptySet
<1>2. CASE S # {}
  <2>1. PICK x \in S : S = {x}
    BY <1>2 DEF AtMostOne
  <2>2. Cardinality({x}) = 1
    BY FS_Singleton
  <2> QED BY <2>1, <2>2
<1> QED BY <1>1, <1>2
=============================================================================
