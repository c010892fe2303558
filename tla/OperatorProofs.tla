--------------------------- MODULE OperatorProofs ---------------------------
(* Facts about the operators that several modules share: sums over finite    *)
(* sets, which the budget counters and the connection pool are counted with, *)
(* and hostnames, on which listener isolation rests.                         *)
(*                                                                           *)
(* The library's induction theorems take a predicate as parameter, which the *)
(* provers cannot instantiate; here induction is the choice of a smallest    *)
(* counterexample, for which well-foundedness of < on Nat is enough.         *)
EXTENDS Hostnames, FiniteSetsExt, FiniteSetTheorems, WellFoundedInduction, TLAPS

----------------------------------------------------------------------------
(* Sums over finite sets *)

\* Every set of numbers has a least one: induction in a form without a
\* predicate as parameter.
LEMMA LeastNat ==
  ASSUME NEW T \in SUBSET Nat, T # {}
  PROVE  \E n \in T : \A m \in T : n <= m
<1>1. PICK n \in T : \A m \in T : ~ (<<m, n>> \in OpToRel(<, Nat))
  BY NatLessThanWellFounded, WFMin, Zenon
<1>2. ASSUME NEW m \in T PROVE n <= m
  <2>1. m \in Nat /\ n \in Nat
    OBVIOUS
  <2>2. ~ (<<m, n>> \in {ss \in Nat \X Nat : ss[1] < ss[2]})
    BY <1>1, Zenon DEF OpToRel
  <2>3. ~ (m < n)
    BY <2>1, <2>2
  <2> QED
    BY <2>1, <2>3
<1> QED
  BY <1>2

\* The element a fold takes next, and one step of it for every subset.
NextOf(s) == CHOOSE x \in s : TRUE

FoldSteps(f, S, iter) == [s \in SUBSET S |-> IF s = {} THEN 0 ELSE f[NextOf(s)] + iter[s \ {NextOf(s)}]]

\* SumFunctionOnSet is the fold, if there is such a function at all.
LEMMA SumIs ==
  ASSUME NEW f, NEW S, \E iter : iter = FoldSteps(f, S, iter)
  PROVE  \E iter : iter = FoldSteps(f, S, iter) /\ SumFunctionOnSet(f, S) = iter[S]
<1> DEFINE it == CHOOSE iter : iter = FoldSteps(f, S, iter)
<1>1. it = FoldSteps(f, S, it)
  BY Zenon
<1>2. SumFunctionOnSet(f, S) = it[S]
  BY Zenon DEF SumFunctionOnSet, FoldFunctionOnSet, MapThenFoldSet, FoldSteps, NextOf
<1> QED
  BY <1>1, <1>2, Zenon

\* Taking an element out leaves a smaller set.
LEMMA Picked ==
  ASSUME NEW s, IsFiniteSet(s), s # {}
  PROVE  /\ NextOf(s) \in s /\ IsFiniteSet(s \ {NextOf(s)})
         /\ Cardinality(s) \in Nat /\ Cardinality(s \ {NextOf(s)}) = Cardinality(s) - 1
<1>1. NextOf(s) \in s
  BY Zenon DEF NextOf
<1> QED
  BY <1>1, FS_RemoveElement, FS_CardinalityType, Zenon

\* There is one: for sets of every size, hence for all subsets of S.
LEMMA StepsExist ==
  ASSUME NEW f, NEW S, IsFiniteSet(S)
  PROVE  \E iter : iter = FoldSteps(f, S, iter)
<1> DEFINE Upto(g, n) == /\ g = [s \in SUBSET S |-> g[s]]
                         /\ \A s \in SUBSET S : Cardinality(s) <= n => g[s] = FoldSteps(f, S, g)[s]
           T == {n \in Nat : ~ \E g : Upto(g, n)}
<1>0. \A s \in SUBSET S : IsFiniteSet(s) /\ Cardinality(s) \in Nat /\ Cardinality(s) <= Cardinality(S)
  BY FS_Subset, FS_CardinalityType
<1>1. T = {}
  <2> SUFFICES ASSUME T # {} PROVE FALSE
    OBVIOUS
  <2> HIDE DEF Upto
  <2>1. PICK n \in T : \A m \in T : n <= m
    <3> HIDE DEF T
    <3>1. T \in SUBSET Nat
      BY DEF T
    <3> QED
      BY <3>1, LeastNat
  <2>2. n # 0
    <3>1. Upto([s \in SUBSET S |-> 0], 0)
      <4> DEFINE g == [s \in SUBSET S |-> 0]
      <4>1. g = [s \in SUBSET S |-> g[s]]
        OBVIOUS
      <4>2. ASSUME NEW s \in SUBSET S, Cardinality(s) <= 0 PROVE g[s] = FoldSteps(f, S, g)[s]
        <5>1. s = {}
          BY <1>0, <4>2, FS_EmptySet
        <5> QED
          BY <5>1 DEF FoldSteps
      <4> QED
        BY <4>1, <4>2 DEF Upto
    <3> QED
      BY <3>1
  <2>3. n - 1 \in Nat /\ n \in Nat
    BY <2>1, <2>2
  <2>4. PICK g : Upto(g, n - 1)
    BY <2>1, <2>3
  <2> DEFINE h == [s \in SUBSET S |-> IF Cardinality(s) <= n - 1 THEN g[s] ELSE FoldSteps(f, S, g)[s]]
  <2>5. h = [s \in SUBSET S |-> h[s]]
    OBVIOUS
  <2>6. ASSUME NEW s \in SUBSET S, Cardinality(s) <= n PROVE h[s] = FoldSteps(f, S, h)[s]
    <3>1. h[s] = FoldSteps(f, S, g)[s]
      BY <2>4 DEF Upto
    <3>2. CASE s = {}
      BY <3>1, <3>2 DEF FoldSteps
    <3>3. CASE s # {}
      <4>1. /\ s \ {NextOf(s)} \in SUBSET S /\ Cardinality(s \ {NextOf(s)}) <= n - 1
        BY <1>0, <2>3, <2>6, <3>3, Picked
      <4>2. h[s \ {NextOf(s)}] = g[s \ {NextOf(s)}]
        BY <4>1
      <4> HIDE DEF h
      <4> QED
        BY <3>1, <3>3, <4>2 DEF FoldSteps
    <3> QED
      BY <3>2, <3>3
  <2>7. Upto(h, n)
    <3> HIDE DEF h
    <3> QED
      BY <2>5, <2>6 DEF Upto
  <2> QED
    BY <2>1, <2>7
<1>2. PICK g : Upto(g, Cardinality(S))
  BY <1>0, <1>1
<1>3. \A s \in SUBSET S : g[s] = FoldSteps(f, S, g)[s]
  BY <1>0, <1>2
<1>4. g = [s \in SUBSET S |-> g[s]]
  BY <1>2
<1>5. FoldSteps(f, S, g) = [s \in SUBSET S |-> FoldSteps(f, S, g)[s]]
  BY DEF FoldSteps
<1> HIDE DEF T, Upto
<1> QED
  BY <1>3, <1>4, <1>5

\* Among sets of subsets of a finite set there is a smallest one: induction
\* over the size of a set, as a minimality principle.
LEMMA SmallestSet ==
  ASSUME NEW S, IsFiniteSet(S), NEW T \in SUBSET (SUBSET S), T # {}
  PROVE  \E s \in T : \A t \in T : Cardinality(s) <= Cardinality(t)
<1> DEFINE N == {Cardinality(t) : t \in T}
<1>1. \A t \in T : Cardinality(t) \in Nat
  BY FS_Subset, FS_CardinalityType
<1>2. N \in SUBSET Nat /\ N # {}
  BY <1>1
<1>3. PICK n \in N : \A m \in N : n <= m
  <2> HIDE DEF N
  <2> QED
    BY <1>2, LeastNat
<1> QED
  BY <1>3

\* The fold of a set does not depend on the set it is computed within.
LEMMA StepsWithin ==
  ASSUME NEW f, NEW S, IsFiniteSet(S), NEW R \in SUBSET S,
         NEW i, i = FoldSteps(f, S, i), NEW j, j = FoldSteps(f, R, j)
  PROVE  \A s \in SUBSET R : i[s] = j[s]
<1> DEFINE T == {s \in SUBSET R : i[s] # j[s]}
<1> SUFFICES ASSUME T # {} PROVE FALSE
  OBVIOUS
<1>0. IsFiniteSet(R)
  BY FS_Subset
<1>1. PICK s \in T : \A t \in T : Cardinality(s) <= Cardinality(t)
  <2>1. T \in SUBSET (SUBSET R)
    OBVIOUS
  <2> HIDE DEF T
  <2> QED
    BY <1>0, <2>1, SmallestSet
<1>2. s \in SUBSET R /\ s \in SUBSET S /\ IsFiniteSet(s)
  BY <1>0, FS_Subset
<1>3. /\ i[s] = IF s = {} THEN 0 ELSE f[NextOf(s)] + i[s \ {NextOf(s)}]
      /\ j[s] = IF s = {} THEN 0 ELSE f[NextOf(s)] + j[s \ {NextOf(s)}]
  <2>1. FoldSteps(f, S, i)[s] = IF s = {} THEN 0 ELSE f[NextOf(s)] + i[s \ {NextOf(s)}]
    BY <1>2 DEF FoldSteps
  <2>2. FoldSteps(f, R, j)[s] = IF s = {} THEN 0 ELSE f[NextOf(s)] + j[s \ {NextOf(s)}]
    BY <1>2 DEF FoldSteps
  <2> QED
    BY <2>1, <2>2, Zenon
<1>4. s # {} /\ s \ {NextOf(s)} \in T
  BY <1>2, <1>3
<1>5. Cardinality(s) \in Nat /\ Cardinality(s \ {NextOf(s)}) = Cardinality(s) - 1
  BY <1>2, <1>4, Picked
<1>6. Cardinality(s) <= Cardinality(s \ {NextOf(s)})
  BY <1>1, <1>4
<1> QED
  BY <1>5, <1>6

\* What the sum over a finite set is.
LEMMA SumUnfolds ==
  ASSUME NEW f, NEW S, IsFiniteSet(S)
  PROVE  SumFunctionOnSet(f, S) = IF S = {} THEN 0 ELSE f[NextOf(S)] + SumFunctionOnSet(f, S \ {NextOf(S)})
<1>1. PICK i : i = FoldSteps(f, S, i) /\ SumFunctionOnSet(f, S) = i[S]
  BY StepsExist, SumIs
<1>2. i[S] = IF S = {} THEN 0 ELSE f[NextOf(S)] + i[S \ {NextOf(S)}]
  <2>1. FoldSteps(f, S, i)[S] = IF S = {} THEN 0 ELSE f[NextOf(S)] + i[S \ {NextOf(S)}]
    BY DEF FoldSteps
  <2> QED
    BY <1>1, <2>1, Zenon
<1>3. CASE S # {}
  <2> DEFINE R == S \ {NextOf(S)}
  <2>1. IsFiniteSet(R) /\ R \in SUBSET S
    BY <1>3, Picked
  <2> HIDE DEF R
  <2>2. PICK j : j = FoldSteps(f, R, j) /\ SumFunctionOnSet(f, R) = j[R]
    BY <2>1, StepsExist, SumIs
  <2>3. i[R] = j[R]
    BY <1>1, <2>1, <2>2, StepsWithin
  <2> QED
    BY <1>1, <1>2, <1>3, <2>2, <2>3 DEF R
<1> QED
  BY <1>1, <1>2, <1>3

\* A sum of numbers is a number.
LEMMA SumNat ==
  ASSUME NEW f, NEW S, IsFiniteSet(S), \A x \in S : f[x] \in Nat
  PROVE  SumFunctionOnSet(f, S) \in Nat
<1> DEFINE T == {s \in SUBSET S : SumFunctionOnSet(f, s) \notin Nat}
<1>1. T = {}
  <2> SUFFICES ASSUME T # {} PROVE FALSE
    OBVIOUS
  <2>1. PICK s \in T : \A t \in T : Cardinality(s) <= Cardinality(t)
    <3>1. T \in SUBSET (SUBSET S)
      OBVIOUS
    <3> HIDE DEF T
    <3> QED
      BY <3>1, SmallestSet
  <2>2. s \in SUBSET S /\ IsFiniteSet(s)
    BY FS_Subset
  <2>3. SumFunctionOnSet(f, s) = IF s = {} THEN 0 ELSE f[NextOf(s)] + SumFunctionOnSet(f, s \ {NextOf(s)})
    BY <2>2, SumUnfolds
  <2>4. s # {}
    BY <2>3
  <2>5. f[NextOf(s)] \in Nat
    BY <2>2, <2>4, Picked
  <2>6. s \ {NextOf(s)} \in T
    BY <2>2, <2>3, <2>4, <2>5
  <2>7. Cardinality(s) \in Nat /\ Cardinality(s \ {NextOf(s)}) = Cardinality(s) - 1
    BY <2>2, <2>4, Picked
  <2> QED
    BY <2>1, <2>6, <2>7
<1> QED
  BY <1>1

\* Any summand may be taken out first.
LEMMA SumRemove ==
  ASSUME NEW f, NEW S, IsFiniteSet(S), \A x \in S : f[x] \in Nat, NEW y \in S
  PROVE  SumFunctionOnSet(f, S) = f[y] + SumFunctionOnSet(f, S \ {y})
<1> DEFINE Out(s, x) == SumFunctionOnSet(f, s) = f[x] + SumFunctionOnSet(f, s \ {x})
           T == {s \in SUBSET S : \E x \in s : ~Out(s, x)}
<1>1. T = {}
  <2> SUFFICES ASSUME T # {} PROVE FALSE
    OBVIOUS
  <2>1. PICK s \in T : \A t \in T : Cardinality(s) <= Cardinality(t)
    <3>1. T \in SUBSET (SUBSET S)
      OBVIOUS
    <3> HIDE DEF T
    <3> QED
      BY <3>1, SmallestSet
  <2>2. PICK x \in s : ~Out(s, x)
    OBVIOUS
  <2>3. s \in SUBSET S /\ IsFiniteSet(s) /\ s # {}
    BY FS_Subset
  <2> DEFINE p == NextOf(s)
  <2>4. p \in s /\ Out(s, p)
    BY <2>3, SumUnfolds, Picked
  <2>5. ASSUME NEW t \in SUBSET s, t # s, NEW z \in t PROVE Out(t, z)
    <3>1. Cardinality(t) \in Nat /\ Cardinality(s) \in Nat /\ Cardinality(t) < Cardinality(s)
      <4>1. IsFiniteSet(t) /\ Cardinality(t) <= Cardinality(s) /\ Cardinality(t) # Cardinality(s)
        BY <2>3, <2>5, FS_Subset
      <4>2. Cardinality(t) \in Nat /\ Cardinality(s) \in Nat
        BY <2>3, <4>1, FS_CardinalityType
      <4> QED
        BY <4>1, <4>2
    <3>2. t \notin T
      BY <2>1, <3>1
    <3>3. t \in SUBSET S
      BY <2>3
    <3> QED
      BY <3>2, <3>3
  <2> HIDE DEF p, T
  <2>6. x # p
    BY <2>2, <2>4
  <2>7. Out(s \ {p}, x) /\ Out(s \ {x}, p)
    BY <2>4, <2>5, <2>6
  <2>8. (s \ {p}) \ {x} = (s \ {x}) \ {p}
    OBVIOUS
  <2>9. f[x] \in Nat /\ f[p] \in Nat /\ SumFunctionOnSet(f, (s \ {p}) \ {x}) \in Nat
    <3>1. IsFiniteSet((s \ {p}) \ {x})
      BY <2>3, FS_Subset
    <3> QED
      BY <2>3, <2>4, <3>1, SumNat
  <2> QED
    BY <2>2, <2>4, <2>7, <2>8, <2>9
<1> QED
  BY <1>1

\* A sum depends on its summands only.
LEMMA SumSame ==
  ASSUME NEW f, NEW g, NEW S, IsFiniteSet(S), \A x \in S : f[x] = g[x]
  PROVE  SumFunctionOnSet(f, S) = SumFunctionOnSet(g, S)
<1> DEFINE T == {s \in SUBSET S : SumFunctionOnSet(f, s) # SumFunctionOnSet(g, s)}
<1>1. T = {}
  <2> SUFFICES ASSUME T # {} PROVE FALSE
    OBVIOUS
  <2>1. PICK s \in T : \A t \in T : Cardinality(s) <= Cardinality(t)
    <3>1. T \in SUBSET (SUBSET S)
      OBVIOUS
    <3> HIDE DEF T
    <3> QED
      BY <3>1, SmallestSet
  <2>2. s \in SUBSET S /\ IsFiniteSet(s)
    BY FS_Subset
  <2>3. /\ SumFunctionOnSet(f, s) = IF s = {} THEN 0 ELSE f[NextOf(s)] + SumFunctionOnSet(f, s \ {NextOf(s)})
        /\ SumFunctionOnSet(g, s) = IF s = {} THEN 0 ELSE g[NextOf(s)] + SumFunctionOnSet(g, s \ {NextOf(s)})
    BY <2>2, SumUnfolds
  <2>4. s # {}
    BY <2>3
  <2>5. f[NextOf(s)] = g[NextOf(s)]
    BY <2>2, <2>4, Picked
  <2>6. s \ {NextOf(s)} \in T
    BY <2>2, <2>3, <2>4, <2>5
  <2>7. Cardinality(s) \in Nat /\ Cardinality(s \ {NextOf(s)}) = Cardinality(s) - 1
    BY <2>2, <2>4, Picked
  <2> QED
    BY <2>1, <2>6, <2>7
<1> QED
  BY <1>1

\* No summand exceeds the sum, and changing one changes the sum by as much.
LEMMA SumChanges ==
  ASSUME NEW f, NEW g, NEW S, IsFiniteSet(S), NEW y \in S,
         \A x \in S : f[x] \in Nat /\ g[x] \in Nat, \A x \in S \ {y} : f[x] = g[x]
  PROVE  /\ SumFunctionOnSet(f, S) \in Nat /\ SumFunctionOnSet(g, S) \in Nat
         /\ f[y] <= SumFunctionOnSet(f, S)
         /\ SumFunctionOnSet(g, S) = (SumFunctionOnSet(f, S) - f[y]) + g[y]
<1> DEFINE R == S \ {y}
<1>1. IsFiniteSet(R) /\ \A x \in R : f[x] \in Nat /\ f[x] = g[x]
  BY FS_Subset
<1>2. SumFunctionOnSet(f, R) \in Nat /\ SumFunctionOnSet(f, R) = SumFunctionOnSet(g, R)
  <2> HIDE DEF R
  <2> QED
    BY <1>1, SumNat, SumSame
<1>3. /\ SumFunctionOnSet(f, S) = f[y] + SumFunctionOnSet(f, R)
      /\ SumFunctionOnSet(g, S) = g[y] + SumFunctionOnSet(g, R)
  BY SumRemove
<1>4. f[y] \in Nat /\ g[y] \in Nat
  OBVIOUS
<1> HIDE DEF R
<1> QED
  BY <1>2, <1>3, <1>4

\* A sum over smaller summands is smaller.
LEMMA SumLess ==
  ASSUME NEW f, NEW g, NEW S, IsFiniteSet(S), \A x \in S : f[x] \in Nat /\ g[x] \in Nat /\ f[x] <= g[x]
  PROVE  SumFunctionOnSet(f, S) <= SumFunctionOnSet(g, S)
<1> DEFINE T == {s \in SUBSET S : ~ (SumFunctionOnSet(f, s) <= SumFunctionOnSet(g, s))}
<1>1. T = {}
  <2> SUFFICES ASSUME T # {} PROVE FALSE
    OBVIOUS
  <2>1. PICK s \in T : \A t \in T : Cardinality(s) <= Cardinality(t)
    <3>1. T \in SUBSET (SUBSET S)
      OBVIOUS
    <3> HIDE DEF T
    <3> QED
      BY <3>1, SmallestSet
  <2>2. s \in SUBSET S /\ IsFiniteSet(s)
    BY FS_Subset
  <2>3. /\ SumFunctionOnSet(f, s) = IF s = {} THEN 0 ELSE f[NextOf(s)] + SumFunctionOnSet(f, s \ {NextOf(s)})
        /\ SumFunctionOnSet(g, s) = IF s = {} THEN 0 ELSE g[NextOf(s)] + SumFunctionOnSet(g, s \ {NextOf(s)})
    BY <2>2, SumUnfolds
  <2>4. s # {}
    BY <2>3
  <2>5. f[NextOf(s)] \in Nat /\ g[NextOf(s)] \in Nat /\ f[NextOf(s)] <= g[NextOf(s)] /\ IsFiniteSet(s \ {NextOf(s)})
    BY <2>2, <2>4, Picked
  <2>6. SumFunctionOnSet(f, s \ {NextOf(s)}) \in Nat /\ SumFunctionOnSet(g, s \ {NextOf(s)}) \in Nat
    BY <2>2, <2>5, SumNat
  <2>7. s \ {NextOf(s)} \in T
    BY <2>2, <2>3, <2>4, <2>5, <2>6
  <2>8. Cardinality(s) \in Nat /\ Cardinality(s \ {NextOf(s)}) = Cardinality(s) - 1
    BY <2>2, <2>4, Picked
  <2> QED
    BY <2>1, <2>7, <2>8
<1> QED
  BY <1>1

\* A sum of nothing, or of zeros, is zero.
LEMMA SumZero ==
  ASSUME NEW f, NEW S, IsFiniteSet(S), \A x \in S : f[x] = 0
  PROVE  SumFunctionOnSet(f, S) = 0
<1> DEFINE T == {s \in SUBSET S : SumFunctionOnSet(f, s) # 0}
<1>1. T = {}
  <2> SUFFICES ASSUME T # {} PROVE FALSE
    OBVIOUS
  <2>1. PICK s \in T : \A t \in T : Cardinality(s) <= Cardinality(t)
    <3>1. T \in SUBSET (SUBSET S)
      OBVIOUS
    <3> HIDE DEF T
    <3> QED
      BY <3>1, SmallestSet
  <2>2. s \in SUBSET S /\ IsFiniteSet(s)
    BY FS_Subset
  <2>3. SumFunctionOnSet(f, s) = IF s = {} THEN 0 ELSE f[NextOf(s)] + SumFunctionOnSet(f, s \ {NextOf(s)})
    BY <2>2, SumUnfolds
  <2>4. s # {} /\ f[NextOf(s)] = 0
    BY <2>2, <2>3, Picked
  <2>5. SumFunctionOnSet(f, s \ {NextOf(s)}) # 0
    BY <2>3, <2>4
  <2>6. s \ {NextOf(s)} \in T
    BY <2>2, <2>5
  <2>7. Cardinality(s) \in Nat /\ Cardinality(s \ {NextOf(s)}) = Cardinality(s) - 1
    BY <2>2, <2>4, Picked
  <2> QED
    BY <2>1, <2>6, <2>7
<1> QED
  BY <1>1

----------------------------------------------------------------------------
(* Hostnames: a route is compiled for exactly the hosts that it and its      *)
(* listener both claim, and the specificity order leaves no doubt about      *)
(* which of several listeners a host belongs to.                             *)

\* Two domains that a host lies below are one within the other, so wildcards
\* that share a host always intersect.
LEMMA DomainsAreNested ==
  ASSUME NEW Label, NEW h \in Seq(Label), NEW d \in Seq(Label), NEW e \in Seq(Label),
         Below(h, d), Below(h, e), Len(d) <= Len(e)
  PROVE  Within(e, d)
BY DEF Below, Within

\* A host below a domain is below every domain that one is within.
LEMMA BelowIsTransitive ==
  ASSUME NEW Label, NEW h \in Seq(Label), NEW d \in Seq(Label), NEW e \in Seq(Label),
         Below(h, e), Within(e, d)
  PROVE  Below(h, d)
BY DEF Below, Within

\* The patterns a route may name: never "any".
Proper(Label) == {x \in Patterns(Label) : x.kind # "any"}

\* The intersection of a listener's and a route's hostname claims a host when
\* both do (intersect_hostnames).
LEMMA IntersectionClaims ==
  ASSUME NEW Label, NEW l \in Proper(Label), NEW r \in Proper(Label), NEW h \in Seq(Label)
  PROVE  (\E p \in intersect_hostnames(l, r) : listener_hostname_claims(p, h))
           <=> listener_hostname_claims(l, h) /\ listener_hostname_claims(r, h)
<1> USE DEF Proper, Patterns
<1>1. l.kind \in {"wild", "exact"} /\ r.kind \in {"wild", "exact"} /\ l.name \in Seq(Label) /\ r.name \in Seq(Label)
  OBVIOUS
<1>2. CASE l.kind = "exact" /\ r.kind = "exact"
  BY <1>1, <1>2 DEF intersect_hostnames, listener_hostname_claims
<1>3. CASE l.kind = "wild" /\ r.kind = "exact"
  BY <1>1, <1>3 DEF intersect_hostnames, listener_hostname_claims
<1>4. CASE l.kind = "exact" /\ r.kind = "wild"
  BY <1>1, <1>4 DEF intersect_hostnames, listener_hostname_claims
<1>5. CASE l.kind = "wild" /\ r.kind = "wild"
  <2>1. listener_hostname_claims(l, h) <=> Below(h, l.name)
    BY <1>5 DEF listener_hostname_claims
  <2>2. listener_hostname_claims(r, h) <=> Below(h, r.name)
    BY <1>5 DEF listener_hostname_claims
  <2>3. CASE Within(r.name, l.name)
    <3>1. intersect_hostnames(l, r) = {r}
      BY <1>5, <2>3 DEF intersect_hostnames
    <3>2. Below(h, r.name) => Below(h, l.name)
      BY <1>1, <2>3, BelowIsTransitive
    <3> QED
      BY <2>1, <2>2, <3>1, <3>2
  <2>4. CASE ~Within(r.name, l.name) /\ Within(l.name, r.name)
    <3>1. intersect_hostnames(l, r) = {l}
      BY <1>5, <2>4 DEF intersect_hostnames
    <3>2. Below(h, l.name) => Below(h, r.name)
      BY <1>1, <2>4, BelowIsTransitive
    <3> QED
      BY <2>1, <2>2, <3>1, <3>2
  <2>5. CASE ~Within(r.name, l.name) /\ ~Within(l.name, r.name)
    <3>1. intersect_hostnames(l, r) = {}
      BY <1>5, <2>5 DEF intersect_hostnames
    <3>2. Len(l.name) <= Len(r.name) \/ Len(r.name) <= Len(l.name)
      BY <1>1
    <3>3. ~(Below(h, l.name) /\ Below(h, r.name))
      BY <1>1, <2>5, <3>2, DomainsAreNested
    <3> QED
      BY <2>1, <2>2, <3>1, <3>3
  <2> QED
    BY <2>3, <2>4, <2>5
<1> QED
  BY <1>1, <1>2, <1>3, <1>4, <1>5

\* A route is compiled under a listener for exactly the hosts that the listener
\* claims and, when it names hostnames, one of these claims: no host is lost
\* in the intersection and none is served that either side left out
\* (compute_effective_hostnames_inner).
THEOREM EffectiveHostnamesExact ==
  ASSUME NEW Label, NEW l \in Patterns(Label), NEW R \in SUBSET Proper(Label), NEW h \in Seq(Label)
  PROVE  (\E p \in compute_effective_hostnames(l, R) : listener_hostname_claims(p, h))
           <=> /\ listener_hostname_claims(l, h)
               /\ R = {} \/ \E r \in R : listener_hostname_claims(r, h)
<1>1. CASE R = {}
  BY <1>1 DEF compute_effective_hostnames
<1>2. CASE R # {} /\ l.kind = "any"
  BY <1>2 DEF compute_effective_hostnames, listener_hostname_claims
<1>3. CASE R # {} /\ l.kind # "any"
  <2>1. compute_effective_hostnames(l, R) = UNION {intersect_hostnames(l, r) : r \in R}
    BY <1>3 DEF compute_effective_hostnames
  <2>2. l \in Proper(Label)
    BY <1>3 DEF Proper
  <2>3. \A r \in R : (\E p \in intersect_hostnames(l, r) : listener_hostname_claims(p, h))
                       <=> listener_hostname_claims(l, h) /\ listener_hostname_claims(r, h)
    BY <2>2, IntersectionClaims
  <2>4. (\E p \in UNION {intersect_hostnames(l, r) : r \in R} : listener_hostname_claims(p, h))
          <=> \E r \in R : \E p \in intersect_hostnames(l, r) : listener_hostname_claims(p, h)
    OBVIOUS
  <2> QED
    BY <1>3, <2>1, <2>3, <2>4, Zenon
<1> QED
  BY <1>1, <1>2, <1>3

\* The pattern that claims any host names none.
LEMMA AnyHasNoName ==
  ASSUME NEW Label, NEW x \in Patterns(Label), x.kind = "any"
  PROVE  Len(x.name) = 0
BY DEF Patterns

\* Two patterns of one specificity that claim the same host are one pattern: a
\* host belongs to one listener of a port, and to one host entry within it, in
\* whatever order the buckets were built (listener_specificity,
\* select_listener_bucket).  Names are shorter than the 9000 that part
\* wildcards from names in the ranking.
THEOREM MostSpecificIsUnique ==
  ASSUME NEW Label, NEW p \in Patterns(Label), NEW q \in Patterns(Label), NEW h \in Seq(Label),
         Len(p.name) < 9000, Len(q.name) < 9000,
         listener_hostname_claims(p, h), listener_hostname_claims(q, h),
         listener_specificity(p) = listener_specificity(q)
  PROVE  p = q
<1>1. /\ p.kind \in {"any", "wild", "exact"} /\ q.kind \in {"any", "wild", "exact"}
      /\ p.name \in Seq(Label) /\ q.name \in Seq(Label)
  BY DEF Patterns
<1>2. p.kind = q.kind
  BY <1>1 DEF listener_specificity
<1>3. p.name = q.name
  <2>1. CASE p.kind = "any"
    <3>1. q.kind = "any"
      BY <1>2, <2>1
    <3>2. Len(p.name) = 0
      BY <2>1, AnyHasNoName
    <3>3. Len(q.name) = 0
      BY <3>1, AnyHasNoName
    <3> QED
      BY <1>1, <3>2, <3>3
  <2>2. CASE p.kind = "exact"
    BY <1>2, <2>2 DEF listener_hostname_claims
  <2>3. CASE p.kind = "wild"
    <3>1. Len(p.name) = Len(q.name)
      BY <1>1, <1>2, <2>3 DEF listener_specificity
    <3>2. \A i \in 1 .. Len(p.name) : p.name[i] = q.name[i]
      BY <1>1, <1>2, <2>3, <3>1 DEF listener_hostname_claims, Below
    <3> QED
      BY <1>1, <3>1, <3>2
  <2> QED
    BY <1>1, <2>1, <2>2, <2>3
<1> QED
  BY <1>2, <1>3 DEF Patterns
=============================================================================
