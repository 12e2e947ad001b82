--------------------------- MODULE DecisionProofs ---------------------------
(* Proofs about Decision, for any thresholds and any finite set of reports.*)
(*                                                                         *)
(* The sums of the decision are folds, which are recursive functions.  The *)
(* proofs by induction are written with least counterexamples: a finite    *)
(* set has no infinite chain of strict subsets, so a set of subsets of it  *)
(* that is not empty has a member with no other member inside.             *)
EXTENDS Decision, FiniteSetTheorems, WellFoundedInduction, TLAPS

-----------------------------------------------------------------------------
(* Least counterexamples.                                                  *)

\* Among subsets of a finite set, one is smallest.
LEMMA SmallestSubset ==
    ASSUME NEW S, IsFiniteSet(S), NEW Bad, Bad \subseteq SUBSET S, Bad # {}
    PROVE  \E m \in Bad : \A t \in Bad : t \subseteq m => t = m
<1>1. IsWellFoundedOn(StrictSubsetOrdering(S), SUBSET S)
  BY FS_FiniteSubsetsOfFinite, FS_StrictSubsetOrderingWellFounded
<1>2. PICK m \in Bad : \A t \in Bad : <<t, m>> \notin StrictSubsetOrdering(S)
  BY <1>1, WFMin
<1> QED
  BY <1>2 DEF StrictSubsetOrdering

\* Among numbers, one is least.
LEMMA SmallestNumber ==
    ASSUME NEW Bad, Bad \subseteq Nat, Bad # {}
    PROVE  \E m \in Bad : \A k \in Bad : m <= k
<1> DEFINE Less == {p \in Nat \X Nat : p[1] < p[2]}
<1>1. IsWellFoundedOn(Less, Nat)
  BY NatLessThanWellFounded DEF OpToRel
<1>2. PICK m \in Bad : \A k \in Bad : <<k, m>> \notin Less
  <2> HIDE DEF Less
  <2> QED BY <1>1, WFMin
<1>3. ASSUME NEW k \in Bad, k < m PROVE FALSE
  BY <1>2, <1>3
<1> QED
  BY <1>3

-----------------------------------------------------------------------------
(* The function that a sum is computed with exists and is unique.          *)

\* The sum over s by way of the sums g over smaller sets.
SumStep(f, g, s) ==
    LET x == CHOOSE x \in s : TRUE IN IF s = {} THEN 0 ELSE f[x] + g[s \ {x}]

SumsOn(f, D, g) == g = [s \in D |-> SumStep(f, g, s)]
Sums(f, S, g)   == SumsOn(f, SUBSET S, g)
UpTo(S, n)      == {s \in SUBSET S : Cardinality(s) <= n}

\* A finite set without one of its members.
LEMMA WithoutOne ==
    ASSUME NEW s, NEW x \in s, IsFiniteSet(s)
    PROVE  /\ IsFiniteSet(s \ {x}) /\ Cardinality(s) \in Nat
           /\ Cardinality(s \ {x}) = Cardinality(s) - 1
  BY FS_RemoveElement, FS_CardinalityType

\* There is a function with the sum over every subset of S: were there none for
\* the subsets of up to n members, then neither for those of up to n - 1.
LEMMA SumsExist ==
    ASSUME NEW f, NEW S, IsFiniteSet(S)
    PROVE  \E g : Sums(f, S, g)
<1> DEFINE Bad == {n \in Nat : ~ \E g : SumsOn(f, UpTo(S, n), g)}
<1>1. \A s \in SUBSET S :
        IsFiniteSet(s) /\ Cardinality(s) \in Nat /\ Cardinality(s) <= Cardinality(S)
  BY FS_Subset, FS_CardinalityType
<1>2. ASSUME Bad # {} PROVE FALSE
  <2>1. PICK n \in Bad : \A k \in Bad : n <= k
    BY <1>2, SmallestNumber
  <2>2. CASE n = 0
    <3>1. \A s \in UpTo(S, 0) : s = {}
      BY <1>1, FS_EmptySet DEF UpTo
    <3>2. SumsOn(f, UpTo(S, 0), [s \in UpTo(S, 0) |-> 0])
      BY <3>1 DEF SumsOn, SumStep
    <3> QED
      BY <2>1, <2>2, <3>2
  <2>3. CASE n # 0
    <3>1. PICK g : SumsOn(f, UpTo(S, n - 1), g)
      BY <2>1, <2>3
    <3> DEFINE h == [s \in UpTo(S, n) |-> SumStep(f, g, s)]
    <3>2. ASSUME NEW s \in UpTo(S, n) PROVE SumStep(f, g, s) = SumStep(f, h, s)
      <4>1. CASE s = {}
        BY <4>1 DEF SumStep
      <4>2. ASSUME NEW x \in s PROVE g[s \ {x}] = h[s \ {x}]
        <5>1. s \in SUBSET S /\ s \ {x} \in SUBSET S /\ Cardinality(s) <= n
          BY DEF UpTo
        <5>2. s \ {x} \in UpTo(S, n - 1) /\ s \ {x} \in UpTo(S, n)
          BY <2>1, <5>1, <1>1, WithoutOne DEF UpTo
        <5> QED
          BY <5>2, <3>1 DEF SumsOn
      <4> HIDE DEF h
      <4>3. CASE s # {}
        <5> DEFINE x == CHOOSE x \in s : TRUE
        <5>1. g[s \ {x}] = h[s \ {x}]
          BY <4>2, <4>3
        <5> QED
          BY <4>3, <5>1 DEF SumStep
      <4> QED
        BY <4>1, <4>3
    <3>3. SumsOn(f, UpTo(S, n), h)
      BY <3>2 DEF SumsOn
    <3> QED
      BY <2>1, <3>3
  <2> QED
    BY <2>2, <2>3
<1>3. UpTo(S, Cardinality(S)) = SUBSET S /\ Cardinality(S) \in Nat
  BY <1>1 DEF UpTo
<1>4. Cardinality(S) \notin Bad
  BY <1>2
<1> QED
  BY <1>3, <1>4 DEF Sums

\* Sums computed within different sets are the same.
LEMMA SumsAgree ==
    ASSUME NEW f, NEW S, IsFiniteSet(S), NEW T \in SUBSET S,
           NEW g, Sums(f, S, g), NEW h, Sums(f, T, h)
    PROVE  g[T] = h[T]
<1> DEFINE Bad == {s \in SUBSET T : g[s] # h[s]}
<1>1. ASSUME Bad # {} PROVE FALSE
  <2>1. IsFiniteSet(T) /\ Bad \subseteq SUBSET T
    BY FS_Subset
  <2>2. PICK s \in Bad : \A t \in Bad : t \subseteq s => t = s
    <3> HIDE DEF Bad
    <3> QED
      BY <1>1, <2>1, SmallestSubset
  <2>3. s \in SUBSET T /\ g[s] = SumStep(f, g, s) /\ h[s] = SumStep(f, h, s) /\ g[s] # h[s]
    BY <2>2 DEF Sums, SumsOn
  <2>4. CASE s = {}
    BY <2>3, <2>4 DEF SumStep
  <2>5. CASE s # {}
    <3> DEFINE x == CHOOSE x \in s : TRUE
    <3>1. x \in s /\ s \ {x} \in SUBSET T /\ s \ {x} \notin Bad
      BY <2>2, <2>3, <2>5
    <3> QED
      BY <2>3, <2>5, <3>1 DEF SumStep
  <2> QED
    BY <2>4, <2>5
<1> QED
  BY <1>1

\* The operator of the library returns the last of those sums.
LEMMA SumIsLast ==
    ASSUME NEW f, NEW S, IsFiniteSet(S), NEW g, Sums(f, S, g), NEW T \in SUBSET S
    PROVE  SumFunctionOnSet(f, T) = g[T]
<1>1. SumFunctionOnSet(f, T) = (CHOOSE h : Sums(f, T, h))[T]
  BY DEF SumFunctionOnSet, FoldFunctionOnSet, MapThenFoldSet, SumStep, Sums, SumsOn
<1>2. IsFiniteSet(T)
  BY FS_Subset
<1>3. PICK h : Sums(f, T, h) /\ SumFunctionOnSet(f, T) = h[T]
  BY <1>1, <1>2, SumsExist
<1>4. g[T] = h[T]
  BY <1>3, SumsAgree
<1> QED
  BY <1>3, <1>4

\* A sum of nothing is zero.
LEMMA SumEmpty ==
    ASSUME NEW f
    PROVE  SumFunctionOnSet(f, {}) = 0
<1>1. IsFiniteSet({})
  BY FS_EmptySet
<1>2. PICK g : Sums(f, {}, g)
  BY <1>1, SumsExist
<1>3. SumFunctionOnSet(f, {}) = g[{}]
  BY <1>1, <1>2, SumIsLast
<1>4. g[{}] = SumStep(f, g, {})
  BY <1>2 DEF Sums, SumsOn
<1> QED
  BY <1>3, <1>4 DEF SumStep

\* A sum is that of some member and of the others.
LEMMA SumChosen ==
    ASSUME NEW f, NEW S, IsFiniteSet(S), S # {}
    PROVE  \E x \in S : SumFunctionOnSet(f, S) = f[x] + SumFunctionOnSet(f, S \ {x})
<1>1. PICK g : Sums(f, S, g)
  BY SumsExist
<1> DEFINE x == CHOOSE x \in S : TRUE
<1>2. x \in S /\ S \ {x} \in SUBSET S /\ S \in SUBSET S
  OBVIOUS
<1>3. SumFunctionOnSet(f, S) = g[S] /\ SumFunctionOnSet(f, S \ {x}) = g[S \ {x}]
  BY <1>1, <1>2, SumIsLast
<1>4. g[S] = SumStep(f, g, S)
  BY <1>1 DEF Sums, SumsOn
<1> QED
  BY <1>2, <1>3, <1>4 DEF SumStep

-----------------------------------------------------------------------------
(* What sums satisfy.                                                      *)

\* A sum of integers is one.
LEMMA SumInt ==
    ASSUME NEW D, NEW f \in [D -> Int], NEW S \in SUBSET D, IsFiniteSet(S)
    PROVE  SumFunctionOnSet(f, S) \in Int
<1> DEFINE Bad == {t \in SUBSET S : SumFunctionOnSet(f, t) \notin Int}
<1>1. ASSUME Bad # {} PROVE FALSE
  <2>1. PICK m \in Bad : \A t \in Bad : t \subseteq m => t = m
    <3>1. Bad \subseteq SUBSET S
      OBVIOUS
    <3> HIDE DEF Bad
    <3> QED
      BY <1>1, <3>1, SmallestSubset
  <2>2. m \in SUBSET S /\ SumFunctionOnSet(f, m) \notin Int
    OBVIOUS
  <2>3. IsFiniteSet(m) /\ m # {}
    <3>1. CASE m = {}
      BY <2>2, <3>1, SumEmpty
    <3> QED
      BY <2>2, <3>1, FS_Subset
  <2>4. PICK x \in m : SumFunctionOnSet(f, m) = f[x] + SumFunctionOnSet(f, m \ {x})
    BY <2>3, SumChosen
  <2>5. m \ {x} \notin Bad /\ m \ {x} \subseteq S
    BY <2>1, <2>2
  <2> QED
    BY <2>2, <2>4, <2>5
<1> QED
  BY <1>1

\* It does not matter which member is taken out first.
LEMMA SumRemove ==
    ASSUME NEW D, NEW f \in [D -> Int], NEW S \in SUBSET D, IsFiniteSet(S), NEW y \in S
    PROVE  SumFunctionOnSet(f, S) = f[y] + SumFunctionOnSet(f, S \ {y})
<1> DEFINE Bad == {t \in SUBSET S : \E z \in t :
                     SumFunctionOnSet(f, t) # f[z] + SumFunctionOnSet(f, t \ {z})}
<1>1. ASSUME Bad # {} PROVE FALSE
  <2>1. PICK m \in Bad : \A t \in Bad : t \subseteq m => t = m
    <3>1. Bad \subseteq SUBSET S
      OBVIOUS
    <3> HIDE DEF Bad
    <3> QED
      BY <1>1, <3>1, SmallestSubset
  <2>2. PICK z \in m : SumFunctionOnSet(f, m) # f[z] + SumFunctionOnSet(f, m \ {z})
    OBVIOUS
  <2>3. m \subseteq S /\ IsFiniteSet(m) /\ m # {}
    BY FS_Subset
  <2>4. PICK x \in m : SumFunctionOnSet(f, m) = f[x] + SumFunctionOnSet(f, m \ {x})
    BY <2>3, SumChosen
  <2>5. x # z
    BY <2>2, <2>4
  <2>6. SumFunctionOnSet(f, m \ {x}) = f[z] + SumFunctionOnSet(f, (m \ {x}) \ {z})
    <3>1. m \ {x} \notin Bad /\ z \in m \ {x} /\ m \ {x} \in SUBSET S
      BY <2>1, <2>3, <2>5
    <3> QED
      BY <3>1
  <2>7. SumFunctionOnSet(f, m \ {z}) = f[x] + SumFunctionOnSet(f, (m \ {z}) \ {x})
    <3>1. m \ {z} \notin Bad /\ x \in m \ {z} /\ m \ {z} \in SUBSET S
      BY <2>1, <2>3, <2>5
    <3> QED
      BY <3>1
  <2>8. (m \ {x}) \ {z} = (m \ {z}) \ {x} /\ (m \ {x}) \ {z} \in SUBSET D
    BY <2>3
  <2>9. SumFunctionOnSet(f, (m \ {x}) \ {z}) \in Int /\ f[x] \in Int /\ f[z] \in Int
    BY <2>3, <2>8, FS_Subset, SumInt
  <2> QED
    BY <2>2, <2>4, <2>6, <2>7, <2>8, <2>9
<1> QED
  BY <1>1

\* Greater terms have a greater sum.
LEMMA SumMonotonic ==
    ASSUME NEW D, NEW f \in [D -> Int], NEW h \in [D -> Int],
           NEW S \in SUBSET D, IsFiniteSet(S), \A x \in S : f[x] <= h[x]
    PROVE  SumFunctionOnSet(f, S) <= SumFunctionOnSet(h, S)
<1> DEFINE Bad == {t \in SUBSET S : ~ (SumFunctionOnSet(f, t) <= SumFunctionOnSet(h, t))}
<1>1. ASSUME Bad # {} PROVE FALSE
  <2>1. PICK m \in Bad : \A t \in Bad : t \subseteq m => t = m
    <3>1. Bad \subseteq SUBSET S
      OBVIOUS
    <3> HIDE DEF Bad
    <3> QED
      BY <1>1, <3>1, SmallestSubset
  <2>2. m \in SUBSET D /\ m \subseteq S /\ ~ (SumFunctionOnSet(f, m) <= SumFunctionOnSet(h, m))
    OBVIOUS
  <2>3. IsFiniteSet(m)
    BY <2>2, FS_Subset
  <2>4. PICK x \in m : TRUE
    BY <2>2, SumEmpty
  <2>5. /\ SumFunctionOnSet(f, m) = f[x] + SumFunctionOnSet(f, m \ {x})
        /\ SumFunctionOnSet(h, m) = h[x] + SumFunctionOnSet(h, m \ {x})
    BY <2>2, <2>3, SumRemove
  <2>6. SumFunctionOnSet(f, m \ {x}) <= SumFunctionOnSet(h, m \ {x})
    <3>1. m \ {x} \notin Bad /\ m \ {x} \in SUBSET S
      BY <2>1, <2>2
    <3> QED
      BY <3>1
  <2>7. SumFunctionOnSet(f, m \ {x}) \in Int /\ SumFunctionOnSet(h, m \ {x}) \in Int
    <3>1. m \ {x} \in SUBSET D /\ IsFiniteSet(m \ {x})
      BY <2>2, <2>3, FS_RemoveElement
    <3> QED
      BY <3>1, SumInt
  <2>8. f[x] \in Int /\ h[x] \in Int /\ f[x] <= h[x]
    BY <2>2
  <2> QED
    BY <2>2, <2>5, <2>6, <2>7, <2>8
<1> QED
  BY <1>1

\* A factor common to all terms is one of the sum.
LEMMA SumScale ==
    ASSUME NEW D, NEW f \in [D -> Int], NEW h \in [D -> Int], NEW k \in Int,
           NEW S \in SUBSET D, IsFiniteSet(S), \A x \in S : f[x] = k * h[x]
    PROVE  SumFunctionOnSet(f, S) = k * SumFunctionOnSet(h, S)
<1> DEFINE Bad == {t \in SUBSET S : SumFunctionOnSet(f, t) # k * SumFunctionOnSet(h, t)}
<1>1. ASSUME Bad # {} PROVE FALSE
  <2>1. PICK m \in Bad : \A t \in Bad : t \subseteq m => t = m
    <3>1. Bad \subseteq SUBSET S
      OBVIOUS
    <3> HIDE DEF Bad
    <3> QED
      BY <1>1, <3>1, SmallestSubset
  <2>2. m \in SUBSET D /\ m \subseteq S /\ SumFunctionOnSet(f, m) # k * SumFunctionOnSet(h, m)
    OBVIOUS
  <2>3. IsFiniteSet(m)
    BY <2>2, FS_Subset
  <2>4. PICK x \in m : TRUE
    <3>1. k * 0 = 0
      OBVIOUS
    <3> QED
      BY <2>2, <3>1, SumEmpty
  <2>5. /\ SumFunctionOnSet(f, m) = f[x] + SumFunctionOnSet(f, m \ {x})
        /\ SumFunctionOnSet(h, m) = h[x] + SumFunctionOnSet(h, m \ {x})
    BY <2>2, <2>3, SumRemove
  <2>6. SumFunctionOnSet(f, m \ {x}) = k * SumFunctionOnSet(h, m \ {x})
    <3>1. m \ {x} \notin Bad /\ m \ {x} \in SUBSET S
      BY <2>1, <2>2
    <3> QED
      BY <3>1
  <2>7. SumFunctionOnSet(h, m \ {x}) \in Int
    <3>1. m \ {x} \in SUBSET D /\ IsFiniteSet(m \ {x})
      BY <2>2, <2>3, FS_RemoveElement
    <3> QED
      BY <3>1, SumInt
  <2>8. h[x] \in Int /\ f[x] = k * h[x]
    BY <2>2
  <2>9. \A a, b \in Int : k * (a + b) = k * a + k * b
    OBVIOUS
  <2> QED
    BY <2>2, <2>5, <2>6, <2>7, <2>8, <2>9
<1> QED
  BY <1>1

\* Terms that are all the same are multiplied.
LEMMA SumConstant ==
    ASSUME NEW D, NEW k \in Int, NEW S \in SUBSET D, IsFiniteSet(S)
    PROVE  SumFunctionOnSet([x \in D |-> k], S) = k * Cardinality(S)
<1> DEFINE f == [x \in D |-> k]
           Bad == {t \in SUBSET S : SumFunctionOnSet(f, t) # k * Cardinality(t)}
<1>0. f \in [D -> Int] /\ \A x \in D : f[x] = k
  OBVIOUS
<1> HIDE DEF f
<1>1. ASSUME Bad # {} PROVE FALSE
  <2>1. PICK m \in Bad : \A t \in Bad : t \subseteq m => t = m
    <3>1. Bad \subseteq SUBSET S
      OBVIOUS
    <3> HIDE DEF Bad
    <3> QED
      BY <1>1, <3>1, SmallestSubset
  <2>2. m \in SUBSET D /\ m \subseteq S /\ SumFunctionOnSet(f, m) # k * Cardinality(m)
    OBVIOUS
  <2>3. IsFiniteSet(m)
    BY <2>2, FS_Subset
  <2>4. PICK x \in m : TRUE
    <3>1. k * 0 = 0 /\ Cardinality({}) = 0
      BY FS_EmptySet
    <3> QED
      BY <2>2, <3>1, SumEmpty
  <2>5. SumFunctionOnSet(f, m) = k + SumFunctionOnSet(f, m \ {x})
    BY <1>0, <2>2, <2>3, SumRemove
  <2>6. SumFunctionOnSet(f, m \ {x}) = k * Cardinality(m \ {x})
    <3>1. m \ {x} \notin Bad /\ m \ {x} \in SUBSET S
      BY <2>1, <2>2
    <3> QED
      BY <3>1
  <2>7. Cardinality(m) \in Nat /\ Cardinality(m \ {x}) = Cardinality(m) - 1
    BY <2>3, WithoutOne
  <2>8. \A c \in Nat : k + k * (c - 1) = k * c
    OBVIOUS
  <2> QED
    BY <2>2, <2>5, <2>6, <2>7, <2>8
<1> QED
  BY <1>1 DEF f

\* The sum over an image is a sum over what it is the image of.
LEMMA SumImage ==
    ASSUME NEW D, NEW f \in [D -> Int], NEW V, IsFiniteSet(V),
           NEW h \in [V -> D], \A v, w \in V : h[v] = h[w] => v = w
    PROVE  SumFunctionOnSet(f, {h[v] : v \in V}) = SumFunctionOnSet([v \in V |-> f[h[v]]], V)
<1> DEFINE g == [v \in V |-> f[h[v]]]
           Im(t) == {h[v] : v \in t}
           Bad == {t \in SUBSET V : SumFunctionOnSet(f, Im(t)) # SumFunctionOnSet(g, t)}
<1>0. g \in [V -> Int]
  OBVIOUS
<1>1. ASSUME Bad # {} PROVE FALSE
  <2>1. PICK m \in Bad : \A t \in Bad : t \subseteq m => t = m
    <3>1. Bad \subseteq SUBSET V
      OBVIOUS
    <3> HIDE DEF Bad
    <3> QED
      BY <1>1, <3>1, SmallestSubset
  <2>2. m \in SUBSET V /\ SumFunctionOnSet(f, Im(m)) # SumFunctionOnSet(g, m)
    OBVIOUS
  <2>3. IsFiniteSet(m)
    BY <2>2, FS_Subset
  <2>4. PICK x \in m : TRUE
    <3>1. Im({}) = {}
      OBVIOUS
    <3> HIDE DEF Im, g
    <3> QED
      BY <2>2, <3>1, SumEmpty
  <2>5. Im(m) \in SUBSET D /\ IsFiniteSet(Im(m)) /\ h[x] \in Im(m) /\ Im(m) \ {h[x]} = Im(m \ {x})
    <3>1. Im(m) \in SUBSET D /\ h[x] \in Im(m) /\ Im(m) \ {h[x]} = Im(m \ {x})
      BY <2>2
    <3>2. [v \in m |-> h[v]] \in Surjection(m, Im(m))
      BY <2>2 DEF Surjection
    <3> QED
      BY <2>3, <3>1, <3>2, FS_Surjection
  <2>6. SumFunctionOnSet(f, Im(m)) = f[h[x]] + SumFunctionOnSet(f, Im(m \ {x}))
    <3> HIDE DEF Im
    <3> QED
      BY <2>5, SumRemove
  <2>7. SumFunctionOnSet(g, m) = g[x] + SumFunctionOnSet(g, m \ {x})
    <3> HIDE DEF g
    <3> QED
      BY <1>0, <2>2, <2>3, SumRemove
  <2>8. SumFunctionOnSet(f, Im(m \ {x})) = SumFunctionOnSet(g, m \ {x})
    <3>1. m \ {x} \notin Bad /\ m \ {x} \in SUBSET V
      BY <2>1, <2>2
    <3> QED
      BY <3>1
  <2>9. g[x] = f[h[x]]
    BY <2>2
  <2> HIDE DEF g, Im
  <2> QED
    BY <2>2, <2>6, <2>7, <2>8, <2>9
<1>2. V \in SUBSET V /\ V \notin Bad
  BY <1>1
<1> QED
  BY <1>2

-----------------------------------------------------------------------------
(* Reports.                                                                *)

\* A report of one of the vendors V.
ReportsOf(V) == [source : V, score : Int, weight : Nat, confidence : Nat]

\* One report by each of the vendors V.
OneEach(V, a) == a \in [V -> ReportsOf(V)] /\ \A v \in V : a[v].source = v

\* What decide computes from a set of reports, one by each vendor, is what it
\* would from the vendors.
LEMMA ByVendor ==
    ASSUME NEW V, IsFiniteSet(V), NEW a, OneEach(V, a)
    PROVE  LET R == {a[v] : v \in V} IN
           /\ IsFiniteSet(R) /\ Cardinality(R) = Cardinality(V)
           /\ WeightTotal(R) = SumFunctionOnSet([v \in V |-> a[v].weight], V)
           /\ WeightedSum(R) = SumFunctionOnSet([v \in V |-> a[v].score * a[v].weight], V)
           /\ SumFunction([r \in R |-> r.score]) = SumFunctionOnSet([v \in V |-> a[v].score], V)
           /\ SumFunction([r \in R |-> r.confidence]) =
                SumFunctionOnSet([v \in V |-> a[v].confidence], V)
<1> DEFINE R == {a[v] : v \in V}
           weight     == [r \in R |-> r.weight]
           weighted   == [r \in R |-> r.score * r.weight]
           score      == [r \in R |-> r.score]
           confidence == [r \in R |-> r.confidence]
<1>1. a \in [V -> R] /\ \A v, w \in V : a[v] = a[w] => v = w
  BY DEF OneEach
<1>2. {weight, weighted, score, confidence} \subseteq [R -> Int]
  BY DEF OneEach, ReportsOf
<1>3. IsFiniteSet(R) /\ Cardinality(R) = Cardinality(V)
  <2>1. a \in Bijection(V, R)
    BY <1>1 DEF Bijection, Injection, Surjection, IsInjective
  <2>2. ExistsBijection(V, R)
    BY <2>1 DEF ExistsBijection
  <2> QED
    BY <2>2, FS_Bijection
<1>4. ASSUME NEW f \in [R -> Int]
      PROVE  SumFunction(f) = SumFunctionOnSet([v \in V |-> f[a[v]]], V)
  <2>1. SumFunction(f) = SumFunctionOnSet(f, R)
    BY DEF SumFunction
  <2> HIDE DEF R
  <2>2. SumFunctionOnSet(f, {a[v] : v \in V}) = SumFunctionOnSet([v \in V |-> f[a[v]]], V)
    BY <1>1, SumImage
  <2> QED
    BY <2>1, <2>2 DEF R
<1>5. /\ [v \in V |-> weight[a[v]]] = [v \in V |-> a[v].weight]
      /\ [v \in V |-> weighted[a[v]]] = [v \in V |-> a[v].score * a[v].weight]
      /\ [v \in V |-> score[a[v]]] = [v \in V |-> a[v].score]
      /\ [v \in V |-> confidence[a[v]]] = [v \in V |-> a[v].confidence]
  OBVIOUS
<1>6. WeightTotal(R) = SumFunction(weight) /\ WeightedSum(R) = SumFunction(weighted)
  BY DEF WeightTotal, WeightedSum
<1> HIDE DEF weight, weighted, score, confidence
<1>7. /\ SumFunction(weight) = SumFunctionOnSet([v \in V |-> a[v].weight], V)
      /\ SumFunction(weighted) = SumFunctionOnSet([v \in V |-> a[v].score * a[v].weight], V)
      /\ SumFunction(score) = SumFunctionOnSet([v \in V |-> a[v].score], V)
      /\ SumFunction(confidence) = SumFunctionOnSet([v \in V |-> a[v].confidence], V)
  BY <1>2, <1>4, <1>5
<1> QED
  BY <1>3, <1>6, <1>7 DEF score, confidence

\* Sums over the vendors of a field of their reports are integers, and not
\* negative where the field is not.
LEMMA VendorSums ==
    ASSUME NEW V, IsFiniteSet(V), NEW f \in [V -> Int]
    PROVE  /\ SumFunctionOnSet(f, V) \in Int
           /\ (\A v \in V : f[v] >= 0) => SumFunctionOnSet(f, V) >= 0
           /\ \A v \in V : (\A w \in V : f[w] >= 0) => SumFunctionOnSet(f, V) >= f[v]
<1>1. SumFunctionOnSet(f, V) \in Int
  BY V \in SUBSET V, SumInt
<1>2. ASSUME NEW S \in SUBSET V, \A w \in V : f[w] >= 0
      PROVE  SumFunctionOnSet(f, S) \in Int /\ SumFunctionOnSet(f, S) >= 0
  <2> DEFINE zero == [w \in V |-> 0]
  <2>1. IsFiniteSet(S) /\ zero \in [V -> Int] /\ \A w \in S : zero[w] = 0 * f[w] /\ zero[w] <= f[w]
    BY <1>2, FS_Subset
  <2> HIDE DEF zero
  <2>2. SumFunctionOnSet(zero, S) = 0 * SumFunctionOnSet(f, S)
    BY <2>1, SumScale
  <2>3. SumFunctionOnSet(f, S) \in Int
    BY <2>1, SumInt
  <2>4. SumFunctionOnSet(zero, S) <= SumFunctionOnSet(f, S)
    BY <2>1, SumMonotonic
  <2> QED
    BY <2>2, <2>3, <2>4
<1>3. ASSUME NEW v \in V, \A w \in V : f[w] >= 0 PROVE SumFunctionOnSet(f, V) >= f[v]
  <2>1. SumFunctionOnSet(f, V) = f[v] + SumFunctionOnSet(f, V \ {v})
    BY V \in SUBSET V, SumRemove
  <2>2. SumFunctionOnSet(f, V \ {v}) \in Int /\ SumFunctionOnSet(f, V \ {v}) >= 0
    BY <1>2, <1>3
  <2> QED
    BY <2>1, <2>2
<1> QED
  BY <1>1, <1>2, <1>3

-----------------------------------------------------------------------------
(* deriveScore.                                                            *)

\* How far a quotient is from the exact one.
LEMMA Quotient ==
    ASSUME NEW a \in Int, NEW n \in Nat \ {0}
    PROVE  a \div n \in Int /\ (a \div n) * n <= a /\ a < (a \div n) * n + n
  OBVIOUS

\* A greater dividend has no lesser quotient.
LEMMA QuotientMonotonic ==
    ASSUME NEW a \in Int, NEW b \in Int, NEW n \in Nat \ {0}, a <= b
    PROVE  a \div n <= b \div n
<1>1. \A q, p \in Int : q > p => q * n >= p * n + n
  OBVIOUS
<1> QED
  BY <1>1, Quotient

\* A score is on the scale, whatever a vendor thinks of the applicant.
LEMMA ScoreRange ==
    ASSUME NEW base \in Int, NEW prior,
           prior # {} => MeanScore(prior) \in Int
    PROVE  deriveScore(base, prior) \in 0..100
  BY DEF deriveScore, clamp

\* A vendor that thinks worse of the applicant, with prior signals no better,
\* gives no lower score.
LEMMA ScoreMonotonic ==
    ASSUME NEW base \in Int, NEW worse \in Int, base <= worse, NEW prior, NEW priorOfWorse,
           prior = {} <=> priorOfWorse = {},
           prior # {} => /\ MeanScore(prior) \in Int /\ MeanScore(priorOfWorse) \in Int
                         /\ MeanScore(prior) <= MeanScore(priorOfWorse)
    PROVE  deriveScore(base, prior) <= deriveScore(worse, priorOfWorse)
<1>1. CASE prior = {}
  BY <1>1 DEF deriveScore, clamp
<1>2. CASE prior # {}
  <2> DEFINE b == (base + MeanScore(prior)) \div 2
             w == (worse + MeanScore(priorOfWorse)) \div 2
  <2>1. b \in Int /\ w \in Int /\ b <= w
    BY <1>2
  <2>2. deriveScore(base, prior) = clamp(b, 0, 100)
        /\ deriveScore(worse, priorOfWorse) = clamp(w, 0, 100)
    BY <1>2 DEF deriveScore
  <2> HIDE DEF b, w
  <2> QED
    BY <2>1, <2>2 DEF clamp
<1> QED
  BY <1>1, <1>2

\* Blending in the signals of Stage A does not bring a score back over a
\* threshold that the vendor's own opinion and their mean are both beyond.
LEMMA ScoreBeyond ==
    ASSUME NEW base \in Int, NEW prior, prior # {} => MeanScore(prior) \in Int,
           NEW t \in 0..100
    PROVE  /\ base >= t /\ (prior # {} => MeanScore(prior) >= t) => deriveScore(base, prior) >= t
           /\ base <= t /\ (prior # {} => MeanScore(prior) <= t) => deriveScore(base, prior) <= t
<1>1. CASE prior = {}
  BY <1>1 DEF deriveScore, clamp
<1>2. CASE prior # {}
  BY <1>2 DEF deriveScore, clamp
<1> QED
  BY <1>1, <1>2

\* The mean is between the bounds of what it is the mean of.
LEMMA MeanOfScores ==
    ASSUME NEW V, IsFiniteSet(V), V # {}, NEW a, OneEach(V, a)
    PROVE  LET mean == MeanScore({a[v] : v \in V}) IN
           /\ mean \in Int
           /\ \A t \in Int : (\A v \in V : a[v].score >= t) => mean >= t
           /\ \A t \in Int : (\A v \in V : a[v].score <= t) => mean <= t
<1> DEFINE scores == [v \in V |-> a[v].score]
           sum    == SumFunctionOnSet(scores, V)
           n      == Cardinality(V)
<1>1. MeanScore({a[v] : v \in V}) = sum \div n
  BY ByVendor DEF MeanScore
<1>2. scores \in [V -> Int] /\ \A v \in V : scores[v] = a[v].score
  BY DEF OneEach, ReportsOf
<1>3. n \in Nat \ {0}
  BY FS_CardinalityType, FS_EmptySet
<1> HIDE DEF scores, n
<1>4. sum \in Int
  BY <1>2, VendorSums
<1>5. ASSUME NEW t \in Int
      PROVE  /\ (\A v \in V : a[v].score >= t) => sum >= t * n
             /\ (\A v \in V : a[v].score <= t) => sum <= t * n
  <2> DEFINE same == [v \in V |-> t]
  <2>1. same \in [V -> Int] /\ \A v \in V : same[v] = t
    OBVIOUS
  <2>2. SumFunctionOnSet(same, V) = t * n
    BY V \in SUBSET V, SumConstant DEF n
  <2> HIDE DEF same
  <2> QED
    BY <1>2, <2>1, <2>2, V \in SUBSET V, SumMonotonic
<1>6. ASSUME NEW t \in Int
      PROVE  /\ sum >= t * n => sum \div n >= t
             /\ sum <= t * n => sum \div n <= t
  <2>1. (t * n) \div n = t /\ t * n \in Int
    BY <1>3
  <2> QED
    BY <1>3, <1>4, <2>1, QuotientMonotonic
<1> QED
  BY <1>1, <1>3, <1>4, <1>5, <1>6, Quotient

\* Higher scores have no lower mean.
LEMMA MeanMonotonic ==
    ASSUME NEW V, IsFiniteSet(V), V # {}, NEW a, OneEach(V, a), NEW b, OneEach(V, b),
           \A v \in V : a[v].score <= b[v].score
    PROVE  MeanScore({a[v] : v \in V}) <= MeanScore({b[v] : v \in V})
<1> DEFINE f == [v \in V |-> a[v].score]
           h == [v \in V |-> b[v].score]
<1>1. /\ MeanScore({a[v] : v \in V}) = SumFunctionOnSet(f, V) \div Cardinality(V)
      /\ MeanScore({b[v] : v \in V}) = SumFunctionOnSet(h, V) \div Cardinality(V)
  BY ByVendor DEF MeanScore
<1>2. f \in [V -> Int] /\ h \in [V -> Int] /\ \A v \in V : f[v] <= h[v]
  BY DEF OneEach, ReportsOf
<1>3. Cardinality(V) \in Nat \ {0}
  BY FS_CardinalityType, FS_EmptySet
<1> HIDE DEF f, h
<1>4. SumFunctionOnSet(f, V) \in Int /\ SumFunctionOnSet(h, V) \in Int
      /\ SumFunctionOnSet(f, V) <= SumFunctionOnSet(h, V)
  BY <1>2, V \in SUBSET V, VendorSums, SumMonotonic
<1> QED
  BY <1>1, <1>3, <1>4, QuotientMonotonic

-----------------------------------------------------------------------------
(* decide.                                                                 *)

\* The sums of decide are numbers.
LEMMA SumsOfDecide ==
    ASSUME NEW V, IsFiniteSet(V), NEW a, OneEach(V, a)
    PROVE  LET R == {a[v] : v \in V} IN WeightTotal(R) \in Nat /\ WeightedSum(R) \in Int
<1> DEFINE weight   == [v \in V |-> a[v].weight]
           weighted == [v \in V |-> a[v].score * a[v].weight]
<1>1. weight \in [V -> Int] /\ weighted \in [V -> Int] /\ \A v \in V : weight[v] >= 0
  BY DEF OneEach, ReportsOf
<1>2. /\ WeightTotal({a[v] : v \in V}) = SumFunctionOnSet(weight, V)
      /\ WeightedSum({a[v] : v \in V}) = SumFunctionOnSet(weighted, V)
  BY ByVendor
<1> HIDE DEF weight, weighted
<1> QED
  BY <1>1, <1>2, VendorSums

\* Scores that are all beyond a threshold have a weighted average beyond it, if
\* any report has weight.
LEMMA AverageBeyond ==
    ASSUME NEW V, IsFiniteSet(V), V # {}, NEW a, OneEach(V, a),
           \A v \in V : a[v].weight > 0, NEW t \in Int
    PROVE  LET R == {a[v] : v \in V} IN
           /\ WeightTotal(R) > 0
           /\ (\A v \in V : a[v].score >= t) => WeightedSum(R) >= t * WeightTotal(R)
           /\ (\A v \in V : a[v].score <= t) => WeightedSum(R) <= t * WeightTotal(R)
<1> DEFINE weight   == [v \in V |-> a[v].weight]
           weighted == [v \in V |-> a[v].score * a[v].weight]
           scaled   == [v \in V |-> t * weight[v]]
<1>1. /\ WeightTotal({a[v] : v \in V}) = SumFunctionOnSet(weight, V)
      /\ WeightedSum({a[v] : v \in V}) = SumFunctionOnSet(weighted, V)
  BY ByVendor
<1>2. /\ weight \in [V -> Int] /\ weighted \in [V -> Int] /\ scaled \in [V -> Int]
      /\ \A v \in V : weight[v] > 0 /\ scaled[v] = t * weight[v]
      /\ \A v \in V : a[v].score >= t => scaled[v] <= weighted[v]
      /\ \A v \in V : a[v].score <= t => weighted[v] <= scaled[v]
  <2>1. \A s \in Int, w \in Nat : (s >= t => t * w <= s * w) /\ (s <= t => s * w <= t * w)
                                  /\ s * w \in Int /\ t * w \in Int
    OBVIOUS
  <2> QED
    BY <2>1 DEF OneEach, ReportsOf
<1> HIDE DEF weight, weighted, scaled
<1>3. SumFunctionOnSet(weight, V) > 0
  <2>1. PICK v \in V : TRUE
    OBVIOUS
  <2> QED
    BY <1>2, <2>1, VendorSums
<1>4. SumFunctionOnSet(scaled, V) = t * SumFunctionOnSet(weight, V)
  BY <1>2, V \in SUBSET V, SumScale
<1>5. /\ (\A v \in V : a[v].score >= t) => SumFunctionOnSet(scaled, V) <= SumFunctionOnSet(weighted, V)
      /\ (\A v \in V : a[v].score <= t) => SumFunctionOnSet(weighted, V) <= SumFunctionOnSet(scaled, V)
  BY <1>2, V \in SUBSET V, SumMonotonic
<1>6. /\ SumFunctionOnSet(weight, V) \in Int /\ SumFunctionOnSet(weighted, V) \in Int
      /\ SumFunctionOnSet(scaled, V) \in Int
  BY <1>2, VendorSums
<1> QED
  BY <1>1, <1>3, <1>4, <1>5, <1>6

\* Vendors that agree are followed, if coverage is sufficient, the vendors have
\* weight, and the thresholds are in order (pipeline.go:76-104).
THEOREM AgreementDecides ==
    ASSUME NEW V, IsFiniteSet(V), V # {}, NEW a, OneEach(V, a),
           \A v \in V : a[v].weight > 0, Covered({a[v] : v \in V})
    PROVE  /\ (\A v \in V : a[v].score >= DeclineAbove) => decide({a[v] : v \in V}) = "DECLINE"
           /\ (\A v \in V : a[v].score <= ApproveBelow) /\ ApproveBelow < DeclineAbove
                => decide({a[v] : v \in V}) = "APPROVE"
<1> DEFINE R == {a[v] : v \in V}
<1>1. ApproveBelow \in Int /\ DeclineAbove \in Int
  BY ThresholdsAssumption
<1>2. WeightTotal(R) > 0 /\ WeightTotal(R) \in Nat /\ WeightedSum(R) \in Int
  BY <1>1, AverageBeyond, SumsOfDecide
<1>3. /\ (\A v \in V : a[v].score >= DeclineAbove) => ScoreAtLeast(R, DeclineAbove)
      /\ (\A v \in V : a[v].score <= ApproveBelow) => ScoreAtMost(R, ApproveBelow)
  BY <1>1, <1>2, AverageBeyond DEF ScoreAtLeast, ScoreAtMost
<1>4. ApproveBelow < DeclineAbove /\ ScoreAtMost(R, ApproveBelow) => ~ ScoreAtLeast(R, DeclineAbove)
  <2>1. \A w \in Nat, s, t \in Int : w > 0 /\ s < t => s * w < t * w /\ s * w \in Int /\ t * w \in Int
    OBVIOUS
  <2> HIDE DEF R
  <2> QED
    BY <1>1, <1>2, <2>1 DEF ScoreAtLeast, ScoreAtMost
<1> HIDE DEF R
<1>5. Covered(R)
  BY DEF R
<1> QED
  BY <1>3, <1>4, <1>5 DEF decide, R

\* Worse scores, everything else equal, never bring a more lenient decision,
\* whatever the weights, the thresholds and their order (pipeline.go:64-106).
THEOREM WorseIsNotMoreLenient ==
    ASSUME NEW V, IsFiniteSet(V), NEW a, OneEach(V, a), NEW b, OneEach(V, b),
           \A v \in V : /\ a[v].weight = b[v].weight /\ a[v].confidence = b[v].confidence
                        /\ a[v].score <= b[v].score
    PROVE  Severity[decide({a[v] : v \in V})] <= Severity[decide({b[v] : v \in V})]
<1> DEFINE A == {a[v] : v \in V}
           B == {b[v] : v \in V}
           WA == [v \in V |-> a[v].score * a[v].weight]
           WB == [v \in V |-> b[v].score * b[v].weight]
<1>1. WeightTotal(A) = WeightTotal(B) /\ (Covered(A) <=> Covered(B))
  <2>1. /\ [v \in V |-> a[v].weight] = [v \in V |-> b[v].weight]
        /\ [v \in V |-> a[v].confidence] = [v \in V |-> b[v].confidence]
    OBVIOUS
  <2>2. A = {} <=> B = {}
    OBVIOUS
  <2>3. WeightTotal(A) = SumFunctionOnSet([v \in V |-> a[v].weight], V)
        /\ WeightTotal(B) = SumFunctionOnSet([v \in V |-> b[v].weight], V)
    BY ByVendor
  <2>4. Cardinality(A) = Cardinality(V) /\ Cardinality(B) = Cardinality(V)
    BY ByVendor
  <2>5. /\ SumFunction([r \in A |-> r.confidence]) = SumFunctionOnSet([v \in V |-> a[v].confidence], V)
        /\ SumFunction([r \in B |-> r.confidence]) = SumFunctionOnSet([v \in V |-> b[v].confidence], V)
    BY ByVendor
  <2> HIDE DEF A, B
  <2> QED
    BY <2>1, <2>2, <2>3, <2>4, <2>5 DEF Covered
<1>2. WeightedSum(A) <= WeightedSum(B)
  <2>1. WeightedSum(A) = SumFunctionOnSet(WA, V) /\ WeightedSum(B) = SumFunctionOnSet(WB, V)
    BY ByVendor
  <2>2. WA \in [V -> Int] /\ WB \in [V -> Int] /\ \A v \in V : WA[v] <= WB[v]
    <3>1. \A s, t \in Int, w \in Nat : (s <= t => s * w <= t * w) /\ s * w \in Int /\ t * w \in Int
      OBVIOUS
    <3> QED
      BY <3>1 DEF OneEach, ReportsOf
  <2> HIDE DEF WA, WB
  <2> QED
    BY <2>1, <2>2, V \in SUBSET V, SumMonotonic
<1>3. WeightTotal(A) \in Nat /\ WeightedSum(A) \in Int /\ WeightedSum(B) \in Int
  BY SumsOfDecide
<1>4. ApproveBelow \in Int /\ DeclineAbove \in Int
  BY ThresholdsAssumption
<1> HIDE DEF A, B, WA, WB
<1>5. /\ ScoreAtLeast(A, DeclineAbove) => ScoreAtLeast(B, DeclineAbove)
      /\ ScoreAtMost(B, ApproveBelow) => ScoreAtMost(A, ApproveBelow)
  <2> DEFINE d == DeclineAbove * WeightTotal(A)
             e == ApproveBelow * WeightTotal(A)
  <2>1. d \in Int /\ e \in Int
    BY <1>3, <1>4
  <2>2. /\ ScoreAtLeast(A, DeclineAbove) <=> IF WeightTotal(A) > 0 THEN WeightedSum(A) >= d ELSE DeclineAbove <= 0
        /\ ScoreAtLeast(B, DeclineAbove) <=> IF WeightTotal(A) > 0 THEN WeightedSum(B) >= d ELSE DeclineAbove <= 0
        /\ ScoreAtMost(A, ApproveBelow) <=> IF WeightTotal(A) > 0 THEN WeightedSum(A) <= e ELSE ApproveBelow >= 0
        /\ ScoreAtMost(B, ApproveBelow) <=> IF WeightTotal(A) > 0 THEN WeightedSum(B) <= e ELSE ApproveBelow >= 0
    BY <1>1 DEF ScoreAtLeast, ScoreAtMost
  <2> HIDE DEF d, e
  <2> QED
    BY <1>2, <1>3, <2>1, <2>2
<1>6. Severity["APPROVE"] = 0 /\ Severity["MANUAL_REVIEW"] = 1 /\ Severity["DECLINE"] = 2
  BY DEF Severity, Verdict
<1>7. Severity[decide(A)] <= Severity[decide(B)]
  BY <1>1, <1>5, <1>6 DEF decide
<1> QED
  BY <1>7 DEF A, B
=============================================================================
