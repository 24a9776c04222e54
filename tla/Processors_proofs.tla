------------------------- MODULE Processors_proofs -------------------------
(***************************************************************************)
(* The span metrics processor, for any spans, limits, cache size and       *)
(* exporters: a histogram finds its dimensions, labels are bounded, and    *)
(* every span is counted and exported once in each family.                 *)
(***************************************************************************)
EXTENDS SpanMetrics, WellFoundedInduction, FiniteSetTheorems, TLAPS

\* A leaf goes to the SMT solver unless it cites another prover.
USE SMTT(30)

-----------------------------------------------------------------------------
(* Sums over finite sets, which are defined by recursion.  No induction theorem  *)
(* is used: the size of a least counterexample is the least element of a set of  *)
(* naturals, and one element less makes a smaller counterexample.                *)

\* A non-empty set of naturals has a least element.
LEMMA LeastNat ==
  \A T \in SUBSET Nat :
    T # {} => \E x \in T : \A y \in T : x <= y
<1> SUFFICES ASSUME NEW T \in SUBSET Nat, T # {}
             PROVE  \E x \in T : \A y \in T : x <= y
  BY Zenon
<1> DEFINE R == {ss \in Nat \X Nat : ss[1] < ss[2]}
<1>1. IsWellFoundedOn(R, Nat)
  BY NatLessThanWellFounded, Zenon DEF OpToRel
<1>2. \E x \in T : \A y \in T : ~(<<y, x>> \in R)
  <2> HIDE DEF R
  <2> QED BY <1>1, WFMin, Zenon
<1>3. PICK x \in T : \A y \in T : ~(<<y, x>> \in R)
  BY <1>2, Zenon
<1>4. \A y \in T : ~(y < x)
  BY <1>3, Zenon
<1> QED BY <1>4

\* The element FoldFunctionOnSet takes out of a set first.
Pick(s) == CHOOSE x \in s : TRUE

\* The sums SumFunctionOnSet adds up: one for each subset of a layer of finite sets.
SubsetSums(f, L, u) == u = [s \in L |-> IF s = {} THEN 0 ELSE f[Pick(s)] + u[s \ {Pick(s)}]]

LEMMA PickIn == \A s : s # {} => Pick(s) \in s
  BY Zenon DEF Pick

LEMMA SumIsSubsetSum ==
  \A f, D : SumFunctionOnSet(f, D) = (CHOOSE u : SubsetSums(f, SUBSET D, u))[D]
  BY Zenon DEF SumFunctionOnSet, FoldFunctionOnSet, MapThenFoldSet, SubsetSums, Pick

\* The finite subsets of D with at most n elements.
Layer(D, n) == {s \in SUBSET D : Cardinality(s) <= n}

LEMMA SmallerSubset ==
  \A D : IsFiniteSet(D) =>
    \A s \in SUBSET D : \A x \in s :
      /\ IsFiniteSet(s) /\ Cardinality(s) \in Nat /\ s \ {x} \in SUBSET D
      /\ Cardinality(s \ {x}) \in Nat /\ Cardinality(s \ {x}) = Cardinality(s) - 1
<1> SUFFICES ASSUME NEW D, IsFiniteSet(D), NEW s \in SUBSET D, NEW x \in s
             PROVE  /\ IsFiniteSet(s) /\ Cardinality(s) \in Nat /\ s \ {x} \in SUBSET D
                    /\ Cardinality(s \ {x}) \in Nat /\ Cardinality(s \ {x}) = Cardinality(s) - 1
  BY Zenon
<1>1. IsFiniteSet(s) BY FS_Subset, Zenon
<1>2. IsFiniteSet(s \ {x}) /\ Cardinality(s \ {x}) = Cardinality(s) - 1
  BY <1>1, FS_RemoveElement, Zenon
<1>3. Cardinality(s) \in Nat /\ Cardinality(s \ {x}) \in Nat
  BY <1>1, <1>2, FS_CardinalityType, Zenon
<1>4. s \ {x} \in SUBSET D BY Zenon
<1> QED BY <1>1, <1>2, <1>3, <1>4, Zenon

LEMMA LayerSumsExist ==
  \A D, f : IsFiniteSet(D) => \A n \in Nat : \E u : SubsetSums(f, Layer(D, n), u)
<1> SUFFICES ASSUME NEW D, NEW f, IsFiniteSet(D) PROVE \A n \in Nat : \E u : SubsetSums(f, Layer(D, n), u)
  BY Zenon
<1> DEFINE Bad == {n \in Nat : ~\E u : SubsetSums(f, Layer(D, n), u)}
<1> SUFFICES ASSUME Bad # {} PROVE FALSE
  BY Zenon
<1>1. PICK n \in Bad : \A m \in Bad : n <= m
  <2>1. Bad \in SUBSET Nat BY Zenon
  <2> HIDE DEF Bad
  <2> QED BY <2>1, LeastNat, Zenon
<1>2. n \in Nat /\ ~\E u : SubsetSums(f, Layer(D, n), u)
  BY <1>1, Zenon
<1>3. CASE n = 0
  <2>1. \A s \in Layer(D, 0) : s = {}
    <3> SUFFICES ASSUME NEW s \in Layer(D, 0) PROVE s = {}
      BY Zenon
    <3>1. IsFiniteSet(s) BY FS_Subset, Zenon DEF Layer
    <3>2. Cardinality(s) \in Nat BY <3>1, FS_CardinalityType, Zenon
    <3>3. Cardinality(s) = 0 BY <3>2 DEF Layer
    <3> QED BY <3>1, <3>3, FS_EmptySet, Zenon
  <2>2. SubsetSums(f, Layer(D, 0), [s \in Layer(D, 0) |-> 0])
    BY <2>1 DEF SubsetSums
  <2> QED BY <1>2, <1>3, <2>2, Zenon
<1>4. CASE n # 0
  <2>1. n - 1 \in Nat /\ ~(n <= n - 1)
    BY <1>2, <1>4
  <2>2. n - 1 \notin Bad
    BY <1>1, <2>1, Zenon
  <2>3. PICK u : SubsetSums(f, Layer(D, n - 1), u)
    BY <2>1, <2>2, Zenon
  <2> DEFINE w == [s \in Layer(D, n) |-> IF s = {} THEN 0 ELSE f[Pick(s)] + u[s \ {Pick(s)}]]
  <2>4. \A s \in Layer(D, n) : s # {} => s \ {Pick(s)} \in Layer(D, n - 1)
    <3> SUFFICES ASSUME NEW s \in Layer(D, n), s # {} PROVE s \ {Pick(s)} \in Layer(D, n - 1)
      BY Zenon
    <3>1. Pick(s) \in s BY PickIn, Zenon
    <3>2. s \in SUBSET D /\ Cardinality(s) <= n BY Zenon DEF Layer
    <3>3. /\ Cardinality(s) \in Nat /\ s \ {Pick(s)} \in SUBSET D
          /\ Cardinality(s \ {Pick(s)}) = Cardinality(s) - 1
      BY <3>1, <3>2, SmallerSubset, Zenon
    <3>4. Cardinality(s \ {Pick(s)}) <= n - 1 BY <1>2, <3>2, <3>3
    <3> QED BY <3>3, <3>4, Zenon DEF Layer
  <2>5. Layer(D, n - 1) \subseteq Layer(D, n)
    <3> SUFFICES ASSUME NEW s \in Layer(D, n - 1) PROVE s \in Layer(D, n)
      BY Zenon
    <3>1. IsFiniteSet(s) BY FS_Subset, Zenon DEF Layer
    <3>2. Cardinality(s) \in Nat BY <3>1, FS_CardinalityType, Zenon
    <3> QED BY <1>2, <3>2 DEF Layer
  <2>6. \A s \in Layer(D, n - 1) : w[s] = u[s]
    BY <2>3, <2>5, Zenon DEF SubsetSums
  <2>7. \A s \in Layer(D, n) : w[s] = IF s = {} THEN 0 ELSE f[Pick(s)] + w[s \ {Pick(s)}]
    <3> SUFFICES ASSUME NEW s \in Layer(D, n) PROVE w[s] = IF s = {} THEN 0 ELSE f[Pick(s)] + w[s \ {Pick(s)}]
      BY Zenon
    <3>1. CASE s = {} BY <3>1, Zenon
    <3>2. CASE s # {}
      <4>1. w[s \ {Pick(s)}] = u[s \ {Pick(s)}] BY <2>4, <2>6, <3>2, Zenon
      <4>2. w[s] = f[Pick(s)] + u[s \ {Pick(s)}] BY <3>2, Zenon
      <4> HIDE DEF w
      <4> QED BY <3>2, <4>1, <4>2, Zenon
    <3> QED BY <3>1, <3>2, Zenon
  <2>8. w = [s \in Layer(D, n) |-> w[s]] BY Zenon
  <2> HIDE DEF w
  <2>9. SubsetSums(f, Layer(D, n), w) BY <2>7, <2>8, Zenon DEF SubsetSums
  <2> QED BY <1>2, <2>9, Zenon
<1> QED BY <1>3, <1>4, Zenon

LEMMA SumsOfSubsets ==
  \A D, f : IsFiniteSet(D) =>
    \E u : SubsetSums(f, SUBSET D, u) /\ SumFunctionOnSet(f, D) = u[D]
<1> SUFFICES ASSUME NEW D, NEW f, IsFiniteSet(D)
             PROVE  \E u : SubsetSums(f, SUBSET D, u) /\ SumFunctionOnSet(f, D) = u[D]
  BY Zenon
<1>1. Layer(D, Cardinality(D)) = SUBSET D
  <2>1. \A s \in SUBSET D : Cardinality(s) <= Cardinality(D) BY FS_Subset, Zenon
  <2> QED BY <2>1, Zenon DEF Layer
<1>2. Cardinality(D) \in Nat BY FS_CardinalityType, Zenon
<1>3. \E u : SubsetSums(f, SUBSET D, u)
  <2>1. \E u : SubsetSums(f, Layer(D, Cardinality(D)), u) BY <1>2, LayerSumsExist, Zenon
  <2> QED BY <1>1, <2>1, Zenon
<1> QED BY <1>3, SumIsSubsetSum, Zenon

\* u holds the sums of f over the subsets of a finite D.
Table(D, f, u) == IsFiniteSet(D) /\ SubsetSums(f, SUBSET D, u)
Same(f, g, D) == \A x \in D : f[x] = g[x]
Within(E, D) == E \in SUBSET D

\* Two tables of sums agree on the sets both have, when the functions do.
LEMMA SubsetSumsAgree ==
  ASSUME NEW D, NEW f, NEW u, Table(D, f, u), NEW E, NEW g, NEW w, Table(E, g, w), Same(f, g, E), Within(E, D)
  PROVE  Same(u, w, SUBSET E)
<1>4. /\ IsFiniteSet(D) /\ SubsetSums(f, SUBSET D, u) /\ SubsetSums(g, SUBSET E, w)
      /\ \A x \in E : f[x] = g[x]
  BY Zenon DEF Table, Same
<1>5. E \in SUBSET D BY Zenon DEF Within
<1> DEFINE Bad == {n \in Nat : \E s \in SUBSET E : Cardinality(s) = n /\ u[s] # w[s]}
<1>1. IsFiniteSet(E) BY Zenon DEF Table
<1>2. Bad = {}
  <2> SUFFICES ASSUME Bad # {} PROVE FALSE
    BY Zenon
  <2>1. PICK n \in Bad : \A m \in Bad : n <= m
    <3>1. Bad \in SUBSET Nat BY Zenon
    <3> HIDE DEF Bad
    <3> QED BY <3>1, LeastNat, Zenon
  <2>2. PICK s \in SUBSET E : Cardinality(s) = n /\ u[s] # w[s]
    BY <2>1, Zenon
  <2>3. s \in SUBSET D BY <1>5, Zenon
  <2>4. /\ u[s] = IF s = {} THEN 0 ELSE f[Pick(s)] + u[s \ {Pick(s)}]
        /\ w[s] = IF s = {} THEN 0 ELSE g[Pick(s)] + w[s \ {Pick(s)}]
    BY <1>4, <2>3, Zenon DEF SubsetSums
  <2>5. s # {} BY <2>2, <2>4
  <2>6. Pick(s) \in s BY <2>5, PickIn, Zenon
  <2>7. /\ s \ {Pick(s)} \in SUBSET E /\ Cardinality(s) \in Nat
        /\ Cardinality(s \ {Pick(s)}) \in Nat /\ Cardinality(s \ {Pick(s)}) = Cardinality(s) - 1
    <3> HIDE DEF Bad
    <3> QED BY <1>1, <2>2, <2>6, SmallerSubset
  <2>8. ~(n <= Cardinality(s \ {Pick(s)})) BY <2>2, <2>7
  <2>9. Cardinality(s \ {Pick(s)}) \notin Bad BY <2>1, <2>8, Zenon
  <2>10. u[s \ {Pick(s)}] = w[s \ {Pick(s)}] BY <2>7, <2>9, Zenon
  <2>11. f[Pick(s)] = g[Pick(s)] BY <1>4, <2>6, Zenon
  <2> QED BY <2>2, <2>4, <2>5, <2>10, <2>11, Zenon
<1>3. \A s \in SUBSET E : Cardinality(s) \in Nat BY <1>1, FS_Subset, FS_CardinalityType, Zenon
<1> QED BY <1>2, <1>3, Zenon DEF Same

LEMMA SubsetSumsOf ==
  ASSUME NEW D, NEW f, NEW u, Table(D, f, u), NEW E, Within(E, D)
  PROVE  SumFunctionOnSet(f, E) = u[E]
<1>1. IsFiniteSet(E) BY FS_Subset, Zenon DEF Table, Within
<1>2. PICK w : SubsetSums(f, SUBSET E, w) /\ SumFunctionOnSet(f, E) = w[E]
  BY <1>1, SumsOfSubsets, Zenon
<1>3. Table(E, f, w) /\ Same(f, f, E) BY <1>1, <1>2, Zenon DEF Table, Same
<1>4. Same(u, w, SUBSET E) BY <1>3, SubsetSumsAgree, Zenon
<1>5. u[E] = w[E] BY <1>4, Zenon DEF Same
<1> QED BY <1>2, <1>5, Zenon

\* The sum over the empty set is 0, and a sum is what one element gives and the sum over
\* the others, whichever element is taken out first.
LEMMA SumOfNothing == \A f : SumFunctionOnSet(f, {}) = 0
<1> SUFFICES ASSUME NEW f PROVE SumFunctionOnSet(f, {}) = 0
  BY Zenon
<1>1. PICK u : SubsetSums(f, SUBSET {}, u) /\ SumFunctionOnSet(f, {}) = u[{}]
  BY FS_EmptySet, SumsOfSubsets, Zenon
<1> QED BY <1>1, Zenon DEF SubsetSums

LEMMA SumsAgree ==
  ASSUME NEW D, IsFiniteSet(D), NEW f, NEW g, \A x \in D : f[x] = g[x]
  PROVE  SumFunctionOnSet(f, D) = SumFunctionOnSet(g, D)
<1>1. PICK u : SubsetSums(f, SUBSET D, u) /\ SumFunctionOnSet(f, D) = u[D]
  BY SumsOfSubsets, Zenon
<1>2. PICK w : SubsetSums(g, SUBSET D, w) /\ SumFunctionOnSet(g, D) = w[D]
  BY SumsOfSubsets, Zenon
<1>3. D \in SUBSET D BY Zenon
<1>4. Table(D, f, u) /\ Table(D, g, w) /\ Same(f, g, D) /\ Within(D, D)
  BY <1>1, <1>2, <1>3, Zenon DEF Table, Same, Within
<1>5. Same(u, w, SUBSET D) BY <1>4, SubsetSumsAgree, Zenon
<1>6. u[D] = w[D] BY <1>5, Zenon DEF Same
<1> QED BY <1>1, <1>2, <1>6, Zenon

\* The sum over s is a natural number, and may be split at any element of s.
Splits(f, s) ==
  /\ SumFunctionOnSet(f, s) \in Nat
  /\ \A a \in s : SumFunctionOnSet(f, s) = f[a] + SumFunctionOnSet(f, s \ {a})

LEMMA SumSplits ==
  ASSUME NEW D, IsFiniteSet(D), NEW f, \A x \in D : f[x] \in Nat
  PROVE  Splits(f, D)
<1> DEFINE Bad == {n \in Nat : \E s \in SUBSET D : Cardinality(s) = n /\ ~Splits(f, s)}
<1>1. Bad = {}
  <2> SUFFICES ASSUME Bad # {} PROVE FALSE
    BY Zenon
  <2>1. PICK n \in Bad : \A m \in Bad : n <= m
    <3>1. Bad \in SUBSET Nat BY Zenon
    <3> HIDE DEF Bad
    <3> QED BY <3>1, LeastNat, Zenon
  <2>2. PICK s \in SUBSET D : Cardinality(s) = n /\ ~Splits(f, s)
    BY <2>1, Zenon
  <2>3. s # {}
    <3>1. SumFunctionOnSet(f, {}) \in Nat BY SumOfNothing
    <3>2. Splits(f, {}) BY <3>1, Zenon DEF Splits
    <3> QED BY <2>2, <3>2, Zenon
  <2>4. \A x \in s : /\ s \ {x} \in SUBSET D /\ Splits(f, s \ {x})
    <3> SUFFICES ASSUME NEW x \in s PROVE s \ {x} \in SUBSET D /\ Splits(f, s \ {x})
      BY Zenon
    <3>1. /\ s \ {x} \in SUBSET D /\ Cardinality(s) \in Nat
          /\ Cardinality(s \ {x}) \in Nat /\ Cardinality(s \ {x}) = Cardinality(s) - 1
      BY SmallerSubset, Zenon
    <3>2. ~(n <= Cardinality(s \ {x})) BY <2>2, <3>1
    <3>3. Cardinality(s \ {x}) \notin Bad BY <2>1, <3>2, Zenon
    <3> QED BY <3>1, <3>3, Zenon
  <2> DEFINE p == Pick(s)
  <2>5. p \in s BY <2>3, PickIn, Zenon
  <2>6. SumFunctionOnSet(f, s) = f[p] + SumFunctionOnSet(f, s \ {p})
    <3>1. IsFiniteSet(s) BY FS_Subset, Zenon
    <3>2. PICK u : SubsetSums(f, SUBSET s, u) /\ SumFunctionOnSet(f, s) = u[s]
      BY <3>1, SumsOfSubsets, Zenon
    <3>3. s \in SUBSET s /\ s \ {p} \in SUBSET s BY Zenon
    <3>6. Table(s, f, u) /\ Within(s \ {p}, s) BY <3>1, <3>2, <3>3, Zenon DEF Table, Within
    <3>4. SumFunctionOnSet(f, s \ {p}) = u[s \ {p}] BY <3>6, SubsetSumsOf, Zenon
    <3>5. u[s] = f[p] + u[s \ {p}] BY <2>3, <3>2, <3>3, Zenon DEF SubsetSums
    <3> QED BY <3>2, <3>4, <3>5, Zenon
  <2> HIDE DEF p
  <2>7. f[p] \in Nat /\ SumFunctionOnSet(f, s \ {p}) \in Nat
    BY <2>4, <2>5, Zenon DEF Splits
  <2>8. ASSUME NEW a \in s PROVE SumFunctionOnSet(f, s) = f[a] + SumFunctionOnSet(f, s \ {a})
    <3>1. CASE a = p BY <2>6, <3>1, Zenon
    <3>2. CASE a # p
      <4>1. a \in s \ {p} /\ p \in s \ {a} BY <2>5, <3>2, Zenon
      <4>2. SumFunctionOnSet(f, s \ {p}) = f[a] + SumFunctionOnSet(f, (s \ {p}) \ {a})
        BY <2>4, <2>5, <4>1, Zenon DEF Splits
      <4>3. SumFunctionOnSet(f, s \ {a}) = f[p] + SumFunctionOnSet(f, (s \ {a}) \ {p})
        BY <2>4, <4>1, Zenon DEF Splits
      <4>4. (s \ {a}) \ {p} = (s \ {p}) \ {a} BY Zenon
      <4>5. a \in D /\ s \ {a} \in SUBSET D BY Zenon
      <4>6. SumFunctionOnSet(f, (s \ {a}) \ {p}) \in Nat
        <5>1. (s \ {a}) \in SUBSET D /\ Cardinality(s \ {a}) \in Nat /\ Cardinality(s \ {a}) = Cardinality(s) - 1
              /\ Cardinality(s) \in Nat
          BY SmallerSubset, Zenon
        <5> DEFINE r == s \ {a}
        <5>5. r \in SUBSET D /\ p \in r BY <4>1, <5>1, Zenon
        <5> HIDE DEF r
        <5>6. /\ r \ {p} \in SUBSET D /\ Cardinality(r \ {p}) \in Nat
              /\ Cardinality(r \ {p}) = Cardinality(r) - 1
          BY <5>5, SmallerSubset, Zenon
        <5>2. /\ (s \ {a}) \ {p} \in SUBSET D /\ Cardinality((s \ {a}) \ {p}) \in Nat
              /\ Cardinality((s \ {a}) \ {p}) = Cardinality(s \ {a}) - 1
          BY <5>6, Zenon DEF r
        <5>3. ~(n <= Cardinality((s \ {a}) \ {p})) BY <2>2, <5>1, <5>2
        <5>4. Cardinality((s \ {a}) \ {p}) \notin Bad BY <2>1, <5>3, Zenon
        <5> QED BY <5>2, <5>4, Zenon DEF Splits
      <4>7. f[a] \in Nat BY <4>5, Zenon
      <4> QED BY <2>6, <2>7, <4>2, <4>3, <4>4, <4>6, <4>7
    <3> QED BY <3>1, <3>2, Zenon
  <2>9. SumFunctionOnSet(f, s) \in Nat BY <2>6, <2>7
  <2> QED BY <2>2, <2>8, <2>9, Zenon DEF Splits
<1>2. Cardinality(D) \in Nat /\ D \in SUBSET D BY FS_CardinalityType, Zenon
<1> QED BY <1>1, <1>2, Zenon

LEMMA SumOfZeros ==
  ASSUME NEW D, IsFiniteSet(D), NEW f, \A x \in D : f[x] = 0
  PROVE  SumFunctionOnSet(f, D) = 0
<1> DEFINE Bad == {n \in Nat : \E s \in SUBSET D : Cardinality(s) = n /\ SumFunctionOnSet(f, s) # 0}
<1>1. Bad = {}
  <2> SUFFICES ASSUME Bad # {} PROVE FALSE
    BY Zenon
  <2>1. PICK n \in Bad : \A m \in Bad : n <= m
    <3>1. Bad \in SUBSET Nat BY Zenon
    <3> HIDE DEF Bad
    <3> QED BY <3>1, LeastNat, Zenon
  <2>2. PICK s \in SUBSET D : Cardinality(s) = n /\ SumFunctionOnSet(f, s) # 0
    BY <2>1, Zenon
  <2>3. s # {} BY <2>2, SumOfNothing, Zenon
  <2>4. PICK x \in s : TRUE BY <2>3, Zenon
  <2>5. /\ IsFiniteSet(s) /\ s \ {x} \in SUBSET D /\ Cardinality(s) \in Nat
        /\ Cardinality(s \ {x}) \in Nat /\ Cardinality(s \ {x}) = Cardinality(s) - 1
    <3> HIDE DEF Bad
    <3> QED BY SmallerSubset, Zenon
  <2>6. ~(n <= Cardinality(s \ {x})) BY <2>2, <2>5
  <2>7. Cardinality(s \ {x}) \notin Bad BY <2>1, <2>6, Zenon
  <2>8. SumFunctionOnSet(f, s \ {x}) = 0 BY <2>5, <2>7, Zenon
  <2>9. \A y \in s : f[y] \in Nat BY SMT
  <2>10. Splits(f, s) BY <2>5, <2>9, SumSplits, Zenon
  <2>11. SumFunctionOnSet(f, s) = f[x] + SumFunctionOnSet(f, s \ {x}) BY <2>10, Zenon DEF Splits
  <2>12. f[x] = 0 BY Zenon
  <2> QED BY <2>2, <2>8, <2>11, <2>12
<1>2. Cardinality(D) \in Nat /\ D \in SUBSET D BY FS_CardinalityType, Zenon
<1> QED BY <1>1, <1>2, Zenon

\* What changes at one point changes the sum by as much.
LEMMA SumChanges ==
  ASSUME NEW D, IsFiniteSet(D), NEW f, \A x \in D : f[x] \in Nat,
         NEW g, NEW a \in D, g[a] \in Nat, \A x \in D \ {a} : g[x] = f[x]
  PROVE  /\ SumFunctionOnSet(f, D) \in Nat
         /\ SumFunctionOnSet(g, D) + f[a] = SumFunctionOnSet(f, D) + g[a]
<1>1. IsFiniteSet(D \ {a}) BY FS_RemoveElement, Zenon
<1>2. SumFunctionOnSet(g, D \ {a}) = SumFunctionOnSet(f, D \ {a}) BY <1>1, SumsAgree
<1>3. \A x \in D : g[x] \in Nat BY Zenon
<1>4. Splits(f, D) BY SumSplits, Zenon
<1>5. Splits(g, D) BY <1>3, SumSplits, Zenon
<1>6. SumFunctionOnSet(f, D) \in Nat BY <1>4, Zenon DEF Splits
<1>7. SumFunctionOnSet(f, D) = f[a] + SumFunctionOnSet(f, D \ {a}) BY <1>4, Zenon DEF Splits
<1>8. SumFunctionOnSet(g, D) = g[a] + SumFunctionOnSet(g, D \ {a}) BY <1>5, Zenon DEF Splits
<1>9. SumFunctionOnSet(f, D \ {a}) \in Nat
  <2>1. \A x \in D \ {a} : f[x] \in Nat BY Zenon
  <2>2. Splits(f, D \ {a}) BY <1>1, <2>1, SumSplits, Zenon
  <2> QED BY <2>2, Zenon DEF Splits
<1>10. f[a] \in Nat BY Zenon
<1> QED BY <1>2, <1>6, <1>7, <1>8, <1>9, <1>10

-----------------------------------------------------------------------------
(* The dimensions cache *)

\* A cache the code can build: its LRU holds a key once and at most CacheSize of them, and
\* a key is in the LRU or among the evicted items, not in both.
CacheOK(c) ==
  /\ c \in [order : Seq(Range(c.order)), value : {c.value}, evictedItems : {c.evictedItems}]
  /\ DOMAIN c.value = Range(c.order)
  /\ Range(c.order) \cap DOMAIN c.evictedItems = {}
  /\ Len(c.order) <= CacheSize /\ IsInjective(c.order)
  /\ IsFiniteSet(DOMAIN c.evictedItems)

Keys(c) == Range(c.order) \cup DOMAIN c.evictedItems

\* The keys of an LRU: every key once, in a sequence.
OrderOK(o) == o \in Seq(Range(o)) /\ IsInjective(o)

LEMMA AppendKey ==
  ASSUME NEW o, OrderOK(o), NEW k, k \notin Range(o)
  PROVE  OrderOK(Append(o, k)) /\ Range(Append(o, k)) = Range(o) \cup {k} /\ Len(Append(o, k)) = Len(o) + 1
<1>1. o \in Seq(Range(o) \cup {k}) BY DEF OrderOK
<1>2. Len(o) \in Nat /\ DOMAIN o = 1 .. Len(o) BY <1>1
<1> DEFINE p == Append(o, k)
<1>3. /\ p \in Seq(Range(o) \cup {k}) /\ Len(p) = Len(o) + 1 /\ DOMAIN p = 1 .. (Len(o) + 1)
      /\ p[Len(o) + 1] = k /\ \A i \in 1 .. Len(o) : p[i] = o[i]
  BY <1>1, <1>2
<1> HIDE DEF p
<1>4. Range(p) = Range(o) \cup {k}
  <2>1. \A i \in DOMAIN p : p[i] \in Range(o) \cup {k} BY <1>3
  <2>2. \A i \in DOMAIN o : i \in DOMAIN p /\ p[i] = o[i] BY <1>2, <1>3
  <2>3. Len(o) + 1 \in DOMAIN p BY <1>2, <1>3
  <2> QED BY <1>3, <2>1, <2>2, <2>3, Zenon DEF Range
<1>5. IsInjective(p)
  <2> SUFFICES ASSUME NEW i \in DOMAIN p, NEW j \in DOMAIN p, p[i] = p[j] PROVE i = j
    BY Zenon DEF IsInjective
  <2>1. \A x \in 1 .. Len(o) : o[x] # k BY <1>2, Zenon DEF Range
  <2>2. \A x, y \in 1 .. Len(o) : o[x] = o[y] => x = y BY <1>2, Zenon DEF OrderOK, IsInjective
  <2> QED BY <1>2, <1>3, <2>1, <2>2
<1>6. p \in Seq(Range(p)) BY <1>3, <1>4
<1>7. OrderOK(p) /\ Range(p) = Range(o) \cup {k} /\ Len(p) = Len(o) + 1
  BY <1>3, <1>4, <1>5, <1>6, Zenon DEF OrderOK
<1> QED BY <1>7, Zenon DEF p

LEMMA WithoutKey ==
  ASSUME NEW o, OrderOK(o), NEW n \in DOMAIN o
  PROVE  OrderOK(Without(o, n)) /\ Range(Without(o, n)) = Range(o) \ {o[n]} /\ Len(Without(o, n)) = Len(o) - 1
<1>1. o \in Seq(Range(o)) BY Zenon DEF OrderOK
<1>2. Len(o) \in Nat /\ DOMAIN o = 1 .. Len(o) /\ n \in 1 .. Len(o) BY <1>1
<1> DEFINE p == Without(o, n)
<1>3. /\ DOMAIN p = 1 .. (Len(o) - 1) /\ \A i \in DOMAIN p : p[i] = IF i < n THEN o[i] ELSE o[i + 1]
      /\ p = [i \in DOMAIN p |-> p[i]]
  BY DEF Without
<1> HIDE DEF p
<1>4. \A x, y \in 1 .. Len(o) : o[x] = o[y] => x = y BY <1>2, Zenon DEF OrderOK, IsInjective
<1>5. \A i \in DOMAIN p : p[i] \in Range(o) \ {o[n]}
  <2> SUFFICES ASSUME NEW i \in DOMAIN p PROVE \E x \in 1 .. Len(o) : p[i] = o[x] /\ x # n
    BY <1>2, <1>4, Zenon DEF Range
  <2>1. CASE i < n BY <1>2, <1>3, <2>1
  <2>2. CASE ~(i < n)
    <3>1. i + 1 \in 1 .. Len(o) /\ i + 1 # n BY <1>2, <1>3, <2>2
    <3> QED BY <1>3, <2>2, <3>1, Zenon
  <2> QED BY <2>1, <2>2, Zenon
<1>6. ASSUME NEW x \in 1 .. Len(o), x # n PROVE o[x] \in Range(p)
  <2>1. CASE x < n
    <3>1. x \in DOMAIN p BY <1>2, <1>3, <2>1
    <3>2. p[x] = o[x] BY <1>3, <2>1, <3>1
    <3> QED BY <3>1, <3>2, Zenon DEF Range
  <2>2. CASE ~(x < n)
    <3>1. x - 1 \in DOMAIN p /\ ~(x - 1 < n) /\ x - 1 + 1 = x BY <1>2, <1>3, <1>6, <2>2
    <3>2. p[x - 1] = o[x] BY <1>3, <3>1
    <3> QED BY <3>1, <3>2, Zenon DEF Range
  <2> QED BY <2>1, <2>2, Zenon
<1>7. Range(p) = Range(o) \ {o[n]}
  <2>1. Range(p) \subseteq Range(o) \ {o[n]} BY <1>5, Zenon DEF Range
  <2>2. \A y \in Range(o) \ {o[n]} : \E x \in 1 .. Len(o) : y = o[x] /\ x # n BY <1>2, Zenon DEF Range
  <2> QED BY <1>6, <2>1, <2>2, Zenon
<1>8. IsInjective(p)
  <2> SUFFICES ASSUME NEW i \in DOMAIN p, NEW j \in DOMAIN p, p[i] = p[j] PROVE i = j
    BY Zenon DEF IsInjective
  <2> QED BY <1>2, <1>3, <1>4
<1>9. p \in Seq(Range(p)) /\ Len(p) = Len(o) - 1
  <2>1. p \in [1 .. (Len(o) - 1) -> Range(p)] BY <1>3, Zenon DEF Range
  <2>2. Len(o) - 1 \in Nat BY <1>2
  <2> QED BY <2>1, <2>2
<1>10. OrderOK(p) /\ Range(p) = Range(o) \ {o[n]} /\ Len(p) = Len(o) - 1
  BY <1>7, <1>8, <1>9, Zenon DEF OrderOK
<1> QED BY <1>10, Zenon DEF p

LEMMA TailKeys ==
  ASSUME NEW o, OrderOK(o), Len(o) # 0
  PROVE  /\ OrderOK(Tail(o)) /\ Range(Tail(o)) = Range(o) \ {Head(o)} /\ Len(Tail(o)) = Len(o) - 1
         /\ Head(o) \in Range(o)
<1>1. o \in Seq(Range(o)) BY Zenon DEF OrderOK
<1>2. Len(o) \in Nat \ {0} /\ DOMAIN o = 1 .. Len(o) BY <1>1
<1>3. 1 \in DOMAIN o /\ Head(o) = o[1] BY <1>1, <1>2
<1>4. Tail(o) = Without(o, 1)
  <2>1. Tail(o) = [j \in 1 .. (Len(o) - 1) |-> o[j + 1]]
    <3>1. /\ Tail(o) \in Seq(Range(o)) /\ Len(Tail(o)) = Len(o) - 1
          /\ \A j \in 1 .. (Len(o) - 1) : Tail(o)[j] = o[j + 1]
      BY <1>1, <1>2
    <3> DEFINE t == Tail(o)
    <3>2. t \in [1 .. Len(t) -> Range(o)]
      <4>1. t \in Seq(Range(o)) BY <3>1, Zenon
      <4> HIDE DEF t
      <4> QED BY <4>1
    <3>3. t \in [1 .. (Len(o) - 1) -> Range(o)] /\ \A j \in 1 .. (Len(o) - 1) : t[j] = o[j + 1]
      BY <3>1, <3>2, Zenon
    <3> HIDE DEF t
    <3>4. t = [j \in 1 .. (Len(o) - 1) |-> o[j + 1]] BY <3>3
    <3> QED BY <3>4, Zenon DEF t
  <2>2. Without(o, 1) = [j \in 1 .. (Len(o) - 1) |-> o[j + 1]] BY <1>2 DEF Without
  <2> QED BY <2>1, <2>2, Zenon
<1>5. OrderOK(Without(o, 1)) /\ Range(Without(o, 1)) = Range(o) \ {o[1]} /\ Len(Without(o, 1)) = Len(o) - 1
  BY <1>3, WithoutKey, Zenon
<1>6. o[1] \in Range(o) BY <1>3, Zenon DEF Range
<1> QED BY <1>3, <1>4, <1>5, <1>6, Zenon

LEMMA TouchKey ==
  ASSUME NEW o, OrderOK(o), NEW k \in Range(o)
  PROVE  OrderOK(Touch(o, k)) /\ Range(Touch(o, k)) = Range(o) /\ Len(Touch(o, k)) = Len(o)
<1> DEFINE n == CHOOSE i \in DOMAIN o : o[i] = k
<1>1. n \in DOMAIN o /\ o[n] = k BY Zenon DEF Range
<1>2. Touch(o, k) = Append(Without(o, n), k) BY Zenon DEF Touch
<1> HIDE DEF n
<1>3. OrderOK(Without(o, n)) /\ Range(Without(o, n)) = Range(o) \ {k} /\ Len(Without(o, n)) = Len(o) - 1
  BY <1>1, WithoutKey, Zenon
<1>4. k \notin Range(Without(o, n)) BY <1>3, Zenon
<1> DEFINE w == Without(o, n)
<1>9. OrderOK(w) /\ k \notin Range(w) BY <1>3, <1>4, Zenon
<1> HIDE DEF w
<1>10. OrderOK(Append(w, k)) /\ Range(Append(w, k)) = Range(w) \cup {k} /\ Len(Append(w, k)) = Len(w) + 1
  BY <1>9, AppendKey, Zenon
<1>5. /\ OrderOK(Touch(o, k)) /\ Range(Touch(o, k)) = Range(Without(o, n)) \cup {k}
      /\ Len(Touch(o, k)) = Len(Without(o, n)) + 1
  BY <1>2, <1>10 DEF w
<1>6. Range(Touch(o, k)) = Range(o) BY <1>3, <1>5, Zenon
<1>7. Len(o) \in Nat
  <2>1. o \in Seq(Range(o)) BY Zenon DEF OrderOK
  <2> QED BY <2>1
<1>8. Len(Touch(o, k)) = Len(o) BY <1>3, <1>5, <1>7
<1> QED BY <1>5, <1>6, <1>8, Zenon

LEMMA CacheParts ==
  ASSUME NEW c
  PROVE  CacheOK(c) <=> /\ c \in [order : {c.order}, value : {c.value}, evictedItems : {c.evictedItems}]
                        /\ OrderOK(c.order) /\ DOMAIN c.value = Range(c.order)
                        /\ Range(c.order) \cap DOMAIN c.evictedItems = {}
                        /\ Len(c.order) <= CacheSize /\ IsFiniteSet(DOMAIN c.evictedItems)
<1>1. c \in [order : Seq(Range(c.order)), value : {c.value}, evictedItems : {c.evictedItems}]
      <=> /\ c \in [order : {c.order}, value : {c.value}, evictedItems : {c.evictedItems}]
          /\ c.order \in Seq(Range(c.order))
  OBVIOUS
<1> QED BY <1>1, Zenon DEF CacheOK, OrderOK

LEMMA EmptyCache == CacheOK(NewCache) /\ Keys(NewCache) = {} /\ DOMAIN EmptyMap = {}
<1>1. /\ NewCache.order = << >> /\ NewCache.value = EmptyMap /\ NewCache.evictedItems = EmptyMap
      /\ NewCache \in [order : {NewCache.order}, value : {NewCache.value}, evictedItems : {NewCache.evictedItems}]
  BY DEF NewCache
<1>2. DOMAIN EmptyMap = {} BY Zenon DEF EmptyMap
<1>3. Range(<< >>) = {} BY DEF Range
<1>4. OrderOK(<< >>)
  <2>1. << >> \in Seq(Range(<< >>)) OBVIOUS
  <2>2. IsInjective(<< >>) BY DEF IsInjective
  <2> QED BY <2>1, <2>2, Zenon DEF OrderOK
<1>5. Len(<< >>) <= CacheSize BY CacheAssumption
<1>6. CacheOK(NewCache)
  <2>1. /\ OrderOK(NewCache.order) /\ DOMAIN NewCache.value = Range(NewCache.order)
        /\ Range(NewCache.order) \cap DOMAIN NewCache.evictedItems = {} /\ Len(NewCache.order) <= CacheSize
    BY <1>1, <1>2, <1>3, <1>4, <1>5
  <2>2. IsFiniteSet(DOMAIN NewCache.evictedItems) BY <1>1, <1>2, FS_EmptySet
  <2> QED BY <1>1, <2>1, <2>2, CacheParts, Zenon
<1>7. Keys(NewCache) = {} BY <1>1, <1>2, <1>3 DEF Keys
<1> QED BY <1>2, <1>6, <1>7, Zenon

LEMMA MapPutKeys == \A m, k, v : DOMAIN MapPut(m, k, v) = DOMAIN m \cup {k}
  BY Zenon DEF MapPut

LEMMA MapDeleteKeys == \A m, k : DOMAIN MapDelete(m, k) = DOMAIN m \ {k}
  BY Zenon DEF MapDelete, Restrict

\* Add of a new key keeps every key the cache has, in the LRU or among the evicted items.
LEMMA AddKey ==
  ASSUME NEW c, CacheOK(c), NEW k, k \notin Keys(c), NEW v
  PROVE  CacheOK(CacheAdd(c, k, v)) /\ Keys(CacheAdd(c, k, v)) = Keys(c) \cup {k}
<1> DEFINE a == CacheAdd(c, k, v)
<1>1. /\ c \in [order : {c.order}, value : {c.value}, evictedItems : {c.evictedItems}]
      /\ OrderOK(c.order) /\ DOMAIN c.value = Range(c.order)
      /\ Range(c.order) \cap DOMAIN c.evictedItems = {}
      /\ Len(c.order) <= CacheSize /\ IsFiniteSet(DOMAIN c.evictedItems)
  BY CacheParts, Zenon
<1>2. k \notin Range(c.order) /\ k \notin DOMAIN c.evictedItems BY Zenon DEF Keys
<1>3. Len(c.order) \in Nat
  <2>1. c.order \in Seq(Range(c.order)) BY <1>1, Zenon DEF OrderOK
  <2> QED BY <2>1
<1>4. CASE Len(c.order) < CacheSize
  <2>1. a = [c EXCEPT !.order = Append(@, k), !.value = MapPut(@, k, v)] BY <1>2, <1>4, Zenon DEF CacheAdd
  <2> HIDE DEF a
  <2>2. /\ a.order = Append(c.order, k) /\ a.value = MapPut(c.value, k, v) /\ a.evictedItems = c.evictedItems
        /\ a \in [order : {a.order}, value : {a.value}, evictedItems : {a.evictedItems}]
    BY <1>1, <2>1, Zenon
  <2>3. OrderOK(a.order) /\ Range(a.order) = Range(c.order) \cup {k} /\ Len(a.order) = Len(c.order) + 1
    <3> DEFINE o == c.order
    <3>1. OrderOK(o) /\ k \notin Range(o) BY <1>1, <1>2, Zenon
    <3> HIDE DEF o
    <3>2. OrderOK(Append(o, k)) /\ Range(Append(o, k)) = Range(o) \cup {k} /\ Len(Append(o, k)) = Len(o) + 1
      BY <3>1, AppendKey, Zenon
    <3> QED BY <2>2, <3>2 DEF o
  <2>4. DOMAIN a.value = Range(a.order)
    <3>1. DOMAIN MapPut(c.value, k, v) = DOMAIN c.value \cup {k} BY MapPutKeys, Zenon
    <3> QED BY <1>1, <2>2, <2>3, <3>1
  <2>5. Len(a.order) <= CacheSize BY <1>3, <1>4, <2>3, CacheAssumption
  <2>6. Range(a.order) \cap DOMAIN a.evictedItems = {} /\ Keys(a) = Keys(c) \cup {k}
    BY <1>1, <1>2, <2>2, <2>3, Zenon DEF Keys
  <2>7. CacheOK(a) BY <1>1, <2>2, <2>3, <2>4, <2>5, <2>6, CacheParts, Zenon
  <2> QED BY <2>6, <2>7, Zenon DEF a
<1>5. CASE ~(Len(c.order) < CacheSize)
  <2> DEFINE h == Head(c.order)
  <2>1. a = [c EXCEPT !.order = Append(Tail(@), k), !.value = MapPut(MapDelete(@, h), k, v),
                      !.evictedItems = MapPut(@, h, c.value[h])]
    BY <1>2, <1>5, Zenon DEF CacheAdd
  <2> HIDE DEF a
  <2>2. /\ a.order = Append(Tail(c.order), k) /\ a.value = MapPut(MapDelete(c.value, h), k, v)
        /\ a.evictedItems = MapPut(c.evictedItems, h, c.value[h])
        /\ a \in [order : {a.order}, value : {a.value}, evictedItems : {a.evictedItems}]
    BY <1>1, <2>1, Zenon
  <2>3. Len(c.order) = CacheSize /\ Len(c.order) # 0 BY <1>1, <1>3, <1>5, CacheAssumption
  <2>4. /\ OrderOK(Tail(c.order)) /\ Range(Tail(c.order)) = Range(c.order) \ {h}
        /\ Len(Tail(c.order)) = Len(c.order) - 1 /\ h \in Range(c.order)
    BY <1>1, <2>3, TailKeys, Zenon
  <2> HIDE DEF h
  <2>5. k \notin Range(Tail(c.order)) BY <1>2, <2>4, Zenon
  <2>6. /\ OrderOK(a.order) /\ Range(a.order) = Range(Tail(c.order)) \cup {k}
        /\ Len(a.order) = Len(Tail(c.order)) + 1
    <3> DEFINE o == Tail(c.order)
    <3>1. OrderOK(o) /\ k \notin Range(o) BY <2>4, <2>5, Zenon
    <3> HIDE DEF o
    <3>2. OrderOK(Append(o, k)) /\ Range(Append(o, k)) = Range(o) \cup {k} /\ Len(Append(o, k)) = Len(o) + 1
      BY <3>1, AppendKey, Zenon
    <3> QED BY <2>2, <3>2 DEF o
  <2>7. Len(a.order) <= CacheSize BY <1>3, <2>3, <2>4, <2>6
  <2>8. DOMAIN a.value = Range(a.order) 
    <3>1. DOMAIN MapDelete(c.value, h) = DOMAIN c.value \ {h} BY MapDeleteKeys, Zenon
    <3>2. DOMAIN MapPut(MapDelete(c.value, h), k, v) = DOMAIN MapDelete(c.value, h) \cup {k} BY MapPutKeys, Zenon
    <3> QED BY <1>1, <2>2, <2>4, <2>6, <3>1, <3>2
  <2>9. DOMAIN a.evictedItems = DOMAIN c.evictedItems \cup {h}
    <3>1. DOMAIN MapPut(c.evictedItems, h, c.value[h]) = DOMAIN c.evictedItems \cup {h} BY MapPutKeys, Zenon
    <3> QED BY <2>2, <3>1
  <2>10. IsFiniteSet(DOMAIN a.evictedItems) BY <1>1, <2>9, FS_AddElement
  <2>11. Range(a.order) \cap DOMAIN a.evictedItems = {} /\ Keys(a) = Keys(c) \cup {k}
    BY <1>1, <1>2, <2>4, <2>6, <2>9 DEF Keys
  <2>12. CacheOK(a) BY <2>2, <2>6, <2>7, <2>8, <2>10, <2>11, CacheParts, Zenon
  <2> QED BY <2>11, <2>12, Zenon DEF a
<1> QED BY <1>4, <1>5, Zenon

\* Get forgets no key, whether it touches the LRU or revives an evicted item.
LEMMA GetKey ==
  ASSUME NEW c, CacheOK(c), NEW k \in Keys(c)
  PROVE  CacheOK(CacheGet(c, k)) /\ Keys(CacheGet(c, k)) = Keys(c)
<1> DEFINE a == CacheGet(c, k)
<1>1. /\ c \in [order : {c.order}, value : {c.value}, evictedItems : {c.evictedItems}]
      /\ OrderOK(c.order) /\ DOMAIN c.value = Range(c.order)
      /\ Range(c.order) \cap DOMAIN c.evictedItems = {}
      /\ Len(c.order) <= CacheSize /\ IsFiniteSet(DOMAIN c.evictedItems)
  BY CacheParts, Zenon
<1>2. CASE k \in Range(c.order)
  <2>1. a = [c EXCEPT !.order = Touch(@, k)] BY <1>2, Zenon DEF CacheGet
  <2> HIDE DEF a
  <2>2. /\ a.order = Touch(c.order, k) /\ a.value = c.value /\ a.evictedItems = c.evictedItems
        /\ a \in [order : {a.order}, value : {a.value}, evictedItems : {a.evictedItems}]
    BY <1>1, <2>1
  <2>3. OrderOK(a.order) /\ Range(a.order) = Range(c.order) /\ Len(a.order) = Len(c.order)
    BY <1>1, <1>2, <2>2, TouchKey, Zenon
  <2>4. CacheOK(a) BY <1>1, <2>2, <2>3, CacheParts, Zenon
  <2>5. Keys(a) = Keys(c) BY <2>2, <2>3, Zenon DEF Keys
  <2> QED BY <2>4, <2>5, Zenon DEF a
<1>3. CASE k \notin Range(c.order)
  <2>1. k \in DOMAIN c.evictedItems BY <1>3, Zenon DEF Keys
  <2> DEFINE b == [c EXCEPT !.evictedItems = MapDelete(@, k)]
  <2>2. a = CacheAdd(b, k, c.evictedItems[k]) BY <1>3, <2>1, Zenon DEF CacheGet
  <2>3. /\ b.order = c.order /\ b.value = c.value /\ b.evictedItems = MapDelete(c.evictedItems, k)
        /\ b \in [order : {b.order}, value : {b.value}, evictedItems : {b.evictedItems}]
    BY <1>1
  <2> HIDE DEF a, b
  <2>4. DOMAIN b.evictedItems = DOMAIN c.evictedItems \ {k} BY <2>3, MapDeleteKeys, Zenon
  <2>5. IsFiniteSet(DOMAIN b.evictedItems) BY <1>1, <2>4, FS_RemoveElement
  <2>6. CacheOK(b)
    <3>1. Range(b.order) \cap DOMAIN b.evictedItems = {} BY <1>1, <2>3, <2>4, Zenon
    <3> QED BY <1>1, <2>3, <2>5, <3>1, CacheParts, Zenon
  <2>7. k \notin Keys(b) /\ Keys(b) \cup {k} = Keys(c)
    BY <1>3, <2>1, <2>3, <2>4 DEF Keys
  <2>8. CacheOK(a) /\ Keys(a) = Keys(b) \cup {k} BY <2>2, <2>6, <2>7, AddKey, Zenon
  <2> QED BY <2>7, <2>8, Zenon DEF a
<1> QED BY <1>2, <1>3, Zenon

LEMMA FinitelyManyKeys ==
  ASSUME NEW c, CacheOK(c)
  PROVE  IsFiniteSet(Keys(c)) /\ IsFiniteSet(Range(c.order))
<1>1. OrderOK(c.order) /\ IsFiniteSet(DOMAIN c.evictedItems) BY CacheParts, Zenon
<1>2. c.order \in Seq(Range(c.order)) BY <1>1, Zenon DEF OrderOK
<1>3. Len(c.order) \in Nat /\ DOMAIN c.order = 1 .. Len(c.order) /\ c.order \in [1 .. Len(c.order) -> Range(c.order)]
  BY <1>2
<1>4. c.order \in Surjection(1 .. Len(c.order), Range(c.order))
  BY <1>3, Zenon DEF Surjection, Range
<1>5. IsFiniteSet(1 .. Len(c.order)) BY <1>3, FS_Interval
<1>6. IsFiniteSet(Range(c.order)) BY <1>4, <1>5, FS_Surjection, Zenon
<1>7. IsFiniteSet(Range(c.order) \cup DOMAIN c.evictedItems) BY <1>1, <1>6, FS_Union, Zenon
<1> QED BY <1>6, <1>7, Zenon DEF Keys

LEMMA NoEvictedItems ==
  ASSUME NEW c, CacheOK(c)
  PROVE  CacheOK(RemoveEvictedItems(c)) /\ Keys(RemoveEvictedItems(c)) = Range(c.order)
<1> DEFINE a == RemoveEvictedItems(c)
<1>1. /\ c \in [order : {c.order}, value : {c.value}, evictedItems : {c.evictedItems}]
      /\ OrderOK(c.order) /\ DOMAIN c.value = Range(c.order) /\ Len(c.order) <= CacheSize
  BY CacheParts, Zenon
<1>2. /\ a.order = c.order /\ a.value = c.value /\ a.evictedItems = EmptyMap
      /\ a \in [order : {a.order}, value : {a.value}, evictedItems : {a.evictedItems}]
  BY <1>1 DEF RemoveEvictedItems
<1> HIDE DEF a
<1>3. DOMAIN a.evictedItems = {} BY <1>2, EmptyCache, Zenon
<1>4. IsFiniteSet(DOMAIN a.evictedItems) BY <1>3, FS_EmptySet
<1>5. CacheOK(a)
  <2>1. Range(a.order) \cap DOMAIN a.evictedItems = {} BY <1>3, Zenon
  <2> QED BY <1>1, <1>2, <1>4, <2>1, CacheParts, Zenon
<1>6. Keys(a) = Range(c.order) BY <1>2, <1>3 DEF Keys
<1> QED BY <1>5, <1>6, Zenon DEF a

-----------------------------------------------------------------------------
(* Histograms and counters *)

\* A histogram has counted a sample, and every sample in one bucket.
HistogramOK(h) ==
  /\ h \in [count : Nat \ {0}, sum : {h.sum}, bucketCounts : [0 .. Len(LatencyBounds) -> Nat], exemplars : Nat]
  /\ SumFunction(h.bucketCounts) = h.count

HistogramsOK(hists) == \A k \in DOMAIN hists : HistogramOK(hists[k])

Counter == {"count", "exemplars"}

\* What the histograms of some keys have counted.
FieldOf(hists, field) == [k \in DOMAIN hists |-> hists[k][field]]
Counted(hists, field, keys) == SumFunctionOnSet(FieldOf(hists, field), keys)

LEMMA SumIsOnDomain == \A f : SumFunction(f) = SumFunctionOnSet(f, DOMAIN f)
  BY Zenon DEF SumFunction

LEMMA HeldCounted == \A f, field : Held(f, field) = Counted(histograms[f], field, DOMAIN histograms[f])
  BY Zenon DEF Held, Counted, FieldOf, SumFunction

LEMMA CounterType ==
  ASSUME NEW hists, HistogramsOK(hists), NEW field \in Counter
  PROVE  \A k \in DOMAIN hists : FieldOf(hists, field)[k] \in Nat
<1> SUFFICES ASSUME NEW k \in DOMAIN hists PROVE FieldOf(hists, field)[k] \in Nat
  BY Zenon
<1>1. HistogramOK(hists[k]) BY Zenon DEF HistogramsOK
<1>2. hists[k]["count"] \in Nat /\ hists[k]["exemplars"] \in Nat BY <1>1 DEF HistogramOK
<1>3. hists[k][field] \in Nat BY <1>2, Zenon DEF Counter
<1> QED BY <1>3, Zenon DEF FieldOf

LEMMA BucketInRange == \A latency : BucketIndex(latency) \in 0 .. Len(LatencyBounds)
<1> SUFFICES ASSUME NEW latency PROVE BucketIndex(latency) \in 0 .. Len(LatencyBounds)
  BY Zenon
<1> DEFINE below == {i \in DOMAIN LatencyBounds : LatencyBounds[i] < latency}
<1>1. Len(LatencyBounds) \in Nat /\ DOMAIN LatencyBounds = 1 .. Len(LatencyBounds) BY SpanMetricsAssumption
<1>2. below \in SUBSET (1 .. Len(LatencyBounds)) BY <1>1, Zenon
<1>3. BucketIndex(latency) = Cardinality(below) BY Zenon DEF BucketIndex
<1> HIDE DEF below
<1>4. IsFiniteSet(1 .. Len(LatencyBounds)) /\ Cardinality(1 .. Len(LatencyBounds)) = Len(LatencyBounds)
  <2> DEFINE n == Len(LatencyBounds)
  <2>1. 1 \in Int /\ n \in Int /\ n \in Nat BY <1>1
  <2> HIDE DEF n
  <2>2. IsFiniteSet(1 .. n) /\ Cardinality(1 .. n) = IF 1 > n THEN 0 ELSE n - 1 + 1 BY <2>1, FS_Interval, Zenon
  <2>3. Cardinality(1 .. n) = n BY <2>1, <2>2
  <2> QED BY <2>2, <2>3, Zenon DEF n
<1>5. IsFiniteSet(below) /\ Cardinality(below) <= Cardinality(1 .. Len(LatencyBounds))
  BY <1>2, <1>4, FS_Subset, Zenon
<1>6. Cardinality(below) \in Nat BY <1>5, FS_CardinalityType, Zenon
<1> QED BY <1>1, <1>3, <1>4, <1>5, <1>6

LEMMA FinitelyManyBuckets == IsFiniteSet(0 .. Len(LatencyBounds))
<1>1. Len(LatencyBounds) \in Nat BY SpanMetricsAssumption
<1> QED BY <1>1, FS_Interval

\* The histogram updateHistogram starts from.
Before(hists, k) == IF k \in DOMAIN hists THEN hists[k] ELSE NewHistogram

LEMMA BeforeOK ==
  ASSUME NEW hists, HistogramsOK(hists), NEW k
  PROVE  /\ Before(hists, k).count \in Nat /\ Before(hists, k).exemplars \in Nat
         /\ Before(hists, k).bucketCounts \in [0 .. Len(LatencyBounds) -> Nat]
         /\ SumFunction(Before(hists, k).bucketCounts) = Before(hists, k).count
<1>1. CASE k \in DOMAIN hists
  <2>1. Before(hists, k) = hists[k] /\ HistogramOK(hists[k]) BY <1>1, Zenon DEF Before, HistogramsOK
  <2> QED BY <2>1 DEF HistogramOK
<1>2. CASE k \notin DOMAIN hists
  <2> DEFINE none == [i \in 0 .. Len(LatencyBounds) |-> 0]
  <2>1. Before(hists, k) = NewHistogram BY <1>2, Zenon DEF Before
  <2>2. /\ NewHistogram.count = 0 /\ NewHistogram.exemplars = 0 /\ NewHistogram.bucketCounts = none
    BY DEF NewHistogram
  <2>3. none \in [0 .. Len(LatencyBounds) -> Nat] /\ DOMAIN none = 0 .. Len(LatencyBounds)
        /\ \A i \in 0 .. Len(LatencyBounds) : none[i] = 0
    OBVIOUS
  <2> HIDE DEF none
  <2>4. SumFunctionOnSet(none, 0 .. Len(LatencyBounds)) = 0
    BY <2>3, FinitelyManyBuckets, SumOfZeros, Zenon
  <2>5. SumFunction(none) = 0 BY <2>3, <2>4, SumIsOnDomain, Zenon
  <2> QED BY <2>1, <2>2, <2>3, <2>5
<1> QED BY <1>1, <1>2, Zenon

\* One sample of family f more than in hists, under the key k.
CountsOne(new, hists, f, k) ==
  /\ HistogramsOK(new) /\ DOMAIN new = DOMAIN hists \cup {k}
  /\ Counted(new, "count", DOMAIN new) = Counted(hists, "count", DOMAIN hists) + 1
  /\ f # "exp" => Counted(new, "exemplars", DOMAIN new) = Counted(hists, "exemplars", DOMAIN hists) + 1

\* updateHistogram counts one sample, in one bucket of one key.
LEMMA UpdateCountsOne ==
  ASSUME NEW hists, HistogramsOK(hists), IsFiniteSet(DOMAIN hists), NEW f, NEW k, NEW latency
  PROVE  CountsOne(updateHistogram(hists, f, k, latency), hists, f, k)
<1> DEFINE new == updateHistogram(hists, f, k, latency)
           h == Before(hists, k)
           b == BucketIndex(latency)
           counts == [h.bucketCounts EXCEPT ![b] = @ + 1]
           g == [count |-> h.count + 1, sum |-> h.sum + latency, bucketCounts |-> counts,
                 exemplars |-> IF f = "exp" THEN 0 ELSE h.exemplars + 1]
<1>1. new = MapPut(hists, k, g) BY Zenon DEF updateHistogram, Before
<1>2. /\ h.count \in Nat /\ h.exemplars \in Nat /\ h.bucketCounts \in [0 .. Len(LatencyBounds) -> Nat]
      /\ SumFunction(h.bucketCounts) = h.count
  BY BeforeOK, Zenon
<1>3. b \in 0 .. Len(LatencyBounds) BY BucketInRange, Zenon
<1> HIDE DEF new, h, b
<1>4. counts \in [0 .. Len(LatencyBounds) -> Nat] /\ SumFunction(counts) = h.count + 1
  <2> DEFINE old == h.bucketCounts
             D == 0 .. Len(LatencyBounds)
  <2>1. /\ old \in [D -> Nat] /\ counts \in [D -> Nat] /\ counts[b] = old[b] + 1
        /\ \A x \in D \ {b} : counts[x] = old[x]
    BY <1>2, <1>3
  <2>2. DOMAIN old = D /\ DOMAIN counts = D /\ \A x \in D : old[x] \in Nat /\ counts[x] \in Nat BY <2>1
  <2>3. IsFiniteSet(D) /\ b \in D BY <1>3, FinitelyManyBuckets, Zenon
  <2>4. SumFunctionOnSet(old, D) = h.count BY <1>2, <2>2, SumIsOnDomain, Zenon
  <2> HIDE DEF old, D, counts
  <2>5. SumFunctionOnSet(old, D) \in Nat /\ SumFunctionOnSet(counts, D) + old[b] = SumFunctionOnSet(old, D) + counts[b]
    BY <2>1, <2>2, <2>3, SumChanges
  <2>6. SumFunctionOnSet(counts, D) \in Nat
    <3>1. Splits(counts, D) BY <2>2, <2>3, SumSplits
    <3> QED BY <3>1, Zenon DEF Splits
  <2>7. SumFunctionOnSet(counts, D) = h.count + 1
    <3>1. old[b] \in Nat BY <2>2, <2>3, Zenon
    <3> QED BY <2>1, <2>4, <2>5, <2>6, <3>1
  <2>8. SumFunction(counts) = SumFunctionOnSet(counts, D) BY <2>2, SumIsOnDomain, Zenon
  <2> QED BY <2>1, <2>7, <2>8, Zenon DEF D
<1> HIDE DEF counts
<1>5. /\ HistogramOK(g) /\ g["count"] = h["count"] + 1 /\ h["count"] \in Nat /\ h["exemplars"] \in Nat
      /\ f # "exp" => g["exemplars"] = h["exemplars"] + 1
      /\ g["count"] \in Nat /\ g["exemplars"] \in Nat
  <2>1. /\ g \in [count : Nat \ {0}, sum : {g.sum}, bucketCounts : [0 .. Len(LatencyBounds) -> Nat], exemplars : Nat]
        /\ g.count = h.count + 1 /\ g.bucketCounts = counts
    BY <1>2, <1>4
  <2>2. SumFunction(g.bucketCounts) = g.count BY <1>4, <2>1
  <2>3. HistogramOK(g) BY <2>1, <2>2, Zenon DEF HistogramOK
  <2> QED BY <1>2, <2>3
<1> HIDE DEF g
<1>6. /\ DOMAIN new = DOMAIN hists \cup {k} /\ new[k] = g
      /\ \A x \in DOMAIN hists \ {k} : new[x] = hists[x]
  BY <1>1, Zenon DEF MapPut
<1>7. HistogramsOK(new) BY <1>5, <1>6, Zenon DEF HistogramsOK
<1>8. ASSUME NEW x \in Counter, g[x] = h[x] + 1, g[x] \in Nat, h[x] \in Nat
      PROVE  Counted(new, x, DOMAIN new) = Counted(hists, x, DOMAIN hists) + 1
  <2> DEFINE D == DOMAIN new
             new1 == FieldOf(new, x)
             old == FieldOf(hists, x)
  <2>1. IsFiniteSet(D) BY <1>6, FS_AddElement
  <2>2. /\ k \in D /\ new1[k] = g[x] /\ \A y \in D \ {k} : y \in DOMAIN hists /\ new1[y] = old[y]
    BY <1>6, Zenon DEF FieldOf
  <2>3. \A y \in DOMAIN hists : old[y] \in Nat BY CounterType, Zenon
  <2>4. CASE k \in DOMAIN hists
    <3>1. D = DOMAIN hists BY <1>6, <2>4, Zenon
    <3>2. old[k] = h[x] BY <2>4, Zenon DEF FieldOf, h, Before
    <3> HIDE DEF D, new1, old
    <3>3. \A y \in D : old[y] \in Nat BY <2>3, <3>1, Zenon
    <3>4. new1[k] \in Nat BY <1>8, <2>2, Zenon
    <3>5. /\ SumFunctionOnSet(old, D) \in Nat
          /\ SumFunctionOnSet(new1, D) + old[k] = SumFunctionOnSet(old, D) + new1[k]
      BY <2>1, <2>2, <3>3, <3>4, SumChanges
    <3>6. SumFunctionOnSet(new1, D) \in Nat
      <4>1. \A y \in D : new1[y] \in Nat BY <2>2, <3>3, <3>4, Zenon
      <4>2. Splits(new1, D) BY <2>1, <4>1, SumSplits, Zenon
      <4> QED BY <4>2, Zenon DEF Splits
    <3>7. SumFunctionOnSet(new1, D) = SumFunctionOnSet(old, D) + 1
      BY <1>8, <2>2, <3>2, <3>5, <3>6
    <3> QED BY <3>1, <3>7, Zenon DEF Counted, D, new1, old
  <2>5. CASE k \notin DOMAIN hists
    <3>1. D \ {k} = DOMAIN hists BY <1>6, <2>5, Zenon
    <3>2. h[x] = 0
      <4>1. h = NewHistogram BY <2>5, Zenon DEF h, Before
      <4> QED BY <4>1 DEF NewHistogram, Counter
    <3> HIDE DEF D, new1, old
    <3>3. new1[k] = 1 BY <1>8, <2>2, <3>2
    <3>4. \A y \in D : new1[y] \in Nat
      <4>1. new1[k] \in Nat BY <1>8, <2>2, Zenon
      <4> QED BY <2>2, <2>3, <4>1, Zenon
    <3>5. Splits(new1, D) BY <2>1, <3>4, SumSplits, Zenon
    <3>6. SumFunctionOnSet(new1, D) = new1[k] + SumFunctionOnSet(new1, D \ {k}) BY <2>2, <3>5, Zenon DEF Splits
    <3>7. IsFiniteSet(D \ {k}) BY <2>1, FS_RemoveElement, Zenon
    <3>8. SumFunctionOnSet(new1, D \ {k}) = SumFunctionOnSet(old, D \ {k}) BY <2>2, <3>7, SumsAgree
    <3>9. SumFunctionOnSet(old, D \ {k}) \in Nat
      <4>1. \A y \in D \ {k} : old[y] \in Nat BY <2>3, <3>1, Zenon
      <4>2. Splits(old, D \ {k}) BY <3>7, <4>1, SumSplits
      <4> QED BY <4>2, Zenon DEF Splits
    <3>10. SumFunctionOnSet(new1, D) = SumFunctionOnSet(old, DOMAIN hists) + 1
      BY <3>1, <3>3, <3>6, <3>8, <3>9
    <3> QED BY <3>10, Zenon DEF Counted, D, new1, old
  <2> QED BY <2>4, <2>5, Zenon
<1>9. Counted(new, "count", DOMAIN new) = Counted(hists, "count", DOMAIN hists) + 1
  BY <1>5, <1>8, Zenon DEF Counter
<1>10. f # "exp" => Counted(new, "exemplars", DOMAIN new) = Counted(hists, "exemplars", DOMAIN hists) + 1
  BY <1>5, <1>8, Zenon DEF Counter
<1> QED BY <1>6, <1>7, <1>9, <1>10, Zenon DEF new, CountsOne

-----------------------------------------------------------------------------
\* Services and operations.

\* A set of names is at most one over its limit, not counting the overflow name.
Limited(names, overflow, limit) == IsFiniteSet(names) /\ Cardinality(names \ {overflow}) <= limit + 1

TrackedOK(t) ==
  /\ Limited(DOMAIN t, overflowServiceName, MaxServicesToTrack)
  /\ \A s \in DOMAIN t : Limited(t[s], overflowOperation, MaxOperationsToTrackPerService)

\* The next name is the overflow name once the limit is crossed.
LEMMA AddName ==
  ASSUME NEW names, NEW overflow, NEW limit \in Nat, Limited(names, overflow, limit), NEW x,
         Cardinality(names) > limit => x \in names \cup {overflow}
  PROVE  Limited(names \cup {x}, overflow, limit)
<1>1. IsFiniteSet(names) /\ IsFiniteSet(names \cup {x}) BY FS_AddElement, Zenon DEF Limited
<1>2. CASE x \in names \cup {overflow}
  <2>1. (names \cup {x}) \ {overflow} = names \ {overflow} BY <1>2, Zenon
  <2> QED BY <1>1, <2>1, Zenon DEF Limited
<1>3. CASE x \notin names \cup {overflow}
  <2>1. Cardinality(names) \in Nat BY <1>1, FS_CardinalityType, Zenon
  <2>2. Cardinality(names) <= limit BY <1>3, <2>1
  <2>3. Cardinality(names \cup {x}) = Cardinality(names) + 1
    <3>1. x \notin names BY <1>3, Zenon
    <3> QED BY <1>1, <3>1, FS_AddElement, Zenon
  <2>4. (names \cup {x}) \ {overflow} \in SUBSET (names \cup {x}) BY Zenon
  <2>5. /\ IsFiniteSet((names \cup {x}) \ {overflow})
        /\ Cardinality((names \cup {x}) \ {overflow}) <= Cardinality(names \cup {x})
    <3> DEFINE all == names \cup {x}
               some == all \ {overflow}
    <3>1. IsFiniteSet(all) /\ some \in SUBSET all BY <1>1, Zenon
    <3> HIDE DEF all, some
    <3>2. IsFiniteSet(some) /\ Cardinality(some) <= Cardinality(all) BY <3>1, FS_Subset, Zenon
    <3> QED BY <3>2, Zenon DEF all, some
  <2>6. Cardinality((names \cup {x}) \ {overflow}) \in Nat BY <2>5, FS_CardinalityType, Zenon
  <2>7. Cardinality((names \cup {x}) \ {overflow}) <= limit + 1 BY <2>1, <2>2, <2>3, <2>5, <2>6
  <2> QED BY <1>1, <2>7, Zenon DEF Limited
<1> QED BY <1>2, <1>3, Zenon

LEMMA NoNames == \A overflow : \A limit \in Nat : Limited({}, overflow, limit)
<1> SUFFICES ASSUME NEW overflow, NEW limit \in Nat PROVE Limited({}, overflow, limit)
  BY Zenon
<1>1. {} \ {overflow} = {} BY Zenon
<1>2. IsFiniteSet({}) /\ Cardinality({}) = 0 BY FS_EmptySet, Zenon
<1>3. Cardinality({} \ {overflow}) <= limit + 1 BY <1>1, <1>2
<1> QED BY <1>2, <1>3, Zenon DEF Limited

LEMMA TrackOK == \A t, s : TrackedOK(t) => TrackedOK(Track(t, s))
<1> SUFFICES ASSUME NEW t, NEW s, TrackedOK(t) PROVE TrackedOK(Track(t, s))
  BY Zenon
<1> DEFINE service == ServiceLabel(t, s)
           operation == OperationLabel(t, s)
           ops == IF service \in DOMAIN t THEN t[service] ELSE {}
           new == ops \cup {operation}
<1>1. Track(t, s) = MapPut(t, service, new) BY Zenon DEF Track
<1>2. Cardinality(DOMAIN t) > MaxServicesToTrack => service = overflowServiceName BY Zenon DEF ServiceLabel
<1>3. service \in DOMAIN t /\ Cardinality(t[service]) > MaxOperationsToTrackPerService => operation = overflowOperation
  BY Zenon DEF OperationLabel
<1>4. MaxServicesToTrack \in Nat /\ MaxOperationsToTrackPerService \in Nat BY SpanMetricsAssumption, Zenon
<1> HIDE DEF service, operation
<1>5. Limited(DOMAIN t \cup {service}, overflowServiceName, MaxServicesToTrack)
  <2>1. Cardinality(DOMAIN t) > MaxServicesToTrack => service \in DOMAIN t \cup {overflowServiceName} BY <1>2, Zenon
  <2>2. Limited(DOMAIN t, overflowServiceName, MaxServicesToTrack) BY Zenon DEF TrackedOK
  <2> DEFINE names == DOMAIN t
  <2> HIDE DEF names
  <2> QED BY <1>4, <2>1, <2>2, AddName, Zenon
<1>6. Limited(new, overflowOperation, MaxOperationsToTrackPerService)
  <2>1. Limited(ops, overflowOperation, MaxOperationsToTrackPerService)
    <3>1. CASE service \in DOMAIN t BY <3>1, Zenon DEF TrackedOK
    <3>2. CASE service \notin DOMAIN t BY <1>4, <3>2, NoNames, Zenon
    <3> QED BY <3>1, <3>2, Zenon
  <2>2. Cardinality(ops) > MaxOperationsToTrackPerService => operation \in ops \cup {overflowOperation}
    <3>1. CASE service \in DOMAIN t BY <1>3, <3>1, Zenon
    <3>2. CASE service \notin DOMAIN t
      <4>1. Cardinality(ops) = 0 BY <3>2, FS_EmptySet, Zenon
      <4> QED BY <1>4, <4>1
    <3> QED BY <3>1, <3>2, Zenon
  <2> HIDE DEF ops
  <2> QED BY <1>4, <2>1, <2>2, AddName, Zenon
<1> HIDE DEF new
<1>7. /\ DOMAIN Track(t, s) = DOMAIN t \cup {service}
      /\ \A x \in DOMAIN t \cup {service} : Track(t, s)[x] = IF x = service THEN new ELSE t[x]
  BY <1>1, Zenon DEF MapPut
<1>8. \A x \in DOMAIN Track(t, s) : Limited(Track(t, s)[x], overflowOperation, MaxOperationsToTrackPerService)
  BY <1>6, <1>7, Zenon DEF TrackedOK
<1> QED BY <1>5, <1>7, <1>8, Zenon DEF TrackedOK

-----------------------------------------------------------------------------
\* The inductive invariant.

ControlOK ==
  /\ temporality \in {"delta", "cumulative"}
  /\ holder \in {"none", "consumer", "ticker"}
  /\ spans # << >> => holder = "consumer"
  /\ tpcs \in {"created", "failed", "wait", "build", "send", "ended"}
  /\ holder = "ticker" <=> tpcs = "build"
  /\ family \in 1 .. 5
  /\ done \in {"open", "closed", "ticked"} /\ stopping \in {"no", "waiting", "returned"}
  /\ NoLateExport

\* A family's histograms and its dimensions have the same keys.
FamilyOK(hists, c) == HistogramsOK(hists) /\ CacheOK(c) /\ DOMAIN hists = Keys(c)

StoreOK == \A f \in Family : FamilyOK(histograms[f], dimCache[f])

CountersOK ==
  /\ DOMAIN dimCache = Family
  /\ aggregated \in [Family -> Nat] /\ exported \in [Family -> [count : Nat, exemplars : Nat]]

\* The keys of a family that the ticker has not read in this export.
Rest(f) ==
  IF tpcs # "build" \/ \E i \in 1 .. 5 : i > family /\ CollectOrder[i] = f THEN DOMAIN histograms[f]
  ELSE IF CollectOrder[family] = f THEN unread ELSE {}

UnreadOK == tpcs = "build" => unread \subseteq DOMAIN histograms[CollectOrder[family]]

\* A span counted in a family was exported or is in a histogram the ticker has not read.
Balance(f, field) == aggregated[f] = exported[f][field] + Counted(histograms[f], field, Rest(f))

BalanceOK ==
  /\ temporality = "delta" => \A f \in Family : Balance(f, "count")
  /\ Balance("latency", "exemplars")

SpanIInv == ControlOK /\ StoreOK /\ TrackedOK(serviceToOperations) /\ CountersOK /\ UnreadOK /\ BalanceOK

LEMMA OrderOfFamilies ==
  /\ CollectOrder \in [1 .. 5 -> Family] /\ DOMAIN CollectOrder = 1 .. 5 /\ Len(CollectOrder) = 5
  /\ CollectOrder[1] = "call" /\ CollectOrder[5] = "exp"
  /\ \A i, j \in 1 .. 5 : CollectOrder[i] = CollectOrder[j] => i = j
  /\ \A f \in Family : \E i \in 1 .. 5 : CollectOrder[i] = f
  BY DEF CollectOrder, Family

LEMMA SpanIInvInit == SpanMetricsInit => SpanIInv
<1> SUFFICES ASSUME SpanMetricsInit PROVE SpanIInv
  BY Zenon
<1>1. /\ temporality \in Temporalities /\ holder = "none" /\ spans = << >> /\ serviceToOperations = EmptyMap
      /\ histograms = [f \in Family |-> EmptyMap] /\ dimCache = [f \in Family |-> NewCache]
      /\ tpcs = "created" /\ family = 1 /\ done = "open" /\ stopping = "no"
      /\ aggregated = [f \in Family |-> 0]
      /\ exported = [f \in Family |-> [count |-> 0, exemplars |-> 0]]
  BY Zenon DEF SpanMetricsInit
<1>2. ControlOK
  <2>1. family \in 1 .. 5 BY <1>1
  <2>2. temporality \in {"delta", "cumulative"} BY <1>1, SpanMetricsAssumption, Zenon
  <2> QED BY <1>1, <2>1, <2>2, Zenon DEF ControlOK, NoLateExport
<1>3. StoreOK
  <2>1. FamilyOK(EmptyMap, NewCache)
    BY EmptyCache, Zenon DEF FamilyOK, HistogramsOK
  <2> QED BY <1>1, <2>1, Zenon DEF StoreOK
<1>4. TrackedOK(serviceToOperations)
  <2>1. MaxServicesToTrack \in Nat BY SpanMetricsAssumption, Zenon
  <2> QED BY <1>1, <2>1, EmptyCache, NoNames, Zenon DEF TrackedOK
<1>5. CountersOK
  <2>1. DOMAIN dimCache = Family BY <1>1, Zenon
  <2>2. aggregated \in [Family -> Nat] /\ exported \in [Family -> [count : Nat, exemplars : Nat]] BY <1>1
  <2> QED BY <2>1, <2>2, Zenon DEF CountersOK
<1>6. UnreadOK BY <1>1, Zenon DEF UnreadOK
<1>7. BalanceOK
  <2>1. ASSUME NEW f \in Family, NEW x \in Counter PROVE Balance(f, x)
    <3>1. aggregated[f] = 0 /\ exported[f][x] = 0 BY <1>1 DEF Counter
    <3>2. Rest(f) = {} BY <1>1, EmptyCache, Zenon DEF Rest
    <3>3. Counted(histograms[f], x, Rest(f)) = 0 BY <3>2, SumOfNothing, Zenon DEF Counted
    <3> QED BY <3>1, <3>3 DEF Balance
  <2>2. "latency" \in Family /\ "count" \in Counter /\ "exemplars" \in Counter BY DEF Family, Counter
  <2> QED BY <2>1, <2>2, Zenon DEF BalanceOK
<1> QED BY <1>2, <1>3, <1>4, <1>5, <1>6, <1>7, Zenon DEF SpanIInv

\* A step that leaves the histograms alone, and no key read or unread, keeps what is counted.
LEMMA StoreUnchanged ==
  ASSUME SpanIInv, UNCHANGED <<temporality, serviceToOperations, histograms, dimCache, family, unread, aggregated, exported>>,
         tpcs = "build" <=> tpcs' = "build", ControlOK'
  PROVE  SpanIInv'
<1>1. StoreOK' /\ TrackedOK(serviceToOperations)' /\ CountersOK' /\ UnreadOK'
  BY Zenon DEF SpanIInv, StoreOK, CountersOK, UnreadOK
<1>2. \A f : Rest(f)' = Rest(f) BY Zenon DEF Rest
<1>3. BalanceOK' BY <1>2, Zenon DEF SpanIInv, BalanceOK, Balance
<1> QED BY <1>1, <1>3, Zenon DEF SpanIInv

LEMMA QuietStep ==
  ASSUME SpanIInv, \/ StartProcessor \/ \E b \in Batches : ConsumeSpans(b)
                   \/ SkipSpan \/ SpansCounted \/ SendMetrics \/ TickerEnds
                   \/ ShutdownProcessor \/ ProcessorStopped \/ UNCHANGED spanMetricsVars
  PROVE  SpanIInv'
<1>1. UNCHANGED <<temporality, serviceToOperations, histograms, dimCache, family, unread, aggregated, exported>>
  BY Zenon DEF StartProcessor, ConsumeSpans, SkipSpan, SpansCounted, SendMetrics, TickerEnds, ShutdownProcessor,
               ProcessorStopped, spanMetricsVars, storeVars, tickVars
<1>2. ControlOK BY Zenon DEF SpanIInv
<1>3. ControlOK' /\ (tpcs = "build" <=> tpcs' = "build")
  <2>1. CASE StartProcessor
    <3>1. tpcs' \in {"failed", "wait"} /\ tpcs = "created" /\ UNCHANGED <<temporality, holder, spans, family, done, stopping>>
      BY <2>1, Zenon DEF StartProcessor
    <3>2. stopping # "returned" BY <1>2, <3>1, Zenon DEF ControlOK, NoLateExport
    <3> QED BY <1>2, <3>1, <3>2, Zenon DEF ControlOK, NoLateExport
  <2>2. CASE \E b \in Batches : ConsumeSpans(b)
    BY <1>2, <2>2, Zenon DEF ControlOK, NoLateExport, ConsumeSpans, tickVars
  <2>3. CASE SkipSpan
    BY <1>2, <2>3, Zenon DEF ControlOK, NoLateExport, SkipSpan, tickVars
  <2>4. CASE SpansCounted
    BY <1>2, <2>4, Zenon DEF ControlOK, NoLateExport, SpansCounted, tickVars
  <2>5. CASE SendMetrics
    <3>1. tpcs' \in {"wait", "send"} /\ tpcs = "send" /\ UNCHANGED <<temporality, holder, spans, family, done, stopping>>
      BY <2>5, Zenon DEF SendMetrics
    <3> QED BY <1>2, <3>1, Zenon DEF ControlOK, NoLateExport
  <2>6. CASE TickerEnds
    BY <1>2, <2>6, Zenon DEF ControlOK, NoLateExport, TickerEnds
  <2>7. CASE ShutdownProcessor
    <3>1. /\ done' \in {done, "closed", "ticked"} /\ stopping' = "waiting"
          /\ UNCHANGED <<temporality, holder, spans, tpcs, family>>
      BY <2>7, Zenon DEF ShutdownProcessor, tickVars
    <3> QED BY <1>2, <3>1, Zenon DEF ControlOK, NoLateExport
  <2>8. CASE ProcessorStopped
    BY <1>2, <2>8, Zenon DEF ControlOK, NoLateExport, ProcessorStopped, tickVars
  <2>9. CASE UNCHANGED spanMetricsVars
    BY <1>2, <2>9, Zenon DEF ControlOK, NoLateExport, spanMetricsVars, tickVars
  <2> QED BY <2>1, <2>2, <2>3, <2>4, <2>5, <2>6, <2>7, <2>8, <2>9, Zenon
<1> QED BY <1>1, <1>3, StoreUnchanged, Zenon

\* The ticker goes to its first family, or to the next one, without counting anything.
LEMMA RestUnchanged ==
  ASSUME SpanIInv, UNCHANGED <<temporality, serviceToOperations, histograms, dimCache, aggregated, exported>>,
         ControlOK', UnreadOK', \A f \in Family : Rest(f)' = Rest(f)
  PROVE  SpanIInv'
<1>1. StoreOK' /\ TrackedOK(serviceToOperations)' /\ CountersOK'
  BY Zenon DEF SpanIInv, StoreOK, CountersOK
<1>2. BalanceOK'
  <2>1. "latency" \in Family BY DEF Family
  <2> QED BY <2>1, Zenon DEF SpanIInv, BalanceOK, Balance
<1> QED BY <1>1, <1>2, Zenon DEF SpanIInv

LEMMA TickSpanMetricsStep == SpanIInv /\ TickSpanMetrics => SpanIInv'
<1> SUFFICES ASSUME SpanIInv, TickSpanMetrics PROVE SpanIInv'
  BY Zenon
<1>1. /\ tpcs = "wait" /\ tpcs' = "build" /\ holder = "none" /\ holder' = "ticker" /\ family' = 1
      /\ unread' = DOMAIN histograms[CollectOrder[1]]
      /\ UNCHANGED <<temporality, spans, serviceToOperations, histograms, dimCache, stopping, aggregated, exported>>
  BY Zenon DEF TickSpanMetrics, storeVars
<1>2. ControlOK'
  <2>1. family' \in 1 .. 5 BY <1>1
  <2>2. done' \in {done, "closed"} BY Zenon DEF TickSpanMetrics
  <2> QED BY <1>1, <2>1, <2>2, Zenon DEF SpanIInv, ControlOK, NoLateExport
<1>3. UnreadOK' BY <1>1, Zenon DEF UnreadOK
<1>4. ASSUME NEW f \in Family PROVE Rest(f)' = Rest(f)
  <2>1. Rest(f) = DOMAIN histograms[f] BY <1>1, Zenon DEF Rest
  <2>2. PICK i \in 1 .. 5 : CollectOrder[i] = f BY OrderOfFamilies, Zenon
  <2>3. i = 1 \/ i > 1 OBVIOUS
  <2>4. 1 \in 1 .. 5 OBVIOUS
  <2>5. CASE i > 1
    BY <1>1, <2>1, <2>2, <2>5, Zenon DEF Rest
  <2>6. CASE i = 1
    BY <1>1, <2>1, <2>2, <2>6, Zenon DEF Rest
  <2> QED BY <2>3, <2>5, <2>6, Zenon
<1> QED BY <1>1, <1>2, <1>3, <1>4, RestUnchanged, Zenon

LEMMA CollectNextFamilyStep == SpanIInv /\ CollectNextFamily => SpanIInv'
<1> SUFFICES ASSUME SpanIInv, CollectNextFamily PROVE SpanIInv'
  BY Zenon
<1>1. /\ tpcs = "build" /\ tpcs' = "build" /\ unread = {} /\ family < 5 /\ family' = family + 1
      /\ unread' = DOMAIN histograms[CollectOrder[family + 1]]
      /\ UNCHANGED <<temporality, holder, spans, serviceToOperations, histograms, dimCache, done, stopping,
                     aggregated, exported>>
  BY OrderOfFamilies, Zenon DEF CollectNextFamily, storeVars
<1>2. family \in 1 .. 5 BY Zenon DEF SpanIInv, ControlOK
<1>3. family + 1 \in 1 .. 5 /\ family # family + 1 /\ family + 1 > family BY <1>1, <1>2
<1>4. ControlOK' BY <1>1, <1>3, Zenon DEF SpanIInv, ControlOK, NoLateExport
<1>5. UnreadOK' BY <1>1, Zenon DEF UnreadOK
<1>6. ASSUME NEW f \in Family PROVE Rest(f)' = Rest(f)
  <2>1. PICK i \in 1 .. 5 : CollectOrder[i] = f BY OrderOfFamilies, Zenon
  <2>2. \A j \in 1 .. 5 : CollectOrder[j] = f => j = i BY <2>1, OrderOfFamilies, Zenon
  <2>3. CASE i > family + 1
    <3>1. i > family BY <1>2, <2>3
    <3> QED BY <1>1, <2>1, <2>3, <3>1, Zenon DEF Rest
  <2>4. CASE i = family + 1
    <3>1. Rest(f) = DOMAIN histograms[f] BY <1>3, <2>1, <2>4, Zenon DEF Rest
    <3>2. unread' = DOMAIN histograms[f] /\ CollectOrder[family'] = f BY <1>1, <2>1, <2>4, Zenon
    <3> QED BY <1>1, <3>1, <3>2, Zenon DEF Rest
  <2>5. CASE i < family + 1
    <3>1. /\ ~\E j \in 1 .. 5 : j > family /\ CollectOrder[j] = f
          /\ ~\E j \in 1 .. 5 : j > family + 1 /\ CollectOrder[j] = f
          /\ CollectOrder[family + 1] # f
      <4>1. ~(i > family) /\ ~(i > family + 1) /\ i # family + 1 BY <1>2, <2>5
      <4> QED BY <1>3, <2>2, <4>1, Zenon
    <3>2. Rest(f) = {} BY <1>1, <3>1, Zenon DEF Rest
    <3>3. Rest(f)' = {} BY <1>1, <3>1, Zenon DEF Rest
    <3> QED BY <3>2, <3>3, Zenon
  <2>6. i > family + 1 \/ i = family + 1 \/ i < family + 1 BY <1>2
  <2> QED BY <2>3, <2>4, <2>5, <2>6, Zenon
<1> QED BY <1>1, <1>4, <1>5, <1>6, RestUnchanged, Zenon

\* What a family has counted under some of its keys is a number, and can be split at a key.
PointSplits(h, x, D, k) == h[k][x] \in Nat /\ Counted(h, x, D) = h[k][x] + Counted(h, x, D \ {k})

LEMMA CountedSplits ==
  \A h, c : FamilyOK(h, c) => \A x \in Counter : \A D \in SUBSET DOMAIN h :
    /\ IsFiniteSet(D) /\ Counted(h, x, D) \in Nat
    /\ \A k \in D : PointSplits(h, x, D, k)
<1> SUFFICES ASSUME NEW h, NEW c, FamilyOK(h, c), NEW x \in Counter, NEW D \in SUBSET DOMAIN h
             PROVE  /\ IsFiniteSet(D) /\ Counted(h, x, D) \in Nat
                    /\ \A k \in D : PointSplits(h, x, D, k)
  BY Zenon
<1>1. HistogramsOK(h) /\ CacheOK(c) /\ DOMAIN h = Keys(c) BY Zenon DEF FamilyOK
<1>2. IsFiniteSet(DOMAIN h) BY <1>1, FinitelyManyKeys, Zenon
<1>3. IsFiniteSet(D) BY <1>2, FS_Subset, Zenon
<1>4. \A k \in DOMAIN h : FieldOf(h, x)[k] \in Nat BY <1>1, CounterType, Zenon
<1>5. \A k \in D : FieldOf(h, x)[k] \in Nat /\ FieldOf(h, x)[k] = h[k][x] BY <1>4, Zenon DEF FieldOf
<1>6. Splits(FieldOf(h, x), D) BY <1>3, <1>5, SumSplits, Zenon
<1> QED BY <1>3, <1>5, <1>6, Zenon DEF Splits, Counted, PointSplits

\* Get of the dimensions, or Add when they are missing, leaves them in the cache.
LEMMA CachedKey ==
  ASSUME NEW c, CacheOK(c), NEW k, NEW kvs
  PROVE  CacheOK(Cached(c, k, kvs)) /\ Keys(Cached(c, k, kvs)) = Keys(c) \cup {k}
<1>1. CASE k \in Keys(c)
  <2>1. Cached(c, k, kvs) = CacheGet(c, k) BY <1>1, Zenon DEF Cached, CacheHas, Keys
  <2>2. CacheOK(CacheGet(c, k)) /\ Keys(CacheGet(c, k)) = Keys(c) BY <1>1, GetKey, Zenon
  <2>3. Keys(c) = Keys(c) \cup {k} BY <1>1, Zenon
  <2> QED BY <2>1, <2>2, <2>3, Zenon
<1>2. CASE k \notin Keys(c)
  <2>1. Cached(c, k, kvs) = CacheAdd(c, k, kvs) BY <1>2, Zenon DEF Cached, CacheHas, Keys
  <2>2. CacheOK(CacheAdd(c, k, kvs)) /\ Keys(CacheAdd(c, k, kvs)) = Keys(c) \cup {k} BY <1>2, AddKey, Zenon
  <2> QED BY <2>1, <2>2, Zenon
<1> QED BY <1>1, <1>2, Zenon

LEMMA aggregateMetricsForSpanStep == SpanIInv /\ aggregateMetricsForSpan => SpanIInv'
<1> SUFFICES ASSUME SpanIInv, aggregateMetricsForSpan PROVE SpanIInv'
  BY Zenon
<1> DEFINE s == Head(spans)
           t1 == Track(serviceToOperations, s)
           t2 == IF EnableExpHistogram THEN Track(t1, s) ELSE t1
           t3 == Track(t2, s)
           remote == getRemoteAddress(s.attrs)
           dims == dimensionsOf
           key == [latency |-> buildMetricKey(serviceToOperations, s, dims.latency),
                   exp |-> buildMetricKey(t1, s, dims.exp),
                   call |-> buildMetricKey(t2, s, dims.call),
                   external |-> buildCustomMetricKey(s, dims.external, <<remote>>),
                   db |-> buildCustomMetricKey(s, dims.db, << >>)]
           kvs == [latency |-> buildDimensionKVs(t1, s, dims.latency),
                   exp |-> buildDimensionKVs(t2, s, dims.exp),
                   call |-> buildDimensionKVs(t3, s, dims.call),
                   external |-> buildCustomDimensionKVs(s, dims.external, {<<"address", remote>>}),
                   db |-> buildCustomDimensionKVs(s, dims.db, {})]
           counted == CountedIn(s)
<1>1. /\ holder = "consumer" /\ spans' = Tail(spans) /\ serviceToOperations' = t3
      /\ dimCache' = [f \in Family |->
           IF f \in counted THEN Cached(dimCache[f], key[f], kvs[f]) ELSE dimCache[f]]
      /\ histograms' = [f \in Family |->
           IF f \in counted THEN updateHistogram(histograms[f], f, key[f], Latency(s)) ELSE histograms[f]]
      /\ aggregated' = [f \in Family |-> aggregated[f] + (IF f \in counted THEN 1 ELSE 0)]
      /\ UNCHANGED <<temporality, holder, tpcs, family, unread, done, stopping, exported>>
  BY Zenon DEF aggregateMetricsForSpan, tickVars
<1>2. "latency" \in counted BY Zenon DEF CountedIn
<1>3. TrackedOK(serviceToOperations')
  <2>1. TrackedOK(t1) BY TrackOK, Zenon DEF SpanIInv
  <2> HIDE DEF t1
  <2>2. TrackedOK(t2)
    <3>1. CASE EnableExpHistogram BY <2>1, <3>1, TrackOK, Zenon
    <3>2. CASE ~EnableExpHistogram BY <2>1, <3>2, Zenon
    <3> QED BY <3>1, <3>2, Zenon
  <2> HIDE DEF t2
  <2>3. TrackedOK(t3) BY <2>2, TrackOK, Zenon
  <2> QED BY <1>1, <2>3, Zenon
<1> HIDE DEF s, t1, t2, t3, key, kvs, counted
<1>4. tpcs # "build" BY <1>1, Zenon DEF SpanIInv, ControlOK
<1>5. ControlOK' BY <1>1, Zenon DEF SpanIInv, ControlOK, NoLateExport
<1>6. ASSUME NEW f \in Family
      PROVE  /\ FamilyOK(histograms'[f], dimCache'[f])
             /\ Counted(histograms'[f], "count", DOMAIN histograms'[f]) =
                  Counted(histograms[f], "count", DOMAIN histograms[f]) + (IF f \in counted THEN 1 ELSE 0)
             /\ f = "latency" => Counted(histograms'[f], "exemplars", DOMAIN histograms'[f]) =
                  Counted(histograms[f], "exemplars", DOMAIN histograms[f]) + (IF f \in counted THEN 1 ELSE 0)
  <2> DEFINE h == histograms[f]
             c == dimCache[f]
             k == key[f]
             n == updateHistogram(h, f, k, Latency(s))
             d == Cached(c, k, kvs[f])
  <2>1. HistogramsOK(h) /\ CacheOK(c) /\ DOMAIN h = Keys(c) BY Zenon DEF SpanIInv, StoreOK, FamilyOK
  <2>2. CASE f \in counted
    <3>1. histograms'[f] = n /\ dimCache'[f] = d BY <1>1, <2>2, Zenon
    <3> HIDE DEF h, c, k
    <3>2. IsFiniteSet(DOMAIN h) BY <2>1, FinitelyManyKeys
    <3>3. /\ HistogramsOK(n) /\ DOMAIN n = DOMAIN h \cup {k}
          /\ Counted(n, "count", DOMAIN n) = Counted(h, "count", DOMAIN h) + 1
          /\ f # "exp" => Counted(n, "exemplars", DOMAIN n) = Counted(h, "exemplars", DOMAIN h) + 1
      <4>1. CountsOne(n, h, f, k) BY <2>1, <3>2, UpdateCountsOne, Zenon
      <4> HIDE DEF n
      <4> QED BY <4>1, Zenon DEF CountsOne
    <3>4. CacheOK(d) /\ Keys(d) = Keys(c) \cup {k} BY <2>1, CachedKey, Zenon
    <3> HIDE DEF n, d
    <3>5. FamilyOK(n, d) BY <2>1, <3>3, <3>4, Zenon DEF FamilyOK
    <3> QED BY <2>2, <3>1, <3>3, <3>5, Zenon DEF h
  <2>3. CASE f \notin counted
    <3>1. histograms'[f] = h /\ dimCache'[f] = c BY <1>1, <2>3, Zenon
    <3>4. FamilyOK(h, c) BY <2>1, Zenon DEF FamilyOK
    <3>3. Counted(h, "count", DOMAIN h) \in Nat /\ Counted(h, "exemplars", DOMAIN h) \in Nat
      <4>1. "count" \in Counter /\ "exemplars" \in Counter /\ DOMAIN h \in SUBSET DOMAIN h BY DEF Counter
      <4> HIDE DEF h, c
      <4>2. Counted(h, "count", DOMAIN h) \in Nat BY <3>4, <4>1, CountedSplits, Zenon
      <4>3. Counted(h, "exemplars", DOMAIN h) \in Nat BY <3>4, <4>1, CountedSplits, Zenon
      <4> QED BY <4>2, <4>3, Zenon
    <3>5. /\ Counted(h, "count", DOMAIN h) = Counted(h, "count", DOMAIN h) + (IF f \in counted THEN 1 ELSE 0)
          /\ Counted(h, "exemplars", DOMAIN h) = Counted(h, "exemplars", DOMAIN h) + (IF f \in counted THEN 1 ELSE 0)
      <4> HIDE DEF h
      <4> QED BY <2>3, <3>3
    <3> QED BY <3>1, <3>4, <3>5, Zenon
  <2> QED BY <2>2, <2>3, Zenon
<1>7. StoreOK' BY <1>6, Zenon DEF StoreOK
<1>8. CountersOK'
  <2>1. aggregated' \in [Family -> Nat] BY <1>1 DEF SpanIInv, CountersOK
  <2> QED BY <1>1, <2>1, Zenon DEF SpanIInv, CountersOK
<1>9. UnreadOK' BY <1>1, <1>4, Zenon DEF UnreadOK
<1>10. BalanceOK'
  <2>1. \A f : Rest(f) = DOMAIN histograms[f] /\ Rest(f)' = DOMAIN histograms'[f] BY <1>1, <1>4, Zenon DEF Rest
  <2>2. ASSUME NEW f \in Family, NEW x \in Counter, Balance(f, x),
               Counted(histograms'[f], x, DOMAIN histograms'[f]) =
                 Counted(histograms[f], x, DOMAIN histograms[f]) + (IF f \in counted THEN 1 ELSE 0)
        PROVE  Balance(f, x)'
    <3>1. aggregated[f] = exported[f][x] + Counted(histograms[f], x, DOMAIN histograms[f])
      BY <2>1, <2>2, Zenon DEF Balance
    <3>2. aggregated'[f] = aggregated[f] + (IF f \in counted THEN 1 ELSE 0) BY <1>1, Zenon
    <3>3. exported[f][x] \in Nat /\ aggregated[f] \in Nat
      <4>1. exported \in [Family -> [count : Nat, exemplars : Nat]] /\ aggregated \in [Family -> Nat]
        BY Zenon DEF SpanIInv, CountersOK
      <4> QED BY <4>1 DEF Counter
    <3>4. Counted(histograms[f], x, DOMAIN histograms[f]) \in Nat
      <4>1. FamilyOK(histograms[f], dimCache[f]) BY Zenon DEF SpanIInv, StoreOK
      <4> QED BY <4>1, CountedSplits, Zenon
    <3>5. aggregated'[f] = exported[f][x] + Counted(histograms'[f], x, DOMAIN histograms'[f])
      BY <2>2, <3>1, <3>2, <3>3, <3>4
    <3> QED BY <1>1, <2>1, <3>5, Zenon DEF Balance
  <2>3. "count" \in Counter /\ "exemplars" \in Counter /\ "latency" \in Family BY DEF Counter, Family
  <2>4. temporality' = "delta" => \A f \in Family : Balance(f, "count")'
    BY <1>1, <1>6, <2>2, <2>3, Zenon DEF SpanIInv, BalanceOK
  <2>5. Balance("latency", "exemplars")'
    BY <1>6, <2>2, <2>3, Zenon DEF SpanIInv, BalanceOK
  <2> QED BY <2>4, <2>5, Zenon DEF BalanceOK
<1> QED BY <1>3, <1>5, <1>7, <1>8, <1>9, <1>10, Zenon DEF SpanIInv

\* A data point adds what its histogram counted to the export and takes its key off the
\* list; the dimensions are there, so the build does not fail.
LEMMA CollectPointStep == \A k \in unread : SpanIInv /\ CollectPoint(k) => SpanIInv'
<1> SUFFICES ASSUME NEW k \in unread, SpanIInv, CollectPoint(k) PROVE SpanIInv'
  BY Zenon
<1> DEFINE f == CollectOrder[family]
           h == histograms[f][k]
<1>1. /\ tpcs = "build" /\ unread' = unread \ {k} /\ dimCache' = [dimCache EXCEPT ![f] = CacheGet(@, k)]
      /\ exported' = [exported EXCEPT ![f] =
           [count |-> @.count + (IF temporality = "delta" THEN h.count ELSE 0),
            exemplars |-> @.exemplars + h.exemplars]]
      /\ tpcs' = IF CacheHas(dimCache[f], k) THEN "build" ELSE "panicked"
      /\ UNCHANGED <<temporality, holder, spans, serviceToOperations, histograms, family, done, stopping, aggregated>>
  BY Zenon DEF CollectPoint
<1>2. family \in 1 .. 5 /\ f \in Family
  <2>1. family \in 1 .. 5 BY Zenon DEF SpanIInv, ControlOK
  <2> QED BY <2>1, OrderOfFamilies, Zenon
<1>3. k \in DOMAIN histograms[f] /\ unread \subseteq DOMAIN histograms[f] BY <1>1, Zenon DEF SpanIInv, UnreadOK
<1>4. \A g \in Family : FamilyOK(histograms[g], dimCache[g]) BY Zenon DEF SpanIInv, StoreOK
<1>5. k \in Keys(dimCache[f]) BY <1>2, <1>3, <1>4, Zenon DEF FamilyOK
<1>6. tpcs' = "build" BY <1>1, <1>5, Zenon DEF CacheHas, Keys
<1>7. ControlOK' BY <1>1, <1>6, Zenon DEF SpanIInv, ControlOK, NoLateExport
<1>8. UnreadOK' BY <1>1, <1>3, Zenon DEF UnreadOK
<1>9. StoreOK'
  <2> SUFFICES ASSUME NEW g \in Family PROVE FamilyOK(histograms[g], dimCache'[g])
    BY <1>1, Zenon DEF StoreOK
  <2>1. DOMAIN dimCache = Family BY Zenon DEF SpanIInv, CountersOK
  <2>2. CASE g # f
    <3>1. dimCache'[g] = dimCache[g] BY <1>1, <2>1, <2>2, Zenon
    <3> QED BY <1>4, <3>1, Zenon
  <2>3. CASE g = f
    <3> DEFINE c == dimCache[f]
    <3>1. dimCache'[g] = CacheGet(c, k) BY <1>1, <1>2, <2>1, <2>3, Zenon
    <3>2. CacheOK(c) /\ k \in Keys(c) BY <1>2, <1>4, <1>5, Zenon DEF FamilyOK
    <3> HIDE DEF c
    <3>3. CacheOK(CacheGet(c, k)) /\ Keys(CacheGet(c, k)) = Keys(c) BY <3>2, GetKey, Zenon
    <3>4. CacheOK(dimCache'[g]) /\ Keys(dimCache'[g]) = Keys(dimCache[f]) BY <3>1, <3>3, Zenon DEF c
    <3> QED BY <1>2, <1>4, <2>3, <3>4, Zenon DEF FamilyOK
  <2> QED BY <2>2, <2>3, Zenon
<1>10. /\ exported \in [Family -> [count : Nat, exemplars : Nat]] /\ aggregated \in [Family -> Nat]
       /\ h["count"] \in Nat /\ h["exemplars"] \in Nat
  <2>1. "count" \in Counter /\ "exemplars" \in Counter BY DEF Counter
  <2>2. DOMAIN histograms[f] \in SUBSET DOMAIN histograms[f] BY Zenon
  <2>3. h["count"] \in Nat BY <1>2, <1>3, <1>4, <2>1, <2>2, CountedSplits, Zenon DEF PointSplits
  <2>4. h["exemplars"] \in Nat BY <1>2, <1>3, <1>4, <2>1, <2>2, CountedSplits, Zenon DEF PointSplits
  <2> QED BY <2>3, <2>4, Zenon DEF SpanIInv, CountersOK
<1>11. /\ exported' \in [Family -> [count : Nat, exemplars : Nat]]
       /\ \A g \in Family \ {f} : exported'[g] = exported[g]
       /\ temporality = "delta" => exported'[f]["count"] = exported[f]["count"] + h["count"]
       /\ exported'[f]["exemplars"] = exported[f]["exemplars"] + h["exemplars"]
  <2> DEFINE add == IF temporality = "delta" THEN h.count ELSE 0
             ex == h.exemplars
  <2>1. add \in Nat /\ ex \in Nat /\ (temporality = "delta" => add = h["count"]) /\ ex = h["exemplars"] BY <1>10
  <2>2. exported' = [exported EXCEPT ![f] = [count |-> @.count + add, exemplars |-> @.exemplars + ex]]
    BY <1>1, Zenon
  <2> HIDE DEF add, ex, f, h
  <2>3. /\ exported' \in [Family -> [count : Nat, exemplars : Nat]]
        /\ \A g \in Family \ {f} : exported'[g] = exported[g]
        /\ exported'[f]["count"] = exported[f]["count"] + add
        /\ exported'[f]["exemplars"] = exported[f]["exemplars"] + ex
    BY <1>2, <1>10, <2>1, <2>2
  <2> QED BY <2>1, <2>3, Zenon
<1>12. CountersOK'
  <2>1. DOMAIN dimCache' = Family BY <1>1, Zenon DEF SpanIInv, CountersOK
  <2> QED BY <1>1, <1>10, <1>11, <2>1, Zenon DEF CountersOK
<1>13. /\ Rest(f) = unread /\ Rest(f)' = unread \ {k} /\ \A g \in Family \ {f} : Rest(g)' = Rest(g)
  <2>1. ~\E i \in 1 .. 5 : i > family /\ CollectOrder[i] = f
    <3>1. \A i \in 1 .. 5 : CollectOrder[i] = f => i = family BY <1>2, OrderOfFamilies, Zenon
    <3>2. ~(family > family) BY <1>2
    <3> QED BY <3>1, <3>2, Zenon
  <2>2. Rest(f) = unread BY <1>1, <2>1, Zenon DEF Rest
  <2>3. Rest(f)' = unread \ {k} BY <1>1, <1>6, <2>1, Zenon DEF Rest
  <2>4. ASSUME NEW g \in Family \ {f} PROVE Rest(g)' = Rest(g)
    BY <1>1, <1>6, <2>4, Zenon DEF Rest
  <2> QED BY <2>2, <2>3, <2>4, Zenon
<1>14. ASSUME NEW x \in Counter, exported'[f][x] = exported[f][x] + h[x], Balance(f, x) PROVE Balance(f, x)'
  <2>1. aggregated[f] = exported[f][x] + Counted(histograms[f], x, unread) BY <1>13, <1>14, Zenon DEF Balance
  <2>2. /\ h[x] \in Nat /\ Counted(histograms[f], x, unread) = h[x] + Counted(histograms[f], x, unread \ {k})
        /\ Counted(histograms[f], x, unread \ {k}) \in Nat
    <3>1. unread \in SUBSET DOMAIN histograms[f] /\ unread \ {k} \in SUBSET DOMAIN histograms[f] BY <1>3, Zenon
    <3>2. FamilyOK(histograms[f], dimCache[f]) BY <1>2, <1>4, Zenon
    <3>3. h[x] \in Nat /\ Counted(histograms[f], x, unread) = h[x] + Counted(histograms[f], x, unread \ {k})
      <4> DEFINE hs == histograms[f]
                 c == dimCache[f]
      <4>1. FamilyOK(hs, c) /\ unread \in SUBSET DOMAIN hs BY <3>1, <3>2, Zenon
      <4> HIDE DEF hs, c, f, h
      <4>2. hs[k][x] \in Nat /\ Counted(hs, x, unread) = hs[k][x] + Counted(hs, x, unread \ {k})
        <5>1. PointSplits(hs, x, unread, k) BY <4>1, CountedSplits, Zenon
        <5> QED BY <5>1, Zenon DEF PointSplits
      <4> QED BY <4>2, Zenon DEF hs, h
    <3>4. Counted(histograms[f], x, unread \ {k}) \in Nat
      <4> DEFINE left == unread \ {k}
      <4>1. left \in SUBSET DOMAIN histograms[f] BY <3>1, Zenon
      <4> HIDE DEF left
      <4>2. Counted(histograms[f], x, left) \in Nat BY <3>2, <4>1, CountedSplits, Zenon
      <4> QED BY <4>2, Zenon DEF left
    <3> QED BY <3>3, <3>4, Zenon
  <2>3. exported[f][x] \in Nat BY <1>2, <1>10 DEF Counter
  <2>4. aggregated[f] = exported'[f][x] + Counted(histograms[f], x, unread \ {k})
    <3> HIDE DEF f, h
    <3> QED BY <1>14, <2>1, <2>2, <2>3
  <2> QED BY <1>1, <1>13, <2>4, Zenon DEF Balance
<1>15. ASSUME NEW g \in Family \ {f}, NEW x, Balance(g, x) PROVE Balance(g, x)'
  BY <1>1, <1>11, <1>13, <1>15, Zenon DEF Balance
<1>16. BalanceOK'
  <2>1. "count" \in Counter /\ "exemplars" \in Counter /\ "latency" \in Family BY DEF Counter, Family
  <2>2. temporality' = "delta" => \A g \in Family : Balance(g, "count")'
    <3> SUFFICES ASSUME temporality = "delta", NEW g \in Family PROVE Balance(g, "count")'
      BY <1>1, Zenon
    <3>1. Balance(g, "count") BY Zenon DEF SpanIInv, BalanceOK
    <3>2. CASE g = f
      <4>1. exported'[f]["count"] = exported[f]["count"] + h["count"] BY <1>11, Zenon
      <4>2. Balance(f, "count") BY <3>1, <3>2, Zenon
      <4> HIDE DEF f, h
      <4>3. Balance(f, "count")' BY <1>14, <2>1, <4>1, <4>2, Zenon
      <4> QED BY <1>1, <3>2, <4>3, Zenon DEF f, Balance, Rest
    <3>3. CASE g # f BY <1>15, <3>1, <3>3, Zenon
    <3> QED BY <3>2, <3>3, Zenon
  <2>3. Balance("latency", "exemplars")'
    <3>1. Balance("latency", "exemplars") BY Zenon DEF SpanIInv, BalanceOK
    <3>2. CASE "latency" = f
      <4>1. exported'[f]["exemplars"] = exported[f]["exemplars"] + h["exemplars"] BY <1>11, Zenon
      <4>2. Balance(f, "exemplars") BY <3>1, <3>2, Zenon
      <4> HIDE DEF f, h
      <4>3. Balance(f, "exemplars")' BY <1>14, <2>1, <4>1, <4>2, Zenon
      <4> QED BY <1>1, <3>2, <4>3, Zenon DEF f, Balance, Rest
    <3>3. CASE "latency" # f BY <1>15, <2>1, <3>1, <3>3, Zenon
    <3> QED BY <3>2, <3>3, Zenon
  <2> QED BY <2>2, <2>3, Zenon DEF BalanceOK
<1>17. TrackedOK(serviceToOperations)' BY <1>1, Zenon DEF SpanIInv
<1> QED BY <1>7, <1>8, <1>9, <1>12, <1>16, <1>17, Zenon DEF SpanIInv

\* At the end of an export every key was read: what was counted was exported, and nothing
\* that is kept counts again.
LEMMA MetricsBuiltStep == SpanIInv /\ MetricsBuilt => SpanIInv'
<1> SUFFICES ASSUME SpanIInv, MetricsBuilt PROVE SpanIInv'
  BY Zenon
<1>1. /\ tpcs = "build" /\ tpcs' = "send" /\ unread = {} /\ family = 5 /\ holder' = "none"
      /\ UNCHANGED <<temporality, spans, serviceToOperations, family, unread, done, stopping, aggregated, exported>>
  BY OrderOfFamilies, Zenon DEF MetricsBuilt
<1>2. ControlOK' BY <1>1, Zenon DEF SpanIInv, ControlOK, NoLateExport
<1>3. UnreadOK' BY <1>1, Zenon DEF UnreadOK
<1>4. ASSUME NEW f \in Family
      PROVE  /\ FamilyOK(histograms'[f], dimCache'[f])
             /\ temporality = "delta" => Counted(histograms'[f], "count", DOMAIN histograms'[f]) = 0
             /\ Counted(histograms'[f], "exemplars", DOMAIN histograms'[f]) = 0
  <2> DEFINE h == histograms[f]
             c == dimCache[f]
  <2>1. HistogramsOK(h) /\ CacheOK(c) /\ DOMAIN h = Keys(c) BY Zenon DEF SpanIInv, StoreOK, FamilyOK
  <2>2. CASE temporality = "delta"
    <3>1. histograms'[f] = EmptyMap /\ dimCache'[f] = NewCache BY <2>2, Zenon DEF MetricsBuilt, Purge
    <3>2. FamilyOK(EmptyMap, NewCache) BY EmptyCache, Zenon DEF FamilyOK, HistogramsOK
    <3>3. \A x : Counted(EmptyMap, x, DOMAIN EmptyMap) = 0 BY EmptyCache, SumOfNothing, Zenon DEF Counted
    <3> QED BY <3>1, <3>2, <3>3, Zenon
  <2>3. CASE temporality # "delta"
    <3> DEFINE kept == Restrict(h, Range(c.order))
               n == resetExemplarData(kept)
    <3>1. histograms'[f] = n /\ dimCache'[f] = RemoveEvictedItems(c) BY <2>3, Zenon DEF MetricsBuilt
    <3> HIDE DEF h, c
    <3>2. /\ DOMAIN n = Range(c.order)
          /\ \A k \in Range(c.order) : n[k] = [h[k] EXCEPT !.exemplars = 0]
      BY Zenon DEF resetExemplarData, Restrict
    <3> HIDE DEF n
    <3>3. \A k \in Range(c.order) : HistogramOK(n[k]) /\ n[k]["exemplars"] = 0
      <4> SUFFICES ASSUME NEW k \in Range(c.order) PROVE HistogramOK(n[k]) /\ n[k]["exemplars"] = 0
        BY Zenon
      <4> DEFINE o == h[k]
                 p == n[k]
      <4>1. HistogramOK(o) BY <2>1, Zenon DEF Keys, HistogramsOK
      <4>2. p = [o EXCEPT !.exemplars = 0] BY <3>2, Zenon
      <4> HIDE DEF o, p
      <4>3. /\ p \in [count : Nat \ {0}, sum : {p.sum}, bucketCounts : [0 .. Len(LatencyBounds) -> Nat], exemplars : Nat]
            /\ p["exemplars"] = 0 /\ p.bucketCounts = o.bucketCounts /\ p.count = o.count
        BY <4>1, <4>2 DEF HistogramOK
      <4>4. SumFunction(p.bucketCounts) = p.count BY <4>1, <4>3 DEF HistogramOK
      <4> QED BY <4>3, <4>4, Zenon DEF HistogramOK, p
    <3>4. CacheOK(RemoveEvictedItems(c)) /\ Keys(RemoveEvictedItems(c)) = Range(c.order)
      BY <2>1, NoEvictedItems, Zenon
    <3>5. FamilyOK(n, RemoveEvictedItems(c)) BY <3>2, <3>3, <3>4, Zenon DEF FamilyOK, HistogramsOK
    <3>6. Counted(n, "exemplars", DOMAIN n) = 0
      <4>1. IsFiniteSet(DOMAIN n) BY <2>1, <3>2, FinitelyManyKeys, Zenon
      <4>2. \A k \in DOMAIN n : FieldOf(n, "exemplars")[k] = 0 BY <3>2, <3>3, Zenon DEF FieldOf
      <4> QED BY <4>1, <4>2, SumOfZeros, Zenon DEF Counted
    <3> QED BY <2>3, <3>1, <3>5, <3>6, Zenon
  <2> QED BY <2>2, <2>3, Zenon
<1>5. StoreOK' BY <1>4, Zenon DEF StoreOK
<1>6. CountersOK'
  <2>1. DOMAIN dimCache' = Family BY Zenon DEF MetricsBuilt
  <2> QED BY <1>1, <2>1, Zenon DEF SpanIInv, CountersOK
<1>7. \A f \in Family : Rest(f) = {} /\ Rest(f)' = DOMAIN histograms'[f]
  <2> SUFFICES ASSUME NEW f \in Family PROVE Rest(f) = {} /\ Rest(f)' = DOMAIN histograms'[f]
    BY Zenon
  <2>1. ~\E i \in 1 .. 5 : i > family /\ CollectOrder[i] = f BY <1>1
  <2>2. Rest(f) = {} BY <1>1, <2>1, Zenon DEF Rest
  <2>3. tpcs' # "build" BY <1>1
  <2> QED BY <2>2, <2>3, Zenon DEF Rest
<1>8. ASSUME NEW f \in Family, NEW x \in Counter, Balance(f, x), Counted(histograms'[f], x, DOMAIN histograms'[f]) = 0
      PROVE  Balance(f, x)'
  <2>1. aggregated[f] = exported[f][x] + 0 BY <1>7, <1>8, SumOfNothing, Zenon DEF Balance, Counted
  <2> QED BY <1>1, <1>7, <1>8, <2>1, Zenon DEF Balance
<1>9. BalanceOK'
  <2>1. "count" \in Counter /\ "exemplars" \in Counter /\ "latency" \in Family BY DEF Counter, Family
  <2>2. temporality' = "delta" => \A f \in Family : Balance(f, "count")'
    BY <1>1, <1>4, <1>8, <2>1, Zenon DEF SpanIInv, BalanceOK
  <2>3. Balance("latency", "exemplars")'
    BY <1>4, <1>8, <2>1, Zenon DEF SpanIInv, BalanceOK
  <2> QED BY <2>2, <2>3, Zenon DEF BalanceOK
<1>10. TrackedOK(serviceToOperations)' BY <1>1, Zenon DEF SpanIInv
<1> QED BY <1>2, <1>3, <1>5, <1>6, <1>9, <1>10, Zenon DEF SpanIInv

LEMMA SpanIInvNext == SpanIInv /\ [SpanMetricsNext]_spanMetricsVars => SpanIInv'
  BY QuietStep, TickSpanMetricsStep, CollectNextFamilyStep, aggregateMetricsForSpanStep, CollectPointStep,
     MetricsBuiltStep, Zenon DEF SpanMetricsNext

LEMMA SpanIInvHolds == SpanMetricsSpec => []SpanIInv
  BY SpanIInvInit, SpanIInvNext, PTL DEF SpanMetricsSpec

\* The dimensions of every key that has a histogram can be found whatever was evicted and
\* revived in between, so buildMetrics never fails and never leaves dimensions behind; a
\* histogram counts each sample in one bucket; the limits on names hold; and nothing is
\* exported after Shutdown: for any spans, cache size, limits and latency buckets.
THEOREM HistogramsKeepTheirDimensions == SpanMetricsSpec => []SpanMetricsInv
<1>1. SpanIInv => SpanMetricsInv
  <2> SUFFICES ASSUME SpanIInv PROVE SpanMetricsInv
    BY Zenon
  <2>1. SpanMetricsTypeOK
    <3>1. ASSUME NEW f \in Family, NEW k \in DOMAIN histograms[f]
          PROVE  histograms[f][k].count > 0 /\ SumFunction(histograms[f][k].bucketCounts) = histograms[f][k].count
      <4>1. HistogramOK(histograms[f][k]) BY Zenon DEF SpanIInv, StoreOK, FamilyOK, HistogramsOK
      <4>2. SumFunction(histograms[f][k].bucketCounts) = histograms[f][k].count BY <4>1, Zenon DEF HistogramOK
      <4>3. histograms[f][k].count \in Nat \ {0} BY <4>1 DEF HistogramOK
      <4>4. histograms[f][k].count > 0 BY <4>3
      <4> QED BY <4>2, <4>4, Zenon
    <3> QED BY <3>1, OrderOfFamilies, Zenon DEF SpanIInv, ControlOK, SpanMetricsTypeOK
  <2>2. DimensionsKept
    BY Zenon DEF SpanIInv, StoreOK, FamilyOK, CacheOK, Keys, DimensionsKept
  <2>3. LabelsBounded BY Zenon DEF SpanIInv, TrackedOK, Limited, LabelsBounded
  <2>4. NoLateExport BY Zenon DEF SpanIInv, ControlOK
  <2> QED BY <2>1, <2>2, <2>3, <2>4, Zenon DEF SpanMetricsInv
<1> QED BY <1>1, SpanIInvHolds, PTL

\* Between exports every span counted in a family was exported or is in a histogram, once,
\* under delta temporality, and so is every exemplar under both: neither eviction nor the
\* reset after an export loses or repeats a count.
THEOREM SpansCountedOnce == SpanMetricsSpec => []SpansConserved
<1>1. SpanIInv => SpansConserved
  <2> SUFFICES ASSUME SpanIInv, holder # "ticker"
               PROVE  /\ temporality = "delta" =>
                           \A f \in Family : aggregated[f] = exported[f].count + Held(f, "count")
                      /\ aggregated["latency"] = exported["latency"].exemplars + Held("latency", "exemplars")
    BY Zenon DEF SpansConserved
  <2>1. tpcs # "build" BY Zenon DEF SpanIInv, ControlOK
  <2>2. \A f : Rest(f) = DOMAIN histograms[f] BY <2>1, Zenon DEF Rest
  <2>3. \A f, x : Balance(f, x) <=> aggregated[f] = exported[f][x] + Held(f, x)
    BY <2>2, HeldCounted, Zenon DEF Balance
  <2> QED BY <2>3, Zenon DEF SpanIInv, BalanceOK
<1> QED BY <1>1, SpanIInvHolds, PTL
=============================================================================
