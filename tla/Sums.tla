-------------------------------- MODULE Sums --------------------------------
(***************************************************************************)
(* Facts about SumFunctionOnSet, the sum that the quota checks are made of *)
(* (Usage in Volumes, Used in Quotas).                                     *)
(*                                                                         *)
(* The sum is a recursive function.  What follows about every finite set   *)
(* is proved by induction, of which the library's theorems take a          *)
(* predicate; the ones here take the set of values for which it holds.     *)
(***************************************************************************)
EXTENDS Functions, FiniteSetTheorems, TLAPS

\* A set that has 0 and with every number the next one has every number.
LEMMA Induction ==
  ASSUME NEW G, 0 \in G, \A n \in Nat : n \in G => n + 1 \in G
  PROVE  Nat \subseteq G
<1> DEFINE R == OpToRel(<, Nat)
           T == Nat \ G
<1>1. SUFFICES ASSUME T # {} PROVE FALSE
  OBVIOUS
<1>2. IsWellFoundedOn(R, Nat)
  BY NatLessThanWellFounded
<1>3. \E n \in T : \A m \in T : ~ (<<m, n>> \in R)
  <2> HIDE DEF R
  <2> QED
    BY <1>1, <1>2, WFMin
<1>4. PICK n \in T : \A m \in T : ~ (m < n)
  BY <1>3 DEF OpToRel
<1> QED
  BY <1>4

\* The recursion of SumFunctionOnSet, on the subsets of S.
Pick(s) == CHOOSE x \in s : TRUE
NextSum(g, f, s) == IF s = {} THEN 0 ELSE f[Pick(s)] + g[s \ {Pick(s)}]
Adds(g, f, S) == g = [s \in SUBSET S |-> NextSum(g, f, s)]
Adding(f, S) == CHOOSE g : Adds(g, f, S)

\* The sum over S is the value at S of a function on the subsets of S.
LEMMA SumIs == ASSUME NEW f, NEW S PROVE SumFunctionOnSet(f, S) = Adding(f, S)[S]
BY DEF SumFunctionOnSet, FoldFunctionOnSet, MapThenFoldSet, Adding, Adds, Pick, NextSum

\* The element that a sum takes next.
LEMMA PickIn == ASSUME NEW s, s # {} PROVE Pick(s) \in s
BY DEF Pick

\* A finite set without one of its elements.
LEMMA Removed ==
  ASSUME NEW S, IsFiniteSet(S), NEW s \in SUBSET S, NEW x \in s
  PROVE  /\ IsFiniteSet(s) /\ Cardinality(s) \in Nat
         /\ IsFiniteSet(s \ {x}) /\ Cardinality(s \ {x}) = Cardinality(s) - 1
         /\ Cardinality(s \ {x}) \in Nat
         /\ s \ {x} \in SUBSET S
BY FS_Subset, FS_CardinalityType, FS_RemoveElement

\* The recursion defines a function: there is one for the sets of up to n
\* elements, for every n.
LEMMA Defined == ASSUME NEW f, NEW S, IsFiniteSet(S) PROVE Adds(Adding(f, S), f, S)
<1> DEFINE R(n) == {s \in SUBSET S : Cardinality(s) <= n}
           G == {n \in Nat : \E g : g = [s \in R(n) |-> NextSum(g, f, s)]}
<1>1. 0 \in G
  <2>1. R(0) = {{}}
    BY FS_EmptySet, FS_Subset, FS_CardinalityType
  <2>2. [s \in R(0) |-> 0] = [s \in R(0) |-> NextSum([s1 \in R(0) |-> 0], f, s)]
    BY <2>1 DEF NextSum
  <2> QED
    BY <2>2
<1>2. ASSUME NEW n \in Nat, n \in G PROVE n + 1 \in G
  <2>1. PICK g : g = [s \in R(n) |-> NextSum(g, f, s)]
    BY <1>2
  <2> DEFINE h == [s \in R(n + 1) |-> IF s \in R(n) THEN g[s] ELSE NextSum(g, f, s)]
  <2>2. ASSUME NEW s \in R(n + 1) PROVE h[s] = NextSum(h, f, s)
    <3>1. CASE s = {}
      <4>1. Cardinality(s) = 0
        BY <3>1, FS_EmptySet
      <4> QED
        BY <2>1, <3>1, <4>1 DEF NextSum
    <3>2. CASE s # {}
      <4> DEFINE x == Pick(s)
      <4>1. /\ s \ {x} \in SUBSET S
            /\ Cardinality(s) \in Nat /\ Cardinality(s \ {x}) \in Nat
            /\ Cardinality(s \ {x}) = Cardinality(s) - 1
        BY <3>2, PickIn, Removed
      <4>2. s \ {x} \in R(n) /\ s \ {x} \in R(n + 1)
        BY <4>1
      <4>3. h[s \ {x}] = g[s \ {x}]
        BY <4>2
      <4>4. h[s] = NextSum(g, f, s)
        BY <2>1
      <4> QED
        BY <3>2, <4>3, <4>4 DEF NextSum
    <3> QED
      BY <3>1, <3>2
  <2>3. h = [s \in R(n + 1) |-> NextSum(h, f, s)]
    BY <2>2
  <2>4. \E r : r = [s \in R(n + 1) |-> NextSum(r, f, s)]
    <3> HIDE DEF h, R
    <3> WITNESS h
    <3> QED
      BY <2>3
  <2> QED
    BY <2>4
<1>3. Cardinality(S) \in G
  <2> HIDE DEF G
  <2>1. Nat \subseteq G
    BY <1>1, <1>2, Induction
  <2> QED
    BY <2>1, FS_CardinalityType
<1>4. R(Cardinality(S)) = SUBSET S
  BY FS_Subset, FS_CardinalityType
<1>5. \E g : Adds(g, f, S)
  BY <1>3, <1>4 DEF Adds
<1> QED
  BY <1>5 DEF Adding

\* What holds of the empty set, and of a set when it holds of the set without any
\* one of its elements, holds of every subset of a finite set.
LEMMA SubsetInduction ==
  ASSUME NEW S, IsFiniteSet(S), NEW H, {} \in H,
         \A s \in SUBSET S : s # {} /\ (\A x \in s : s \ {x} \in H) => s \in H
  PROVE  SUBSET S \subseteq H
<1> DEFINE G == {n \in Nat : \A s \in SUBSET S : Cardinality(s) <= n => s \in H}
<1>1. 0 \in G
  <2>1. \A s \in SUBSET S : Cardinality(s) <= 0 => s = {}
    BY FS_EmptySet, FS_Subset, FS_CardinalityType
  <2> QED
    BY <2>1
<1>2. ASSUME NEW n \in Nat, n \in G PROVE n + 1 \in G
  <2>1. ASSUME NEW s \in SUBSET S, Cardinality(s) <= n + 1, s # {}, NEW x \in s
        PROVE  s \ {x} \in H
    <3>1. /\ s \ {x} \in SUBSET S /\ Cardinality(s) \in Nat
          /\ Cardinality(s \ {x}) \in Nat /\ Cardinality(s \ {x}) = Cardinality(s) - 1
      BY Removed
    <3>2. Cardinality(s \ {x}) <= n
      BY <2>1, <3>1
    <3> QED
      BY <1>2, <3>1, <3>2
  <2>2. \A s \in SUBSET S : Cardinality(s) <= n + 1 => s \in H
    BY <2>1
  <2> QED
    BY <2>2
<1>3. Nat \subseteq G
  <2> HIDE DEF G
  <2> QED
    BY <1>1, <1>2, Induction
<1> QED
  BY <1>3, FS_Subset, FS_CardinalityType

\* Summing over a set goes the same way through its subsets.
LEMMA Agree ==
  ASSUME NEW f, NEW S, IsFiniteSet(S), NEW T \in SUBSET S
  PROVE  Adding(f, S)[T] = SumFunctionOnSet(f, T)
<1> DEFINE a == Adding(f, S)
           b == Adding(f, T)
           H == {s \in SUBSET T : a[s] = b[s]}
<1>1. IsFiniteSet(T)
  BY FS_Subset
<1>2. Adds(a, f, S) /\ Adds(b, f, T)
  BY <1>1, Defined
<1>3. \A s \in SUBSET T : a[s] = NextSum(a, f, s) /\ b[s] = NextSum(b, f, s)
  <2> HIDE DEF a, b
  <2>1. a = [s \in SUBSET S |-> NextSum(a, f, s)] /\ b = [s \in SUBSET T |-> NextSum(b, f, s)]
    BY <1>2 DEF Adds
  <2>2. ASSUME NEW s \in SUBSET T PROVE a[s] = NextSum(a, f, s) /\ b[s] = NextSum(b, f, s)
    <3>1. s \in SUBSET S
      OBVIOUS
    <3>2. a[s] = NextSum(a, f, s)
      BY <2>1, <3>1
    <3>3. b[s] = NextSum(b, f, s)
      BY <2>1
    <3> QED
      BY <3>2, <3>3
  <2> QED
    BY <2>2
<1>4. {} \in H
  <2> HIDE DEF a, b
  <2> QED
    BY <1>3 DEF NextSum
<1>5. ASSUME NEW s \in SUBSET T, s # {}, \A x \in s : s \ {x} \in H PROVE s \in H
  <2> HIDE DEF a, b
  <2>1. a[s \ {Pick(s)}] = b[s \ {Pick(s)}]
    BY <1>5, PickIn
  <2> QED
    BY <1>3, <1>5, <2>1 DEF NextSum
<1>6. SUBSET T \subseteq H
  <2> HIDE DEF H
  <2> QED
    BY <1>1, <1>4, <1>5, SubsetInduction
<1> QED
  BY <1>6, SumIs

\* Nothing adds up to 0.
LEMMA SumEmpty == ASSUME NEW f PROVE SumFunctionOnSet(f, {}) = 0
<1>1. Adds(Adding(f, {}), f, {})
  BY FS_EmptySet, Defined
<1> DEFINE a == Adding(f, {})
<1>2. a[{}] = NextSum(a, f, {})
  <2> HIDE DEF a
  <2>1. a = [s \in SUBSET {} |-> NextSum(a, f, s)]
    BY <1>1 DEF Adds, a
  <2> QED
    BY <2>1
<1> QED
  BY <1>2, SumIs DEF NextSum

\* The first step of a sum.
LEMMA SumPicked ==
  ASSUME NEW f, NEW S, IsFiniteSet(S), S # {}
  PROVE  SumFunctionOnSet(f, S) = f[Pick(S)] + SumFunctionOnSet(f, S \ {Pick(S)})
<1>1. Adds(Adding(f, S), f, S)
  BY Defined
<1> DEFINE a == Adding(f, S)
<1>2. a[S] = NextSum(a, f, S)
  <2> HIDE DEF a
  <2>1. a = [s \in SUBSET S |-> NextSum(a, f, s)]
    BY <1>1 DEF Adds, a
  <2> QED
    BY <2>1
<1>3. a[S \ {Pick(S)}] = SumFunctionOnSet(f, S \ {Pick(S)})
  BY Agree
<1> QED
  BY <1>2, <1>3, SumIs DEF NextSum

\* Natural numbers add up to one.
LEMMA SumType ==
  ASSUME NEW S, IsFiniteSet(S), NEW f, \A x \in S : f[x] \in Nat
  PROVE  SumFunctionOnSet(f, S) \in Nat
<1> DEFINE H == {s \in SUBSET S : SumFunctionOnSet(f, s) \in Nat}
<1>1. {} \in H
  BY SumEmpty
<1>2. ASSUME NEW s \in SUBSET S, s # {}, \A x \in s : s \ {x} \in H PROVE s \in H
  <2>1. SumFunctionOnSet(f, s) = f[Pick(s)] + SumFunctionOnSet(f, s \ {Pick(s)})
    BY <1>2, SumPicked, FS_Subset
  <2>2. f[Pick(s)] \in Nat /\ SumFunctionOnSet(f, s \ {Pick(s)}) \in Nat
    BY <1>2, PickIn
  <2> QED
    BY <2>1, <2>2
<1>3. SUBSET S \subseteq H
  <2> HIDE DEF H
  <2> QED
    BY <1>1, <1>2, SubsetInduction
<1> QED
  BY <1>3

\* The order does not matter: any element may come first.
LEMMA SumRemove ==
  ASSUME NEW S, IsFiniteSet(S), NEW f, \A x \in S : f[x] \in Nat, NEW e \in S
  PROVE  SumFunctionOnSet(f, S) = f[e] + SumFunctionOnSet(f, S \ {e})
<1> DEFINE Sm(s) == SumFunctionOnSet(f, s)
           H == {s \in SUBSET S : \A x \in s : Sm(s) = f[x] + Sm(s \ {x})}
<1>1. {} \in H
  OBVIOUS
<1>2. ASSUME NEW s \in SUBSET S, s # {}, \A x \in s : s \ {x} \in H PROVE s \in H
  <2> DEFINE p == Pick(s)
  <2>1. Sm(s) = f[p] + Sm(s \ {p})
    BY <1>2, SumPicked, FS_Subset
  <2>2. p \in s
    BY <1>2, PickIn
  <2>3. ASSUME NEW x \in s, x # p PROVE Sm(s) = f[x] + Sm(s \ {x})
    <3>1. Sm(s \ {p}) = f[x] + Sm((s \ {p}) \ {x})
      BY <1>2, <2>2, <2>3
    <3>2. Sm(s \ {x}) = f[p] + Sm((s \ {x}) \ {p})
      BY <1>2, <2>2, <2>3
    <3>3. (s \ {p}) \ {x} = (s \ {x}) \ {p}
      OBVIOUS
    <3>4. Sm((s \ {p}) \ {x}) \in Nat
      <4>1. (s \ {p}) \ {x} \in SUBSET S
        OBVIOUS
      <4> QED
        BY <4>1, FS_Subset, SumType
    <3>5. f[p] \in Nat /\ f[x] \in Nat
      BY <2>2
    <3>6. Sm((s \ {p}) \ {x}) = Sm((s \ {x}) \ {p})
      BY <3>3
    <3> DEFINE d == Sm((s \ {x}) \ {p})
    <3>7. d \in Nat /\ Sm(s) = f[p] + (f[x] + d) /\ Sm(s \ {x}) = f[p] + d
      BY <2>1, <3>1, <3>2, <3>4, <3>6
    <3> HIDE DEF Sm, p, d
    <3> QED
      BY <3>5, <3>7
  <2> QED
    BY <2>1, <2>3
<1>3. SUBSET S \subseteq H
  <2> HIDE DEF H
  <2> QED
    BY <1>1, <1>2, SubsetInduction
<1> QED
  BY <1>3

\* Only the terms of the set count.
LEMMA SumSame ==
  ASSUME NEW S, IsFiniteSet(S), NEW f, NEW g, \A x \in S : f[x] = g[x]
  PROVE  SumFunctionOnSet(f, S) = SumFunctionOnSet(g, S)
<1> DEFINE H == {s \in SUBSET S : SumFunctionOnSet(f, s) = SumFunctionOnSet(g, s)}
<1>1. {} \in H
  BY SumEmpty
<1>2. ASSUME NEW s \in SUBSET S, s # {}, \A x \in s : s \ {x} \in H PROVE s \in H
  <2>1. /\ SumFunctionOnSet(f, s) = f[Pick(s)] + SumFunctionOnSet(f, s \ {Pick(s)})
        /\ SumFunctionOnSet(g, s) = g[Pick(s)] + SumFunctionOnSet(g, s \ {Pick(s)})
    BY <1>2, SumPicked, FS_Subset
  <2> QED
    BY <1>2, <2>1, PickIn
<1>3. SUBSET S \subseteq H
  <2> HIDE DEF H
  <2> QED
    BY <1>1, <1>2, SubsetInduction
<1> QED
  BY <1>3

\* Two sums that differ in one term.
LEMMA SumBut ==
  ASSUME NEW S, IsFiniteSet(S), NEW f, NEW g, \A x \in S : f[x] \in Nat /\ g[x] \in Nat,
         NEW e \in S, \A x \in S \ {e} : f[x] = g[x]
  PROVE  SumFunctionOnSet(f, S) + g[e] = SumFunctionOnSet(g, S) + f[e]
<1>1. IsFiniteSet(S \ {e})
  BY FS_RemoveElement
<1>2. /\ SumFunctionOnSet(f, S) = f[e] + SumFunctionOnSet(f, S \ {e})
      /\ SumFunctionOnSet(g, S) = g[e] + SumFunctionOnSet(g, S \ {e})
  BY SumRemove
<1>3. SumFunctionOnSet(f, S \ {e}) = SumFunctionOnSet(g, S \ {e})
  BY <1>1, SumSame
<1>4. SumFunctionOnSet(f, S \ {e}) \in Nat
  BY <1>1, SumType
<1> QED
  BY <1>2, <1>3, <1>4

\* A part adds up to no more than the whole.
LEMMA SumSubset ==
  ASSUME NEW S, IsFiniteSet(S), NEW f, \A x \in S : f[x] \in Nat, NEW T \in SUBSET S
  PROVE  SumFunctionOnSet(f, T) <= SumFunctionOnSet(f, S)
<1> DEFINE Sm(s) == SumFunctionOnSet(f, s)
           H == {s \in SUBSET S : Sm(T \cap s) <= Sm(s)}
<1>1. {} \in H
  BY SumEmpty
<1>2. ASSUME NEW s \in SUBSET S, s # {}, \A x \in s : s \ {x} \in H PROVE s \in H
  <2> DEFINE p == Pick(s)
             r == s \ {p}
  <2>1. p \in s
    BY <1>2, PickIn
  <2>2. Sm(s) = f[p] + Sm(r)
    BY <1>2, SumPicked, FS_Subset
  <2>3. Sm(T \cap r) <= Sm(r)
    BY <1>2, <2>1
  <2>4. f[p] \in Nat /\ Sm(r) \in Nat /\ Sm(T \cap r) \in Nat
    BY <2>1, FS_Subset, SumType
  <2>5. CASE p \notin T
    <3>1. T \cap s = T \cap r
      BY <2>5
    <3>2. Sm(T \cap s) = Sm(T \cap r)
      BY <3>1
    <3> HIDE DEF p, r, Sm
    <3>3. Sm(T \cap s) <= Sm(s)
      BY <2>2, <2>3, <2>4, <3>2
    <3> QED
      BY <3>3
  <2>6. CASE p \in T
    <3>1. (T \cap s) \ {p} = T \cap r /\ p \in T \cap s
      BY <2>1, <2>6
    <3> DEFINE t == T \cap s
    <3>2. IsFiniteSet(t) /\ p \in t /\ t \ {p} = T \cap r /\ \A x \in t : f[x] \in Nat
      BY <3>1, FS_Subset
    <3>3. Sm(t) = f[p] + Sm(t \ {p})
      <4> HIDE DEF t, p
      <4> QED
        BY <3>2, SumRemove
    <3>4. Sm(T \cap s) = f[p] + Sm(T \cap r)
      BY <3>2, <3>3
    <3> HIDE DEF p, r, Sm
    <3>5. Sm(T \cap s) <= Sm(s)
      BY <2>2, <2>3, <2>4, <3>4
    <3> QED
      BY <3>5
  <2> QED
    BY <2>5, <2>6
<1>3. SUBSET S \subseteq H
  <2> HIDE DEF H
  <2> QED
    BY <1>1, <1>2, SubsetInduction
<1>4. T \cap S = T
  OBVIOUS
<1> QED
  BY <1>3, <1>4

\* Zeros add up to 0.
LEMMA SumZeros ==
  ASSUME NEW S, IsFiniteSet(S), NEW f, \A x \in S : f[x] = 0
  PROVE  SumFunctionOnSet(f, S) = 0
<1> DEFINE H == {s \in SUBSET S : SumFunctionOnSet(f, s) = 0}
<1>1. {} \in H
  BY SumEmpty
<1>2. ASSUME NEW s \in SUBSET S, s # {}, \A x \in s : s \ {x} \in H PROVE s \in H
  <2>1. SumFunctionOnSet(f, s) = f[Pick(s)] + SumFunctionOnSet(f, s \ {Pick(s)})
    BY <1>2, SumPicked, FS_Subset
  <2>2. f[Pick(s)] = 0 /\ SumFunctionOnSet(f, s \ {Pick(s)}) = 0
    BY <1>2, PickIn
  <2> QED
    BY <2>1, <2>2
<1>3. SUBSET S \subseteq H
  <2> HIDE DEF H
  <2> QED
    BY <1>1, <1>2, SubsetInduction
<1> QED
  BY <1>3

\* The first n of the numbers below m, with c each, add up to n * c.
LEMMA SumFirst ==
  ASSUME NEW m \in Nat, NEW c \in Nat, NEW n \in 0..m
  PROVE  SumFunctionOnSet([i \in 0..(m - 1) |-> IF i < n THEN c ELSE 0], 0..(m - 1)) = n * c
<1> DEFINE I == 0..(m - 1)
           F(k) == [i \in I |-> IF i < k THEN c ELSE 0]
           G == {k \in Nat : k <= m => SumFunctionOnSet(F(k), I) = k * c}
<1>1. IsFiniteSet(I)
  BY FS_Interval
<1>2. 0 \in G
  <2>1. \A i \in I : F(0)[i] = 0
    OBVIOUS
  <2>2. SumFunctionOnSet(F(0), I) = 0
    <3> HIDE DEF F, I
    <3> QED
      BY <1>1, <2>1, SumZeros
  <2> QED
    BY <2>2
<1>3. ASSUME NEW k \in Nat, k \in G PROVE k + 1 \in G
  <2> SUFFICES ASSUME k + 1 <= m PROVE SumFunctionOnSet(F(k + 1), I) = (k + 1) * c
    OBVIOUS
  <2>1. k \in I /\ \A i \in I : F(k)[i] \in Nat /\ F(k + 1)[i] \in Nat
    OBVIOUS
  <2>2. F(k)[k] = 0 /\ F(k + 1)[k] = c /\ \A i \in I \ {k} : F(k)[i] = F(k + 1)[i]
    BY <2>1
  <2>3. SumFunctionOnSet(F(k), I) = k * c
    BY <1>3
  <2>4. IsFiniteSet(I \ {k})
    BY <1>1, FS_RemoveElement
  <2> HIDE DEF F, I
  <2>5. /\ SumFunctionOnSet(F(k), I) = F(k)[k] + SumFunctionOnSet(F(k), I \ {k})
        /\ SumFunctionOnSet(F(k + 1), I) = F(k + 1)[k] + SumFunctionOnSet(F(k + 1), I \ {k})
    BY <1>1, <2>1, SumRemove
  <2>6. SumFunctionOnSet(F(k), I \ {k}) = SumFunctionOnSet(F(k + 1), I \ {k})
    BY <2>2, <2>4, SumSame
  <2>7. SumFunctionOnSet(F(k), I \ {k}) \in Nat
    BY <2>1, <2>4, SumType
  <2>8. (k + 1) * c = k * c + c
    OBVIOUS
  <2> QED
    BY <2>2, <2>3, <2>5, <2>6, <2>7, <2>8
<1>4. Nat \subseteq G
  <2> HIDE DEF G
  <2> QED
    BY <1>2, <1>3, Induction
<1> QED
  BY <1>4

=============================================================================
