----------------------------- MODULE FiniteNat ------------------------------
(* Facts about finite sets of natural numbers, sums and concatenations     *)
(* that the proofs share.                                                  *)
EXTENDS Integers, Concatenation, FiniteSetsExt, FiniteSetTheorems, WellFoundedInduction, TLAPS

-----------------------------------------------------------------------------
(* Finite sets of natural numbers.                                         *)

\* Every non-empty set of naturals has a least element.
LEMMA LeastNat ==
  ASSUME NEW T \in SUBSET Nat, T # {}
  PROVE  \E x \in T : \A y \in T : x <= y
<1>1. PICK x \in T : \A y \in T : ~ (<<y, x>> \in OpToRel(<, Nat))
  BY NatLessThanWellFounded, WFMin, Zenon
<1>2. \A y \in T : ~(y < x)
  BY <1>1, Zenon DEF OpToRel
<1> QED
  BY <1>2

\* Every non-empty finite set of naturals has a greatest element, which Max
\* returns.
LEMMA MaxOfFinite ==
  ASSUME NEW S \in SUBSET Nat, IsFiniteSet(S), S # {}
  PROVE  /\ Max(S) \in S
         /\ \A y \in S : Max(S) >= y
<1> DEFINE HasMax(T) == \E x \in T : \A y \in T : x >= y
           Bad == {n \in Nat : \E T \in SUBSET Nat :
                     IsFiniteSet(T) /\ T # {} /\ Cardinality(T) = n /\ ~HasMax(T)}
<1>1. Bad = {}
  <2> SUFFICES ASSUME Bad # {} PROVE FALSE
    BY Zenon
  <2>1. PICK n \in Bad : \A m \in Bad : n <= m
    BY LeastNat, Zenon
  <2>2. PICK T \in SUBSET Nat :
          IsFiniteSet(T) /\ T # {} /\ Cardinality(T) = n /\ ~HasMax(T)
    BY <2>1, Zenon
  <2>3. PICK x \in T : TRUE
    BY <2>2, Zenon
  <2>4. IsFiniteSet(T \ {x}) /\ Cardinality(T \ {x}) = n - 1
    BY <2>2, <2>3, FS_RemoveElement, Zenon
  <2>5. T \ {x} # {} => HasMax(T \ {x})
    <3>1. n - 1 \in Nat
      BY <2>4, FS_CardinalityType, Zenon
    <3>2. n - 1 \notin Bad
      BY <2>1, <3>1
    <3> QED
      BY <2>2, <2>4, <3>1, <3>2, Zenon
  <2>6. CASE T \ {x} = {}
    BY <2>2, <2>3, <2>6
  <2>7. CASE HasMax(T \ {x})
    <3>1. PICK m \in T \ {x} : \A y \in T \ {x} : m >= y
      BY <2>7, Zenon
    <3>2. IF m >= x THEN \A y \in T : m >= y ELSE \A y \in T : x >= y
      BY <3>1, <2>2, <2>3
    <3> QED
      BY <3>1, <3>2, <2>2, <2>3, Zenon
  <2> QED
    BY <2>5, <2>6, <2>7, Zenon
<1>2. HasMax(S)
  BY <1>1, FS_CardinalityType, Zenon
<1> QED
  BY <1>2, Zenon DEF Max

-----------------------------------------------------------------------------
(* Sums over finite sets.                                                  *)

\* g gives the sum of h over every subset of S, as MapThenSumSet computes it:
\* one element at a time, in the order of CHOOSE.
AnyOf(s) == CHOOSE x \in s : TRUE

IsSum(g, h, S) ==
  g = [s \in SUBSET S |-> IF s = {} THEN 0 ELSE h[AnyOf(s)] + g[s \ {AnyOf(s)}]]

SumOf(h, S) == (CHOOSE g : IsSum(g, h, S))[S]

LEMMA AnyOfIn ==
  ASSUME NEW s, s # {}
  PROVE  AnyOf(s) \in s
BY Zenon DEF AnyOf

\* A subset that is not empty, without its first element.
LEMMA RestOf ==
  ASSUME NEW S, IsFiniteSet(S), NEW s \in SUBSET S, s # {}
  PROVE  /\ AnyOf(s) \in s /\ AnyOf(s) \in S
         /\ s \ {AnyOf(s)} \in SUBSET S
         /\ Cardinality(s) \in Nat /\ Cardinality(s \ {AnyOf(s)}) \in Nat
         /\ Cardinality(s \ {AnyOf(s)}) = Cardinality(s) - 1
<1>1. AnyOf(s) \in s
  BY AnyOfIn, Zenon
<1> HIDE DEF AnyOf
<1>2. IsFiniteSet(s)
  BY FS_Subset, Zenon
<1>3. IsFiniteSet(s \ {AnyOf(s)}) /\ Cardinality(s \ {AnyOf(s)}) = Cardinality(s) - 1
  BY <1>1, <1>2, FS_RemoveElement, Zenon
<1>4. Cardinality(s) \in Nat /\ Cardinality(s \ {AnyOf(s)}) \in Nat
  BY <1>2, <1>3, FS_CardinalityType, Zenon
<1> QED
  BY <1>1, <1>3, <1>4, Zenon

\* There is such a function: the subsets with at most n elements have one, by
\* induction on n.
LEMMA SumExists ==
  ASSUME NEW S, IsFiniteSet(S), NEW h
  PROVE  \E g : IsSum(g, h, S)
<1> DEFINE Sub(n) == {s \in SUBSET S : Cardinality(s) <= n}
           Upto(g, n) == g = [s \in Sub(n) |->
                               IF s = {} THEN 0 ELSE h[AnyOf(s)] + g[s \ {AnyOf(s)}]]
           Bad == {n \in Nat : ~ \E g : Upto(g, n)}
<1>0. Cardinality({}) = 0 /\ Cardinality(S) \in Nat
  BY FS_EmptySet, FS_CardinalityType, Zenon
<1>1. Bad = {}
  <2> SUFFICES ASSUME Bad # {} PROVE FALSE
    BY Zenon
  <2>0. Bad \in SUBSET Nat
    BY Zenon
  <2>1. PICK n \in Bad : \A m \in Bad : n <= m
    <3> HIDE DEF Bad
    <3> QED
      BY <2>0, LeastNat, Zenon
  <2>2. n # 0
    <3> SUFFICES ASSUME n = 0 PROVE FALSE
      BY Zenon
    <3> DEFINE g == [s \in Sub(0) |-> 0]
    <3>1. ASSUME NEW s \in Sub(0) PROVE s = {}
      <4>1. IsFiniteSet(s) /\ Cardinality(s) \in Nat
        BY FS_Subset, FS_CardinalityType, Zenon
      <4> QED
        BY <4>1, FS_EmptySet
    <3>2. Upto(g, 0)
      BY <3>1, Zenon
    <3> QED
      BY <3>2, Zenon
  <2>3. PICK g : Upto(g, n - 1)
    <3>1. n - 1 \in Nat /\ n - 1 \notin Bad
      <4> HIDE DEF Bad
      <4> QED
        BY <2>0, <2>1, <2>2
    <3> QED
      BY <3>1, Zenon
  <2> DEFINE k == [s \in Sub(n) |-> IF s = {} THEN 0 ELSE h[AnyOf(s)] + g[s \ {AnyOf(s)}]]
  <2>4. ASSUME NEW s \in Sub(n), s # {} PROVE g[s \ {AnyOf(s)}] = k[s \ {AnyOf(s)}]
    <3> DEFINE t == s \ {AnyOf(s)}
    <3>1. t \in SUBSET S /\ Cardinality(t) <= n - 1 /\ Cardinality(t) \in Nat
      BY <2>1, <2>4, RestOf
    <3>2. t \in Sub(n - 1) /\ t \in Sub(n)
      BY <2>1, <3>1
    <3> HIDE DEF t, Sub
    <3>3. g[t] = IF t = {} THEN 0 ELSE h[AnyOf(t)] + g[t \ {AnyOf(t)}]
      BY <2>3, <3>2, Zenon
    <3>4. k[t] = IF t = {} THEN 0 ELSE h[AnyOf(t)] + g[t \ {AnyOf(t)}]
      BY <3>2, Zenon
    <3> QED
      BY <3>3, <3>4, Zenon DEF t
  <2>5. Upto(k, n)
    <3> HIDE DEF Sub
    <3> QED
      BY <2>4, Zenon
  <2> QED
    BY <2>1, <2>5, Zenon
<1>2. PICK g : Upto(g, Cardinality(S))
  BY <1>0, <1>1, Zenon
<1>3. Sub(Cardinality(S)) = SUBSET S
  BY FS_Subset, Zenon
<1> QED
  BY <1>2, <1>3, Zenon DEF IsSum

\* Changing h at one place changes the sums of the subsets that hold it by the
\* difference, and no other: by induction on the size of the subset.
LEMMA SumsDiffer ==
  ASSUME NEW S, IsFiniteSet(S), NEW h, \A x \in S : h[x] \in Nat, NEW g, IsSum(g, h, S),
         NEW x \in S, NEW v \in Nat, NEW hv, hv[x] = v, \A y \in S \ {x} : hv[y] = h[y],
         NEW k, IsSum(k, hv, S), NEW s \in SUBSET S
  PROVE  /\ g[s] \in Nat /\ k[s] \in Nat
         /\ x \in s => g[s] >= h[x] /\ k[s] = (g[s] - h[x]) + v
         /\ x \notin s => k[s] = g[s]
<1> DEFINE Holds(t) == /\ g[t] \in Nat /\ k[t] \in Nat
                       /\ x \in t => g[t] >= h[x] /\ k[t] = (g[t] - h[x]) + v
                       /\ x \notin t => k[t] = g[t]
           Bad == {n \in Nat : \E t \in SUBSET S : Cardinality(t) = n /\ ~Holds(t)}
<1>a. \A t \in SUBSET S : /\ t = {} => g[t] = 0
                          /\ t # {} => g[t] = h[AnyOf(t)] + g[t \ {AnyOf(t)}]
  BY Zenon DEF IsSum
<1>b. \A t \in SUBSET S : /\ t = {} => k[t] = 0
                          /\ t # {} => k[t] = hv[AnyOf(t)] + k[t \ {AnyOf(t)}]
  BY Zenon DEF IsSum
<1>1. Bad = {}
  <2> SUFFICES ASSUME Bad # {} PROVE FALSE
    BY Zenon
  <2>0. Bad \in SUBSET Nat
    BY Zenon
  <2>1. PICK n \in Bad : \A m \in Bad : n <= m
    <3> HIDE DEF Bad
    <3> QED
      BY <2>0, LeastNat, Zenon
  <2>2. PICK t \in SUBSET S : Cardinality(t) = n /\ ~Holds(t)
    BY <2>1, Zenon
  <2> DEFINE y == AnyOf(t)
             u == t \ {AnyOf(t)}
  <2> HIDE DEF Holds, Bad
  <2>3. CASE t = {}
    <3>1. g[t] = 0 /\ k[t] = 0
      BY <2>3, <1>a, <1>b, Zenon
    <3> QED
      BY <2>2, <2>3, <3>1 DEF Holds
  <2>4. CASE t # {}
    <3>1. /\ y \in t /\ y \in S /\ u \in SUBSET S /\ u = t \ {y}
          /\ n \in Nat /\ Cardinality(u) \in Nat /\ Cardinality(u) = n - 1
      BY <2>2, <2>4, RestOf, Zenon
    <3>2. g[t] = h[y] + g[u]
      BY <2>4, <1>a, Zenon
    <3>3. k[t] = hv[y] + k[u]
      BY <2>4, <1>b, Zenon
    <3> HIDE DEF y, u
    <3>4. Holds(u)
      <4>1. n - 1 \notin Bad
        BY <2>0, <2>1, <3>1
      <4> QED
        BY <3>1, <4>1, Zenon DEF Bad
    <3>5. h[y] \in Nat /\ h[x] \in Nat
      BY <3>1, Zenon
    <3>6. CASE x = y
      <4>1. k[t] = v + k[u] /\ x \notin u /\ x \in t
        BY <3>1, <3>3, <3>6, Zenon
      <4> QED
        BY <2>2, <3>2, <3>4, <3>5, <3>6, <4>1 DEF Holds
    <3>7. CASE x # y
      <4>1. k[t] = h[y] + k[u] /\ (x \in u <=> x \in t)
        BY <3>1, <3>3, <3>7, Zenon
      <4> QED
        BY <2>2, <3>2, <3>4, <3>5, <4>1 DEF Holds
    <3> QED
      BY <3>6, <3>7, Zenon
  <2> QED
    BY <2>3, <2>4, Zenon
<1>2. Cardinality(s) \in Nat
  BY FS_Subset, FS_CardinalityType, Zenon
<1>3. Holds(s)
  <2> HIDE DEF Holds
  <2> QED
    BY <1>1, <1>2, Zenon
<1> QED
  BY <1>3, Zenon

\* The sum, whichever such function computes it, is one number.
LEMMA SumIs ==
  ASSUME NEW S, IsFiniteSet(S), NEW h, \A x \in S : h[x] \in Nat, NEW g, IsSum(g, h, S)
  PROVE  g[S] = SumOf(h, S) /\ g[S] \in Nat
<1> DEFINE k == CHOOSE f : IsSum(f, h, S)
<1>1. IsSum(k, h, S)
  BY SumExists, Zenon
<1> HIDE DEF k
<1>2. CASE S = {}
  <2>1. g[S] = 0 /\ k[S] = 0
    BY <1>1, <1>2, Zenon DEF IsSum
  <2> QED
    BY <2>1 DEF SumOf, k
<1>3. CASE S # {}
  <2>1. PICK x \in S : TRUE
    BY <1>3, Zenon
  <2>2. h[x] \in Nat
    BY Zenon
  <2>3. g[S] \in Nat /\ k[S] = (g[S] - h[x]) + h[x]
    BY <1>1, <2>1, <2>2, SumsDiffer
  <2> QED
    BY <2>2, <2>3 DEF SumOf, k
<1> QED
  BY <1>2, <1>3, Zenon

\* A sum of naturals is a natural.
LEMMA SumType ==
  ASSUME NEW S, IsFiniteSet(S), NEW h, \A x \in S : h[x] \in Nat
  PROVE  SumOf(h, S) \in Nat
BY SumExists, SumIs, Zenon

\* No term exceeds the sum, and changing one changes the sum by as much.
LEMMA SumChange ==
  ASSUME NEW S, IsFiniteSet(S), NEW h, \A y \in S : h[y] \in Nat, NEW x \in S,
         NEW hv, hv[x] \in Nat, \A y \in S \ {x} : hv[y] = h[y]
  PROVE  SumOf(h, S) >= h[x] /\ SumOf(hv, S) = (SumOf(h, S) - h[x]) + hv[x]
<1>1. PICK g : IsSum(g, h, S)
  BY SumExists, Zenon
<1>2. g[S] = SumOf(h, S)
  BY <1>1, SumIs, Zenon
<1>3. PICK k : IsSum(k, hv, S)
  BY SumExists, Zenon
<1>4. k[S] = SumOf(hv, S)
  <2>1. \A y \in S : hv[y] \in Nat
    BY Zenon
  <2> QED
    BY <1>3, <2>1, SumIs, Zenon
<1>5. g[S] >= h[x] /\ k[S] = (g[S] - h[x]) + hv[x]
  <2>1. S \in SUBSET S /\ hv[x] \in Nat
    BY Zenon
  <2> QED
    BY <1>1, <1>3, <2>1, SumsDiffer
<1> QED
  BY <1>2, <1>4, <1>5, Zenon

\* A sum of nothing is zero.
LEMMA SumEmpty ==
  ASSUME NEW h
  PROVE  SumOf(h, {}) = 0
<1>1. \E g : IsSum(g, h, {})
  BY FS_EmptySet, SumExists, Zenon
<1> DEFINE g == CHOOSE f : IsSum(f, h, {})
<1>2. IsSum(g, h, {})
  BY <1>1, Zenon
<1> HIDE DEF g
<1>3. g[{}] = 0
  BY <1>2, Zenon DEF IsSum
<1> QED
  BY <1>3, Zenon DEF SumOf, g

\* A sum of zeros is zero.
LEMMA SumZero ==
  ASSUME NEW S, IsFiniteSet(S)
  PROVE  SumOf([x \in S |-> 0], S) = 0
<1> DEFINE h == [x \in S |-> 0]
           z == [s \in SUBSET S |-> 0]
<1>1. \A x \in S : h[x] \in Nat
  BY Zenon
<1>2. IsSum(z, h, S)
  <2> SUFFICES ASSUME NEW s \in SUBSET S, s # {}
               PROVE  h[AnyOf(s)] + z[s \ {AnyOf(s)}] = 0
    BY Zenon DEF IsSum
  <2>1. AnyOf(s) \in S
    BY AnyOfIn, Zenon
  <2> QED
    BY <2>1
<1>3. z[S] = 0
  BY Zenon
<1> HIDE DEF h, z
<1>4. z[S] = SumOf(h, S)
  BY <1>1, <1>2, SumIs, Zenon
<1> QED
  BY <1>3, <1>4, Zenon DEF h

\* Which element a sum takes first does not matter: by induction on the size
\* of the subset.
LEMMA SumRemove ==
  ASSUME NEW S, IsFiniteSet(S), NEW h, \A x \in S : h[x] \in Nat, NEW g, IsSum(g, h, S),
         NEW s \in SUBSET S, NEW x \in s
  PROVE  g[s] = h[x] + g[s \ {x}]
<1> DEFINE Holds(t) == g[t] \in Nat /\ \A y \in t : g[t] = h[y] + g[t \ {y}]
           Bad == {n \in Nat : \E t \in SUBSET S : Cardinality(t) = n /\ ~Holds(t)}
<1>a. \A t \in SUBSET S : /\ t = {} => g[t] = 0
                          /\ t # {} => g[t] = h[AnyOf(t)] + g[t \ {AnyOf(t)}]
  BY Zenon DEF IsSum
<1>1. Bad = {}
  <2> SUFFICES ASSUME Bad # {} PROVE FALSE
    BY Zenon
  <2>0. Bad \in SUBSET Nat
    BY Zenon
  <2>1. PICK n \in Bad : \A m \in Bad : n <= m
    <3> HIDE DEF Bad
    <3> QED
      BY <2>0, LeastNat, Zenon
  <2>2. PICK t \in SUBSET S : Cardinality(t) = n /\ ~Holds(t)
    BY <2>1, Zenon
  <2>3. ASSUME NEW u \in SUBSET S, Cardinality(u) \in Nat, Cardinality(u) < n PROVE Holds(u)
    <3> HIDE DEF Holds, Bad
    <3>1. Cardinality(u) \notin Bad
      BY <2>0, <2>1, <2>3
    <3> QED
      BY <2>3, <3>1, Zenon DEF Bad
  <2>4. CASE t = {}
    <3>1. g[t] = 0
      BY <1>a, <2>4, Zenon
    <3> QED
      BY <2>2, <2>4, <3>1
  <2>5. CASE t # {}
    <3> DEFINE c == AnyOf(t)
               u == t \ {c}
    <3>1. /\ c \in t /\ c \in S /\ u \in SUBSET S /\ n \in Nat
          /\ Cardinality(u) \in Nat /\ Cardinality(u) = n - 1
      BY <2>2, <2>5, RestOf, Zenon
    <3>2. g[t] = h[c] + g[u]
      BY <1>a, <2>5, Zenon
    <3> HIDE DEF c
    <3>3. Holds(u)
      <4> HIDE DEF Holds, u
      <4> QED
        BY <2>3, <3>1
    <3>4. g[u] \in Nat /\ h[c] \in Nat /\ g[t] \in Nat
      BY <3>1, <3>2, <3>3
    <3>5. ASSUME NEW y \in t PROVE g[t] = h[y] + g[t \ {y}]
      <4>1. CASE y = c
        BY <3>2, <4>1, Zenon
      <4>2. CASE y # c
        <5> DEFINE v == t \ {y}
                   w == u \ {y}
        <5>1. v \in SUBSET S /\ IsFiniteSet(t) /\ y \in u /\ c \in v /\ w = v \ {c} /\ y \in S
          BY <3>1, <4>2, FS_Subset, Zenon
        <5>2. Cardinality(v) = n - 1
          <6> HIDE DEF v
          <6>1. Cardinality(t \ {y}) = Cardinality(t) - 1
            BY <5>1, FS_RemoveElement, Zenon
          <6> QED
            BY <2>2, <6>1, Zenon DEF v
        <5>3. Holds(v)
          <6>1. Cardinality(v) \in Nat /\ Cardinality(v) < n
            BY <3>1, <5>2
          <6> HIDE DEF Holds, v
          <6> QED
            BY <2>3, <5>1, <6>1, Zenon
        <5>4. g[u] = h[y] + g[w]
          BY <3>3, <5>1, Zenon
        <5>5. g[v] = h[c] + g[w]
          BY <5>1, <5>3, Zenon
        <5>6. g[w] \in Nat /\ h[y] \in Nat
          <6>1. w \in SUBSET S /\ IsFiniteSet(u) /\ Cardinality(w) \in Nat /\ Cardinality(w) < n
            <7>1. IsFiniteSet(u) /\ u \in SUBSET S
              BY <3>1, FS_Subset, Zenon
            <7> HIDE DEF u
            <7>2. IsFiniteSet(w) /\ Cardinality(w) = Cardinality(u) - 1
              BY <5>1, <7>1, FS_RemoveElement, Zenon
            <7>3. Cardinality(w) \in Nat
              BY <7>2, FS_CardinalityType, Zenon
            <7> HIDE DEF w
            <7> QED
              BY <3>1, <7>1, <7>2, <7>3 DEF w
          <6>2. Holds(w)
            <7> HIDE DEF Holds, w
            <7> QED
              BY <2>3, <6>1, Zenon
          <6> QED
            BY <5>1, <6>2, Zenon
        <5> HIDE DEF v, w, u
        <5> QED
          BY <3>2, <3>4, <5>4, <5>5, <5>6 DEF v
      <4> QED
        BY <4>1, <4>2, Zenon
    <3> QED
      BY <2>2, <3>4, <3>5, Zenon
  <2> QED
    BY <2>4, <2>5, Zenon
<1>2. Cardinality(s) \in Nat
  BY FS_Subset, FS_CardinalityType, Zenon
<1>3. Holds(s)
  <2> HIDE DEF Holds
  <2> QED
    BY <1>1, <1>2, Zenon
<1> QED
  BY <1>3, Zenon

\* Adding an element adds its term.
LEMMA SumAdd ==
  ASSUME NEW S, IsFiniteSet(S), NEW x, x \notin S, NEW h, \A y \in S \cup {x} : h[y] \in Nat
  PROVE  SumOf(h, S \cup {x}) = h[x] + SumOf(h, S)
<1> DEFINE T == S \cup {x}
<1>1. IsFiniteSet(T) /\ S \in SUBSET T /\ T \in SUBSET T /\ x \in T /\ T \ {x} = S
  BY FS_AddElement, Zenon
<1>2. (\A y \in T : h[y] \in Nat) /\ (\A y \in S : h[y] \in Nat)
  BY Zenon
<1>3. PICK g : IsSum(g, h, T)
  <2> HIDE DEF T
  <2> QED
    BY <1>1, SumExists, Zenon
<1> DEFINE k == [s \in SUBSET S |-> g[s]]
<1>4. IsSum(k, h, S)
  <2>1. \A s \in SUBSET S : g[s] = IF s = {} THEN 0 ELSE h[AnyOf(s)] + g[s \ {AnyOf(s)}]
    BY <1>3, Zenon DEF IsSum
  <2>2. \A s \in SUBSET S : s \ {AnyOf(s)} \in SUBSET S
    BY Zenon
  <2> HIDE DEF T
  <2>3. \A s \in SUBSET S : k[s] = IF s = {} THEN 0 ELSE h[AnyOf(s)] + k[s \ {AnyOf(s)}]
    BY <2>1, <2>2, Zenon
  <2> QED
    BY <2>3, Zenon DEF IsSum
<1>5. k[S] = g[S]
  BY Zenon
<1> HIDE DEF k, T
<1>6. k[S] = SumOf(h, S)
  BY <1>2, <1>4, SumIs, Zenon
<1>7. g[T] = SumOf(h, T)
  BY <1>1, <1>2, <1>3, SumIs, Zenon
<1>8. g[T] = h[x] + g[T \ {x}]
  BY <1>1, <1>2, <1>3, SumRemove
<1> QED
  BY <1>1, <1>5, <1>6, <1>7, <1>8, Zenon DEF T


\* A sum over fewer terms is no greater.
LEMMA SumMono ==
  ASSUME NEW T, IsFiniteSet(T), NEW S \in SUBSET T, NEW h, \A x \in T : h[x] \in Nat
  PROVE  SumOf(h, S) <= SumOf(h, T)
<1> DEFINE Bad == {n \in Nat : \E U \in SUBSET T :
                     S \subseteq U /\ Cardinality(U) = n /\ ~(SumOf(h, S) <= SumOf(h, U))}
<1>0. \A U \in SUBSET T : /\ IsFiniteSet(U) /\ Cardinality(U) \in Nat
                           /\ \A x \in U : h[x] \in Nat
  BY FS_Subset, FS_CardinalityType, Zenon
<1>1. \A U \in SUBSET T : SumOf(h, U) \in Nat
  BY <1>0, SumType, Zenon
<1>2. Bad = {}
  <2> SUFFICES ASSUME Bad # {} PROVE FALSE
    BY Zenon
  <2>0. Bad \in SUBSET Nat
    BY Zenon
  <2>1. PICK n \in Bad : \A m \in Bad : n <= m
    <3> HIDE DEF Bad
    <3> QED
      BY <2>0, LeastNat, Zenon
  <2>2. PICK U \in SUBSET T :
          S \subseteq U /\ Cardinality(U) = n /\ ~(SumOf(h, S) <= SumOf(h, U))
    BY <2>1, Zenon
  <2>3. PICK x \in U : x \notin S
    <3>1. U # S
      BY <1>1, <2>2
    <3> QED
      BY <2>2, <3>1, Zenon
  <2> DEFINE V == U \ {x}
  <2>4. /\ V \in SUBSET T /\ S \subseteq V /\ x \notin V /\ V \cup {x} = U
        /\ Cardinality(V) = n - 1 /\ n \in Nat
    BY <1>0, <2>2, <2>3, FS_RemoveElement
  <2> HIDE DEF V
  <2>5. Cardinality(V) \in Nat /\ ~(n <= Cardinality(V))
    BY <1>0, <2>4
  <2>6. SumOf(h, S) <= SumOf(h, V)
    <3>1. Cardinality(V) \notin Bad
      <4> HIDE DEF Bad
      <4> QED
        BY <2>1, <2>5, Zenon
    <3> QED
      BY <2>4, <2>5, <3>1, Zenon
  <2>7. SumOf(h, U) = h[x] + SumOf(h, V)
    <3>1. IsFiniteSet(V) /\ \A y \in V \cup {x} : h[y] \in Nat
      BY <1>0, <2>2, <2>4, Zenon
    <3>2. SumOf(h, V \cup {x}) = h[x] + SumOf(h, V)
      BY <2>4, <3>1, SumAdd, Zenon
    <3> QED
      BY <2>4, <3>2, Zenon
  <2>8. SumOf(h, S) \in Nat /\ SumOf(h, V) \in Nat /\ h[x] \in Nat
    BY <1>0, <1>1, <2>3, <2>4, Zenon
  <2> QED
    BY <2>2, <2>6, <2>7, <2>8
<1>3. Cardinality(T) \in Nat /\ Cardinality(T) \notin Bad
  <2> HIDE DEF Bad
  <2> QED
    BY <1>0, <1>2, Zenon
<1> QED
  BY <1>3, Zenon

-----------------------------------------------------------------------------
(* Concatenations.                                                         *)

\* u[i] is the concatenation of the first i sequences of ss, for i up to n.
IsConcat(u, ss, n) == u = [i \in 0..n |-> IF i = 0 THEN <<>> ELSE u[i - 1] \o ss[i]]

\* The prefixes' concatenations exist: by induction on their number.
LEMMA ConcatExists ==
  ASSUME NEW ss, NEW N \in Nat
  PROVE  \E u : IsConcat(u, ss, N)
<1> DEFINE Bad == {n \in Nat : ~ \E u : IsConcat(u, ss, n)}
<1>1. Bad = {}
  <2> SUFFICES ASSUME Bad # {} PROVE FALSE
    BY Zenon
  <2>0. Bad \in SUBSET Nat
    BY Zenon
  <2>1. PICK n \in Bad : \A m \in Bad : n <= m
    <3> HIDE DEF Bad
    <3> QED
      BY <2>0, LeastNat, Zenon
  <2>2. n \in Nat /\ ~ \E u : IsConcat(u, ss, n)
    BY <2>1, Zenon
  <2>3. n # 0
    <3> SUFFICES ASSUME n = 0 PROVE FALSE
      BY Zenon
    <3>1. IsConcat([i \in 0..0 |-> <<>>], ss, 0)
      BY DEF IsConcat
    <3> QED
      BY <2>2, <3>1, Zenon
  <2>4. n - 1 \in Nat /\ ~(n <= n - 1)
    BY <2>2, <2>3
  <2>5. PICK q : IsConcat(q, ss, n - 1)
    BY <2>1, <2>4, Zenon
  <2> DEFINE last == q[n - 1] \o ss[n]
             u == [i \in 0..n |-> IF i < n THEN q[i] ELSE last]
  <2>6. \A i \in 0..(n - 1) : q[i] = IF i = 0 THEN <<>> ELSE q[i - 1] \o ss[i]
    BY <2>5, Zenon DEF IsConcat
  <2>7. \A i \in 0..n : u[i] = IF i = 0 THEN <<>> ELSE u[i - 1] \o ss[i]
    <3> SUFFICES ASSUME NEW i \in 0..n
                 PROVE  u[i] = IF i = 0 THEN <<>> ELSE u[i - 1] \o ss[i]
      BY Zenon
    <3>1. CASE i < n
      <4>1. /\ i \in 0..(n - 1) /\ u[i] = q[i]
            /\ i # 0 => i - 1 \in 0..n /\ i - 1 < n
        BY <2>2, <3>1
      <4>2. i # 0 => u[i - 1] = q[i - 1]
        BY <4>1, Zenon
      <4> QED
        BY <2>6, <4>1, <4>2, Zenon
    <3>2. CASE i = n
      <4>1. i # 0 /\ ~(i < n) /\ n - 1 \in 0..n /\ n - 1 < n
        BY <2>2, <2>3, <3>2
      <4>2. u[i] = last /\ u[n - 1] = q[n - 1]
        BY <4>1, Zenon
      <4> QED
        BY <3>2, <4>1, <4>2, Zenon
    <3> QED
      BY <2>2, <3>1, <3>2
  <2> HIDE DEF last
  <2>8. IsConcat(u, ss, n)
    BY <2>7, Zenon DEF IsConcat
  <2> QED
    BY <2>2, <2>8, Zenon
<1> QED
  BY <1>1, Zenon

\* What Concat computes, sequence by sequence.
LEMMA ConcatSteps ==
  ASSUME NEW X, NEW ss \in Seq(Seq(X))
  PROVE  \E u : /\ Concat(ss) = u[Len(ss)] /\ u[0] = <<>>
                /\ \A i \in 1..Len(ss) : u[i] = u[i - 1] \o ss[i]
                /\ \A i \in 0..Len(ss) : u[i] \in Seq(X)
<1> DEFINE u == CHOOSE f : IsConcat(f, ss, Len(ss))
<1>0. Len(ss) \in Nat /\ \A i \in 1..Len(ss) : ss[i] \in Seq(X)
  OBVIOUS
<1>1. Concat(ss) = u[Len(ss)]
  BY Zenon DEF Concat, IsConcat
<1>2. IsConcat(u, ss, Len(ss))
  BY <1>0, ConcatExists, Zenon
<1> HIDE DEF u
<1>3. \A i \in 0..Len(ss) : u[i] = IF i = 0 THEN <<>> ELSE u[i - 1] \o ss[i]
  BY <1>2, Zenon DEF IsConcat
<1>4. u[0] = <<>>
  BY <1>0, <1>3
<1>5. \A i \in 1..Len(ss) : u[i] = u[i - 1] \o ss[i]
  <2> SUFFICES ASSUME NEW i \in 1..Len(ss) PROVE u[i] = u[i - 1] \o ss[i]
    BY Zenon
  <2>1. i \in 0..Len(ss) /\ i # 0
    BY <1>0
  <2> QED
    BY <1>3, <2>1, Zenon
<1>6. \A i \in 0..Len(ss) : u[i] \in Seq(X)
  <2> DEFINE Bad == {i \in 0..Len(ss) : u[i] \notin Seq(X)}
  <2> SUFFICES ASSUME Bad # {} PROVE FALSE
    BY Zenon
  <2>0. Bad \in SUBSET Nat
    BY <1>0
  <2>1. PICK n \in Bad : \A m \in Bad : n <= m
    <3> HIDE DEF Bad
    <3> QED
      BY <2>0, LeastNat, Zenon
  <2>2. n \in 0..Len(ss) /\ u[n] \notin Seq(X)
    BY <2>1, Zenon
  <2>3. n # 0
    <3>1. <<>> \in Seq(X)
      OBVIOUS
    <3> QED
      BY <1>4, <2>2, <3>1, Zenon
  <2>4. n \in 1..Len(ss) /\ n - 1 \in 0..Len(ss) /\ ~(n <= n - 1)
    BY <1>0, <2>2, <2>3
  <2>5. u[n - 1] \in Seq(X)
    BY <2>1, <2>4, Zenon
  <2>6. ss[n] \in Seq(X) /\ u[n] = u[n - 1] \o ss[n]
    BY <1>0, <1>5, <2>4, Zenon
  <2> HIDE DEF Bad
  <2> QED
    BY <2>2, <2>5, <2>6
<1> QED
  BY <1>1, <1>4, <1>5, <1>6, Zenon

\* The concatenation of two sequences of sequences.
LEMMA ConcatOfTwo ==
  ASSUME NEW X, NEW ss \in Seq(Seq(X)), NEW tt \in Seq(Seq(X))
  PROVE  /\ Concat(ss) \in Seq(X)
         /\ Concat(ss \o tt) = Concat(ss) \o Concat(tt)
<1> DEFINE all == ss \o tt
<1>a. \A a, b, c \in Seq(X) : (a \o b) \o c = a \o (b \o c)
  OBVIOUS
<1>0. /\ Len(ss) \in Nat /\ Len(tt) \in Nat /\ all \in Seq(Seq(X))
      /\ Len(all) = Len(ss) + Len(tt)
      /\ \A i \in 1..Len(ss) : all[i] = ss[i] /\ ss[i] \in Seq(X)
      /\ \A i \in 1..Len(tt) : all[Len(ss) + i] = tt[i] /\ tt[i] \in Seq(X)
  OBVIOUS
<1> HIDE DEF all
<1>1. PICK u : /\ Concat(ss) = u[Len(ss)] /\ u[0] = <<>>
               /\ \A i \in 1..Len(ss) : u[i] = u[i - 1] \o ss[i]
               /\ \A i \in 0..Len(ss) : u[i] \in Seq(X)
  BY ConcatSteps, Zenon
<1>2. PICK v : /\ Concat(tt) = v[Len(tt)] /\ v[0] = <<>>
               /\ \A i \in 1..Len(tt) : v[i] = v[i - 1] \o tt[i]
               /\ \A i \in 0..Len(tt) : v[i] \in Seq(X)
  BY ConcatSteps, Zenon
<1>3. PICK w : /\ Concat(all) = w[Len(all)] /\ w[0] = <<>>
               /\ \A i \in 1..Len(all) : w[i] = w[i - 1] \o all[i]
               /\ \A i \in 0..Len(all) : w[i] \in Seq(X)
  BY <1>0, ConcatSteps, Zenon
<1>4. Concat(ss) \in Seq(X)
  <2>1. Len(ss) \in 0..Len(ss)
    BY <1>0
  <2> QED
    BY <1>1, <2>1, Zenon
<1>5. w[Len(ss)] = Concat(ss)
  <2> DEFINE Bad == {i \in 0..Len(ss) : w[i] # u[i]}
  <2> SUFFICES Bad = {}
    <3>1. Len(ss) \in 0..Len(ss)
      BY <1>0
    <3> QED
      BY <1>1, <3>1, Zenon
  <2> SUFFICES ASSUME Bad # {} PROVE FALSE
    BY Zenon
  <2>0. Bad \in SUBSET Nat
    BY <1>0
  <2>1. PICK n \in Bad : \A m \in Bad : n <= m
    <3> HIDE DEF Bad
    <3> QED
      BY <2>0, LeastNat, Zenon
  <2>2. n \in 0..Len(ss) /\ w[n] # u[n]
    BY <2>1, Zenon
  <2>3. n # 0
    BY <1>1, <1>3, <2>2, Zenon
  <2>4. n \in 1..Len(ss) /\ n \in 1..Len(all) /\ n - 1 \in 0..Len(ss) /\ ~(n <= n - 1)
    BY <1>0, <2>2, <2>3
  <2>5. w[n - 1] = u[n - 1]
    BY <2>1, <2>4, Zenon
  <2>6. w[n] = w[n - 1] \o ss[n] /\ u[n] = u[n - 1] \o ss[n]
    BY <1>0, <1>1, <1>3, <2>4, Zenon
  <2> QED
    BY <2>2, <2>5, <2>6, Zenon
<1>6. w[Len(ss) + Len(tt)] = Concat(ss) \o Concat(tt)
  <2> DEFINE Bad == {i \in 0..Len(tt) : w[Len(ss) + i] # Concat(ss) \o v[i]}
  <2> SUFFICES Bad = {}
    <3>1. Len(tt) \in 0..Len(tt)
      BY <1>0
    <3> QED
      BY <1>2, <3>1, Zenon
  <2> SUFFICES ASSUME Bad # {} PROVE FALSE
    BY Zenon
  <2>0. Bad \in SUBSET Nat
    BY <1>0
  <2>1. PICK n \in Bad : \A m \in Bad : n <= m
    <3> HIDE DEF Bad
    <3> QED
      BY <2>0, LeastNat, Zenon
  <2>2. n \in 0..Len(tt) /\ w[Len(ss) + n] # Concat(ss) \o v[n]
    BY <2>1, Zenon
  <2>3. n # 0
    <3> SUFFICES ASSUME n = 0 PROVE FALSE
      BY Zenon
    <3>1. Concat(ss) \o <<>> = Concat(ss) /\ Len(ss) + 0 = Len(ss)
      BY <1>0, <1>4
    <3> QED
      BY <1>2, <1>5, <2>2, <3>1, Zenon
  <2>4. /\ n \in 1..Len(tt) /\ n - 1 \in 0..Len(tt) /\ ~(n <= n - 1)
        /\ Len(ss) + n \in 1..Len(all) /\ (Len(ss) + n) - 1 = Len(ss) + (n - 1)
    <3> DEFINE k == Len(ss)
               l == Len(tt)
               m == Len(all)
    <3>1. k \in Nat /\ l \in Nat /\ m = k + l /\ n \in 0..l
      BY <1>0, <2>2, Zenon
    <3> HIDE DEF k, l, m, Bad
    <3>2. /\ n \in 1..l /\ n - 1 \in 0..l /\ ~(n <= n - 1)
          /\ k + n \in 1..m /\ (k + n) - 1 = k + (n - 1)
      BY <2>3, <3>1
    <3> QED
      BY <3>2, Zenon DEF k, l, m
  <2>5. w[Len(ss) + (n - 1)] = Concat(ss) \o v[n - 1]
    BY <2>1, <2>4, Zenon
  <2>6. w[Len(ss) + n] = w[(Len(ss) + n) - 1] \o tt[n]
    BY <1>0, <1>3, <2>4, Zenon
  <2>7. v[n] = v[n - 1] \o tt[n] /\ v[n - 1] \in Seq(X) /\ tt[n] \in Seq(X)
    BY <1>0, <1>2, <2>4, Zenon
  <2>8. (Concat(ss) \o v[n - 1]) \o tt[n] = Concat(ss) \o (v[n - 1] \o tt[n])
    BY <1>4, <1>a, <2>7, Zenon
  <2> QED
    BY <2>2, <2>4, <2>5, <2>6, <2>7, <2>8, Zenon
<1> QED
  BY <1>0, <1>3, <1>4, <1>6, Zenon DEF all

\* The concatenation of a single sequence.
LEMMA ConcatOne ==
  ASSUME NEW X, NEW s \in Seq(X)
  PROVE  Concat(<<s>>) = s
<1>1. <<s>> \in Seq(Seq(X)) /\ Len(<<s>>) = 1 /\ <<s>>[1] = s /\ 1 \in 1..1 /\ 1 - 1 = 0
  OBVIOUS
<1>2. PICK u : /\ Concat(<<s>>) = u[Len(<<s>>)] /\ u[0] = <<>>
               /\ \A i \in 1..Len(<<s>>) : u[i] = u[i - 1] \o <<s>>[i]
               /\ \A i \in 0..Len(<<s>>) : u[i] \in Seq(X)
  BY <1>1, ConcatSteps, Zenon
<1>3. Concat(<<s>>) = <<>> \o s
  BY <1>1, <1>2, Zenon
<1> QED
  BY <1>3

\* The concatenation of nothing.
LEMMA ConcatEmpty == Concat(<<>>) = <<>>
<1>1. <<>> \in Seq(Seq({})) /\ Len(<<>>) = 0
  OBVIOUS
<1>2. PICK u : Concat(<<>>) = u[Len(<<>>)] /\ u[0] = <<>>
  BY <1>1, ConcatSteps, Zenon
<1> QED
  BY <1>1, <1>2, Zenon
=============================================================================
