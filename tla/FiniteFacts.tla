---------------------------- MODULE FiniteFacts ----------------------------
(***************************************************************************)
(* Least elements, and induction over sets: a set of numbers has a least   *)
(* one, of the finite sets in a collection one is smallest, and a function *)
(* that is defined by recursion along a rank exists.                       *)
(***************************************************************************)
EXTENDS Integers, FiniteSets, FiniteSetTheorems, WellFoundedInduction, TLAPS

\* A set of natural numbers that is not empty has a least element.
LEMMA LeastNatural == \A S \in SUBSET Nat : S # {} => \E n \in S : \A m \in S : n <= m
<1> SUFFICES ASSUME NEW S \in SUBSET Nat, S # {} PROVE \E n \in S : \A m \in S : n <= m
  OBVIOUS
<1>1. PICK R : /\ \A m, n \in Nat : m < n => <<m, n>> \in R
               /\ \E n \in S : \A m \in S : <<m, n>> \notin R
  <2>1. \A m, n \in Nat : m < n => <<m, n>> \in OpToRel(<, Nat)
    BY DEF OpToRel
  <2>2. \E n \in S : \A m \in S : <<m, n>> \notin OpToRel(<, Nat)
    BY NatLessThanWellFounded, WFMin
  <2> QED
    BY <2>1, <2>2, Zenon
<1>2. PICK n \in S : \A m \in S : <<m, n>> \notin R
  BY <1>1
<1>3. \A m \in S : m \in Nat /\ n \in Nat /\ ~(m < n)
  BY <1>1, <1>2
<1> QED
  BY <1>3

\* Of the finite sets in a collection one has no member of it properly below.
LEMMA SmallestSet ==
    ASSUME NEW C, NEW F \in C, IsFiniteSet(F)
    PROVE  \E S \in C : IsFiniteSet(S) /\ \A x \in S : S \ {x} \notin C
<1> DEFINE Finite == {S \in C : IsFiniteSet(S)}
           Sizes == {Cardinality(S) : S \in Finite}
<1>1. \A S \in Finite : Cardinality(S) \in Nat
  BY FS_CardinalityType
<1>2. Sizes \in SUBSET Nat /\ Sizes # {}
  BY <1>1
<1>3. PICK n \in Sizes : \A m \in Sizes : n <= m
  BY <1>2, LeastNatural, Zenon
<1>4. PICK S \in Finite : \A T \in Finite : Cardinality(S) <= Cardinality(T)
  BY <1>3
<1>5. ASSUME NEW x \in S, S \ {x} \in C PROVE FALSE
  <2>1. IsFiniteSet(S \ {x}) /\ Cardinality(S \ {x}) = Cardinality(S) - 1
    BY FS_RemoveElement
  <2>2. Cardinality(S) <= Cardinality(S \ {x}) /\ Cardinality(S) \in Nat
    BY <1>1, <1>4, <1>5, <2>1
  <2> QED
    BY <2>1, <2>2
<1> QED
  BY <1>4, <1>5

\* Induction: the set P of the numbers a fact is true of contains all.
LEMMA Induction ==
    ASSUME NEW P, 0 \in P, \A n \in Nat : n \in P => n + 1 \in P
    PROVE  \A n \in Nat : n \in P
<1> SUFFICES ASSUME {n \in Nat : n \notin P} # {} PROVE FALSE
  OBVIOUS
<1>1. PICK n \in Nat : n \notin P /\ \A m \in Nat : m \notin P => n <= m
  <2>1. {n \in Nat : n \notin P} \in SUBSET Nat
    OBVIOUS
  <2> QED
    BY <2>1, LeastNatural
<1>2. n - 1 \in Nat /\ ~(n <= n - 1) /\ (n - 1) + 1 = n
  BY <1>1
<1>3. n - 1 \in P
  BY <1>1, <1>2
<1> QED
  BY <1>1, <1>2, <1>3

\* The same from 0 to a bound.
LEMMA InductionUpto ==
    ASSUME NEW N \in Nat, NEW P, 0 \in P, \A n \in 0 .. N - 1 : n \in P => n + 1 \in P
    PROVE  \A n \in 0 .. N : n \in P
<1> DEFINE Q == {n \in Nat : n <= N => n \in P}
<1>1. 0 \in Q
  OBVIOUS
<1>2. \A n \in Nat : n \in Q => n + 1 \in Q
  OBVIOUS
<1>3. \A n \in Nat : n \in Q
  <2> HIDE DEF Q
  <2> QED
    BY <1>1, <1>2, Induction
<1> QED
  BY <1>3

\* The same from a bound down.
LEMMA InductionDown ==
    ASSUME NEW a \in Int, NEW b \in Int, a <= b,
           NEW P, b \in P, \A n \in a .. b - 1 : n + 1 \in P => n \in P
    PROVE  \A n \in a .. b : n \in P
<1> DEFINE Q == {k \in 0 .. b - a : b - k \in P}
<1>1. b - a \in Nat /\ 0 \in Q
  OBVIOUS
<1>2. \A k \in 0 .. (b - a) - 1 : k \in Q => k + 1 \in Q
  <2> SUFFICES ASSUME NEW k \in 0 .. (b - a) - 1, k \in Q PROVE k + 1 \in Q
    OBVIOUS
  <2>1. b - (k + 1) \in a .. b - 1 /\ (b - (k + 1)) + 1 = b - k
    OBVIOUS
  <2>2. b - (k + 1) \in P
    BY <2>1
  <2> QED
    BY <2>1, <2>2
<1>3. \A k \in 0 .. b - a : k \in Q
  <2> HIDE DEF Q
  <2> QED
    BY <1>1, <1>2, InductionUpto
<1>4. \A n \in a .. b : b - n \in 0 .. b - a /\ b - (b - n) = n
  OBVIOUS
<1> QED
  BY <1>3, <1>4

\* Recursion along a rank: on D outside B, the value at x is made by step from the
\* value at prev[x], whose rank is less.
Descends(D, B, rank, prev) ==
    rank \in [D -> Nat] /\ prev \in [D -> D] /\ \A x \in D : x \notin B => rank[prev[x]] < rank[x]
Solves(g, D, B, base, prev, step) ==
    \A x \in D : g[x] = IF x \in B THEN base[x] ELSE step[<<x, g[prev[x]]>>]

\* There is a function with these values.
LEMMA Recursion ==
    ASSUME NEW D, NEW S, S # {}, NEW rank, NEW B, NEW base \in [D -> S],
           NEW prev, NEW step \in [D \X S -> S], Descends(D, B, rank, prev)
    PROVE  \E g \in [D -> S] : Solves(g, D, B, base, prev, step)
<1> PICK any \in S : TRUE
  OBVIOUS
<1> rank \in [D -> Nat] /\ prev \in [D -> D] /\ \A x \in D : x \notin B => rank[prev[x]] < rank[x]
  BY DEF Descends
<1> DEFINE Next(g, x) == IF x \in B THEN base[x] ELSE step[<<x, g[prev[x]]>>]
           Upto(n) == {g \in [D -> S] : \A x \in D : rank[x] < n => g[x] = Next(g, x)}
<1>1. \A n \in Nat : Upto(n) # {}
  <2> SUFFICES ASSUME {n \in Nat : Upto(n) = {}} # {} PROVE FALSE
    OBVIOUS
  <2>1. PICK n \in Nat : Upto(n) = {} /\ \A m \in Nat : Upto(m) = {} => n <= m
    <3> HIDE DEF Upto
    <3>1. {n \in Nat : Upto(n) = {}} \in SUBSET Nat
      OBVIOUS
    <3> QED
      BY <3>1, LeastNatural
  <2>2. CASE n = 0
    <3>1. [x \in D |-> any] \in Upto(0)
      OBVIOUS
    <3> QED
      BY <2>1, <2>2, <3>1
  <2>3. CASE n # 0
    <3>1. PICK g \in [D -> S] : g \in Upto(n - 1)
      <4>1. n - 1 \in Nat /\ ~(n <= n - 1)
        BY <2>3
      <4>2. Upto(n - 1) # {}
        BY <4>1, <2>1
      <4> QED
        BY <4>2
    <3> DEFINE h == [x \in D |-> IF rank[x] < n - 1 THEN g[x] ELSE Next(g, x)]
    <3>2. \A x \in D : Next(g, x) \in S
      OBVIOUS
    <3>3. h \in [D -> S]
      BY <3>2
    <3>4. ASSUME NEW x \in D, rank[x] < n PROVE h[x] = Next(h, x)
      <4>1. h[x] = Next(g, x)
        BY <3>1
      <4>2. x \notin B => rank[prev[x]] < n - 1 /\ prev[x] \in D
        BY <3>4
      <4>3. x \notin B => h[prev[x]] = g[prev[x]]
        BY <4>2
      <4> QED
        BY <4>1, <4>3
    <3>5. h \in Upto(n)
      <4> HIDE DEF h
      <4> QED
        BY <3>3, <3>4
    <3> QED
      BY <3>5, <2>1
  <2> QED
    BY <2>2, <2>3
<1>2. ASSUME NEW m \in Nat, NEW n \in Nat, NEW g \in Upto(m), NEW h \in Upto(n)
      PROVE  \A x \in D : rank[x] < m /\ rank[x] < n => g[x] = h[x]
  <2> DEFINE Bad == {r \in Nat : \E x \in D : rank[x] = r /\ r < m /\ r < n /\ g[x] # h[x]}
  <2>1. SUFFICES ASSUME Bad # {} PROVE FALSE
    <3>1. \A x \in D : rank[x] < m /\ rank[x] < n /\ g[x] # h[x] => rank[x] \in Bad
      OBVIOUS
    <3> QED
      BY <3>1
  <2>2. PICK r \in Bad : \A k \in Bad : r <= k
    BY <2>1, LeastNatural
  <2>3. PICK x \in D : rank[x] = r /\ r < m /\ r < n /\ g[x] # h[x]
    BY <2>2
  <2>4. g[x] = Next(g, x) /\ h[x] = Next(h, x)
    BY <2>3
  <2>5. x \notin B
    BY <2>3, <2>4
  <2>6. prev[x] \in D /\ rank[prev[x]] \in Nat /\ rank[prev[x]] < r /\ g[prev[x]] # h[prev[x]]
    BY <2>3, <2>4, <2>5
  <2>7. rank[prev[x]] \in Bad
    BY <2>3, <2>6
  <2> QED
    BY <2>2, <2>6, <2>7
<1> DEFINE member(n) == CHOOSE g : g \in Upto(n)
           f == [x \in D |-> member(rank[x] + 1)[x]]
<1>3. \A n \in Nat : member(n) \in Upto(n)
  <2> HIDE DEF Upto
  <2> QED
    BY <1>1
<1>4. f \in [D -> S]
  <2> SUFFICES ASSUME NEW x \in D PROVE member(rank[x] + 1)[x] \in S
    OBVIOUS
  <2>1. rank[x] + 1 \in Nat
    OBVIOUS
  <2>2. member(rank[x] + 1) \in [D -> S]
    BY <2>1, <1>3
  <2> HIDE DEF member
  <2> QED
    BY <2>2
<1>5. ASSUME NEW x \in D PROVE f[x] = Next(f, x)
  <2> DEFINE n == rank[x] + 1
  <2>1. n \in Nat /\ member(n) \in Upto(n)
    <3>1. n \in Nat
      OBVIOUS
    <3> HIDE DEF n, member, Upto
    <3> QED
      BY <3>1, <1>3
  <2>2. member(n)[x] = Next(member(n), x)
    BY <2>1
  <2>3. x \notin B => f[prev[x]] = member(n)[prev[x]]
    <3> SUFFICES ASSUME x \notin B PROVE f[prev[x]] = member(n)[prev[x]]
      OBVIOUS
    <3> DEFINE y == prev[x]
               k == rank[y] + 1
    <3>1. y \in D /\ k \in Nat /\ rank[y] < n /\ rank[y] < k
      OBVIOUS
    <3>2. member(k) \in Upto(k)
      BY <3>1, <1>3
    <3>3. member(k)[y] = member(n)[y]
      <4> HIDE DEF member, Upto, k, n, y
      <4> QED
        BY <3>1, <3>2, <2>1, <1>2
    <3> QED
      BY <3>1, <3>3
  <2>4. f[x] = member(n)[x]
    OBVIOUS
  <2> HIDE DEF member, n, f
  <2> QED
    BY <2>2, <2>3, <2>4
<1> QED
  BY <1>4, <1>5 DEF Solves
=============================================================================
