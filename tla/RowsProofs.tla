---------------------------- MODULE RowsProofs ----------------------------
(***************************************************************************)
(* From the text of a number to its mantissa, from a line to its fields,   *)
(* from the fields to a record, and from the records and the counters of   *)
(* the two sources to the properties of Rows: for tables of any size, any  *)
(* words and numbers in them, and any widths of the integers.              *)
(*                                                                         *)
(* What the recursive functions of Fixed and Rows compute is proved with   *)
(* Recursion and Induction of FiniteFacts, which rest on least elements.   *)
(***************************************************************************)
EXTENDS Rows, FiniteFacts, SequenceTheorems, FiniteSetTheorems, TLAPS

-----------------------------------------------------------------------------
(* Numbers to mantissas *)

\* Powers of ten.
LEMMA PowersOfTen ==
    /\ Pow10[0] = 1
    /\ \A k \in Nat : Pow10[k] \in Nat /\ Pow10[k] > 0 /\ Pow10[k + 1] = 10 * Pow10[k]
<1> DEFINE rank == [k \in Nat |-> k]
           base == [k \in Nat |-> 1]
           prev == [k \in Nat |-> IF k = 0 THEN 0 ELSE k - 1]
           step == [p \in Nat \X Nat |-> 10 * p[2]]
<1>1. PICK g \in [Nat -> Nat] : Solves(g, Nat, {0}, base, prev, step)
  <2>1. Descends(Nat, {0}, rank, prev) /\ base \in [Nat -> Nat] /\ step \in [Nat \X Nat -> Nat] /\ Nat # {}
    BY DEF Descends
  <2> HIDE DEF rank, base, prev, step
  <2> QED
    BY <2>1, Recursion, Zenon
<1>2. g = [k \in Nat |-> IF k = 0 THEN 1 ELSE 10 * g[k - 1]]
  <2>1. \A k, m \in Nat : step[<<k, m>>] = 10 * m
    OBVIOUS
  <2>2. \A k \in Nat : g[k] = IF k \in {0} THEN base[k] ELSE step[<<k, g[prev[k]]>>]
    BY <1>1 DEF Solves
  <2>3. \A k \in Nat : prev[k] \in Nat /\ (k # 0 => prev[k] = k - 1) /\ base[k] = 1
    OBVIOUS
  <2> HIDE DEF step, prev, base
  <2>4. ASSUME NEW k \in Nat PROVE g[k] = IF k = 0 THEN 1 ELSE 10 * g[k - 1]
    <3>1. g[prev[k]] \in Nat
      BY <2>3
    <3>2. step[<<k, g[prev[k]]>>] = 10 * g[prev[k]]
      BY <2>1, <3>1
    <3> QED
      BY <2>2, <2>3, <3>2, Zenon
  <2> QED
    BY <2>4
<1>3. Pow10 = [k \in Nat |-> IF k = 0 THEN 1 ELSE 10 * Pow10[k - 1]]
  BY <1>2 DEF Pow10
<1> DEFINE P == {k \in Nat : Pow10[k] \in Nat /\ Pow10[k] > 0}
<1>4. Pow10[0] = 1 /\ \A k \in Nat : Pow10[k + 1] = 10 * Pow10[k]
  BY <1>3
<1>5. 0 \in P /\ \A k \in Nat : k \in P => k + 1 \in P
  BY <1>4
<1>6. \A k \in Nat : k \in P
  <2> HIDE DEF P
  <2> QED
    BY <1>5, Induction
<1> QED
  BY <1>4, <1>6

\* The values of the prefixes of a string of characters.
LEMMA ValuesOfPrefixes ==
    ASSUME NEW s \in Seq(Nat)
    PROVE  /\ Values(s) \in [0 .. Len(s) -> Nat]
           /\ Values(s)[0] = 0
           /\ \A k \in 1 .. Len(s) : Values(s)[k] = 10 * Values(s)[k - 1] + s[k]
<1> DEFINE D == 0 .. Len(s)
           rank == [k \in D |-> k]
           base == [k \in D |-> 0]
           prev == [k \in D |-> IF k = 0 THEN 0 ELSE k - 1]
           step == [p \in D \X Nat |-> IF p[1] = 0 THEN 0 ELSE 10 * p[2] + s[p[1]]]
<1>0. Len(s) \in Nat /\ \A k \in 1 .. Len(s) : s[k] \in Nat
  OBVIOUS
<1>1. PICK g \in [D -> Nat] : Solves(g, D, {0}, base, prev, step)
  <2>1. Descends(D, {0}, rank, prev) /\ base \in [D -> Nat] /\ Nat # {}
    BY <1>0 DEF Descends
  <2>2. step \in [D \X Nat -> Nat]
    BY <1>0
  <2> HIDE DEF rank, base, prev, step, D
  <2> QED
    BY <2>1, <2>2, Recursion, Zenon
<1>2. g = [k \in 0 .. Len(s) |-> IF k = 0 THEN 0 ELSE 10 * g[k - 1] + s[k]]
  <2>1. \A k \in D, m \in Nat : step[<<k, m>>] = IF k = 0 THEN 0 ELSE 10 * m + s[k]
    OBVIOUS
  <2>2. \A k \in D : g[k] = IF k \in {0} THEN base[k] ELSE step[<<k, g[prev[k]]>>]
    BY <1>1 DEF Solves
  <2>3. \A k \in D : prev[k] \in D /\ (k # 0 => prev[k] = k - 1) /\ base[k] = 0
    BY <1>0
  <2> HIDE DEF step, prev, base
  <2>4. ASSUME NEW k \in D PROVE g[k] = IF k = 0 THEN 0 ELSE 10 * g[k - 1] + s[k]
    <3>1. g[prev[k]] \in Nat
      BY <2>3
    <3>2. step[<<k, g[prev[k]]>>] = IF k = 0 THEN 0 ELSE 10 * g[prev[k]] + s[k]
      BY <2>1, <3>1, Zenon
    <3> QED
      BY <2>2, <2>3, <3>2, Zenon
  <2> QED
    BY <2>4
<1>3. Values(s) = [k \in 0 .. Len(s) |-> IF k = 0 THEN 0 ELSE 10 * Values(s)[k - 1] + s[k]]
  BY <1>2 DEF Values
<1> DEFINE v == Values(s)
           P == {k \in 0 .. Len(s) : v[k] \in Nat}
<1>4. v[0] = 0 /\ \A k \in 1 .. Len(s) : v[k] = 10 * v[k - 1] + s[k]
  BY <1>0, <1>3
<1>5. 0 \in P /\ \A k \in 0 .. Len(s) - 1 : k \in P => k + 1 \in P
  <2> HIDE DEF v
  <2>1. \A k \in 0 .. Len(s) - 1 : v[k + 1] = 10 * v[k] + s[k + 1] /\ s[k + 1] \in Nat
    BY <1>0, <1>4
  <2>2. ASSUME NEW k \in 0 .. Len(s) - 1, v[k] \in Nat PROVE v[k + 1] \in Nat /\ k + 1 \in 0 .. Len(s)
    BY <1>0, <2>1, <2>2
  <2> QED
    BY <1>0, <1>4, <2>2
<1>6. \A k \in 0 .. Len(s) : k \in P
  <2> HIDE DEF P
  <2> QED
    BY <1>0, <1>5, InductionUpto
<1> QED
  BY <1>3, <1>4, <1>6

\* The code's accumulation of the same prefixes: up to the first value that does not
\* fit it is that value, and then it stands above U32Max.
LEMMA MantissasOfPrefixes ==
    ASSUME NEW s \in Seq(Digits)
    PROVE  /\ Mantissas(s) \in [0 .. Len(s) -> Nat]
           /\ \A k \in 0 .. Len(s) :
                 \/ Mantissas(s)[k] = Values(s)[k]
                 \/ Mantissas(s)[k] > U32Max /\ Values(s)[k] > U32Max
<1> DEFINE D == 0 .. Len(s)
           rank == [k \in D |-> k]
           base == [k \in D |-> 0]
           prev == [k \in D |-> IF k = 0 THEN 0 ELSE k - 1]
           step == [p \in D \X Nat |-> IF p[1] = 0 THEN 0 ELSE Push(p[2], s[p[1]])]
<1>0. Len(s) \in Nat /\ \A k \in 1 .. Len(s) : s[k] \in 0 .. 9
  BY DEF Digits
<1>p. \A m \in Nat, c \in 0 .. 9 : /\ Push(m, c) \in Nat
                                   /\ m <= U32Max => Push(m, c) = 10 * m + c
                                   /\ m > U32Max => Push(m, c) = m
  BY WidthAssumption DEF Push
<1>1. PICK g \in [D -> Nat] : Solves(g, D, {0}, base, prev, step)
  <2>1. Descends(D, {0}, rank, prev) /\ base \in [D -> Nat] /\ Nat # {}
    BY <1>0 DEF Descends
  <2>2. step \in [D \X Nat -> Nat]
    <3>1. ASSUME NEW k \in D, NEW m \in Nat, k # 0 PROVE Push(m, s[k]) \in Nat
      <4>1. s[k] \in 0 .. 9
        BY <1>0, <3>1
      <4> QED
        BY <1>p, <4>1, Zenon
    <3> QED
      BY <3>1
  <2> HIDE DEF rank, base, prev, step, D
  <2> QED
    BY <2>1, <2>2, Recursion, Zenon
<1>2. g = [k \in 0 .. Len(s) |-> IF k = 0 THEN 0 ELSE Push(g[k - 1], s[k])]
  <2>1. \A k \in D, m \in Nat : step[<<k, m>>] = IF k = 0 THEN 0 ELSE Push(m, s[k])
    OBVIOUS
  <2>2. \A k \in D : g[k] = IF k \in {0} THEN base[k] ELSE step[<<k, g[prev[k]]>>]
    BY <1>1 DEF Solves
  <2>3. \A k \in D : prev[k] \in D /\ (k # 0 => prev[k] = k - 1) /\ base[k] = 0
    BY <1>0
  <2> HIDE DEF step, prev, base
  <2>4. ASSUME NEW k \in D PROVE g[k] = IF k = 0 THEN 0 ELSE Push(g[k - 1], s[k])
    <3>1. g[prev[k]] \in Nat
      BY <2>3
    <3>2. step[<<k, g[prev[k]]>>] = IF k = 0 THEN 0 ELSE Push(g[prev[k]], s[k])
      BY <2>1, <3>1, Zenon
    <3> QED
      BY <2>2, <2>3, <3>2, Zenon
  <2> QED
    BY <2>4
<1>3. Mantissas(s) = [k \in 0 .. Len(s) |-> IF k = 0 THEN 0 ELSE Push(Mantissas(s)[k - 1], s[k])]
  BY <1>2 DEF Mantissas
<1> DEFINE m == Mantissas(s)
           v == Values(s)
           P == {k \in 0 .. Len(s) : m[k] \in Nat /\ (m[k] = v[k] \/ (m[k] > U32Max /\ v[k] > U32Max))}
<1>4. m[0] = 0 /\ \A k \in 1 .. Len(s) : m[k] = Push(m[k - 1], s[k])
  BY <1>0, <1>3
<1>5. v \in [0 .. Len(s) -> Nat] /\ v[0] = 0 /\ \A k \in 1 .. Len(s) : v[k] = 10 * v[k - 1] + s[k]
  <2>1. s \in Seq(Nat)
    BY DEF Digits
  <2> QED
    BY <2>1, ValuesOfPrefixes
<1>6. 0 \in P /\ \A k \in 0 .. Len(s) - 1 : k \in P => k + 1 \in P
  <2> HIDE DEF m, v
  <2>1. 0 \in P
    BY <1>0, <1>4, <1>5
  <2>2. ASSUME NEW k \in 0 .. Len(s) - 1, k \in P PROVE k + 1 \in P
    <3>1. k \in 0 .. Len(s) /\ k + 1 \in 1 .. Len(s) /\ (k + 1) - 1 = k
      BY <1>0
    <3>2. m[k + 1] = Push(m[k], s[k + 1]) /\ v[k + 1] = 10 * v[k] + s[k + 1]
      BY <1>4, <1>5, <3>1
    <3>3. s[k + 1] \in 0 .. 9 /\ m[k] \in Nat
      BY <1>0, <2>2, <3>1
    <3>v. v[k] \in Nat /\ v[k + 1] \in Nat
      BY <1>5, <3>1
    <3>4. m[k + 1] \in Nat /\ (m[k] <= U32Max => m[k + 1] = 10 * m[k] + s[k + 1])
                          /\ (m[k] > U32Max => m[k + 1] = m[k])
      BY <1>p, <3>2, <3>3
    <3>5. (m[k] = v[k] \/ (m[k] > U32Max /\ v[k] > U32Max))
      BY <2>2
    <3>6. m[k + 1] = v[k + 1] \/ (m[k + 1] > U32Max /\ v[k + 1] > U32Max)
      <4> DEFINE a == m[k] b == v[k] c == s[k + 1] e == m[k + 1] f == v[k + 1]
      <4>1. /\ f = 10 * b + c /\ c \in 0 .. 9 /\ a \in Nat /\ b \in Nat /\ e \in Nat
            /\ (a <= U32Max => e = 10 * a + c) /\ (a > U32Max => e = a)
            /\ (a = b \/ (a > U32Max /\ b > U32Max))
        BY <3>2, <3>3, <3>v, <3>4, <3>5, Zenon
      <4> HIDE DEF a, b, c, e, f
      <4>2. e = f \/ (e > U32Max /\ f > U32Max)
        BY <4>1, WidthAssumption
      <4> QED
        BY <4>2 DEF e, f
    <3> QED
      BY <3>1, <3>4, <3>6
  <2> QED
    BY <2>1, <2>2
<1>7. \A k \in 0 .. Len(s) : k \in P
  <2> HIDE DEF P
  <2> QED
    BY <1>0, <1>6, InductionUpto
<1> QED
  BY <1>3, <1>7

\* Two strings with the same beginning have the same values there.
LEMMA SameBeginning ==
    ASSUME NEW s \in Seq(Nat), NEW t \in Seq(Nat), NEW j \in Nat, j <= Len(s), j <= Len(t),
           \A i \in 1 .. j : s[i] = t[i]
    PROVE  \A i \in 0 .. j : Values(s)[i] = Values(t)[i]
<1> DEFINE v == Values(s)
           w == Values(t)
           P == {i \in 0 .. j : v[i] = w[i]}
<1>1. v[0] = 0 /\ \A k \in 1 .. Len(s) : v[k] = 10 * v[k - 1] + s[k]
  BY ValuesOfPrefixes
<1>2. w[0] = 0 /\ \A k \in 1 .. Len(t) : w[k] = 10 * w[k - 1] + t[k]
  BY ValuesOfPrefixes
<1> HIDE DEF v, w
<1>3. 0 \in P
  BY <1>1, <1>2
<1>4. ASSUME NEW i \in 0 .. j - 1, i \in P PROVE i + 1 \in P
  <2>1. i + 1 \in 1 .. j /\ i + 1 \in 1 .. Len(s) /\ i + 1 \in 1 .. Len(t) /\ (i + 1) - 1 = i
    OBVIOUS
  <2>2. v[i + 1] = 10 * v[i] + s[i + 1] /\ w[i + 1] = 10 * w[i] + t[i + 1]
    BY <1>1, <1>2, <2>1
  <2>3. s[i + 1] = t[i + 1] /\ v[i] = w[i]
    BY <1>4, <2>1
  <2> QED
    BY <2>1, <2>2, <2>3
<1>5. \A i \in 0 .. j : i \in P
  <2> HIDE DEF P
  <2> QED
    BY <1>3, <1>4, InductionUpto
<1> QED
  BY <1>5 DEF v, w

\* k digits more: the value before them times 10^k, and less than one of these more.
LEMMA MoreDigits ==
    ASSUME NEW s \in Seq(Digits), NEW j \in 0 .. Len(s)
    PROVE  \A k \in 0 .. Len(s) - j :
              /\ Values(s)[j] * Pow10[k] <= Values(s)[j + k]
              /\ Values(s)[j + k] < (Values(s)[j] + 1) * Pow10[k]
              /\ (\A i \in j + 1 .. Len(s) : s[i] = 0) => Values(s)[j + k] = Values(s)[j] * Pow10[k]
<1> DEFINE v == Values(s)
           N == Len(s) - j
           zeros == \A i \in j + 1 .. Len(s) : s[i] = 0
           P == {k \in 0 .. N : /\ v[j] * Pow10[k] <= v[j + k]
                                /\ v[j + k] < (v[j] + 1) * Pow10[k]
                                /\ zeros => v[j + k] = v[j] * Pow10[k]}
<1>1. v \in [0 .. Len(s) -> Nat] /\ \A k \in 1 .. Len(s) : v[k] = 10 * v[k - 1] + s[k]
  <2>1. s \in Seq(Nat)
    BY DEF Digits
  <2> QED
    BY <2>1, ValuesOfPrefixes
<1>2. N \in Nat /\ Len(s) \in Nat /\ v[j] \in Nat /\ \A k \in 1 .. Len(s) : s[k] \in 0 .. 9
  BY <1>1 DEF Digits
<1>3. 0 \in P
  <2>1. Pow10[0] = 1 /\ j + 0 = j /\ v[j] \in Nat
    BY <1>2, PowersOfTen
  <2> HIDE DEF v
  <2>2. v[j] * 1 <= v[j] /\ v[j] < (v[j] + 1) * 1 /\ v[j] = v[j] * 1
    BY <2>1
  <2> QED
    BY <1>2, <2>1, <2>2
<1>4. ASSUME NEW k \in 0 .. N - 1, k \in P PROVE k + 1 \in P
  <2> DEFINE a == v[j]  b == v[j + k]  e == v[j + (k + 1)]  c == s[j + (k + 1)]  p == Pow10[k]  q == Pow10[k + 1]
  <2>1. j + (k + 1) \in 1 .. Len(s) /\ (j + (k + 1)) - 1 = j + k /\ j + k \in 0 .. Len(s) /\ k + 1 \in 0 .. N
    BY <1>2
  <2>2. e = 10 * b + c /\ c \in 0 .. 9 /\ (zeros => c = 0) /\ b \in Nat /\ a \in Nat /\ e \in Nat
    <3> DEFINE m == j + (k + 1)  i == j + k
    <3>0. m \in 1 .. Len(s) /\ m - 1 = i /\ i \in 0 .. Len(s) /\ m \in 0 .. Len(s)
      BY <1>2, <2>1
    <3> HIDE DEF m, i, v
    <3>1. e = 10 * b + c
      <4>1. v[m] = 10 * v[m - 1] + s[m]
        BY <1>1, <3>0, Zenon
      <4>2. v[m] = 10 * v[i] + s[m]
        BY <3>0, <4>1, Zenon
      <4> QED
        BY <4>2, Zenon DEF m, i
    <3>2. b \in Nat /\ e \in Nat
      <4>1. v[m] \in Nat /\ v[i] \in Nat
        BY <1>1, <3>0
      <4> QED
        BY <4>1, Zenon DEF m, i
    <3>3. c \in 0 .. 9
      BY <1>2, <2>1
    <3>4. zeros => c = 0
      BY <1>2, <2>1
    <3> QED
      BY <1>2, <3>1, <3>2, <3>3, <3>4, Zenon
  <2>3. p \in Nat /\ p > 0 /\ q = 10 * p
    <3>1. k \in Nat
      BY <1>2
    <3> QED
      BY <3>1, PowersOfTen, Zenon
  <2>4. a * p <= b /\ b < (a + 1) * p /\ (zeros => b = a * p)
    BY <1>4
  <2>5. a * q <= e /\ e < (a + 1) * q /\ (zeros => e = a * q)
    <3> HIDE DEF a, b, e, c, p, q, zeros
    <3>1. a * q = 10 * (a * p) /\ (a + 1) * q = 10 * ((a + 1) * p) /\ a * p \in Nat /\ (a + 1) * p \in Nat
      BY <2>2, <2>3
    <3> DEFINE x == a * p  y == (a + 1) * p
    <3> QED
      BY <2>2, <2>4, <3>1
  <2> QED
    BY <2>1, <2>5
<1>5. \A k \in 0 .. N : k \in P
  <2> HIDE DEF P, N
  <2> QED
    BY <1>2, <1>3, <1>4, InductionUpto
<1> QED
  BY <1>5 DEF P, v, zeros, N

\* How a quotient is recognised.
LEMMA Quotient == ASSUME NEW a \in Nat, NEW p \in Nat, p > 0, NEW n \in Nat, a * p <= n, n < (a + 1) * p
                  PROVE  n \div p = a
<1> DEFINE q == n \div p  r == n % p
<1>1. q \in Int /\ r \in Int /\ n = p * q + r /\ 0 <= r /\ r < p
  OBVIOUS
<1> HIDE DEF q, r
<1>2. CASE q < a
  <2>1. q + 1 <= a /\ p * (q + 1) <= p * a
    BY <1>1, <1>2
  <2> QED
    BY <1>1, <2>1
<1>3. CASE q > a
  <2>1. p * (a + 1) <= p * q
    BY <1>1, <1>3
  <2> QED
    BY <1>1, <2>1
<1> QED
  BY <1>1, <1>2, <1>3 DEF q

\* A set of natural numbers with an upper bound has a greatest element.
LEMMA GreatestElement ==
    ASSUME NEW S \in SUBSET Nat, S # {}, NEW b \in Nat, \A n \in S : n <= b
    PROVE  Max(S) \in S /\ \A n \in S : n <= Max(S)
<1> DEFINE T == {b - n : n \in S}
<1>1. T \in SUBSET Nat /\ T # {}
  <2>1. \A n \in S : b - n \in Nat
    OBVIOUS
  <2> QED
    BY <2>1
<1>2. PICK m \in T : \A k \in T : m <= k
  BY <1>1, LeastNatural, Zenon
<1>3. PICK g \in S : m = b - g
  BY <1>2
<1>4. \A n \in S : n <= g
  <2> TAKE n \in S
  <2>1. b - n \in T /\ n \in Nat /\ g \in Nat
    BY <1>3
  <2> QED
    BY <1>2, <1>3, <2>1
<1>5. g \in S /\ \A n \in S : n <= g
  BY <1>3, <1>4
<1> QED
  BY <1>5 DEF Max

\* The least of some naturals.
LEMMA LeastElement ==
    ASSUME NEW S \in SUBSET Nat, S # {}
    PROVE  Min(S) \in S /\ \A n \in S : Min(S) <= n
<1>1. \E m \in S : \A n \in S : m <= n
  BY LeastNatural
<1> QED
  BY <1>1 DEF Min

\* A sequence over fewer values is one over more.
LEMMA WiderSeq == ASSUME NEW S, NEW T, S \subseteq T, NEW s \in Seq(S) PROVE s \in Seq(T)
OBVIOUS

\* A concatenation, element by element.
LEMMA Concat ==
    ASSUME NEW C, NEW s \in Seq(C), NEW t \in Seq(C)
    PROVE  /\ s \o t \in Seq(C) /\ Len(s \o t) = Len(s) + Len(t)
           /\ \A i \in 1 .. Len(s) : (s \o t)[i] = s[i]
           /\ \A i \in 1 .. Len(t) : (s \o t)[Len(s) + i] = t[i]
           /\ \A i \in 1 .. Len(s) + Len(t) : (s \o t)[i] = IF i <= Len(s) THEN s[i] ELSE t[i - Len(s)]
OBVIOUS

\* What mantissa_at goes through, for a valid text: its digits up to the scale.
LEMMA ReadDigits ==
    ASSUME NEW n \in Texts, NEW sc \in Nat
    PROVE  /\ Read(n, sc) \in Seq(Digits \cup {Other})
           /\ Len(Read(n, sc)) = Len(n.int) + sc
           /\ \A i \in 1 .. Len(n.int) + sc :
                Read(n, sc)[i] = IF i <= Len(n.int) THEN n.int[i]
                                 ELSE IF i <= Len(n.int) + Len(n.frac) THEN n.frac[i - Len(n.int)] ELSE 0
<1> DEFINE f == [k \in 1 .. sc |-> IF k <= Len(n.frac) THEN n.frac[k] ELSE 0]
           C == Digits \cup {Other}
<1>1. n.int \in Seq(C) /\ n.frac \in Seq(C) /\ 0 \in C
  BY DEF Texts, Digits
<1>2. f \in Seq(C) /\ Len(f) = sc
  <2>1. ASSUME NEW k \in 1 .. sc PROVE f[k] \in C
    <3> HIDE DEF C
    <3> QED
      BY <1>1
  <2> HIDE DEF C
  <2>2. f \in [1 .. sc -> C]
    BY <2>1
  <2> QED
    BY <2>2
<1>3. Read(n, sc) = n.int \o f
  BY DEF Read
<1>4. n.int \o f \in Seq(C) /\ Len(n.int \o f) = Len(n.int) + sc
  <2> HIDE DEF f, C
  <2> QED
    BY <1>1, <1>2
<1>5. ASSUME NEW i \in 1 .. Len(n.int) + sc
      PROVE  (n.int \o f)[i] = IF i <= Len(n.int) THEN n.int[i] ELSE f[i - Len(n.int)]
  <2> HIDE DEF f, C
  <2> QED
    BY <1>1, <1>2
<1>6. ASSUME NEW i \in 1 .. Len(n.int) + sc, i > Len(n.int)
      PROVE  f[i - Len(n.int)] = IF i <= Len(n.int) + Len(n.frac) THEN n.frac[i - Len(n.int)] ELSE 0
  <2>1. Len(n.int) \in Nat /\ Len(n.frac) \in Nat
    BY <1>1
  <2>2. i - Len(n.int) \in 1 .. sc /\ (i - Len(n.int) <= Len(n.frac) <=> i <= Len(n.int) + Len(n.frac))
    <3> DEFINE a == Len(n.int)  b == Len(n.frac)
    <3>1. a \in Nat /\ b \in Nat /\ i \in 1 .. a + sc /\ i > a
      BY <2>1, <1>6
    <3> HIDE DEF a, b
    <3>2. i - a \in 1 .. sc /\ (i - a <= b <=> i <= a + b)
      BY <3>1
    <3> QED
      BY <3>2 DEF a, b
  <2>3. f[i - Len(n.int)] = IF i - Len(n.int) <= Len(n.frac) THEN n.frac[i - Len(n.int)] ELSE 0
    BY <2>2, Zenon
  <2> QED
    BY <2>2, <2>3, Zenon
<1> HIDE DEF f
<1>7. ASSUME NEW i \in 1 .. Len(n.int) + sc
      PROVE Read(n, sc)[i] = IF i <= Len(n.int) THEN n.int[i]
                             ELSE IF i <= Len(n.int) + Len(n.frac) THEN n.frac[i - Len(n.int)] ELSE 0
  <2>1. Len(n.int) \in Nat /\ i \in Int /\ (i <= Len(n.int) \/ i > Len(n.int))
    BY <1>1
  <2> QED
    BY <1>3, <1>5, <1>6, <2>1, Zenon
<1> QED
  BY <1>3, <1>4, <1>7

\* Two sequences one after the other are over what either is over.
LEMMA BothIn ==
    ASSUME NEW C, NEW D, NEW s \in Seq(C), NEW t \in Seq(C), Range(s \o t) \subseteq D
    PROVE  s \in Seq(D) /\ t \in Seq(D) /\ s \o t \in Seq(D)
<1> DEFINE u == s \o t
<1>1. /\ u \in Seq(C) /\ Len(u) = Len(s) + Len(t)
      /\ \A i \in 1 .. Len(s) : u[i] = s[i]
      /\ \A i \in 1 .. Len(t) : u[Len(s) + i] = t[i]
  OBVIOUS
<1> HIDE DEF u
<1>2. ASSUME NEW i \in 1 .. Len(u) PROVE u[i] \in D
  <2>1. i \in DOMAIN u
    BY <1>1
  <2> QED
    BY <2>1 DEF Range, u
<1>3. ASSUME NEW i \in 1 .. Len(s) PROVE s[i] \in D
  <2>1. i \in 1 .. Len(u)
    BY <1>1
  <2> QED
    BY <1>1, <1>2, <2>1
<1>4. ASSUME NEW i \in 1 .. Len(t) PROVE t[i] \in D
  <2>1. Len(s) + i \in 1 .. Len(u)
    BY <1>1
  <2> QED
    BY <1>1, <1>2, <2>1
<1>5. u \in Seq(D)
  BY <1>1, <1>2
<1> QED
  BY <1>3, <1>4, <1>5 DEF u

\* A valid number has digits and nothing else.
LEMMA ValidDigits ==
    ASSUME NEW n \in Texts, Valid(n)
    PROVE  n.int \in Seq(Digits) /\ n.frac \in Seq(Digits) /\ n.int \o n.frac \in Seq(Digits) /\ ~n.neg
<1>1. n.int \in Seq(Digits \cup {Other}) /\ n.frac \in Seq(Digits \cup {Other})
  BY DEF Texts
<1>2. Range(n.int \o n.frac) \subseteq Digits /\ ~n.neg
  BY DEF Valid
<1> QED
  BY <1>1, <1>2, BothIn, Zenon

\* Those digits have the exact value.
LEMMA ReadIsExact ==
    ASSUME NEW n \in Texts, Valid(n), NEW sc \in Nat
    PROVE  Read(n, sc) \in Seq(Digits) /\ ValueOf(Read(n, sc)) = ExactAt(n, sc) /\ ExactAt(n, sc) \in Nat
<1> DEFINE s == n.int \o n.frac
           t == Read(n, sc)
           a == Len(n.int)
           f == Len(n.frac)
<1>1. /\ n.int \in Seq(Digits) /\ n.frac \in Seq(Digits) /\ s \in Seq(Digits) /\ a \in Nat /\ f \in Nat
      /\ Len(s) = a + f
      /\ \A i \in 1 .. a + f : s[i] = IF i <= a THEN n.int[i] ELSE n.frac[i - a]
  <2>1. n.int \in Seq(Digits) /\ n.frac \in Seq(Digits) /\ s \in Seq(Digits)
    BY ValidDigits
  <2> DEFINE x == n.int  y == n.frac
  <2>2. x \in Seq(Digits) /\ y \in Seq(Digits)
    BY <2>1
  <2> HIDE DEF x, y
  <2>3. /\ Len(x) \in Nat /\ Len(y) \in Nat /\ Len(x \o y) = Len(x) + Len(y)
        /\ \A i \in 1 .. Len(x) + Len(y) : (x \o y)[i] = IF i <= Len(x) THEN x[i] ELSE y[i - Len(x)]
    BY <2>2
  <2> QED
    BY <2>1, <2>3 DEF x, y
<1>2. /\ t \in Seq(Digits \cup {Other}) /\ Len(t) = a + sc
      /\ \A i \in 1 .. a + sc : t[i] = IF i <= a THEN n.int[i] ELSE IF i <= a + f THEN n.frac[i - a] ELSE 0
  BY ReadDigits
<1> HIDE DEF s, t, a, f
<1>3. ASSUME NEW i \in 1 .. a + sc PROVE (i <= a + f => t[i] = s[i]) /\ (i > a + f => t[i] = 0)
  <2>1. i <= a + f => i \in 1 .. a + f
    BY <1>1
  <2>2. i > a + f => ~(i <= a + f) /\ ~(i <= a)
    BY <1>1
  <2> QED
    BY <1>1, <1>2, <2>1, <2>2, Zenon
<1>4. t \in Seq(Digits)
  <2>1. \A i \in 1 .. a + sc : t[i] \in Digits
    <3>1. 0 \in Digits
      BY DEF Digits
    <3>2. \A i \in 1 .. a + f : s[i] \in Digits
      BY <1>1
    <3>3. \A i \in 1 .. a + sc : i \in 1 .. a + f \/ i > a + f
      BY <1>1
    <3>4. \A i \in 1 .. a + f : i <= a + f
      BY <1>1
    <3> QED
      BY <1>3, <3>1, <3>2, <3>3, <3>4, Zenon
  <2> QED
    BY <1>2, <2>1
<1>5. s \in Seq(Nat) /\ t \in Seq(Nat)
  <2>1. Digits \subseteq Nat /\ s \in Seq(Digits)
    BY <1>1 DEF Digits
  <2> QED
    BY <2>1, <1>4, WiderSeq, Zenon
<1>6. Values(s) \in [0 .. a + f -> Nat] /\ Values(t) \in [0 .. a + sc -> Nat]
  BY <1>1, <1>2, <1>5, ValuesOfPrefixes
<1>7. CASE f >= sc
  <2>1. \A i \in 0 .. a + sc : Values(s)[i] = Values(t)[i]
    <3>1. a + sc \in Nat /\ a + sc <= Len(s) /\ a + sc <= Len(t) /\ \A i \in 1 .. a + sc : s[i] = t[i]
      BY <1>1, <1>2, <1>3, <1>7
    <3> QED
      BY <3>1, <1>5, SameBeginning
  <2> DEFINE j == a + sc  k == f - sc  v == Values(s)[j]  w == Values(s)[j + k]  p == Pow10[k]
  <2>2. j \in 0 .. Len(s) /\ k \in 0 .. Len(s) - j /\ k \in Nat /\ j + k = a + f
    BY <1>1, <1>7
  <2>3. v * p <= w /\ w < (v + 1) * p
    <3> HIDE DEF j, k
    <3> QED
      BY <1>1, <2>2, MoreDigits
  <2>4. v \in Nat /\ w \in Nat /\ p \in Nat /\ p > 0
    <3>1. v \in Nat /\ w \in Nat
      <4>1. j \in 0 .. a + f /\ j + k \in 0 .. a + f
        BY <1>1, <2>2
      <4> HIDE DEF j, k
      <4> QED
        BY <1>6, <4>1
    <3>2. p \in Nat /\ p > 0
      BY <2>2, PowersOfTen
    <3> QED
      BY <3>1, <3>2
  <2>5. w \div p = v
    <3> HIDE DEF v, w, p
    <3> QED
      BY <2>3, <2>4, Quotient
  <2>6. ExactAt(n, sc) = w \div p
    <3>1. ExactAt(n, sc) = ValueOf(s) \div Pow10[f - sc]
      BY <1>7 DEF ExactAt, s, f
    <3>2. ValueOf(s) = w
      BY <1>1, <2>2 DEF ValueOf
    <3> QED
      BY <3>1, <3>2
  <2>7. ValueOf(t) = v
    <3>1. j \in 0 .. a + sc
      BY <1>1
    <3> QED
      BY <1>2, <2>1, <3>1 DEF ValueOf
  <2> QED
    BY <1>4, <2>4, <2>5, <2>6, <2>7 DEF t
<1>8. CASE f < sc
  <2> DEFINE j == a + f  k == sc - f  v == Values(t)[j]
  <2>1. j \in 0 .. Len(t) /\ k \in 0 .. Len(t) - j /\ k \in Nat /\ j + k = a + sc /\ j \in Nat
    BY <1>1, <1>2, <1>8
  <2>2. \A i \in 0 .. j : Values(s)[i] = Values(t)[i]
    <3>1. j <= Len(s) /\ j <= Len(t) /\ \A i \in 1 .. j : s[i] = t[i]
      BY <1>1, <1>2, <1>3, <1>8
    <3> HIDE DEF j
    <3> QED
      BY <2>1, <3>1, <1>5, SameBeginning
  <2>3. Values(t)[j + k] = v * Pow10[k]
    <3>1. \A i \in j + 1 .. Len(t) : t[i] = 0
      BY <1>1, <1>2, <1>3
    <3> HIDE DEF j, k
    <3> QED
      BY <1>4, <2>1, <3>1, MoreDigits
  <2>4. ExactAt(n, sc) = ValueOf(s) * Pow10[k]
    <3>1. ~(Len(n.frac) >= sc)
      BY <1>1, <1>8 DEF f
    <3> QED
      BY <3>1 DEF ExactAt, s, f
  <2>5. ValueOf(s) = v
    <3>1. Len(s) = j /\ j \in 0 .. j
      BY <1>1, <2>1
    <3> QED
      BY <2>2, <3>1 DEF ValueOf
  <2>6. ValueOf(t) = Values(t)[j + k]
    BY <1>2, <2>1 DEF ValueOf
  <2>7. Values(t)[j + k] \in Nat
    BY <1>1, <1>6, <2>1
  <2> QED
    BY <1>4, <2>3, <2>4, <2>5, <2>6, <2>7 DEF t
<1> QED
  BY <1>1, <1>7, <1>8

\* A mantissa is a natural number, unless the text is no number.
LEMMA MantissaIsNat ==
    ASSUME NEW n \in Texts, NEW sc \in Nat
    PROVE  mantissa_at(n, sc) \in Nat \cup {IllFormed}
<1> DEFINE s == Read(n, sc)
<1>1. s \in Seq(Digits \cup {Other})
  BY ReadDigits
<1>2. CASE Other \in Range(s)
  BY <1>2 DEF mantissa_at
<1>3. CASE Other \notin Range(s)
  <2> HIDE DEF s
  <2>1. \A i \in 1 .. Len(s) : s[i] \in Digits
    BY <1>1, <1>3 DEF Range
  <2>2. s \in Seq(Digits)
    BY <1>1, <2>1
  <2>3. Mantissas(s) \in [0 .. Len(s) -> Nat] /\ Len(s) \in 0 .. Len(s)
    BY <2>2, MantissasOfPrefixes
  <2>4. Mantissas(s)[Len(s)] \in Nat
    BY <2>3
  <2> QED
    BY <2>4 DEF mantissa_at, s
<1> QED
  BY <1>2, <1>3

\* The mantissa of a valid number: it fits when the exact value does, and is that value.
LEMMA MantissaIsExact ==
    ASSUME NEW n \in Texts, Valid(n), NEW sc \in Nat
    PROVE  /\ mantissa_at(n, sc) \in Nat /\ ExactAt(n, sc) \in Nat
           /\ Fits(mantissa_at(n, sc)) => mantissa_at(n, sc) = ExactAt(n, sc)
           /\ ~Fits(mantissa_at(n, sc)) => ExactAt(n, sc) > U32Max
<1> DEFINE s == Read(n, sc)
           m == Mantissas(s)[Len(s)]
           v == ValueOf(s)
<1>1. s \in Seq(Digits) /\ v = ExactAt(n, sc) /\ ExactAt(n, sc) \in Nat
  BY ReadIsExact
<1> HIDE DEF s
<1>2. Len(s) \in 0 .. Len(s)
  BY <1>1
<1>3. m \in Nat /\ (m = v \/ (m > U32Max /\ v > U32Max))
  BY <1>1, <1>2, MantissasOfPrefixes DEF ValueOf
<1>4. mantissa_at(n, sc) = m
  <2>1. Other \notin Range(s)
    <3>1. \A i \in DOMAIN s : s[i] # Other
      BY <1>1 DEF Digits, Other
    <3> QED
      BY <3>1 DEF Range
  <2>2. ~n.neg /\ ~(n.int = <<>> /\ n.frac = <<>>)
    BY DEF Valid
  <2> QED
    BY <2>1, <2>2 DEF mantissa_at, s
<1> HIDE DEF m, v
<1> QED
  BY <1>1, <1>3, <1>4, WidthAssumption DEF Fits

\* At scale 0 it is the value of the integer part.
LEMMA IntegerPart ==
    ASSUME NEW n \in Texts, Valid(n)
    PROVE  ExactAt(n, 0) = ValueOf(n.int)
<1>1. ValueOf(Read(n, 0)) = ExactAt(n, 0)
  BY ReadIsExact
<1>2. n.int \in Seq(Digits)
  BY ValidDigits
<1>3. Read(n, 0) = n.int
  <2> DEFINE x == n.int  y == [k \in 1 .. 0 |-> IF k <= Len(n.frac) THEN n.frac[k] ELSE 0]
  <2>1. y = <<>>
    OBVIOUS
  <2>2. x \o y = x
    <3> HIDE DEF x, y
    <3>1. x \in Seq(Digits)
      BY <1>2 DEF x
    <3> QED
      BY <2>1, <3>1
  <2> QED
    BY <2>2 DEF Read
<1> QED
  BY <1>1, <1>3

\* How many decimals a text has.
LEMMA DecimalsAreNat == ASSUME NEW n \in Texts PROVE decimals_of(n) \in Nat
<1> DEFINE S == {0} \cup {k \in DOMAIN n.frac : n.frac[k] # 0}
           b == Len(n.frac)
<1>1. n.frac \in Seq(Digits \cup {Other})
  BY DEF Texts
<1>2. b \in Nat /\ DOMAIN n.frac = 1 .. b
  BY <1>1
<1>3. S \in SUBSET Nat /\ S # {} /\ \A k \in S : k <= b
  <2> HIDE DEF b
  <2> QED
    BY <1>2
<1>4. Max(S) \in S
  <2> HIDE DEF S, b
  <2> QED
    BY <1>2, <1>3, GreatestElement
<1> HIDE DEF b
<1> QED
  BY <1>3, <1>4 DEF decimals_of

\* The values of a function on 1 .. n are bounded.
LEMMA Bounded ==
    ASSUME NEW N \in Nat, NEW f \in [1 .. N -> Nat]
    PROVE  \E b \in Nat : \A k \in 1 .. N : f[k] <= b
<1> DEFINE P == {n \in 0 .. N : \E b \in Nat : \A k \in 1 .. n : f[k] <= b}
<1>1. 0 \in P
  OBVIOUS
<1>2. ASSUME NEW n \in 0 .. N - 1, n \in P PROVE n + 1 \in P
  <2>1. PICK b \in Nat : \A k \in 1 .. n : f[k] <= b
    BY <1>2
  <2>2. n + 1 \in 1 .. N /\ f[n + 1] \in Nat
    OBVIOUS
  <2>3. PICK c \in Nat : b <= c /\ f[n + 1] <= c
    <3>1. b <= b + f[n + 1] /\ f[n + 1] <= b + f[n + 1] /\ b + f[n + 1] \in Nat
      BY <2>2
    <3> QED
      BY <3>1
  <2>4. \A k \in 1 .. n + 1 : f[k] <= c
    <3> TAKE k \in 1 .. n + 1
    <3>1. k \in 1 .. n \/ k = n + 1
      OBVIOUS
    <3>2. k \in 1 .. n => f[k] <= b /\ f[k] \in Nat
      BY <2>1
    <3> QED
      BY <2>3, <3>1, <3>2
  <2> QED
    BY <2>2, <2>4
<1>3. \A n \in 0 .. N : n \in P
  <2> HIDE DEF P
  <2> QED
    BY <1>1, <1>2, InductionUpto
<1>4. N \in P
  <2>1. N \in 0 .. N
    OBVIOUS
  <2> HIDE DEF P
  <2> QED
    BY <1>3, <2>1
<1> QED
  BY <1>4

\* The loop starts at the greatest number of decimals.
LEMMA InitialScaleIsGreatest ==
    ASSUME NEW group \in Seq(Texts), group # <<>>
    PROVE  /\ InitialScale(group) \in Nat
           /\ \E k \in DOMAIN group : InitialScale(group) = decimals_of(group[k])
<1> DEFINE d == [k \in 1 .. Len(group) |-> decimals_of(group[k])]
           S == {decimals_of(group[k]) : k \in DOMAIN group}
<1>1. d \in [1 .. Len(group) -> Nat] /\ Len(group) \in Nat /\ 1 \in DOMAIN group /\ DOMAIN group = 1 .. Len(group)
  BY DecimalsAreNat
<1>2. PICK b \in Nat : \A k \in 1 .. Len(group) : d[k] <= b
  <2> HIDE DEF d
  <2> QED
    BY <1>1, Bounded
<1>3. S \in SUBSET Nat /\ S # {} /\ \A n \in S : n <= b
  BY <1>1, <1>2
<1>4. Max(S) \in S
  <2> HIDE DEF S
  <2> QED
    BY <1>3, GreatestElement
<1> QED
  BY <1>3, <1>4 DEF InitialScale

\* The loop of encode_group from a scale on, as an equation.
LEMMA AttemptsEquation ==
    ASSUME NEW group \in Seq(Texts), group # <<>>
    PROVE  \A sc \in -1 .. InitialScale(group) :
              LET m == mantissas_at(group, sc)
              IN  Attempts(group)[sc] =
                      IF sc < 0 THEN NotEncoded("ScaleOverflow")
                      ELSE IF InTheWay(m) = {} THEN Encoded(sc, m)
                      ELSE IF m[Min(InTheWay(m))] = IllFormed THEN NotEncoded("CsvParse")
                      ELSE Attempts(group)[sc - 1]
<1> DEFINE I == InitialScale(group)
           D == -1 .. I
           m(sc) == mantissas_at(group, sc)
           B == {sc \in D : sc < 0 \/ InTheWay(m(sc)) = {} \/ m(sc)[Min(InTheWay(m(sc)))] = IllFormed}
           base == [sc \in D |-> IF sc < 0 THEN NotEncoded("ScaleOverflow")
                                 ELSE IF InTheWay(m(sc)) = {} THEN Encoded(sc, m(sc))
                                 ELSE NotEncoded("CsvParse")]
           S == {base[sc] : sc \in D}
           rank == [sc \in D |-> sc + 1]
           prev == [sc \in D |-> IF sc < 0 THEN sc ELSE sc - 1]
           step == [p \in D \X S |-> p[2]]
<1>0. I \in Nat
  BY InitialScaleIsGreatest
<1> HIDE DEF I
<1>1. PICK g \in [D -> S] : Solves(g, D, B, base, prev, step)
  <2>1. Descends(D, B, rank, prev)
    <3>1. rank \in [D -> Nat] /\ prev \in [D -> D]
      BY <1>0
    <3>2. \A sc \in D : sc \notin B => sc >= 0
      OBVIOUS
    <3>3. \A sc \in D : sc >= 0 => rank[prev[sc]] < rank[sc]
      BY <1>0
    <3> HIDE DEF rank, prev, D, B
    <3> QED
      BY <3>1, <3>2, <3>3, Zenon DEF Descends
  <2>2. base \in [D -> S] /\ step \in [D \X S -> S]
    <3> HIDE DEF D
    <3>1. \A sc \in D : base[sc] \in S
      OBVIOUS
    <3> HIDE DEF S
    <3> QED
      BY <3>1
  <2>3. S # {}
    <3>1. -1 \in D
      BY <1>0
    <3> HIDE DEF D, base
    <3> QED
      BY <3>1
  <2> HIDE DEF rank, base, prev, step, D, B, S
  <2> QED
    BY <2>1, <2>2, <2>3, Recursion, Zenon
<1>2. ASSUME NEW sc \in D
      PROVE  g[sc] = IF sc < 0 THEN NotEncoded("ScaleOverflow")
                     ELSE IF InTheWay(m(sc)) = {} THEN Encoded(sc, m(sc))
                     ELSE IF m(sc)[Min(InTheWay(m(sc)))] = IllFormed THEN NotEncoded("CsvParse")
                     ELSE g[sc - 1]
  <2>1. g[sc] = IF sc \in B THEN base[sc] ELSE step[<<sc, g[prev[sc]]>>]
    <3> HIDE DEF base, prev, step, D, B, S
    <3> QED
      BY <1>1 DEF Solves
  <2>2. sc \in B => base[sc] = IF sc < 0 THEN NotEncoded("ScaleOverflow")
                               ELSE IF InTheWay(m(sc)) = {} THEN Encoded(sc, m(sc))
                               ELSE NotEncoded("CsvParse")
    <3> HIDE DEF D, B
    <3> QED
      OBVIOUS
  <2>3. sc \notin B => step[<<sc, g[prev[sc]]>>] = g[sc - 1]
    <3> SUFFICES ASSUME sc \notin B PROVE step[<<sc, g[prev[sc]]>>] = g[sc - 1]
      OBVIOUS
    <3>1. ~(sc < 0)
      OBVIOUS
    <3>2. prev[sc] = sc - 1
      BY <3>1
    <3>3. prev[sc] \in D
      BY <1>0, <3>1
    <3> HIDE DEF D, S, prev
    <3>4. step[<<sc, g[prev[sc]]>>] = g[prev[sc]]
      BY <3>3
    <3> HIDE DEF step
    <3> QED
      BY <3>2, <3>4
  <2>4. sc \in B <=> sc < 0 \/ InTheWay(m(sc)) = {} \/ m(sc)[Min(InTheWay(m(sc)))] = IllFormed
    <3> HIDE DEF D, m
    <3> QED
      OBVIOUS
  <2> HIDE DEF base, step, prev, D, S, B, m
  <2> QED
    BY <2>1, <2>2, <2>3, <2>4, Zenon
<1>3. g = [sc \in -1 .. InitialScale(group) |->
              IF sc < 0 THEN NotEncoded("ScaleOverflow")
              ELSE IF InTheWay(mantissas_at(group, sc)) = {} THEN Encoded(sc, mantissas_at(group, sc))
              ELSE IF mantissas_at(group, sc)[Min(InTheWay(mantissas_at(group, sc)))] = IllFormed THEN NotEncoded("CsvParse")
              ELSE g[NextScale(sc)]]
  BY <1>2, Zenon DEF I, NextScale
<1>4. Attempts(group) = [sc \in -1 .. InitialScale(group) |->
              IF sc < 0 THEN NotEncoded("ScaleOverflow")
              ELSE IF InTheWay(mantissas_at(group, sc)) = {} THEN Encoded(sc, mantissas_at(group, sc))
              ELSE IF mantissas_at(group, sc)[Min(InTheWay(mantissas_at(group, sc)))] = IllFormed THEN NotEncoded("CsvParse")
              ELSE Attempts(group)[NextScale(sc)]]
  BY <1>3, Zenon DEF Attempts
<1> QED
  BY <1>4 DEF NextScale

\* At a scale a member of the group does not fit, a member is no number.
Overflows(group, sc) == \E k \in DOMAIN group : mantissa_at(group[k], sc) # IllFormed /\ ~Fits(mantissa_at(group[k], sc))
Refuses(group, sc) == \E k \in DOMAIN group : mantissa_at(group[k], sc) = IllFormed
\* What the loop may come to from scale sc on.
Settled(group, sc, t) ==
    /\ Attempts(group)[sc] = Encoded(t, mantissas_at(group, t))
    /\ InTheWay(mantissas_at(group, t)) = {}
    /\ \A u \in t + 1 .. sc : Overflows(group, u)

\* What encode_group comes to from each scale on: the greatest scale at which all
\* fits, or the first error met on the way down.
LEMMA AttemptsFrom ==
    ASSUME NEW group \in Seq(Texts), group # <<>>
    PROVE  \A sc \in -1 .. InitialScale(group) :
              \/ \E t \in 0 .. sc : Settled(group, sc, t)
              \/ Attempts(group)[sc] = NotEncoded("CsvParse") /\ \E t \in 0 .. sc : Refuses(group, t)
              \/ Attempts(group)[sc] = NotEncoded("ScaleOverflow") /\ \A t \in 0 .. sc : Overflows(group, t)
<1> DEFINE I == InitialScale(group)
           Holds(sc) == 
              \/ \E t \in 0 .. sc : Settled(group, sc, t)
              \/ Attempts(group)[sc] = NotEncoded("CsvParse") /\ \E t \in 0 .. sc : Refuses(group, t)
              \/ Attempts(group)[sc] = NotEncoded("ScaleOverflow") /\ \A t \in 0 .. sc : Overflows(group, t)
           P == {n \in 0 .. I + 1 : Holds(n - 1)}
<1>0. I \in Nat
  BY InitialScaleIsGreatest
<1>e. ASSUME NEW sc \in -1 .. I
      PROVE  Attempts(group)[sc] =
                IF sc < 0 THEN NotEncoded("ScaleOverflow")
                ELSE IF InTheWay(mantissas_at(group, sc)) = {} THEN Encoded(sc, mantissas_at(group, sc))
                ELSE IF mantissas_at(group, sc)[Min(InTheWay(mantissas_at(group, sc)))] = IllFormed THEN NotEncoded("CsvParse")
                ELSE Attempts(group)[sc - 1]
  BY AttemptsEquation, Zenon
<1> HIDE DEF I
<1>1. 0 \in P
  <2>1. -1 \in -1 .. I /\ -1 < 0 /\ 0 - 1 = -1 /\ 0 \in 0 .. I + 1 /\ 0 .. -1 = {}
    BY <1>0
  <2>2. Attempts(group)[-1] = NotEncoded("ScaleOverflow")
    BY <1>e, <2>1, Zenon
  <2>3. Holds(-1)
    BY <2>1, <2>2, Zenon
  <2> HIDE DEF Holds
  <2> QED
    BY <2>1, <2>3
<1>2. ASSUME NEW n \in 0 .. (I + 1) - 1, n \in P PROVE n + 1 \in P
  <2> DEFINE m == mantissas_at(group, n)
             w == InTheWay(m)
  <2>1. n \in -1 .. I /\ n \in Nat /\ ~(n < 0) /\ n \in 0 .. n /\ (n + 1) - 1 = n /\ n + 1 \in 0 .. I + 1 /\ n + 1 .. n = {}
    BY <1>0
  <2>2. Holds(n - 1)
    BY <1>2
  <2>3. CASE w = {}
    <3>1. Attempts(group)[n] = Encoded(n, m)
      BY <1>e, <2>1, <2>3, Zenon
    <3>2. Settled(group, n, n)
      BY <2>1, <2>3, <3>1, Zenon DEF Settled
    <3> QED
      BY <2>1, <3>2
  <2>4. CASE w # {}
    <3> DEFINE k == Min(w)
    <3>1. w \in SUBSET Nat /\ w \subseteq DOMAIN group
      <4>1. DOMAIN m = DOMAIN group /\ DOMAIN group \subseteq Nat
        BY DEF mantissas_at
      <4> HIDE DEF m
      <4> QED
        BY <4>1 DEF InTheWay
    <3>2. k \in w
      <4> HIDE DEF w
      <4> QED
        BY <3>1, <2>4, LeastElement
    <3>3. k \in DOMAIN group /\ m[k] = mantissa_at(group[k], n) /\ (m[k] = IllFormed \/ ~Fits(m[k]))
      <4>1. k \in DOMAIN group
        BY <3>1, <3>2
      <4>2. m[k] = mantissa_at(group[k], n)
        BY <4>1 DEF mantissas_at
      <4>3. m[k] = IllFormed \/ ~Fits(m[k])
        BY <3>2 DEF InTheWay
      <4> QED
        BY <4>1, <4>2, <4>3
    <3> HIDE DEF k
    <3>4. CASE m[k] = IllFormed
      <4>1. Attempts(group)[n] = NotEncoded("CsvParse")
        BY <1>e, <2>1, <2>4, <3>4, Zenon DEF k
      <4>2. Refuses(group, n)
        BY <3>3, <3>4 DEF Refuses
      <4> QED
        BY <2>1, <4>1, <4>2
    <3>5. CASE m[k] # IllFormed
      <4>1. Attempts(group)[n] = Attempts(group)[n - 1]
        BY <1>e, <2>1, <2>4, <3>5, Zenon DEF k
      <4>2. Overflows(group, n)
        BY <3>3, <3>5 DEF Overflows
      <4>3. CASE \E t \in 0 .. n - 1 : Settled(group, n - 1, t)
        <5>1. PICK t \in 0 .. n - 1 : Settled(group, n - 1, t)
          BY <4>3
        <5>2. t \in 0 .. n /\ \A u \in t + 1 .. n : u = n \/ u \in t + 1 .. n - 1
          BY <2>1
        <5>3. Settled(group, n, t)
          BY <4>1, <4>2, <5>1, <5>2, Zenon DEF Settled
        <5> QED
          BY <2>1, <5>2, <5>3
      <4>4. CASE Attempts(group)[n - 1] = NotEncoded("CsvParse") /\ \E t \in 0 .. n - 1 : Refuses(group, t)
        <5>1. \E t \in 0 .. n : Refuses(group, t)
          <6>1. \A t \in 0 .. n - 1 : t \in 0 .. n
            BY <2>1
          <6> QED
            BY <4>4, <6>1
        <5> QED
          BY <2>1, <4>1, <4>4, <5>1
      <4>5. CASE Attempts(group)[n - 1] = NotEncoded("ScaleOverflow") /\ \A t \in 0 .. n - 1 : Overflows(group, t)
        <5>1. \A t \in 0 .. n : t = n \/ t \in 0 .. n - 1
          BY <2>1
        <5>2. \A t \in 0 .. n : Overflows(group, t)
          BY <4>2, <4>5, <5>1
        <5> QED
          BY <2>1, <4>1, <4>5, <5>2
      <4> QED
        BY <2>2, <4>3, <4>4, <4>5
    <3> QED
      BY <3>4, <3>5
  <2> QED
    BY <2>3, <2>4
<1>3. \A n \in 0 .. I + 1 : n \in P
  <2>1. I + 1 \in Nat
    BY <1>0
  <2> HIDE DEF P
  <2> QED
    BY <2>1, <1>1, <1>2, InductionUpto
<1>4. ASSUME NEW sc \in -1 .. I PROVE Holds(sc)
  <2>1. sc + 1 \in 0 .. I + 1 /\ (sc + 1) - 1 = sc
    BY <1>0
  <2>2. sc + 1 \in P
    BY <1>3, <2>1
  <2> HIDE DEF Holds
  <2> QED
    BY <2>1, <2>2
<1> QED
  BY <1>4 DEF I

\* All numbers of a group are numbers.
ValidGroup(group) == \A k \in DOMAIN group : Valid(group[k])

\* A group comes out exactly - each mantissa of a valid number is the number times
\* 10^scale, rounded down, and fits - at the greatest scale at which all fit; a group
\* of valid numbers is refused only when the integer part of one does not fit.
THEOREM EncodeGroupIsExact ==
    ASSUME NEW group \in Seq(Texts), group # <<>>, \A k \in DOMAIN group : decimals_of(group[k]) < U8
    PROVE  LET r == encode_group(group) IN
           \/ /\ r.error = "none"
              /\ r.scale \in 0 .. InitialScale(group)
              /\ r.out \in [DOMAIN group -> 0 .. U32Max]
              /\ \A k \in DOMAIN group : r.out[k] = mantissa_at(group[k], r.scale)
              /\ \A k \in DOMAIN group : Valid(group[k]) => r.out[k] = ExactAt(group[k], r.scale)
              /\ ValidGroup(group) => \A sc \in r.scale + 1 .. InitialScale(group) :
                    \E k \in DOMAIN group : ExactAt(group[k], sc) > U32Max
           \/ r.error = "CsvParse" /\ ~ValidGroup(group)
           \/ /\ r.error = "ScaleOverflow"
              /\ ValidGroup(group) => \E k \in DOMAIN group : ValueOf(group[k].int) > U32Max
<1> DEFINE I == InitialScale(group)
           r == encode_group(group)
<1>0. I \in Nat /\ I < U8 /\ I \in -1 .. I /\ r = Attempts(group)[I]
  BY InitialScaleIsGreatest DEF encode_group
<1>t. \A k \in DOMAIN group : group[k] \in Texts
  OBVIOUS
<1> HIDE DEF I, r
<1>o. ASSUME ValidGroup(group), NEW sc \in Nat, Overflows(group, sc)
      PROVE  \E k \in DOMAIN group : ExactAt(group[k], sc) > U32Max
  <2>1. PICK k \in DOMAIN group : ~Fits(mantissa_at(group[k], sc))
    BY <1>o DEF Overflows
  <2>2. ExactAt(group[k], sc) > U32Max
    BY <1>o, <1>t, <2>1, MantissaIsExact, Zenon DEF ValidGroup
  <2> QED
    BY <2>2
<1>1. CASE \E t \in 0 .. I : Settled(group, I, t)
  <2>1. PICK t \in 0 .. I : Settled(group, I, t)
    BY <1>1
  <2> DEFINE m == mantissas_at(group, t)
  <2>2. t \in Nat /\ t % U8 = t
    BY <1>0, WidthAssumption
  <2>3. r.error = "none" /\ r.scale = t /\ r.out = m
    BY <1>0, <2>1, <2>2 DEF Settled, Encoded
  <2>4. ASSUME NEW k \in DOMAIN group
        PROVE  m[k] = mantissa_at(group[k], t) /\ m[k] \in 0 .. U32Max /\ Fits(mantissa_at(group[k], t))
    <3>1. m[k] = mantissa_at(group[k], t) /\ k \in DOMAIN m
      BY DEF mantissas_at
    <3>2. InTheWay(m) = {}
      BY <2>1 DEF Settled
    <3> HIDE DEF m
    <3>3. m[k] # IllFormed /\ Fits(m[k])
      BY <3>1, <3>2 DEF InTheWay
    <3>4. m[k] \in Nat
      BY <1>t, <2>2, <3>1, <3>3, MantissaIsNat
    <3> QED
      BY <3>1, <3>3, <3>4, WidthAssumption DEF Fits
  <2>5. m \in [DOMAIN group -> 0 .. U32Max]
    BY <2>4 DEF mantissas_at
  <2> HIDE DEF m
  <2>6. \A k \in DOMAIN group : Valid(group[k]) => r.out[k] = ExactAt(group[k], r.scale)
    BY <1>t, <2>2, <2>3, <2>4, MantissaIsExact, Zenon
  <2>7. ASSUME ValidGroup(group), NEW sc \in r.scale + 1 .. I
        PROVE  \E k \in DOMAIN group : ExactAt(group[k], sc) > U32Max
    <3>1. sc \in t + 1 .. I
      BY <2>3, <2>7
    <3>2. sc \in Nat
      BY <3>1, <2>2, <1>0
    <3>3. Overflows(group, sc)
      BY <2>1, <3>1 DEF Settled
    <3> QED
      BY <1>o, <2>7, <3>2, <3>3
  <2> QED
    BY <2>3, <2>4, <2>5, <2>6, <2>7, Zenon DEF I, r
<1>2. CASE Attempts(group)[I] = NotEncoded("CsvParse") /\ \E t \in 0 .. I : Refuses(group, t)
  <2>1. r.error = "CsvParse"
    BY <1>0, <1>2 DEF NotEncoded
  <2>2. ~ValidGroup(group)
    <3>1. PICK t \in 0 .. I, k \in DOMAIN group : mantissa_at(group[k], t) = IllFormed
      BY <1>2 DEF Refuses
    <3>2. t \in Nat
      BY <1>0
    <3>3. mantissa_at(group[k], t) \notin Nat
      BY <3>1 DEF IllFormed
    <3> QED
      BY <1>t, <3>2, <3>3, MantissaIsExact, Zenon DEF ValidGroup
  <2> QED
    BY <2>1, <2>2 DEF r
<1>3. CASE Attempts(group)[I] = NotEncoded("ScaleOverflow") /\ \A t \in 0 .. I : Overflows(group, t)
  <2>1. r.error = "ScaleOverflow"
    BY <1>0, <1>3 DEF NotEncoded
  <2>2. ASSUME ValidGroup(group) PROVE \E k \in DOMAIN group : ValueOf(group[k].int) > U32Max
    <3>1. 0 \in 0 .. I /\ 0 \in Nat
      BY <1>0
    <3>2. Overflows(group, 0)
      BY <1>3, <3>1
    <3>3. PICK k \in DOMAIN group : ExactAt(group[k], 0) > U32Max
      BY <1>o, <2>2, <3>1, <3>2
    <3>4. ExactAt(group[k], 0) = ValueOf(group[k].int)
      BY <1>t, <2>2, IntegerPart, Zenon DEF ValidGroup
    <3> QED
      BY <3>3, <3>4
  <2> QED
    BY <2>1, <2>2 DEF r
<1>4. \/ \E t \in 0 .. I : Settled(group, I, t)
      \/ Attempts(group)[I] = NotEncoded("CsvParse") /\ \E t \in 0 .. I : Refuses(group, t)
      \/ Attempts(group)[I] = NotEncoded("ScaleOverflow") /\ \A t \in 0 .. I : Overflows(group, t)
  BY <1>0, AttemptsFrom, Zenon DEF I
<1> QED
  BY <1>1, <1>2, <1>3, <1>4

-----------------------------------------------------------------------------
(* Texts, lines and quotes *)

\* The characters of a text, and of a line.
TextCharacters == Characters \cup ({"int"} \X Int) \cup ({"num"} \X ShortTexts)

\* The marks of CSV are characters of texts, CR is not.
LEMMA Marks ==
    /\ Comma \in TextCharacters /\ QuoteMark \in TextCharacters /\ Comma # QuoteMark
    /\ Cr \notin TextCharacters
<1>1. Comma # QuoteMark /\ Comma # Cr /\ QuoteMark # Cr
  BY DEF Comma, QuoteMark, Cr
<1>2. Comma \in Characters /\ QuoteMark \in Characters /\ Cr \notin Characters
  BY TablesAssumption DEF Comma, QuoteMark, Cr, Characters
<1>3. \A n \in Int : <<"int", n>> # Cr
  BY DEF Cr
<1>4. \A n \in ShortTexts : <<"num", n>> # Cr
  BY DEF Cr
<1>5. Cr \notin {"int"} \X Int
  BY <1>3
<1>6. Cr \notin {"num"} \X ShortTexts
  BY <1>4
<1> QED
  BY <1>1, <1>2, <1>5, <1>6 DEF TextCharacters

\* The three forms of a cell.
LEMMA CellForms ==
    ASSUME NEW cell \in Cells
    PROVE  \/ cell[1] = "int" /\ cell[2] \in Int /\ cell[3] \in Types
           \/ cell[1] = "num" /\ cell[2] \in ShortTexts /\ cell[3] \in Types
           \/ cell[1] = "word" /\ cell[2] \in Seq(Characters) /\ cell[3] \in Types
BY DEF Cells

\* The text of a cell is one.
LEMMA TextsAreTexts ==
    ASSUME NEW cell \in Cells
    PROVE  TextOf(cell) \in Seq(TextCharacters)
<1>1. CASE cell[1] = "int" /\ cell[2] \in Int
  <2>1. <<cell[1], cell[2]>> \in TextCharacters
    BY <1>1 DEF TextCharacters
  <2>2. TextOf(cell) = << <<cell[1], cell[2]>> >>
    BY <1>1 DEF TextOf
  <2> QED
    BY <2>1, <2>2
<1>2. CASE cell[1] = "num" /\ cell[2] \in ShortTexts
  <2>1. <<cell[1], cell[2]>> \in TextCharacters
    BY <1>2 DEF TextCharacters
  <2>2. TextOf(cell) = << <<cell[1], cell[2]>> >>
    BY <1>2 DEF TextOf
  <2> QED
    BY <2>1, <2>2
<1>3. CASE cell[1] = "word" /\ cell[2] \in Seq(Characters)
  <2>1. Characters \subseteq TextCharacters /\ TextOf(cell) = cell[2]
    BY <1>3 DEF TextCharacters, TextOf
  <2> QED
    BY <1>3, <2>1, WiderSeq
<1> QED
  BY <1>1, <1>2, <1>3, CellForms

-----------------------------------------------------------------------------
(* A line read back. *)

\* From place p on, line has the characters of s.
Has(line, p, s) ==
    /\ p \in Nat /\ p >= 1 /\ p + Len(s) - 1 <= Len(line)
    /\ \A i \in 1 .. Len(s) : line[p + i - 1] = s[i]

\* Where two sequences stand, the second stands behind the first.
LEMMA HasBoth ==
    ASSUME NEW C, NEW line \in Seq(C), NEW p \in Nat, NEW s \in Seq(C), NEW t \in Seq(C), Has(line, p, s \o t)
    PROVE  Has(line, p, s) /\ Has(line, p + Len(s), t) /\ p + Len(s \o t) = (p + Len(s)) + Len(t)
<1>1. /\ Len(s \o t) = Len(s) + Len(t) /\ Len(s) \in Nat /\ Len(t) \in Nat /\ Len(line) \in Nat
      /\ \A i \in 1 .. Len(s) : (s \o t)[i] = s[i]
      /\ \A i \in 1 .. Len(t) : (s \o t)[Len(s) + i] = t[i]
  BY Concat
<1> DEFINE a == Len(s)  b == Len(t)  u == s \o t  l == Len(line)
<1>2. p >= 1 /\ p + (a + b) - 1 <= l /\ \A i \in 1 .. a + b : line[p + i - 1] = u[i]
  BY <1>1 DEF Has
<1> HIDE DEF a, b, u, l
<1>3. ASSUME NEW i \in 1 .. a PROVE line[p + i - 1] = s[i]
  <2>1. i \in 1 .. a + b
    BY <1>1 DEF a, b
  <2> QED
    BY <1>1, <1>2, <2>1 DEF a, u
<1>4. ASSUME NEW i \in 1 .. b PROVE line[(p + a) + i - 1] = t[i]
  <2>1. a + i \in 1 .. a + b /\ p + (a + i) - 1 = (p + a) + i - 1
    BY <1>1 DEF a, b
  <2>2. u[a + i] = t[i]
    BY <1>1 DEF a, b, u
  <2> QED
    BY <1>2, <2>1, <2>2
<1>5. p + a - 1 <= l /\ (p + a) + b - 1 <= l /\ p + a \in Nat /\ p + a >= 1 /\ p + (a + b) = (p + a) + b
  BY <1>1, <1>2 DEF a, b, l
<1> QED
  BY <1>1, <1>2, <1>3, <1>4, <1>5 DEF Has, a, b, l

\* What follows the opening quote, as an equation.
LEMMA EscapedEquation ==
    ASSUME NEW text \in Seq(TextCharacters)
    PROVE  /\ Escaped(text)[Len(text) + 1] = <<QuoteMark>>
           /\ \A j \in 1 .. Len(text) :
                Escaped(text)[j] = (IF text[j] = QuoteMark THEN <<QuoteMark, QuoteMark>> ELSE <<text[j]>>) \o Escaped(text)[j + 1]
           /\ \A j \in 1 .. Len(text) + 1 : Escaped(text)[j] \in Seq(TextCharacters)
<1> DEFINE n == Len(text)
           D == 1 .. n + 1
           C == TextCharacters
           first(j) == IF text[j] = QuoteMark THEN <<QuoteMark, QuoteMark>> ELSE <<text[j]>>
           base == [j \in D |-> <<QuoteMark>>]
           rank == [j \in D |-> n + 1 - j]
           prev == [j \in D |-> IF j = n + 1 THEN j ELSE j + 1]
           step == [q \in D \X Seq(C) |-> IF q[1] = n + 1 THEN <<>> ELSE first(q[1]) \o q[2]]
<1>0. n \in Nat /\ n + 1 \in D /\ QuoteMark \in C
  BY Marks
<1>f. \A j \in 1 .. n : first(j) \in Seq(C)
  <2> TAKE j \in 1 .. n
  <2>1. text[j] \in C
    OBVIOUS
  <2> HIDE DEF C
  <2> QED
    BY <1>0, <2>1
<1>d. \A j \in D : j = n + 1 \/ j \in 1 .. n
  BY <1>0
<1> HIDE DEF C, first
<1>1. PICK g \in [D -> Seq(C)] : Solves(g, D, {n + 1}, base, prev, step)
  <2>1. Descends(D, {n + 1}, rank, prev)
    <3>1. rank \in [D -> Nat] /\ prev \in [D -> D] /\ \A j \in D : j # n + 1 => rank[prev[j]] < rank[j]
      BY <1>0
    <3> HIDE DEF rank, prev, D, n
    <3> QED
      BY <3>1 DEF Descends
  <2>2. base \in [D -> Seq(C)] /\ Seq(C) # {}
    <3>1. <<QuoteMark>> \in Seq(C)
      BY <1>0
    <3> HIDE DEF D
    <3> QED
      BY <3>1
  <2>3. step \in [D \X Seq(C) -> Seq(C)]
    <3>1. ASSUME NEW j \in D, NEW s \in Seq(C), j # n + 1 PROVE first(j) \o s \in Seq(C)
      <4>1. first(j) \in Seq(C)
        BY <1>d, <1>f, <3>1
      <4> QED
        BY <4>1
    <3>2. <<>> \in Seq(C)
      OBVIOUS
    <3> HIDE DEF D, n
    <3> QED
      BY <3>1, <3>2
  <2> HIDE DEF base, rank, prev, step, D, n
  <2> QED
    BY <2>1, <2>2, <2>3, Recursion, Zenon
<1>2. ASSUME NEW j \in D
      PROVE  g[j] = IF j > n THEN <<QuoteMark>> ELSE first(j) \o g[j + 1]
  <2>1. g[j] = IF j \in {n + 1} THEN base[j] ELSE step[<<j, g[prev[j]]>>]
    <3> HIDE DEF base, prev, step, D, n
    <3> QED
      BY <1>1 DEF Solves
  <2>2. CASE j = n + 1
    <3>1. j > n /\ j \in {n + 1} /\ base[j] = <<QuoteMark>>
      BY <1>0, <2>2
    <3> QED
      BY <2>1, <3>1, Zenon
  <2>3. CASE j # n + 1
    <3>1. j \in 1 .. n /\ ~(j > n) /\ j \notin {n + 1} /\ prev[j] = j + 1 /\ j + 1 \in D
      BY <1>0, <2>3
    <3>2. step[<<j, g[j + 1]>>] = first(j) \o g[j + 1]
      <4>1. g[j + 1] \in Seq(C)
        BY <1>1, <3>1
      <4> HIDE DEF D, n
      <4> QED
        BY <2>3, <4>1
    <3> QED
      BY <2>1, <3>1, <3>2, Zenon
  <2> QED
    BY <2>2, <2>3
<1>3. g = [j \in 1 .. Len(text) + 1 |->
             IF j > Len(text) THEN <<QuoteMark>>
             ELSE (IF text[j] = QuoteMark THEN <<QuoteMark, QuoteMark>> ELSE <<text[j]>>) \o g[j + 1]]
  BY <1>2, Zenon DEF first
<1>4. Escaped(text) = [j \in 1 .. Len(text) + 1 |->
             IF j > Len(text) THEN <<QuoteMark>>
             ELSE (IF text[j] = QuoteMark THEN <<QuoteMark, QuoteMark>> ELSE <<text[j]>>) \o Escaped(text)[j + 1]]
  BY <1>3, Zenon DEF Escaped
<1> DEFINE e == Escaped(text)
<1>5. ASSUME NEW j \in D
      PROVE  e[j] = IF j > n THEN <<QuoteMark>> ELSE first(j) \o e[j + 1]
  BY <1>4, Zenon DEF first
<1>6. e[n + 1] = <<QuoteMark>>
  <2>1. n + 1 \in D /\ n + 1 > n
    BY <1>0
  <2> QED
    BY <1>5, <2>1, Zenon
<1>7. ASSUME NEW j \in 1 .. n PROVE e[j] = first(j) \o e[j + 1]
  <2>1. j \in D /\ ~(j > n)
    BY <1>0
  <2> QED
    BY <1>5, <2>1, Zenon
<1> DEFINE P == {j \in D : e[j] \in Seq(C)}
<1> HIDE DEF e
<1>8. \A j \in 1 .. n + 1 : j \in P
  <2>1. n + 1 \in P
    <3>1. <<QuoteMark>> \in Seq(C)
      BY <1>0
    <3> HIDE DEF D, n
    <3> QED
      BY <1>0, <1>6, <3>1
  <2>2. ASSUME NEW j \in 1 .. (n + 1) - 1, j + 1 \in P PROVE j \in P
    <3>1. j \in 1 .. n /\ j \in D
      BY <1>0
    <3>2. first(j) \in Seq(C) /\ e[j + 1] \in Seq(C) /\ e[j] = first(j) \o e[j + 1]
      BY <1>7, <1>f, <2>2, <3>1
    <3>3. e[j] \in Seq(C)
      BY <3>2
    <3> QED
      BY <3>1, <3>3
  <2> DEFINE b == n + 1
  <2>3. b \in Int /\ 1 \in Int /\ 1 <= b
    BY <1>0
  <2> HIDE DEF P, b
  <2>4. \A j \in 1 .. b : j \in P
    BY <2>1, <2>2, <2>3, InductionDown DEF b
  <2> QED
    BY <2>4 DEF b
<1> QED
  BY <1>6, <1>7, <1>8 DEF e, first, C

\* The scan of a quoted field, as an equation; it ends behind its start.
LEMMA QuotedEquation ==
    ASSUME NEW C, NEW line \in Seq(C)
    PROVE  \A i \in 1 .. Len(line) + 1 :
              /\ i > Len(line) => Quoted(line)[i] = [field |-> <<>>, next |-> i]
              /\ i <= Len(line) /\ line[i] = QuoteMark /\ ~Doubled(line, i) =>
                    Quoted(line)[i] = [field |-> <<>>, next |-> i + 1]
              /\ i <= Len(line) /\ line[i] = QuoteMark /\ Doubled(line, i) =>
                    Quoted(line)[i] = [field |-> <<line[i]>> \o Quoted(line)[i + 2].field, next |-> Quoted(line)[i + 2].next]
              /\ i <= Len(line) /\ line[i] # QuoteMark =>
                    Quoted(line)[i] = [field |-> <<line[i]>> \o Quoted(line)[i + 1].field, next |-> Quoted(line)[i + 1].next]
              /\ Quoted(line)[i].next \in i .. Len(line) + 1
<1> DEFINE n == Len(line)
           D == 1 .. n + 1
           S == [field : Seq(C), next : Nat]
           ends(i) == i > n \/ (line[i] = QuoteMark /\ ~Doubled(line, i))
           B == {i \in D : ends(i)}
           base == [i \in D |-> [field |-> <<>>, next |-> IF i > n THEN i ELSE i + 1]]
           rank == [i \in D |-> n + 1 - i]
           after(i) == IF line[i] = QuoteMark THEN i + 2 ELSE i + 1
           prev == [i \in D |-> IF ends(i) THEN i ELSE after(i)]
           more(i, q) == [field |-> <<line[i]>> \o q.field, next |-> q.next]
           step == [q \in D \X S |-> IF q[1] = n + 1 THEN q[2] ELSE more(q[1], q[2])]
<1>0. n \in Nat
  OBVIOUS
<1>a. ASSUME NEW i \in D, ~ends(i) PROVE i \in 1 .. n /\ after(i) \in D /\ after(i) > i /\ after(i) \in Nat
  <2>1. i \in 1 .. n
    BY <1>a, <1>0
  <2>2. CASE line[i] = QuoteMark
    <3>1. i < n
      BY <1>a, <2>2 DEF Doubled
    <3> QED
      BY <2>1, <2>2, <3>1, <1>0
  <2>3. CASE line[i] # QuoteMark
    BY <2>1, <2>3, <1>0
  <2> QED
    BY <2>2, <2>3
<1>m. ASSUME NEW i \in 1 .. n, NEW q \in S PROVE more(i, q) \in S
  <2>1. line[i] \in C /\ q.field \in Seq(C) /\ q.next \in Nat
    OBVIOUS
  <2>2. <<line[i]>> \o q.field \in Seq(C)
    BY <2>1
  <2> QED
    BY <2>1, <2>2
<1> HIDE DEF after, more, ends
<1>1. PICK g \in [D -> S] : Solves(g, D, B, base, prev, step)
  <2>1. Descends(D, B, rank, prev)
    <3>1. \A i \in D : prev[i] \in D /\ (~ends(i) => prev[i] > i) /\ (i \notin B => ~ends(i)) /\ prev[i] \in Nat /\ i \in Nat
      BY <1>0, <1>a
    <3>2. rank \in [D -> Nat] /\ \A i, j \in D : j > i => rank[j] < rank[i]
      BY <1>0
    <3>3. prev \in [D -> D]
      <4> HIDE DEF D
      <4> QED
        BY <3>1
    <3> HIDE DEF rank, prev, D, B
    <3> QED
      BY <3>1, <3>2, <3>3 DEF Descends
  <2>2. base \in [D -> S] /\ S # {}
    <3>1. ASSUME NEW i \in D PROVE base[i] \in S
      <4>1. <<>> \in Seq(C) /\ (IF i > n THEN i ELSE i + 1) \in Nat
        OBVIOUS
      <4> QED
        BY <4>1
    <3>2. 1 \in D
      BY <1>0
    <3> HIDE DEF D, S
    <3> QED
      BY <3>1, <3>2
  <2>3. step \in [D \X S -> S]
    <3>1. \A i \in D : i = n + 1 \/ i \in 1 .. n
      BY <1>0
    <3> HIDE DEF D, S, n
    <3> QED
      BY <1>m, <3>1
  <2> HIDE DEF base, rank, prev, step, D, n, S, B
  <2> QED
    BY <2>1, <2>2, <2>3, Recursion, Zenon
<1>2. ASSUME NEW i \in D PROVE g[i] = IF ends(i) THEN base[i] ELSE more(i, g[after(i)])
  <2>1. g[i] = IF i \in B THEN base[i] ELSE step[<<i, g[prev[i]]>>]
    <3> HIDE DEF base, prev, step, D, n, B, S
    <3> QED
      BY <1>1 DEF Solves
  <2>2. i \in B <=> ends(i)
    <3> HIDE DEF D
    <3> QED
      OBVIOUS
  <2>3. ~ends(i) => step[<<i, g[prev[i]]>>] = more(i, g[after(i)])
    <3> SUFFICES ASSUME ~ends(i) PROVE step[<<i, g[prev[i]]>>] = more(i, g[after(i)])
      OBVIOUS
    <3>1. i \in 1 .. n /\ after(i) \in D /\ i # n + 1
      BY <1>a, <1>0
    <3>2. prev[i] = after(i)
      <4> HIDE DEF D
      <4> QED
        OBVIOUS
    <3>3. g[after(i)] \in S
      BY <1>1, <3>1
    <3>4. step[<<i, g[after(i)]>>] = more(i, g[after(i)])
      <4> HIDE DEF D, n, S
      <4> QED
        BY <3>1, <3>3
    <3> QED
      BY <3>2, <3>4, Zenon
  <2> HIDE DEF base, prev, step, D, n, B, S
  <2> QED
    BY <2>1, <2>2, <2>3, Zenon
<1> DEFINE Right(h, i) ==
              IF i > Len(line) THEN [field |-> <<>>, next |-> i]
              ELSE IF line[i] = QuoteMark /\ ~Doubled(line, i) THEN [field |-> <<>>, next |-> i + 1]
              ELSE LET rest == h[IF line[i] = QuoteMark THEN i + 2 ELSE i + 1]
                   IN  [field |-> <<line[i]>> \o rest.field, next |-> rest.next]
<1>3. g = [i \in 1 .. Len(line) + 1 |-> Right(g, i)]
  <2>1. ASSUME NEW i \in D PROVE g[i] = Right(g, i)
    <3>1. CASE i > n
      <4>1. ends(i)
        BY <3>1 DEF ends
      <4>2. base[i] = [field |-> <<>>, next |-> i]
        BY <3>1
      <4> QED
        BY <1>2, <4>1, <4>2, <3>1, Zenon
    <3>2. CASE ~(i > n) /\ line[i] = QuoteMark /\ ~Doubled(line, i)
      <4>1. ends(i)
        BY <3>2 DEF ends
      <4>2. base[i] = [field |-> <<>>, next |-> i + 1]
        BY <3>2
      <4> QED
        BY <1>2, <4>1, <4>2, <3>2, Zenon
    <3>3. CASE ~(i > n) /\ ~(line[i] = QuoteMark /\ ~Doubled(line, i))
      <4>1. ~ends(i)
        BY <3>3 DEF ends
      <4> QED
        BY <1>2, <4>1, <3>3, Zenon DEF more, after
    <3> QED
      BY <3>1, <3>2, <3>3, Zenon
  <2> HIDE DEF Right
  <2> QED
    BY <2>1
<1>4. Quoted(line) = [i \in 1 .. Len(line) + 1 |-> Right(Quoted(line), i)]
  BY <1>3, Zenon DEF Quoted
<1> DEFINE f == Quoted(line)
<1>5. \A i \in D : f[i] = Right(f, i)
  <2> HIDE DEF Right
  <2> QED
    BY <1>4, Zenon
<1> HIDE DEF f
<1>6. ASSUME NEW i \in D
      PROVE  /\ i > n => f[i] = [field |-> <<>>, next |-> i]
             /\ i <= n /\ line[i] = QuoteMark /\ ~Doubled(line, i) => f[i] = [field |-> <<>>, next |-> i + 1]
             /\ i <= n /\ line[i] = QuoteMark /\ Doubled(line, i) =>
                    f[i] = [field |-> <<line[i]>> \o f[i + 2].field, next |-> f[i + 2].next]
             /\ i <= n /\ line[i] # QuoteMark => f[i] = [field |-> <<line[i]>> \o f[i + 1].field, next |-> f[i + 1].next]
  <2>1. i <= n => ~(i > n)
    BY <1>0
  <2> QED
    BY <1>5, <2>1, Zenon
<1> DEFINE P == {i \in D : \A j \in i .. n + 1 : f[j].next \in j .. n + 1}
<1>7. n + 1 \in P
  <2>1. \A j \in n + 1 .. n + 1 : j = n + 1 /\ j > n /\ j \in D /\ j \in j .. n + 1
    BY <1>0
  <2>2. \A j \in n + 1 .. n + 1 : f[j].next = j
    <3>1. \A j \in n + 1 .. n + 1 : f[j] = [field |-> <<>>, next |-> j]
      BY <1>6, <2>1, Zenon
    <3> QED
      BY <3>1
  <2>3. \A j \in n + 1 .. n + 1 : f[j].next \in j .. n + 1
    BY <2>1, <2>2
  <2>4. n + 1 \in D
    BY <1>0
  <2> HIDE DEF n
  <2> QED
    BY <2>3, <2>4
<1>8. ASSUME NEW i \in 1 .. (n + 1) - 1, i + 1 \in P PROVE i \in P
  <2>1. i \in D /\ i \in Nat /\ i <= n /\ i + 1 \in D /\ \A j \in i .. n + 1 : j = i \/ j \in i + 1 .. n + 1
    BY <1>0
  <2>2. \A j \in i + 1 .. n + 1 : f[j].next \in j .. n + 1
    BY <1>8
  <2>3. f[i].next \in i .. n + 1
    <3>1. CASE line[i] = QuoteMark /\ ~Doubled(line, i)
      <4>1. f[i].next = i + 1
        <5>1. f[i] = [field |-> <<>>, next |-> i + 1]
          BY <1>6, <2>1, <3>1, Zenon
        <5> QED
          BY <5>1
      <4> QED
        BY <1>0, <2>1, <4>1
    <3>2. CASE line[i] = QuoteMark /\ Doubled(line, i)
      <4>1. f[i].next = f[i + 2].next
        <5>1. f[i] = [field |-> <<line[i]>> \o f[i + 2].field, next |-> f[i + 2].next]
          BY <1>6, <2>1, <3>2, Zenon
        <5> QED
          BY <5>1
      <4>2. i + 2 \in i + 1 .. n + 1
        BY <1>0, <2>1, <3>2 DEF Doubled
      <4>3. f[i + 2].next \in i + 2 .. n + 1
        BY <2>2, <4>2
      <4> QED
        BY <1>0, <2>1, <4>1, <4>3
    <3>3. CASE line[i] # QuoteMark
      <4>1. f[i].next = f[i + 1].next
        <5>1. f[i] = [field |-> <<line[i]>> \o f[i + 1].field, next |-> f[i + 1].next]
          BY <1>6, <2>1, <3>3, Zenon
        <5> QED
          BY <5>1
      <4>2. i + 1 \in i + 1 .. n + 1
        BY <1>0, <2>1
      <4>3. f[i + 1].next \in i + 1 .. n + 1
        BY <2>2, <4>2
      <4> QED
        BY <1>0, <2>1, <4>1, <4>3
    <3> QED
      BY <3>1, <3>2, <3>3
  <2>4. \A j \in i .. n + 1 : f[j].next \in j .. n + 1
    BY <2>1, <2>2, <2>3
  <2> HIDE DEF n, D
  <2> QED
    BY <2>1, <2>4
<1>9. \A i \in 1 .. n + 1 : i \in P
  <2> DEFINE b == n + 1
  <2>1. b \in Int /\ 1 \in Int /\ 1 <= b
    BY <1>0
  <2> HIDE DEF P, b
  <2>2. \A i \in 1 .. b : i \in P
    BY <1>7, <1>8, <2>1, InductionDown DEF b
  <2> QED
    BY <2>2 DEF b
<1>10. ASSUME NEW i \in D PROVE f[i].next \in i .. n + 1
  <2>1. i \in i .. n + 1
    BY <1>0
  <2> QED
    BY <1>9, <2>1
<1> QED
  BY <1>6, <1>10, Zenon DEF f

\* The end of a field: nothing before it is a comma, and it is one or the end of the line.
LEMMA EndIs ==
    ASSUME NEW C, NEW line \in Seq(C), NEW i \in Nat, NEW e \in i .. Len(line) + 1,
           \A j \in i .. e - 1 : line[j] # Comma,
           e = Len(line) + 1 \/ line[e] = Comma
    PROVE  EndFrom(line, i) = e
<1> DEFINE S == {Len(line) + 1} \cup {j \in i .. Len(line) : line[j] = Comma}
<1>0. Len(line) \in Nat /\ e \in Nat
  OBVIOUS
<1>1. S \in SUBSET Nat /\ S # {}
  BY <1>0
<1>2. e \in S
  BY <1>0
<1>3. \A j \in S : e <= j
  BY <1>0
<1>4. Min(S) \in S /\ \A j \in S : Min(S) <= j
  <2> HIDE DEF S
  <2> QED
    BY <1>1, LeastElement
<1>5. Min(S) \in Nat /\ e <= Min(S) /\ Min(S) <= e
  <2> HIDE DEF S
  <2> QED
    BY <1>1, <1>2, <1>3, <1>4
<1>6. Min(S) = e
  <2> HIDE DEF S
  <2> QED
    BY <1>0, <1>5
<1> QED
  BY <1>6 DEF EndFrom

\* The next comma is in the line, or the line ends.
LEMMA EndFromInLine ==
    ASSUME NEW C, NEW line \in Seq(C), NEW i \in 1 .. Len(line) + 1
    PROVE  EndFrom(line, i) \in i .. Len(line) + 1
<1> DEFINE S == {Len(line) + 1} \cup {j \in i .. Len(line) : line[j] = Comma}
<1>0. Len(line) \in Nat
  OBVIOUS
<1>1. S \in SUBSET Nat /\ S # {} /\ S \subseteq i .. Len(line) + 1
  BY <1>0
<1>4. Min(S) \in S
  <2> HIDE DEF S
  <2> QED
    BY <1>1, LeastElement
<1> HIDE DEF S
<1>5. Min(S) \in i .. Len(line) + 1
  BY <1>1, <1>4
<1> QED
  BY <1>5 DEF EndFrom, S

\* A sequence with one more in front.
LEMMA Prepend ==
    ASSUME NEW C, NEW c \in C, NEW s \in Seq(C)
    PROVE  /\ <<c>> \o s \in Seq(C) /\ Len(<<c>> \o s) = 1 + Len(s) /\ (<<c>> \o s)[1] = c
           /\ \A i \in 1 .. Len(s) : (<<c>> \o s)[i + 1] = s[i]
OBVIOUS

\* What follows the opening quote, from each character of a text on.
LEMMA Suffixes ==
    ASSUME NEW C, NEW s \in Seq(C)
    PROVE  /\ SubSeq(s, Len(s) + 1, Len(s)) = <<>> /\ SubSeq(s, 1, Len(s)) = s
           /\ \A j \in 1 .. Len(s) : <<s[j]>> \o SubSeq(s, j + 1, Len(s)) = SubSeq(s, j, Len(s))
<1>1. SubSeq(s, Len(s) + 1, Len(s)) = <<>> /\ SubSeq(s, 1, Len(s)) = s
  OBVIOUS
<1>2. ASSUME NEW j \in 1 .. Len(s) PROVE <<s[j]>> \o SubSeq(s, j + 1, Len(s)) = SubSeq(s, j, Len(s))
  <2> DEFINE b == SubSeq(s, j + 1, Len(s))  c == SubSeq(s, j, Len(s))  n == Len(s)  u == <<s[j]>> \o b
  <2>1. /\ b \in Seq(C) /\ Len(b) = n - j /\ \A i \in 1 .. n - j : b[i] = s[j + i]
        /\ c \in Seq(C) /\ Len(c) = n - j + 1 /\ \A i \in 1 .. n - j + 1 : c[i] = s[j + i - 1]
        /\ n \in Nat /\ s[j] \in C
    OBVIOUS
  <2>2. u \in Seq(C) /\ Len(u) = 1 + Len(b) /\ u[1] = s[j] /\ \A i \in 1 .. Len(b) : u[i + 1] = b[i]
    <3>1. b \in Seq(C) /\ s[j] \in C
      BY <2>1
    <3> HIDE DEF b
    <3> QED
      BY <3>1, Prepend
  <2> HIDE DEF b, c, n, u
  <2>3. ASSUME NEW i \in 1 .. Len(u) PROVE u[i] = c[i]
    <3>1. c[i] = s[j + i - 1]
      BY <2>1, <2>2
    <3>2. CASE i = 1
      BY <2>1, <2>2, <3>1, <3>2
    <3>3. CASE i # 1
      <4>1. i - 1 \in 1 .. n - j /\ i - 1 \in 1 .. Len(b) /\ j + (i - 1) = j + i - 1 /\ (i - 1) + 1 = i
        BY <2>1, <2>2, <3>3 DEF n
      <4>2. b[i - 1] = s[j + (i - 1)]
        BY <2>1, <4>1
      <4>3. u[i] = b[i - 1]
        BY <2>2, <4>1
      <4> QED
        BY <3>1, <4>1, <4>2, <4>3
    <3> QED
      BY <3>2, <3>3
  <2>4. Len(c) = Len(u)
    BY <2>1, <2>2 DEF n
  <2>5. u = c
    BY <2>1, <2>2, <2>3, <2>4, SeqEqual
  <2> QED
    BY <2>5 DEF b, c, n, u
<1> QED
  BY <1>1, <1>2

\* What was escaped is read back, up to the quote that no other quote follows.
LEMMA QuotedBack ==
    ASSUME NEW C, TextCharacters \subseteq C, NEW line \in Seq(C), NEW text \in Seq(TextCharacters)
    PROVE  \A j \in 1 .. Len(text) + 1 : \A p \in Nat :
              LET b == p + Len(Escaped(text)[j])
              IN  Has(line, p, Escaped(text)[j]) /\ (b > Len(line) \/ line[b] # QuoteMark) =>
                    Quoted(line)[p] = [field |-> SubSeq(text, j, Len(text)), next |-> b]
<1> DEFINE n == Len(text)
           e == Escaped(text)
           f == Quoted(line)
           l == Len(line)
           Back(j, p) == Has(line, p, e[j]) /\ (p + Len(e[j]) > l \/ line[p + Len(e[j])] # QuoteMark) =>
                            f[p] = [field |-> SubSeq(text, j, n), next |-> p + Len(e[j])]
           P == {j \in 1 .. n + 1 : \A p \in Nat : Back(j, p)}
<1>0. n \in Nat /\ l \in Nat
  OBVIOUS
<1>1. /\ e[n + 1] = <<QuoteMark>>
      /\ \A j \in 1 .. n : e[j] = (IF text[j] = QuoteMark THEN <<QuoteMark, QuoteMark>> ELSE <<text[j]>>) \o e[j + 1]
      /\ \A j \in 1 .. n + 1 : e[j] \in Seq(TextCharacters)
  BY EscapedEquation
<1>2. ASSUME NEW i \in 1 .. l + 1
      PROVE  /\ i <= l /\ line[i] = QuoteMark /\ ~Doubled(line, i) => f[i] = [field |-> <<>>, next |-> i + 1]
             /\ i <= l /\ line[i] = QuoteMark /\ Doubled(line, i) =>
                    f[i] = [field |-> <<line[i]>> \o f[i + 2].field, next |-> f[i + 2].next]
             /\ i <= l /\ line[i] # QuoteMark => f[i] = [field |-> <<line[i]>> \o f[i + 1].field, next |-> f[i + 1].next]
  BY QuotedEquation, ZenonT(60)
<1>3. \A j \in 1 .. n + 1 : e[j] \in Seq(C) /\ Len(e[j]) \in Nat
  BY <1>1, WiderSeq
<1>s. /\ SubSeq(text, n + 1, n) = <<>>
      /\ \A j \in 1 .. n : <<text[j]>> \o SubSeq(text, j + 1, n) = SubSeq(text, j, n)
  BY Suffixes
<1>q. QuoteMark \in C /\ \A j \in 1 .. n : text[j] \in C
  BY Marks
<1> HIDE DEF e, f, n, l
<1>4. n + 1 \in P
  <2> SUFFICES ASSUME NEW p \in Nat PROVE Back(n + 1, p)
    BY <1>0
  <2> SUFFICES ASSUME Has(line, p, e[n + 1]), p + Len(e[n + 1]) > l \/ line[p + Len(e[n + 1])] # QuoteMark
               PROVE  f[p] = [field |-> SubSeq(text, n + 1, n), next |-> p + Len(e[n + 1])]
    OBVIOUS
  <2>1. Len(e[n + 1]) = 1 /\ e[n + 1][1] = QuoteMark
    BY <1>1
  <2>2. p >= 1 /\ p <= l /\ line[p] = QuoteMark
    <3>1. p >= 1 /\ p + 1 - 1 <= l /\ line[p + 1 - 1] = e[n + 1][1]
      BY <2>1 DEF Has, l
    <3>2. p + 1 - 1 = p
      OBVIOUS
    <3> QED
      BY <2>1, <3>1, <3>2
  <2>3. ~Doubled(line, p)
    BY <2>1, <2>2, <1>0 DEF Doubled, l
  <2>4. f[p] = [field |-> <<>>, next |-> p + 1]
    <3>1. p \in 1 .. l + 1
      BY <2>2, <1>0
    <3> QED
      BY <1>2, <2>2, <2>3, <3>1, Zenon
  <2> QED
    BY <1>s, <2>1, <2>4
<1>5. ASSUME NEW j \in 1 .. (n + 1) - 1, j + 1 \in P PROVE j \in P
  <2>0. j \in 1 .. n /\ j \in 1 .. n + 1 /\ j + 1 \in 1 .. n + 1
    BY <1>0
  <2> SUFFICES ASSUME NEW p \in Nat PROVE Back(j, p)
    BY <2>0
  <2> SUFFICES ASSUME Has(line, p, e[j]), p + Len(e[j]) > l \/ line[p + Len(e[j])] # QuoteMark
               PROVE  f[p] = [field |-> SubSeq(text, j, n), next |-> p + Len(e[j])]
    OBVIOUS
  <2> DEFINE first == IF text[j] = QuoteMark THEN <<QuoteMark, QuoteMark>> ELSE <<text[j]>>
             k == Len(first)
             rest == e[j + 1]
  <2>1. e[j] = first \o rest /\ rest \in Seq(C) /\ Len(rest) \in Nat
    BY <1>1, <1>3, <2>0
  <2>2. first \in Seq(C) /\ k \in Nat
    BY <1>q, <2>0
  <2>3. Has(line, p, first) /\ Has(line, p + k, rest) /\ p + Len(e[j]) = (p + k) + Len(rest)
    <3> HIDE DEF first, rest
    <3> QED
      BY <2>1, <2>2, HasBoth
  <2>4. p + k \in Nat /\ f[p + k] = [field |-> SubSeq(text, j + 1, n), next |-> p + Len(e[j])]
    <3>1. p + k \in Nat
      BY <2>2
    <3>2. Back(j + 1, p + k)
      <4> HIDE DEF Back, k
      <4> QED
        BY <1>5, <3>1
    <3> HIDE DEF k
    <3> QED
      BY <2>3, <3>1, <3>2
  <2>5. CASE text[j] = QuoteMark
    <3>1. k = 2 /\ first[1] = QuoteMark /\ first[2] = QuoteMark
      BY <2>5
    <3>2. p >= 1 /\ p + 1 <= l /\ line[p] = QuoteMark /\ line[p + 1] = QuoteMark
      <4>1. p >= 1 /\ p + 2 - 1 <= l /\ line[p + 1 - 1] = first[1] /\ line[p + 2 - 1] = first[2]
        <5> HIDE DEF first
        <5> QED
          BY <2>3, <3>1 DEF Has, l
      <4>2. p + 1 - 1 = p /\ p + 2 - 1 = p + 1
        OBVIOUS
      <4> QED
        BY <3>1, <4>1, <4>2
    <3>3. p \in 1 .. l + 1 /\ p <= l /\ Doubled(line, p)
      BY <3>2, <1>0 DEF Doubled, l
    <3>4. f[p] = [field |-> <<line[p]>> \o f[p + 2].field, next |-> f[p + 2].next]
      BY <1>2, <3>2, <3>3, Zenon
    <3>5. f[p + 2] = [field |-> SubSeq(text, j + 1, n), next |-> p + Len(e[j])]
      <4> HIDE DEF k
      <4> QED
        BY <2>4, <3>1
    <3> DEFINE there == f[p + 2]
               tail == SubSeq(text, j + 1, n)
               after == p + Len(e[j])
    <3>6. there.field = tail /\ there.next = after
      <4>1. there = [field |-> tail, next |-> after]
        BY <3>5
      <4> HIDE DEF there, tail, after
      <4> QED
        BY <4>1
    <3>7. <<line[p]>> \o SubSeq(text, j + 1, n) = SubSeq(text, j, n)
      BY <1>s, <2>0, <2>5, <3>2
    <3> QED
      BY <3>4, <3>6, <3>7
  <2>6. CASE text[j] # QuoteMark
    <3>1. k = 1 /\ first[1] = text[j]
      BY <2>6
    <3>2. p >= 1 /\ p <= l /\ line[p] = text[j]
      <4>1. p >= 1 /\ p + 1 - 1 <= l /\ line[p + 1 - 1] = first[1]
        <5> HIDE DEF first
        <5> QED
          BY <2>3, <3>1 DEF Has, l
      <4>2. p + 1 - 1 = p
        OBVIOUS
      <4> QED
        BY <3>1, <4>1, <4>2
    <3>3. p \in 1 .. l + 1
      BY <3>2, <1>0
    <3>4. f[p] = [field |-> <<line[p]>> \o f[p + 1].field, next |-> f[p + 1].next]
      BY <1>2, <2>6, <3>2, <3>3, Zenon
    <3>5. f[p + 1] = [field |-> SubSeq(text, j + 1, n), next |-> p + Len(e[j])]
      <4> HIDE DEF k
      <4> QED
        BY <2>4, <3>1
    <3> DEFINE there == f[p + 1]
               tail == SubSeq(text, j + 1, n)
               after == p + Len(e[j])
    <3>6. there.field = tail /\ there.next = after
      <4>1. there = [field |-> tail, next |-> after]
        BY <3>5
      <4> HIDE DEF there, tail, after
      <4> QED
        BY <4>1
    <3>7. <<line[p]>> \o SubSeq(text, j + 1, n) = SubSeq(text, j, n)
      BY <1>s, <2>0, <3>2
    <3> QED
      BY <3>4, <3>6, <3>7
  <2> QED
    BY <2>5, <2>6
<1>6. \A j \in 1 .. n + 1 : j \in P
  <2> DEFINE b == n + 1
  <2>1. b \in Int /\ 1 \in Int /\ 1 <= b
    BY <1>0
  <2> HIDE DEF P, b
  <2>2. \A j \in 1 .. b : j \in P
    BY <1>4, <1>5, <2>1, InductionDown DEF b
  <2> QED
    BY <2>2 DEF b
<1>7. ASSUME NEW j \in 1 .. n + 1, NEW p \in Nat PROVE Back(j, p)
  <2> HIDE DEF Back
  <2> QED
    BY <1>6
<1> QED
  BY <1>7, Zenon DEF e, f, n, l

\* Where a sequence stands, its first character stands and then the rest.
LEMMA HasFirst ==
    ASSUME NEW C, NEW line \in Seq(C), NEW p \in Nat, NEW c \in C, NEW s \in Seq(C), Has(line, p, <<c>> \o s)
    PROVE  /\ p \in 1 .. Len(line) /\ line[p] = c /\ Has(line, p + 1, s)
           /\ p + Len(<<c>> \o s) = (p + 1) + Len(s)
<1>1. <<c>> \in Seq(C) /\ Len(<<c>>) = 1 /\ (<<c>>)[1] = c
  OBVIOUS
<1> DEFINE q == <<c>>
<1>2. Has(line, p, q) /\ Has(line, p + Len(q), s) /\ p + Len(q \o s) = (p + Len(q)) + Len(s)
  <2>1. q \in Seq(C) /\ Has(line, p, q \o s)
    BY <1>1
  <2> HIDE DEF q
  <2> QED
    BY <2>1, HasBoth
<1>3. p >= 1 /\ p <= Len(line) /\ line[p] = c
  <2>1. p >= 1 /\ p + 1 - 1 <= Len(line) /\ line[p + 1 - 1] = q[1]
    BY <1>1, <1>2 DEF Has
  <2>2. p + 1 - 1 = p
    OBVIOUS
  <2> QED
    BY <1>1, <2>1, <2>2
<1> QED
  BY <1>1, <1>2, <1>3

\* A field of a line that a writer wrote is read back with its end.
LEMMA FieldBack ==
    ASSUME NEW t, NEW i, NEW cell \in Cells, NEW line \in Seq(TextCharacters), NEW p \in Nat,
           Has(line, p, CsvField(t, cell, i)), NEW b \in Nat, b = p + Len(CsvField(t, cell, i)),
           b = Len(line) + 1 \/ (b <= Len(line) /\ line[b] = Comma)
    PROVE  FieldAt(line, p) = [field |-> TextOf(cell), end |-> b]
<1> DEFINE C == TextCharacters
           text == TextOf(cell)
           s == CsvField(t, cell, i)
           n == Len(text)
           l == Len(line)
<1>0. text \in Seq(C) /\ n \in Nat /\ l \in Nat /\ p >= 1
  BY TextsAreTexts DEF Has
<1>m. QuoteMark \in C /\ Comma # QuoteMark
  BY Marks
<1>1. CASE s = Quote(text)
  <2> DEFINE e == Escaped(text)[1]
  <2>1. e \in Seq(C) /\ s = <<QuoteMark>> \o e
    <3>1. 1 \in 1 .. n + 1
      BY <1>0
    <3>2. e \in Seq(C)
      <4> HIDE DEF e
      <4> QED
        BY <1>0, <3>1, EscapedEquation DEF e
    <3> QED
      BY <1>1, <3>2 DEF Quote
  <2> HIDE DEF e, s, text
  <2>2. <<QuoteMark>> \in Seq(C) /\ Len(<<QuoteMark>>) = 1 /\ (<<QuoteMark>>)[1] = QuoteMark
    BY <1>m
  <2>3. Has(line, p + 1, e) /\ b = (p + 1) + Len(e) /\ p <= l /\ line[p] = QuoteMark
    <3>1. Has(line, p, <<QuoteMark>> \o e) /\ b = p + Len(<<QuoteMark>> \o e)
      BY <2>1 DEF s
    <3> QED
      BY <1>m, <2>1, <3>1, HasFirst
  <2>4. p <= l /\ line[p] = QuoteMark
    BY <2>3
  <2>5. b > l \/ line[b] # QuoteMark
    BY <1>m, <1>0
  <2>6. Quoted(line)[p + 1] = [field |-> text, next |-> b]
    <3>1. 1 \in 1 .. n + 1 /\ p + 1 \in Nat
      BY <1>0
    <3>2. SubSeq(text, 1, n) = text
      BY <1>0, Suffixes
    <3>3. Quoted(line)[p + 1] = [field |-> SubSeq(text, 1, n), next |-> (p + 1) + Len(e)]
      <4>1. C \subseteq C
        OBVIOUS
      <4>2. \A j \in 1 .. n + 1 : \A o \in Nat :
              Has(line, o, Escaped(text)[j]) /\ (o + Len(Escaped(text)[j]) > l \/ line[o + Len(Escaped(text)[j])] # QuoteMark) =>
                    Quoted(line)[o] = [field |-> SubSeq(text, j, n), next |-> o + Len(Escaped(text)[j])]
        BY <1>0, <4>1, QuotedBack
      <4> QED
        BY <4>2, <3>1, <2>3, <2>5 DEF e
    <3> QED
      BY <2>3, <3>2, <3>3
  <2>7. EndFrom(line, b) = b
    <3>1. b \in b .. l + 1 /\ \A j \in b .. b - 1 : line[j] # Comma
      BY <1>0
    <3> QED
      BY <3>1, EndIs, <1>0
  <2> DEFINE q == Quoted(line)[p + 1]
  <2>8. q.field = text /\ q.next = b
    BY <2>6
  <2>9. FieldAt(line, p) = [field |-> q.field, end |-> EndFrom(line, q.next)]
    BY <2>4 DEF FieldAt
  <2> QED
    BY <2>7, <2>8, <2>9 DEF text
<1>2. CASE s = text /\ Range(text) \cap {Comma, QuoteMark} = {}
  <2> HIDE DEF s, text
  <2>1. \A j \in 1 .. n : text[j] # Comma /\ text[j] # QuoteMark
    <3>1. \A j \in 1 .. n : text[j] \in Range(text)
      BY <1>0 DEF Range
    <3> QED
      BY <1>2, <3>1
  <2>2. b = p + n /\ p + n - 1 <= l /\ \A j \in 1 .. n : line[p + j - 1] = text[j]
    BY <1>2 DEF Has, s
  <2>3. \A j \in p .. b - 1 : line[j] # Comma /\ line[j] # QuoteMark
    <3> TAKE j \in p .. b - 1
    <3>1. j - p + 1 \in 1 .. n /\ p + (j - p + 1) - 1 = j
      BY <1>0, <2>2
    <3> QED
      BY <2>1, <2>2, <3>1
  <2>4. EndFrom(line, p) = b
    <3>1. b \in p .. l + 1
      BY <1>0, <2>2
    <3> QED
      BY <2>3, <3>1, EndIs, <1>0
  <2>5. ~(p <= l /\ line[p] = QuoteMark)
    BY <1>0, <1>m, <2>2, <2>3
  <2>6. SubSeq(line, p, b - 1) = text
    <3> DEFINE u == SubSeq(line, p, b - 1)
    <3>1. u \in Seq(C) /\ Len(u) = n /\ \A j \in 1 .. n : u[j] = line[p + j - 1]
      BY <1>0, <2>2
    <3>2. \A j \in 1 .. Len(u) : u[j] = text[j]
      BY <3>1, <2>2
    <3> HIDE DEF u
    <3> QED
      BY <1>0, <3>1, <3>2, SeqEqual DEF u
  <2> QED
    BY <2>4, <2>5, <2>6 DEF FieldAt, text
<1> QED
  BY <1>1, <1>2 DEF CsvField

\* The fields of a row from each column on, as an equation.
LEMMA JoinedEquation ==
    ASSUME NEW t, NEW row \in Seq(Cells), row # <<>>
    PROVE  /\ Joined(t, row)[Len(row)] = CsvField(t, row[Len(row)], Len(row))
           /\ \A k \in 1 .. Len(row) - 1 :
                Joined(t, row)[k] = CsvField(t, row[k], k) \o (<<Comma>> \o Joined(t, row)[k + 1])
           /\ \A k \in 1 .. Len(row) :
                CsvField(t, row[k], k) \in Seq(TextCharacters) /\ Joined(t, row)[k] \in Seq(TextCharacters)
<1> DEFINE n == Len(row)
           D == 1 .. n
           C == TextCharacters
           own(k) == CsvField(t, row[k], k)
           base == [k \in D |-> own(k)]
           rank == [k \in D |-> n - k]
           prev == [k \in D |-> IF k = n THEN k ELSE k + 1]
           step == [q \in D \X Seq(C) |-> own(q[1]) \o (<<Comma>> \o q[2])]
<1>0. n \in Nat /\ n >= 1 /\ n \in D /\ Comma \in C /\ QuoteMark \in C
  BY Marks
<1>f. ASSUME NEW k \in D PROVE own(k) \in Seq(C)
  <2>1. row[k] \in Cells
    OBVIOUS
  <2> DEFINE text == TextOf(row[k])
  <2>2. text \in Seq(C)
    BY <2>1, TextsAreTexts
  <2>3. Escaped(text)[1] \in Seq(C)
    <3>1. 1 \in 1 .. Len(text) + 1
      BY <2>2
    <3> HIDE DEF text
    <3> QED
      BY <2>2, <3>1, EscapedEquation
  <2>4. Quote(text) \in Seq(C)
    <3> HIDE DEF text, C
    <3> QED
      BY <1>0, <2>3 DEF Quote
  <2> QED
    BY <2>2, <2>4 DEF CsvField
<1> HIDE DEF C, own
<1>s. ASSUME NEW k \in D, NEW s \in Seq(C) PROVE own(k) \o (<<Comma>> \o s) \in Seq(C)
  <2>1. own(k) \in Seq(C)
    BY <1>f
  <2> HIDE DEF D
  <2> QED
    BY <1>0, <2>1
<1>1. PICK g \in [D -> Seq(C)] : Solves(g, D, {n}, base, prev, step)
  <2>1. Descends(D, {n}, rank, prev)
    <3>1. rank \in [D -> Nat] /\ prev \in [D -> D] /\ \A k \in D : k # n => rank[prev[k]] < rank[k]
      BY <1>0
    <3> HIDE DEF rank, prev, D, n
    <3> QED
      BY <3>1 DEF Descends
  <2>2. base \in [D -> Seq(C)] /\ Seq(C) # {}
    BY <1>f, <1>0
  <2>3. step \in [D \X Seq(C) -> Seq(C)]
    <3> HIDE DEF D
    <3> QED
      BY <1>s
  <2> HIDE DEF base, rank, prev, step, D, n
  <2> QED
    BY <2>1, <2>2, <2>3, Recursion, Zenon
<1>2. ASSUME NEW k \in D
      PROVE  g[k] = own(k) \o (IF k = n THEN <<>> ELSE <<Comma>> \o g[k + 1])
  <2>1. g[k] = IF k \in {n} THEN base[k] ELSE step[<<k, g[prev[k]]>>]
    <3> HIDE DEF base, prev, step, D, n
    <3> QED
      BY <1>1 DEF Solves
  <2>2. CASE k = n
    <3>1. k \in {n} /\ base[k] = own(k)
      BY <2>2
    <3>2. own(k) \o <<>> = own(k)
      <4>1. own(k) \in Seq(C)
        BY <1>f
      <4> QED
        BY <4>1
    <3> QED
      BY <2>1, <2>2, <3>1, <3>2, Zenon
  <2>3. CASE k # n
    <3>1. k \notin {n} /\ prev[k] = k + 1 /\ k + 1 \in D
      BY <1>0, <2>3
    <3>2. step[<<k, g[k + 1]>>] = own(k) \o (<<Comma>> \o g[k + 1])
      <4>1. g[k + 1] \in Seq(C)
        BY <1>1, <3>1
      <4> HIDE DEF D, n
      <4> QED
        BY <2>3, <4>1
    <3> QED
      BY <2>1, <2>3, <3>1, <3>2, Zenon
  <2> QED
    BY <2>2, <2>3
<1>3. g = [k \in 1 .. Len(row) |->
             CsvField(t, row[k], k) \o (IF k = Len(row) THEN <<>> ELSE <<Comma>> \o g[k + 1])]
  BY <1>2, Zenon DEF own
<1>4. Joined(t, row) = [k \in 1 .. Len(row) |->
             CsvField(t, row[k], k) \o (IF k = Len(row) THEN <<>> ELSE <<Comma>> \o Joined(t, row)[k + 1])]
  BY <1>3, Zenon DEF Joined
<1> DEFINE j == Joined(t, row)
<1>5. ASSUME NEW k \in D
      PROVE  j[k] = own(k) \o (IF k = n THEN <<>> ELSE <<Comma>> \o j[k + 1])
  BY <1>4, Zenon DEF own
<1> HIDE DEF j
<1>6. j[n] = own(n)
  <2>1. own(n) \o <<>> = own(n)
    <3>1. own(n) \in Seq(C)
      BY <1>f, <1>0
    <3> QED
      BY <3>1
  <2>2. j[n] = own(n) \o <<>>
    BY <1>5, <1>0, Zenon
  <2> QED
    BY <2>1, <2>2
<1>7. ASSUME NEW k \in 1 .. n - 1 PROVE j[k] = own(k) \o (<<Comma>> \o j[k + 1])
  <2>1. k \in D /\ k # n
    BY <1>0
  <2> QED
    BY <1>5, <2>1, Zenon
<1> DEFINE P == {k \in D : j[k] \in Seq(C)}
<1>8. \A k \in 1 .. n : k \in P
  <2>1. n \in P
    BY <1>0, <1>6, <1>f
  <2>2. ASSUME NEW k \in 1 .. n - 1, k + 1 \in P PROVE k \in P
    <3>1. k \in D /\ j[k + 1] \in Seq(C)
      BY <1>0, <2>2
    <3>2. j[k] \in Seq(C)
      BY <1>7, <1>s, <3>1
    <3> QED
      BY <3>1, <3>2
  <2>3. n \in Int /\ 1 \in Int /\ 1 <= n
    BY <1>0
  <2> HIDE DEF P, n
  <2> QED
    BY <2>1, <2>2, <2>3, InductionDown
<1>9. ASSUME NEW k \in D PROVE own(k) \in Seq(C) /\ j[k] \in Seq(C)
  BY <1>8, <1>f
<1> QED
  BY <1>6, <1>7, <1>9, Zenon DEF j, own, C

-----------------------------------------------------------------------------
(* Lines to fields and back *)

\* A field ends in the line, and the fields from each place on are an equation.
LEMMA FieldEnd ==
    ASSUME NEW C, NEW line \in Seq(C), NEW i \in 1 .. Len(line) + 1
    PROVE  FieldAt(line, i).end \in i .. Len(line) + 1
<1>0. Len(line) \in Nat
  OBVIOUS
<1>1. CASE i <= Len(line) /\ line[i] = QuoteMark
  <2> DEFINE q == Quoted(line)[i + 1].next
             u == Quoted(line)[i + 1].field
  <2>1. q \in i + 1 .. Len(line) + 1
    <3>1. i + 1 \in 1 .. Len(line) + 1
      BY <1>0, <1>1
    <3>2. \A k \in 1 .. Len(line) + 1 : Quoted(line)[k].next \in k .. Len(line) + 1
      BY QuotedEquation, Zenon
    <3> QED
      BY <3>1, <3>2
  <2>2. FieldAt(line, i) = [field |-> u, end |-> EndFrom(line, q)]
    BY <1>1 DEF FieldAt
  <2> HIDE DEF q, u
  <2>3. EndFrom(line, q) \in q .. Len(line) + 1
    <3>1. q \in 1 .. Len(line) + 1
      BY <1>0, <2>1
    <3> QED
      BY <3>1, EndFromInLine
  <2>4. EndFrom(line, q) \in i .. Len(line) + 1
    BY <1>0, <2>1, <2>3
  <2> QED
    BY <2>2, <2>4
<1>2. CASE ~(i <= Len(line) /\ line[i] = QuoteMark)
  <2> DEFINE u == SubSeq(line, i, EndFrom(line, i) - 1)
  <2>1. FieldAt(line, i) = [field |-> u, end |-> EndFrom(line, i)]
    BY <1>2 DEF FieldAt
  <2>2. EndFrom(line, i) \in i .. Len(line) + 1
    BY EndFromInLine
  <2> HIDE DEF u
  <2> QED
    BY <2>1, <2>2
<1> QED
  BY <1>1, <1>2

\* split_csv takes a field, and then those behind its comma.
LEMMA FieldsEquation ==
    ASSUME NEW C, NEW line \in Seq(C)
    PROVE  \A i \in 1 .. Len(line) + 1 :
              Fields(line)[i] = IF FieldAt(line, i).end > Len(line) THEN <<FieldAt(line, i).field>>
                                ELSE <<FieldAt(line, i).field>> \o Fields(line)[FieldAt(line, i).end + 1]
<1> DEFINE n == Len(line)
           D == 1 .. n + 1
           end(i) == FieldAt(line, i).end
           own(i) == FieldAt(line, i).field
           F == {own(i) : i \in D}
           B == {i \in D : end(i) > n}
           base == [i \in D |-> <<own(i)>>]
           rank == [i \in D |-> n + 1 - i]
           prev == [i \in D |-> IF end(i) > n THEN i ELSE end(i) + 1]
           step == [q \in D \X Seq(F) |-> <<own(q[1])>> \o q[2]]
<1>0. n \in Nat /\ 1 \in D
  OBVIOUS
<1>e. ASSUME NEW i \in D PROVE end(i) \in i .. n + 1
  BY FieldEnd
<1>f. ASSUME NEW i \in D PROVE own(i) \in F
  OBVIOUS
<1> HIDE DEF end, own, F
<1>1. PICK g \in [D -> Seq(F)] : Solves(g, D, B, base, prev, step)
  <2>1. Descends(D, B, rank, prev)
    <3>1. ASSUME NEW i \in D
          PROVE  prev[i] \in D /\ rank[i] \in Nat /\ (i \notin B => rank[prev[i]] < rank[i])
      <4>1. CASE end(i) > n
        BY <1>0, <4>1
      <4>2. CASE ~(end(i) > n)
        <5>1. end(i) \in Nat /\ end(i) + 1 \in D /\ end(i) + 1 > i
          BY <1>0, <1>e, <4>2
        <5>2. prev[i] = end(i) + 1
          BY <4>2
        <5> QED
          BY <1>0, <5>1, <5>2
      <4> QED
        BY <4>1, <4>2
    <3>2. rank \in [D -> Nat] /\ prev \in [D -> D]
      <4>1. rank = [i \in D |-> rank[i]] /\ prev = [i \in D |-> prev[i]]
        OBVIOUS
      <4> HIDE DEF rank, prev, D
      <4> QED
        BY <3>1, <4>1
    <3> HIDE DEF rank, prev, D, B, n
    <3> QED
      BY <3>1, <3>2 DEF Descends
  <2>2. base \in [D -> Seq(F)] /\ Seq(F) # {}
    <3>1. \A i \in D : <<own(i)>> \in Seq(F)
      <4> TAKE i \in D
      <4>1. own(i) \in F
        BY <1>f
      <4> QED
        BY <4>1
    <3>2. <<>> \in Seq(F)
      OBVIOUS
    <3> HIDE DEF D
    <3> QED
      BY <3>1, <3>2
  <2>3. step \in [D \X Seq(F) -> Seq(F)]
    <3> HIDE DEF D
    <3> QED
      BY <1>f
  <2> HIDE DEF base, rank, prev, step, D, n, B
  <2> QED
    BY <2>1, <2>2, <2>3, Recursion, Zenon
<1>2. ASSUME NEW i \in D PROVE g[i] = IF end(i) > n THEN <<own(i)>> ELSE <<own(i)>> \o g[end(i) + 1]
  <2>1. g[i] = IF i \in B THEN base[i] ELSE step[<<i, g[prev[i]]>>]
    <3> HIDE DEF base, prev, step, D, n, B
    <3> QED
      BY <1>1 DEF Solves
  <2>2. (i \in B <=> end(i) > n) /\ base[i] = <<own(i)>>
    <3> HIDE DEF D
    <3> QED
      OBVIOUS
  <2>3. ~(end(i) > n) => step[<<i, g[prev[i]]>>] = <<own(i)>> \o g[end(i) + 1]
    <3> SUFFICES ASSUME ~(end(i) > n) PROVE step[<<i, g[prev[i]]>>] = <<own(i)>> \o g[end(i) + 1]
      OBVIOUS
    <3>1. end(i) + 1 \in D
      BY <1>0, <1>e
    <3>2. prev[i] = end(i) + 1
      <4> HIDE DEF D
      <4> QED
        OBVIOUS
    <3>3. g[end(i) + 1] \in Seq(F)
      BY <1>1, <3>1
    <3>4. step[<<i, g[end(i) + 1]>>] = <<own(i)>> \o g[end(i) + 1]
      <4> HIDE DEF D, n
      <4> QED
        BY <3>1, <3>3
    <3> QED
      BY <3>2, <3>4, Zenon
  <2> HIDE DEF base, prev, step, D, n, B
  <2> QED
    BY <2>1, <2>2, <2>3, Zenon
<1> DEFINE Right(h, i) == LET f == FieldAt(line, i)
                          IN  IF f.end > Len(line) THEN <<f.field>> ELSE <<f.field>> \o h[f.end + 1]
<1>3. g = [i \in 1 .. Len(line) + 1 |-> Right(g, i)]
  <2>1. \A i \in D : g[i] = Right(g, i)
    BY <1>2, Zenon DEF end, own
  <2> HIDE DEF Right
  <2> QED
    BY <2>1
<1>4. Fields(line) = [i \in 1 .. Len(line) + 1 |-> Right(Fields(line), i)]
  BY <1>3, Zenon DEF Fields
<1>5. \A i \in D : Fields(line)[i] = Right(Fields(line), i)
  <2> HIDE DEF Right
  <2> QED
    BY <1>4, Zenon
<1> QED
  BY <1>5, Zenon

\* The fields of a row, from each column on, are read back.
LEMMA FieldsBack ==
    ASSUME NEW t, NEW row \in Seq(Cells), row # <<>>, NEW line \in Seq(TextCharacters)
    PROVE  \A k \in 1 .. Len(row) : \A p \in Nat :
              LET s == Joined(t, row)[k]
                  r == Fields(line)[p]
              IN  Has(line, p, s) /\ p + Len(s) = Len(line) + 1 =>
                    /\ r \in Seq(Seq(TextCharacters)) /\ Len(r) = Len(row) - k + 1
                    /\ \A i \in 1 .. Len(row) - k + 1 : r[i] = TextOf(row[k + i - 1])
<1> DEFINE n == Len(row)
           l == Len(line)
           C == TextCharacters
           j == Joined(t, row)
           f == Fields(line)
           own(k) == CsvField(t, row[k], k)
           text(k) == TextOf(row[k])
           Rest(r, k) == /\ r \in Seq(Seq(C)) /\ Len(r) = n - k + 1
                         /\ \A i \in 1 .. n - k + 1 : r[i] = text(k + i - 1)
           Back(k, p) == Has(line, p, j[k]) /\ p + Len(j[k]) = l + 1 => Rest(f[p], k)
           P == {k \in 1 .. n : \A p \in Nat : Back(k, p)}
<1>0. n \in Nat /\ n >= 1 /\ l \in Nat /\ Comma \in C
  BY Marks
<1>1. /\ j[n] = own(n)
      /\ \A k \in 1 .. n - 1 : j[k] = own(k) \o (<<Comma>> \o j[k + 1])
      /\ \A k \in 1 .. n : own(k) \in Seq(C) /\ j[k] \in Seq(C)
  BY JoinedEquation
<1>2. ASSUME NEW k \in 1 .. n PROVE row[k] \in Cells /\ text(k) \in Seq(C)
  <2>1. row[k] \in Cells
    OBVIOUS
  <2> QED
    BY <2>1, TextsAreTexts
<1>3. ASSUME NEW p \in 1 .. l + 1
      PROVE  f[p] = IF FieldAt(line, p).end > l THEN <<FieldAt(line, p).field>>
                    ELSE <<FieldAt(line, p).field>> \o f[FieldAt(line, p).end + 1]
  BY FieldsEquation, Zenon
<1>4. ASSUME NEW k \in 1 .. n, NEW p \in Nat, Has(line, p, own(k)), NEW b \in Nat, b = p + Len(own(k)),
             b = l + 1 \/ (b <= l /\ line[b] = Comma)
      PROVE  /\ p \in 1 .. l + 1 /\ FieldAt(line, p).field = text(k) /\ FieldAt(line, p).end = b
  <2>1. FieldAt(line, p) = [field |-> text(k), end |-> b]
    BY <1>2, <1>4, FieldBack
  <2>2. p \in 1 .. l + 1
    <3>1. own(k) \in Seq(C)
      BY <1>1
    <3>2. Len(own(k)) \in Nat /\ p >= 1
      BY <3>1, <1>4 DEF Has
    <3> HIDE DEF own, l
    <3> QED
      BY <1>0, <1>4, <3>2
  <2> HIDE DEF text
  <2> QED
    BY <2>1, <2>2
<1> HIDE DEF j, f, own, l
<1>5. n \in P
  <2>0. ASSUME \A p \in Nat : Back(n, p) PROVE n \in P
    <3> HIDE DEF Back
    <3> QED
      BY <1>0, <2>0
  <2> SUFFICES ASSUME NEW p \in Nat, Has(line, p, j[n]), p + Len(j[n]) = l + 1 PROVE Rest(f[p], n)
    <3> HIDE DEF Rest
    <3> QED
      BY <2>0
  <2>1. n \in 1 .. n /\ n - n + 1 = 1 /\ \A i \in 1 .. 1 : n + i - 1 = n
    BY <1>0
  <2>2. p \in 1 .. l + 1 /\ FieldAt(line, p).field = text(n) /\ FieldAt(line, p).end = l + 1
    <3> DEFINE b == l + 1
    <3>1. b \in Nat /\ b = p + Len(own(n)) /\ Has(line, p, own(n)) /\ b = l + 1
      BY <1>0, <1>1
    <3> HIDE DEF b, text, n
    <3> QED
      BY <1>4, <2>1, <3>1
  <2>3. f[p] = <<text(n)>>
    <3>1. l + 1 > l
      BY <1>0
    <3> HIDE DEF text
    <3> QED
      BY <1>3, <2>2, <3>1
  <2>4. text(n) \in Seq(C)
    BY <1>2, <2>1
  <2> HIDE DEF text
  <2>5. <<text(n)>> \in Seq(Seq(C)) /\ Len(<<text(n)>>) = 1 /\ (<<text(n)>>)[1] = text(n)
    BY <2>4
  <2>6. \A i \in 1 .. 1 : (<<text(n)>>)[i] = text(n + i - 1)
    BY <2>1, <2>5
  <2> QED
    BY <2>1, <2>3, <2>5, <2>6
<1>6. ASSUME NEW k \in 1 .. n - 1, k + 1 \in P PROVE k \in P
  <2>0. k \in 1 .. n /\ k + 1 \in 1 .. n /\ k \in Nat
    BY <1>0
  <2> SUFFICES ASSUME NEW p \in Nat, Has(line, p, j[k]), p + Len(j[k]) = l + 1 PROVE Rest(f[p], k)
    BY <2>0
  <2> DEFINE s == own(k)
             rest == j[k + 1]
             more == <<Comma>> \o rest
             b == p + Len(s)
  <2>1. s \in Seq(C) /\ rest \in Seq(C) /\ j[k] = s \o more
    BY <1>1, <2>0
  <2> HIDE DEF s, rest
  <2>2. more \in Seq(C)
    BY <1>0, <2>1
  <2> HIDE DEF more
  <2>3. Has(line, p, s) /\ Has(line, p + Len(s), more) /\ p + Len(s \o more) = (p + Len(s)) + Len(more)
    BY <2>1, <2>2, HasBoth
  <2>4. b \in Nat /\ b = p + Len(s)
    BY <2>1
  <2>5. b \in 1 .. l /\ line[b] = Comma /\ Has(line, b + 1, rest) /\ b + Len(more) = (b + 1) + Len(rest)
    <3>1. Has(line, b, <<Comma>> \o rest)
      BY <2>3 DEF more
    <3> HIDE DEF b
    <3> QED
      BY <1>0, <2>1, <2>4, <3>1, HasFirst DEF more, l
  <2>6. (b + 1) + Len(rest) = l + 1
    BY <2>1, <2>3, <2>5
  <2>7. p \in 1 .. l + 1 /\ FieldAt(line, p).field = text(k) /\ FieldAt(line, p).end = b
    <3>1. Has(line, p, own(k)) /\ b = p + Len(own(k)) /\ b <= l
      BY <1>0, <2>3, <2>4, <2>5 DEF s
    <3> HIDE DEF b, text, n
    <3> QED
      BY <1>4, <2>0, <2>4, <2>5, <3>1
  <2> HIDE DEF b
  <2>8. f[p] = <<text(k)>> \o f[b + 1]
    <3>1. ~(b > l)
      BY <1>0, <2>4, <2>5
    <3> HIDE DEF text
    <3> QED
      BY <1>3, <2>7, <3>1
  <2>9. Rest(f[b + 1], k + 1)
    <3>1. b + 1 \in Nat /\ Back(k + 1, b + 1)
      <4>1. b + 1 \in Nat
        BY <2>4
      <4> HIDE DEF Back
      <4> QED
        BY <1>6, <4>1
    <3> HIDE DEF Rest
    <3> QED
      BY <2>5, <2>6, <3>1 DEF rest
  <2>10. text(k) \in Seq(C)
    BY <1>2, <2>0
  <2> DEFINE r == f[b + 1]
             u == <<text(k)>> \o r
  <2>11. r \in Seq(Seq(C)) /\ Len(r) = n - k /\ \A i \in 1 .. n - k : r[i] = text(k + i)
    <3>1. n - (k + 1) + 1 = n - k /\ \A i \in 1 .. n - k : (k + 1) + i - 1 = k + i
      BY <1>0, <2>0
    <3> HIDE DEF text, n
    <3> QED
      BY <2>9, <3>1
  <2>12. u \in Seq(Seq(C)) /\ Len(u) = 1 + Len(r) /\ u[1] = text(k) /\ \A i \in 1 .. Len(r) : u[i + 1] = r[i]
    <3> DEFINE c == text(k)
    <3>1. c \in Seq(C) /\ r \in Seq(Seq(C))
      BY <2>10, <2>11
    <3> HIDE DEF r, c
    <3>2. <<c>> \o r \in Seq(Seq(C)) /\ Len(<<c>> \o r) = 1 + Len(r) /\ (<<c>> \o r)[1] = c
          /\ \A i \in 1 .. Len(r) : (<<c>> \o r)[i + 1] = r[i]
      BY <3>1, Prepend
    <3> QED
      BY <3>2 DEF c
  <2> HIDE DEF r, u, text
  <2>13. \A i \in 1 .. n - k + 1 : u[i] = text(k + i - 1)
    <3> TAKE i \in 1 .. n - k + 1
    <3>1. CASE i = 1
      <4>1. k + i - 1 = k
        BY <2>0, <3>1
      <4> QED
        BY <2>12, <3>1, <4>1
    <3>2. CASE i # 1
      <4>1. i - 1 \in 1 .. n - k /\ (i - 1) + 1 = i /\ k + (i - 1) = k + i - 1
        BY <1>0, <2>0, <3>2
      <4>2. u[i] = r[i - 1] /\ r[i - 1] = text(k + (i - 1))
        <5>1. u[(i - 1) + 1] = r[i - 1]
          BY <2>11, <2>12, <4>1
        <5> QED
          BY <2>11, <4>1, <5>1
      <4> QED
        BY <4>1, <4>2
    <3> QED
      BY <3>1, <3>2
  <2>14. u \in Seq(Seq(C)) /\ Len(u) = n - k + 1
    BY <1>0, <2>0, <2>11, <2>12
  <2>15. f[p] = u
    BY <2>8 DEF u, r
  <2> QED
    BY <2>13, <2>14, <2>15
<1>7. \A k \in 1 .. n : k \in P
  <2>3. n \in Int /\ 1 \in Int /\ 1 <= n
    BY <1>0
  <2> HIDE DEF P, n
  <2> QED
    BY <1>5, <1>6, <2>3, InductionDown
<1>8. ASSUME NEW k \in 1 .. n, NEW p \in Nat PROVE Back(k, p)
  <2> HIDE DEF Back
  <2> QED
    BY <1>7
<1> QED
  BY <1>8, Zenon DEF j, f, l

\* csv.hpp:56-103: what RFC 4180 writes of a row - quotes and commas in it, and a CR at
\* its end - is read back as the texts of its cells, one field for each.
THEOREM RoundTrip ==
    ASSUME NEW t, t.crlf \in BOOLEAN, NEW row \in Seq(Cells), row # <<>>
    PROVE  /\ split_csv(chomp_cr(Line(t, row))) = [i \in 1 .. Len(row) |-> TextOf(row[i])]
           /\ Len(split_csv(chomp_cr(Line(t, row)))) = Len(row)
<1> DEFINE C == TextCharacters
           n == Len(row)
           s == Joined(t, row)[1]
           line == Line(t, row)
<1>0. n \in Nat /\ n >= 1 /\ 1 \in 1 .. n
  OBVIOUS
<1>1. s \in Seq(C)
  BY <1>0, JoinedEquation
<1>2. chomp_cr(line) = s
  <2>1. CASE t.crlf
    <3>1. line = s \o <<Cr>>
      BY <2>1 DEF Line
    <3> HIDE DEF s, line, C
    <3> DEFINE E == C \cup {Cr}
               m == Len(s)
    <3>2. s \in Seq(E) /\ Cr \in E /\ m \in Nat
      BY <1>1
    <3>3. line \in Seq(E) /\ Len(line) = m + 1 /\ line[m + 1] = Cr /\ \A i \in 1 .. m : line[i] = s[i]
      <4> HIDE DEF E
      <4> QED
        BY <3>1, <3>2
    <3>4. line # <<>> /\ line[Len(line)] = Cr
      BY <3>2, <3>3
    <3>5. SubSeq(line, 1, Len(line) - 1) = s
      <4> DEFINE u == SubSeq(line, 1, Len(line) - 1)
      <4>1. Len(line) - 1 = m
        BY <3>2, <3>3
      <4>2. u \in Seq(E) /\ Len(u) = m /\ \A i \in 1 .. m : u[i] = line[i]
        <5> HIDE DEF E
        <5> QED
          BY <3>2, <3>3, <4>1
      <4>3. \A i \in 1 .. Len(u) : u[i] = s[i]
        BY <3>3, <4>2
      <4> HIDE DEF u, E
      <4> QED
        BY <3>2, <4>2, <4>3, SeqEqual DEF u
    <3> QED
      BY <3>4, <3>5 DEF chomp_cr
  <2>2. CASE ~t.crlf
    <3>1. line = s
      <4>1. s \o <<>> = s
        <5> HIDE DEF s
        <5> QED
          BY <1>1
      <4> QED
        BY <2>2, <4>1 DEF Line
    <3> HIDE DEF s, line
    <3>2. s # <<>> => s[Len(s)] # Cr
      <4> SUFFICES ASSUME s # <<>> PROVE s[Len(s)] # Cr
        OBVIOUS
      <4>1. s[Len(s)] \in C
        BY <1>1
      <4> QED
        BY <4>1, Marks
    <3> QED
      BY <3>1, <3>2 DEF chomp_cr
  <2> QED
    BY <2>1, <2>2
<1> HIDE DEF s, line
<1> DEFINE r == Fields(s)[1]
<1>3. r \in Seq(Seq(C)) /\ Len(r) = n /\ \A i \in 1 .. n : r[i] = TextOf(row[i])
  <2>1. Has(s, 1, s) /\ 1 + Len(s) = Len(s) + 1
    <3>1. Len(s) \in Nat /\ \A i \in 1 .. Len(s) : 1 + i - 1 = i
      BY <1>1
    <3> QED
      BY <3>1 DEF Has
  <2>2. /\ r \in Seq(Seq(C)) /\ Len(r) = n - 1 + 1 /\ \A i \in 1 .. n - 1 + 1 : r[i] = TextOf(row[1 + i - 1])
    <3>1. Has(s, 1, Joined(t, row)[1]) /\ 1 + Len(Joined(t, row)[1]) = Len(s) + 1
      BY <2>1 DEF s
    <3> HIDE DEF n
    <3> QED
      BY <1>0, <1>1, <3>1, FieldsBack DEF n
  <2>3. n - 1 + 1 = n /\ \A i \in 1 .. n : 1 + i - 1 = i
    BY <1>0
  <2> HIDE DEF r, n
  <2> QED
    BY <2>2, <2>3
<1>4. r = [i \in 1 .. n |-> TextOf(row[i])]
  <2>1. r = [i \in 1 .. n |-> r[i]]
    <3> HIDE DEF r, n
    <3> QED
      BY <1>0, <1>3
  <2> HIDE DEF r, n
  <2> QED
    BY <1>3, <2>1
<1> QED
  BY <1>2, <1>3, <1>4 DEF split_csv, line

-----------------------------------------------------------------------------
(* Depth, integers, symbols, columns *)

\* A book's depth is 0 or a supported one from which on no level is there, and
\* levels without a gap up to a supported depth give that depth.
LEMMA DepthIs ==
    ASSUME NEW levels
    PROVE  /\ \/ book_depth_of(levels) = 0
              \/ /\ book_depth_of(levels) \in Supported
                 /\ \A n \in book_depth_of(levels) .. ProbeMax : n \notin levels
           /\ book_depth_of(levels) \in Nat
           /\ \A d \in Supported : levels = 1 .. d - 1 => book_depth_of(levels) = d
           /\ \A d \in Supported : d \in Nat /\ d >= 1 /\ d <= ProbeMax
<1> DEFINE S == {ProbeMax + 1} \cup ((1 .. ProbeMax) \ levels)
           gap == FirstGap(levels)
<1>0. /\ ProbeMax \in Nat /\ kMaxDepth \in Nat /\ kMaxDepth <= ProbeMax
      /\ \A d \in Supported : d \in Nat /\ d >= 1 /\ d <= kMaxDepth
  BY DepthAssumption DEF ProbeMax
<1>1. S \in SUBSET Nat /\ S # {}
  BY <1>0
<1>2. gap \in S /\ \A n \in S : gap <= n
  <2>1. Min(S) \in S /\ \A n \in S : Min(S) <= n
    <3> HIDE DEF S
    <3> QED
      BY <1>1, LeastElement
  <2> QED
    BY <2>1, Zenon DEF FirstGap
<1> HIDE DEF gap
<1>3. gap \in Nat
  BY <1>1, <1>2
<1>4. book_depth_of(levels) = IF levels \cap (gap + 1 .. ProbeMax) = {} /\ gap \in Supported THEN gap ELSE 0
  BY DEF book_depth_of, FirstProbe, gap
<1>5. ASSUME levels \cap (gap + 1 .. ProbeMax) = {}, gap \in Supported PROVE \A n \in gap .. ProbeMax : n \notin levels
  <2>1. gap \notin levels
    BY <1>0, <1>2, <1>5
  <2>2. \A n \in gap .. ProbeMax : n = gap \/ n \in gap + 1 .. ProbeMax
    BY <1>0, <1>3
  <2> QED
    BY <1>5, <2>1, <2>2
<1>6. ASSUME NEW d \in Supported, levels = 1 .. d - 1 PROVE book_depth_of(levels) = d
  <2>1. d \in S
    BY <1>0, <1>6
  <2>2. gap <= d
    BY <1>2, <2>1
  <2>3. ~(gap < d)
    BY <1>0, <1>2, <1>3, <1>6
  <2>4. gap = d
    BY <1>0, <1>3, <2>2, <2>3
  <2>5. levels \cap (gap + 1 .. ProbeMax) = {}
    BY <1>0, <1>6, <2>4
  <2> QED
    BY <1>4, <2>4, <2>5
<1>7. \A d \in Supported : d \in Nat /\ d >= 1 /\ d <= ProbeMax
  BY <1>0
<1>8. book_depth_of(levels) = 0 \/ (book_depth_of(levels) \in Supported /\ \A n \in book_depth_of(levels) .. ProbeMax : n \notin levels)
  BY <1>4, <1>5
<1>9. book_depth_of(levels) \in Nat
  BY <1>0, <1>8
<1> QED
  BY <1>6, <1>7, <1>8, <1>9

\* Division with remainder, and its remainder.
LEMMA DivisionOf ==
    ASSUME NEW n \in Int, NEW m \in Nat, m > 0
    PROVE  \E q \in Int, r \in 0 .. m - 1 : n = m * q + r
<1>1. n % m \in 0 .. m - 1
  OBVIOUS
<1>2. n \div m \in Int
  OBVIOUS
<1>3. n = m * (n \div m) + (n % m)
  OBVIOUS
<1> DEFINE q == n \div m  r == n % m
<1> HIDE DEF q, r
<1> QED
  BY <1>1, <1>2, <1>3 DEF q, r

\* The remainder that a sum shows.
LEMMA RemainderOf ==
    ASSUME NEW m \in Nat, m > 0, NEW q \in Int, NEW r \in 0 .. m - 1
    PROVE  (m * q + r) % m = r
OBVIOUS

\* An integer of 64 bits is the only one of its type that it can be taken for.
LEMMA Wrapping ==
    ASSUME NEW n \in Int
    PROVE  /\ AsI64(n) \in I64s /\ (n \in I64s => AsI64(n) = n) /\ AsI64(n) % U64 = n % U64
           /\ AsU64(n) \in U64s /\ (n \in U64s => AsU64(n) = n) /\ AsU64(n) % U64 = n % U64
           /\ n \in JsonIntegers /\ AsI64(n) \in {0, 1} => AsI64(n) = n
<1> DEFINE U == U64
           H == U64 \div 2
<1>0. U \in Nat /\ U > 9 /\ U > 0 /\ H \in Nat /\ U = 2 * H
  BY WidthAssumption
<1> HIDE DEF U, H
<1>1. PICK q \in Int, r \in 0 .. U - 1 : n = U * q + r
  BY <1>0, DivisionOf, Zenon
<1>2. n % U = r
  BY <1>0, <1>1, RemainderOf
<1>3. n % U \in 0 .. U - 1 /\ (n % U) % U = n % U /\ (n \in 0 .. U - 1 => n % U = n)
  <2>1. r % U = r
    BY <1>0
  <2>2. n \in 0 .. U - 1 => n % U = n
    BY <1>0
  <2> QED
    BY <1>2, <2>1, <2>2
<1>4. PICK p \in Int, o \in 0 .. U - 1 : n + H = U * p + o
  <2>1. n + H \in Int
    BY <1>0
  <2> QED
    BY <1>0, <2>1, DivisionOf, Zenon
<1>5. (n + H) % U = o
  <2>1. (U * p + o) % U = o
    BY <1>0, RemainderOf
  <2> QED
    BY <1>4, <2>1, Zenon
<1>6. AsI64(n) = o - H /\ AsI64(n) \in Int
  BY <1>0, <1>5 DEF AsI64, U, H
<1>7. AsI64(n) \in -H .. H - 1
  BY <1>0, <1>6
<1>8. n \in -H .. H - 1 => AsI64(n) = n
  <2> SUFFICES ASSUME n \in -H .. H - 1 PROVE AsI64(n) = n
    OBVIOUS
  <2>1. n + H \in 0 .. U - 1
    BY <1>0
  <2>2. (n + H) % U = n + H
    BY <1>0, <2>1
  <2> QED
    BY <1>0, <1>5, <1>6, <2>2
<1>9. AsI64(n) % U = n % U
  <2>1. AsI64(n) = U * (q - p) + r
    <3>1. AsI64(n) = U * q + r - U * p /\ U * q \in Int /\ U * p \in Int
      BY <1>0, <1>1, <1>4, <1>6
    <3>2. U * (q - p) = U * q - U * p
      BY <1>0
    <3> QED
      BY <3>1, <3>2, <1>0
  <2>2. q - p \in Int
    OBVIOUS
  <2>3. (U * (q - p) + r) % U = r
    BY <1>0, <2>2, RemainderOf
  <2> QED
    BY <1>2, <2>1, <2>3
<1>10. n \in -H .. U - 1 /\ AsI64(n) \in {0, 1} => AsI64(n) = n
  <2> SUFFICES ASSUME n \in H .. U - 1, AsI64(n) \in {0, 1} PROVE FALSE
    BY <1>0, <1>8
  <2>1. n + H = U * 1 + (n - H) /\ n - H \in 0 .. U - 1
    BY <1>0
  <2>2. (n + H) % U = n - H
    <3> DEFINE m == n - H
    <3>1. m \in 0 .. U - 1 /\ n + H = U * 1 + m
      BY <2>1
    <3> HIDE DEF m
    <3>2. (U * 1 + m) % U = m
      BY <1>0, <3>1, RemainderOf
    <3> QED
      BY <3>1, <3>2 DEF m
  <2>3. AsI64(n) = n - H - H
    BY <1>0, <1>5, <1>6, <2>2
  <2> QED
    BY <1>0, <2>3
<1> QED
  BY <1>3, <1>7, <1>8, <1>9, <1>10 DEF I64s, U64s, JsonIntegers, AsU64, U, H

\* A known name gets the id of a symbol of that name, an unknown one none.
LEMMA SymbolOf ==
    ASSUME NEW name
    PROVE  /\ gid_of(name) = NoSymbol => name \notin Range(kGidNames)
           /\ gid_of(name) # NoSymbol =>
                /\ gid_of(name) \in 0 .. N_GIDS - 1 /\ NameOf(gid_of(name)) = name
                /\ name \in Seq(Characters)
<1> DEFINE equal == {g \in 0 .. N_GIDS - 1 : NameOf(g) = name}
<1>0. N_GIDS \in Nat /\ kGidNames \in Seq(Seq(Characters)) /\ DOMAIN kGidNames = 1 .. N_GIDS
  <2>1. kGidNames \in Seq(Seq(Characters))
    BY TablesAssumption, Zenon
  <2> QED
    BY <2>1 DEF N_GIDS
<1>1. CASE equal = {}
  <2>1. gid_of(name) = NoSymbol
    BY <1>1 DEF gid_of
  <2>2. ASSUME name \in Range(kGidNames) PROVE FALSE
    <3>1. PICK i \in 1 .. N_GIDS : kGidNames[i] = name
      BY <1>0, <2>2 DEF Range
    <3>2. i - 1 \in 0 .. N_GIDS - 1 /\ (i - 1) + 1 = i
      BY <1>0
    <3>3. i - 1 \in equal
      BY <3>1, <3>2 DEF NameOf
    <3> QED
      BY <1>1, <3>3
  <2> QED
    BY <2>1, <2>2
<1>2. CASE equal # {}
  <2>1. gid_of(name) = Min(equal)
    BY <1>2 DEF gid_of
  <2>2. equal \in SUBSET Nat
    BY <1>0
  <2>3. Min(equal) \in equal
    <3> HIDE DEF equal
    <3> QED
      BY <1>2, <2>2, LeastElement
  <2> DEFINE g == gid_of(name)
  <2>4. g \in 0 .. N_GIDS - 1 /\ NameOf(g) = name
    BY <2>1, <2>3
  <2> HIDE DEF g
  <2>5. g # NoSymbol
    BY <1>0, <2>4 DEF NoSymbol
  <2>6. name \in Seq(Characters)
    <3>1. g + 1 \in 1 .. N_GIDS /\ kGidNames[g + 1] = name
      BY <1>0, <2>4 DEF NameOf
    <3> QED
      BY <1>0, <3>1
  <2> QED
    BY <2>4, <2>5, <2>6 DEF g
<1> QED
  BY <1>1, <1>2

\* The place of a column in a header.
LEMMA IdxIs ==
    ASSUME NEW t, IsTable(t), NEW c \in Header(t)
    PROVE  idx(t, c) \in DOMAIN t.header /\ t.header[idx(t, c)] = c
<1>1. t.header \in Seq(STRING \X Nat) /\ \A i, j \in DOMAIN t.header : t.header[i] = t.header[j] => i = j
  BY DEF IsTable
<1>2. PICK i \in DOMAIN t.header : t.header[i] = c
  BY DEF Header, Range
<1>3. \A j \in 1 .. i - 1 : t.header[j] # c
  <2> TAKE j \in 1 .. i - 1
  <2>1. j \in DOMAIN t.header /\ j # i
    BY <1>1
  <2> QED
    BY <1>1, <1>2, <2>1
<1>4. \E k \in DOMAIN t.header : t.header[k] = c /\ \A j \in 1 .. k - 1 : t.header[j] # c
  BY <1>2, <1>3
<1> QED
  BY <1>4 DEF idx

\* What is an integer was one in the table.
LEMMA IntegerText ==
    ASSUME NEW cell \in Cells, NEW T
    PROVE  /\ IsInt(TextOf(cell), T) => cell[1] = "int" /\ cell[2] \in T /\ IntOf(TextOf(cell)) = cell[2]
           /\ cell[1] = "int" /\ cell[2] \in T => IsInt(TextOf(cell), T)
           /\ cell[1] = "int" => cell[2] \in Int
<1>1. CASE cell[1] = "word" /\ cell[2] \in Seq(Characters)
  <2>1. TextOf(cell) = cell[2] /\ cell[1] # "int"
    BY <1>1 DEF TextOf
  <2> DEFINE text == cell[2]
  <2>2. ASSUME IsInt(text, T) PROVE FALSE
    <3>1. text \in Seq(Characters) /\ Len(text) = 1 /\ text[1][1] = "int"
      BY <1>1, <2>2 DEF IsInt
    <3> HIDE DEF text
    <3>2. text[1] \in Characters
      BY <3>1
    <3>3. PICK l \in Letters : text[1] = <<l>>
      BY <3>2 DEF Characters
    <3>4. l = "int"
      BY <3>1, <3>3
    <3> QED
      BY <3>4, TablesAssumption
  <2> QED
    BY <2>1, <2>2
<1>2. CASE cell[1] # "word" /\ (cell[1] = "int" => cell[2] \in Int)
  <2> DEFINE a == cell[1]  b == cell[2]
  <2>1. TextOf(cell) = << <<a, b>> >>
    BY <1>2 DEF TextOf
  <2> HIDE DEF a, b
  <2>2. Len(<< <<a, b>> >>) = 1 /\ (<< <<a, b>> >>)[1] = <<a, b>>
    OBVIOUS
  <2>3. (<<a, b>>)[1] = a /\ (<<a, b>>)[2] = b
    OBVIOUS
  <2>4. IsInt(TextOf(cell), T) <=> a = "int" /\ b \in T
    BY <2>1, <2>2, <2>3 DEF IsInt
  <2>5. IntOf(TextOf(cell)) = b
    BY <2>1, <2>2, <2>3 DEF IntOf
  <2> QED
    BY <1>2, <2>4, <2>5 DEF a, b
<1> QED
  BY <1>1, <1>2, CellForms

\* The texts that encode_group is given, and those that it takes for no number.
LEMMA DecimalText ==
    ASSUME NEW cell \in Cells
    PROVE  /\ DecimalOf(TextOf(cell)) \in ShortTexts
           /\ cell[1] = "num" => DecimalOf(TextOf(cell)) = cell[2]
           /\ cell[1] # "num" => \A sc \in Nat : mantissa_at(DecimalOf(TextOf(cell)), sc) = IllFormed
<1> DEFINE text == TextOf(cell)
           void == [i \in DOMAIN text |-> Other]
           n == [neg |-> FALSE, int |-> void, dot |-> FALSE, frac |-> <<>>]
<1>1. CASE cell[1] = "num" /\ cell[2] \in ShortTexts
  <2> DEFINE a == cell[1]  b == cell[2]
  <2>1. text = << <<a, b>> >>
    BY <1>1 DEF TextOf
  <2> HIDE DEF a, b
  <2>2. Len(<< <<a, b>> >>) = 1 /\ (<< <<a, b>> >>)[1] = <<a, b>> /\ (<<a, b>>)[1] = a /\ (<<a, b>>)[2] = b
    OBVIOUS
  <2>3. DecimalOf(text) = b
    <3> HIDE DEF text
    <3> QED
      BY <1>1, <2>1, <2>2 DEF DecimalOf, a
  <2> QED
    BY <1>1, <2>3 DEF b
<1>2. CASE cell[1] # "num"
  <2>0. text \in Seq(TextCharacters)
    BY TextsAreTexts
  <2>1. DecimalOf(text) = n
    <3>1. ASSUME Len(text) = 1, text[1][1] = "num" PROVE FALSE
      <4>1. CASE cell[1] = "word" /\ cell[2] \in Seq(Characters)
        <5> DEFINE w == cell[2]
        <5>1. w \in Seq(Characters) /\ Len(w) = 1 /\ w[1][1] = "num"
          BY <3>1, <4>1 DEF TextOf
        <5> HIDE DEF w
        <5>2. w[1] \in Characters
          BY <5>1
        <5>3. PICK l \in Letters : w[1] = <<l>>
          BY <5>2 DEF Characters
        <5>4. l = "num"
          BY <5>1, <5>3
        <5> QED
          BY <5>4, TablesAssumption
      <4>2. CASE cell[1] = "int"
        <5> DEFINE a == cell[1]  b == cell[2]
        <5>1. text = << <<a, b>> >>
          BY <4>2 DEF TextOf
        <5> HIDE DEF a, b, text
        <5>2. (<< <<a, b>> >>)[1] = <<a, b>> /\ (<<a, b>>)[1] = a
          OBVIOUS
        <5>3. a = "num"
          BY <3>1, <5>1, <5>2
        <5> QED
          BY <1>2, <5>3 DEF a
      <4> QED
        BY <1>2, <4>1, <4>2, CellForms
    <3> HIDE DEF text
    <3> QED
      BY <3>1 DEF DecimalOf
  <2> DEFINE C == Digits \cup {Other}
             k == Len(text)
  <2>2. void \in Seq(C) /\ Len(void) = k /\ k \in Nat /\ \A i \in 1 .. k : void[i] = Other
    <3>1. DOMAIN text = 1 .. k /\ k \in Nat
      <4> HIDE DEF text
      <4> QED
        BY <2>0
    <3>2. void = [i \in 1 .. k |-> Other]
      BY <3>1
    <3>3. [i \in 1 .. k |-> Other] \in Seq(C) /\ Len([i \in 1 .. k |-> Other]) = k
      <4>1. Other \in C
        OBVIOUS
      <4> HIDE DEF C, k
      <4> QED
        BY <3>1, <4>1
    <3> HIDE DEF text, k, C, void
    <3> QED
      BY <3>1, <3>2, <3>3
  <2> HIDE DEF void, k
  <2>3. <<>> \in Seq(C) /\ n \in Texts /\ n.int = void /\ n.frac = <<>> /\ n.neg = FALSE /\ n.dot = FALSE
    <3>1. <<>> \in Seq(C)
      OBVIOUS
    <3> QED
      BY <2>2, <3>1 DEF Texts
  <2>4. decimals_of(n) = 0
    <3> DEFINE S == {0} \cup {i \in DOMAIN n.frac : n.frac[i] # 0}
    <3>1. DOMAIN <<>> = {}
      OBVIOUS
    <3>2. S = {0}
      BY <2>3, <3>1
    <3>3. Max(S) = 0
      <4>1. S \in SUBSET Nat /\ S # {} /\ \A i \in S : i <= 0
        BY <3>2
      <4>2. Max(S) \in S
        <5> HIDE DEF S
        <5> QED
          BY <4>1, GreatestElement
      <4> QED
        BY <3>2, <4>2
    <3> QED
      BY <3>3 DEF decimals_of
  <2>5. U8 > 0
    BY WidthAssumption
  <2>6. n \in ShortTexts
    BY <2>3, <2>4, <2>5 DEF ShortTexts
  <2>7. ASSUME NEW sc \in Nat PROVE mantissa_at(n, sc) = IllFormed
    <3> DEFINE u == Read(n, sc)
    <3>1. u \in Seq(C) /\ Len(u) = Len(n.int) + sc /\ \A i \in 1 .. Len(n.int) + sc :
            u[i] = IF i <= Len(n.int) THEN n.int[i] ELSE IF i <= Len(n.int) + Len(n.frac) THEN n.frac[i - Len(n.int)] ELSE 0
      BY <2>3, <2>7, ReadDigits
    <3> HIDE DEF u
    <3>2. CASE k = 0
      <4>1. n.int = <<>>
        BY <2>2, <2>3, <3>2
      <4> QED
        BY <2>3, <4>1 DEF mantissa_at
    <3>3. CASE k # 0
      <4>1. 1 \in 1 .. k /\ Len(n.int) = k /\ n.int[1] = Other
        BY <2>2, <2>3, <3>3
      <4>2. 1 \in 1 .. Len(u) /\ u[1] = Other
        BY <2>2, <2>7, <3>1, <4>1
      <4>3. Other \in Range(u)
        BY <3>1, <4>2 DEF Range
      <4> QED
        BY <4>3 DEF mantissa_at, u
    <3> QED
      BY <3>2, <3>3
  <2> QED
    BY <1>2, <2>1, <2>6, <2>7
<1> QED
  BY <1>1, <1>2, CellForms

-----------------------------------------------------------------------------
(* Groups and records *)

\* The numbers of some columns, as encode_group is given them.
DecimalsOf(cols, depth, text) == {DecimalOf(text[<<c, k>>]) : c \in cols, k \in 0 .. depth - 1}

\* No decimal of these numbers is given up in vain at this scale.
NotInVain(decimals, scale) ==
    AllValid(decimals) =>
        \A sc \in scale + 1 .. Max({decimals_of(n) : n \in decimals}) : \E n \in decimals : ExactAt(n, sc) > U32Max

\* An integer part among these numbers exceeds 32 bits.
TooGreat(decimals) == \E n \in decimals : ValueOf(n.int) > U32Max

\* at has the numbers of these columns at a scale.
Encodes(cols, depth, text, at, scale) ==
    /\ scale \in Nat
    /\ \A c \in cols : at[c] \in [1 .. depth -> 0 .. U32Max]
    /\ \A c \in cols : \A k \in 1 .. depth :
          LET n == DecimalOf(text[<<c, k - 1>>])
          IN  mantissa_at(n, scale) \in 0 .. U32Max /\ (Valid(n) => at[c][k] = ExactAt(n, scale))
    /\ NotInVain(DecimalsOf(cols, depth, text), scale)

\* One column or two are a group.
IsGroup(columns) == (\E a : columns = <<a>>) \/ (\E a, b : a # b /\ columns = <<a, b>>)

\* The texts of some columns are numbers that encode_group may be given.
AreTexts(columns, depth, text) ==
    \A c \in Range(columns) : \A k \in 0 .. depth - 1 : DecimalOf(text[<<c, k>>]) \in ShortTexts

\* Each of these numbers is the one of a column and a level.
LEMMA DecimalsAre ==
    \A cols, text : \A depth \in Nat : \A n \in DecimalsOf(cols, depth, text) :
        \E c \in cols, k \in 0 .. depth - 1 : n = DecimalOf(text[<<c, k>>])
BY Z3 DEF DecimalsOf

\* A group has the numbers of its columns and nothing else, and a level of a column
\* is read from where its number was put.
LEMMA GroupIs ==
    ASSUME NEW columns, IsGroup(columns), NEW depth \in Nat, depth >= 1, NEW text, AreTexts(columns, depth, text)
    PROVE  /\ Group(columns, depth, text) \in Seq(ShortTexts) /\ Group(columns, depth, text) # <<>>
           /\ \A i \in DOMAIN Group(columns, depth, text) :
                Group(columns, depth, text)[i] \in DecimalsOf(Range(columns), depth, text)
           /\ \A c \in Range(columns) : \A k \in 1 .. depth :
                \E i \in DOMAIN Group(columns, depth, text) :
                    /\ Group(columns, depth, text)[i] = DecimalOf(text[<<c, k - 1>>])
                    /\ \A out : Slice(columns, depth, out, c)[k] = out[i]
<1> DEFINE g == Group(columns, depth, text)
           D == DecimalsOf(Range(columns), depth, text)
           key(i) == IF i <= depth THEN <<columns[1], i - 1>> ELSE <<columns[2], i - depth - 1>>
           size == Len(columns) * depth
<1>1. g = [i \in 1 .. size |-> DecimalOf(text[key(i)])]
  BY DEF Group
<1>2. /\ size \in Nat /\ size >= 1
      /\ \A i \in 1 .. size : \E c \in Range(columns) : \E k \in 0 .. depth - 1 : key(i) = <<c, k>>
      /\ \A c \in Range(columns) : \A k \in 1 .. depth :
            \E i \in 1 .. size : key(i) = <<c, k - 1>> /\ i = IF c = columns[1] THEN k ELSE depth + k
  <2>1. CASE \E a : columns = <<a>>
    <3>1. PICK a : columns = <<a>>
      BY <2>1
    <3>2. Len(columns) = 1 /\ columns[1] = a /\ Range(columns) = {a}
      BY <3>1 DEF Range
    <3>3. size = depth
      BY <3>2
    <3>4. \A i \in 1 .. depth : i - 1 \in 0 .. depth - 1 /\ i <= depth
      OBVIOUS
    <3> HIDE DEF size
    <3> QED
      BY <3>2, <3>3, <3>4
  <2>2. CASE \E a, b : a # b /\ columns = <<a, b>>
    <3>1. PICK a, b : a # b /\ columns = <<a, b>>
      BY <2>2
    <3>2. Len(columns) = 2 /\ columns[1] = a /\ columns[2] = b /\ Range(columns) = {a, b}
      BY <3>1 DEF Range
    <3>3. size = 2 * depth
      BY <3>2
    <3>4. \A i \in 1 .. 2 * depth :
            /\ i <= depth => i - 1 \in 0 .. depth - 1
            /\ ~(i <= depth) => i - depth - 1 \in 0 .. depth - 1
      OBVIOUS
    <3>5. \A k \in 1 .. depth : /\ k \in 1 .. 2 * depth /\ k <= depth
                                /\ depth + k \in 1 .. 2 * depth /\ ~(depth + k <= depth) /\ (depth + k) - depth - 1 = k - 1
      OBVIOUS
    <3>6. ASSUME NEW i \in 1 .. size PROVE \E c \in Range(columns) : \E k \in 0 .. depth - 1 : key(i) = <<c, k>>
      <4> HIDE DEF size
      <4> QED
        BY <3>2, <3>3, <3>4
    <3>7. ASSUME NEW k \in 1 .. depth
          PROVE  /\ k \in 1 .. size /\ key(k) = <<a, k - 1>>
                 /\ depth + k \in 1 .. size /\ key(depth + k) = <<b, k - 1>>
      <4> HIDE DEF size
      <4> QED
        BY <3>2, <3>3, <3>5
    <3>8. size \in Nat /\ size >= 1
      BY <3>3
    <3> HIDE DEF size, key
    <3> QED
      BY <3>1, <3>2, <3>6, <3>7, <3>8
  <2> QED
    BY <2>1, <2>2 DEF IsGroup
<1> HIDE DEF key, size
<1>3. ASSUME NEW i \in 1 .. size PROVE g[i] \in D /\ g[i] \in ShortTexts
  <2>1. PICK c \in Range(columns), k \in 0 .. depth - 1 : key(i) = <<c, k>>
    BY <1>2
  <2>2. g[i] = DecimalOf(text[<<c, k>>])
    BY <1>1, <2>1
  <2> QED
    BY <2>2 DEF DecimalsOf, AreTexts
<1>4. g \in Seq(ShortTexts) /\ DOMAIN g = 1 .. size
  <2>1. DOMAIN g = 1 .. size /\ g = [i \in 1 .. size |-> g[i]]
    BY <1>1
  <2> HIDE DEF g
  <2> QED
    BY <1>2, <1>3, <2>1
<1>5. g # <<>>
  <2>1. 1 \in DOMAIN g
    BY <1>2, <1>4
  <2> HIDE DEF g
  <2> QED
    BY <2>1
<1>6. ASSUME NEW c \in Range(columns), NEW k \in 1 .. depth
      PROVE  \E i \in DOMAIN g : g[i] = DecimalOf(text[<<c, k - 1>>]) /\ \A out : Slice(columns, depth, out, c)[k] = out[i]
  <2>1. PICK i \in 1 .. size : key(i) = <<c, k - 1>> /\ i = IF c = columns[1] THEN k ELSE depth + k
    BY <1>2
  <2>2. g[i] = DecimalOf(text[<<c, k - 1>>])
    BY <1>1, <2>1
  <2>3. \A out : Slice(columns, depth, out, c)[k] = out[i]
    BY <2>1 DEF Slice
  <2> HIDE DEF g
  <2> QED
    BY <1>4, <2>2, <2>3
<1> QED
  BY <1>3, <1>4, <1>5, <1>6

\* What the group of some columns comes to.
LEMMA GroupEncodes ==
    ASSUME NEW columns, IsGroup(columns), NEW depth \in Nat, depth >= 1, NEW text, AreTexts(columns, depth, text)
    PROVE  LET r == encode_group(Group(columns, depth, text))
               D == DecimalsOf(Range(columns), depth, text)
           IN  \/ /\ r.error = "none"
                  /\ \A at : (\A c \in Range(columns) : at[c] = Slice(columns, depth, r.out, c)) =>
                        Encodes(Range(columns), depth, text, at, r.scale)
               \/ r.error = "CsvParse" /\ ~AllValid(D)
               \/ r.error = "ScaleOverflow" /\ (AllValid(D) => TooGreat(D))
<1> DEFINE g == Group(columns, depth, text)
           D == DecimalsOf(Range(columns), depth, text)
           r == encode_group(g)
<1>1. /\ g \in Seq(ShortTexts) /\ g # <<>>
      /\ \A i \in DOMAIN g : g[i] \in D
      /\ \A c \in Range(columns) : \A k \in 1 .. depth :
            \E i \in DOMAIN g : g[i] = DecimalOf(text[<<c, k - 1>>]) /\ \A out : Slice(columns, depth, out, c)[k] = out[i]
  BY GroupIs
<1> HIDE DEF g
<1>2. g \in Seq(Texts) /\ \A i \in DOMAIN g : g[i] \in Texts /\ decimals_of(g[i]) < U8
  <2>1. ShortTexts \subseteq Texts /\ \A n \in ShortTexts : decimals_of(n) < U8
    BY DEF ShortTexts
  <2>2. g \in Seq(Texts)
    BY <1>1, <2>1, WiderSeq
  <2>3. \A i \in DOMAIN g : g[i] \in ShortTexts
    BY <1>1
  <2> QED
    BY <2>1, <2>2, <2>3
<1>3. ASSUME NEW n \in D PROVE \E i \in DOMAIN g : g[i] = n
  <2>1. PICK c \in Range(columns), k \in 0 .. depth - 1 : n = DecimalOf(text[<<c, k>>])
    BY DecimalsAre
  <2> DEFINE j == k + 1
  <2>2. j \in 1 .. depth /\ j - 1 = k
    OBVIOUS
  <2> HIDE DEF j, D
  <2>3. PICK i \in DOMAIN g : g[i] = DecimalOf(text[<<c, j - 1>>])
    BY <1>1, <2>2
  <2> QED
    BY <2>1, <2>2, <2>3
<1> HIDE DEF D
<1>4. ValidGroup(g) <=> AllValid(D)
  BY <1>1, <1>3 DEF ValidGroup, AllValid
<1>5. InitialScale(g) = Max({decimals_of(n) : n \in D})
  <2>1. {decimals_of(g[k]) : k \in DOMAIN g} = {decimals_of(n) : n \in D}
    BY <1>1, <1>3
  <2> QED
    BY <2>1 DEF InitialScale
<1>6. \/ /\ r.error = "none"
         /\ r.scale \in 0 .. InitialScale(g)
         /\ r.out \in [DOMAIN g -> 0 .. U32Max]
         /\ \A k \in DOMAIN g : r.out[k] = mantissa_at(g[k], r.scale)
         /\ \A k \in DOMAIN g : Valid(g[k]) => r.out[k] = ExactAt(g[k], r.scale)
         /\ ValidGroup(g) => \A sc \in r.scale + 1 .. InitialScale(g) :
                \E k \in DOMAIN g : ExactAt(g[k], sc) > U32Max
      \/ r.error = "CsvParse" /\ ~ValidGroup(g)
      \/ /\ r.error = "ScaleOverflow"
         /\ ValidGroup(g) => \E k \in DOMAIN g : ValueOf(g[k].int) > U32Max
  BY <1>1, <1>2, EncodeGroupIsExact, Zenon
<1> HIDE DEF r
<1>7. CASE r.error = "CsvParse" /\ ~ValidGroup(g)
  BY <1>4, <1>7 DEF g, r, D
<1>8. CASE r.error = "ScaleOverflow" /\ (ValidGroup(g) => \E k \in DOMAIN g : ValueOf(g[k].int) > U32Max)
  <2>1. AllValid(D) => TooGreat(D)
    BY <1>1, <1>4, <1>8 DEF TooGreat
  <2> QED
    BY <1>8, <2>1 DEF g, r, D
<1>9. CASE /\ r.error = "none"
           /\ r.scale \in 0 .. InitialScale(g)
           /\ r.out \in [DOMAIN g -> 0 .. U32Max]
           /\ \A k \in DOMAIN g : r.out[k] = mantissa_at(g[k], r.scale)
           /\ \A k \in DOMAIN g : Valid(g[k]) => r.out[k] = ExactAt(g[k], r.scale)
           /\ ValidGroup(g) => \A sc \in r.scale + 1 .. InitialScale(g) :
                \E k \in DOMAIN g : ExactAt(g[k], sc) > U32Max
  <2> DEFINE scale == r.scale  out == r.out
  <2>1. scale \in Nat
    <3>1. InitialScale(g) \in Nat
      BY <1>1, <1>2, InitialScaleIsGreatest
    <3> QED
      BY <1>9, <3>1
  <2>2. NotInVain(D, scale)
    <3>1. ASSUME AllValid(D), NEW sc \in scale + 1 .. InitialScale(g) PROVE \E n \in D : ExactAt(n, sc) > U32Max
      <4>1. PICK k \in DOMAIN g : ExactAt(g[k], sc) > U32Max
        BY <1>4, <1>9, <3>1
      <4> QED
        BY <1>1, <4>1
    <3> HIDE DEF scale
    <3> QED
      BY <1>5, <3>1 DEF NotInVain
  <2>3. ASSUME NEW at, \A c \in Range(columns) : at[c] = Slice(columns, depth, out, c),
               NEW c \in Range(columns), NEW k \in 1 .. depth
        PROVE  LET n == DecimalOf(text[<<c, k - 1>>])
               IN  /\ at[c][k] \in 0 .. U32Max /\ mantissa_at(n, scale) \in 0 .. U32Max
                   /\ Valid(n) => at[c][k] = ExactAt(n, scale)
    <3>1. PICK i \in DOMAIN g : g[i] = DecimalOf(text[<<c, k - 1>>]) /\ \A any : Slice(columns, depth, any, c)[k] = any[i]
      BY <1>1
    <3>2. at[c][k] = out[i]
      BY <2>3, <3>1, Zenon
    <3>3. out[i] \in 0 .. U32Max /\ out[i] = mantissa_at(g[i], scale) /\ (Valid(g[i]) => out[i] = ExactAt(g[i], scale))
      BY <1>9
    <3> HIDE DEF out, scale
    <3> QED
      BY <3>1, <3>2, <3>3
  <2>4. ASSUME NEW at, \A c \in Range(columns) : at[c] = Slice(columns, depth, out, c),
               NEW c \in Range(columns)
        PROVE  at[c] \in [1 .. depth -> 0 .. U32Max]
    <3>1. at[c] = [k \in 1 .. depth |-> at[c][k]]
      <4>1. at[c] = Slice(columns, depth, out, c)
        BY <2>4
      <4>2. Slice(columns, depth, out, c) = [k \in 1 .. depth |-> Slice(columns, depth, out, c)[k]]
        BY DEF Slice
      <4> QED
        BY <4>1, <4>2
    <3>2. \A k \in 1 .. depth : at[c][k] \in 0 .. U32Max
      BY <2>3, <2>4
    <3> QED
      BY <3>1, <3>2
  <2> HIDE DEF scale, out
  <2>5. ASSUME NEW at, \A c \in Range(columns) : at[c] = Slice(columns, depth, out, c)
        PROVE  Encodes(Range(columns), depth, text, at, scale)
    <3>1. \A c \in Range(columns) : at[c] \in [1 .. depth -> 0 .. U32Max]
      BY <2>4, <2>5, Zenon
    <3>2. \A c \in Range(columns) : \A k \in 1 .. depth :
              LET n == DecimalOf(text[<<c, k - 1>>])
              IN  mantissa_at(n, scale) \in 0 .. U32Max /\ (Valid(n) => at[c][k] = ExactAt(n, scale))
      BY <2>3, <2>5, Zenon
    <3> QED
      BY <2>1, <2>2, <3>1, <3>2, Zenon DEF Encodes, D
  <2> QED
    BY <1>9, <2>5, Zenon DEF scale, out, g, r
<1> QED
  BY <1>6, <1>7, <1>8, <1>9

\* The record that both builders make.
IsRecord(r, ts, update_id, side, gid, depth, text, prices, quantities) ==
    /\ r.ts = ts /\ r.update_id = update_id /\ r.side = side /\ r.gid = gid /\ r.depth = depth
    /\ DOMAIN r.at = prices \cup quantities
    /\ Encodes(prices, depth, text, r.at, r.price_scale)
    /\ Encodes(quantities, depth, text, r.at, r.qty_scale)

\* What both builders make of a row, by the texts of its numbers.
LEMMA Built ==
    ASSUME NEW prices, IsGroup(prices), NEW quantities, IsGroup(quantities), Range(prices) \cap Range(quantities) = {},
           NEW depth \in Nat, depth >= 1, NEW text, AreTexts(prices, depth, text), AreTexts(quantities, depth, text),
           NEW ts, NEW update_id, NEW side, NEW gid, NEW sym
    PROVE  LET o == BuildRecord(ts, update_id, side, gid, sym, depth, text, prices, quantities)
               D == DecimalsOf(Range(prices) \cup Range(quantities), depth, text)
           IN  \/ gid = NoSymbol /\ o = SkipUnknown(sym)
               \/ gid # NoSymbol /\ o = Skip("BadNumber") /\ ~AllValid(D)
               \/ gid # NoSymbol /\ o = Skip("ScaleOverflow") /\ (AllValid(D) => TooGreat(D))
               \/ /\ gid # NoSymbol
                  /\ \E r : /\ o = [reason |-> "none", unknown |-> {}, record |-> <<r>>]
                            /\ IsRecord(r, ts, update_id, side, gid, depth, text, Range(prices), Range(quantities))
<1> DEFINE P == Range(prices)
           Q == Range(quantities)
           DP == DecimalsOf(P, depth, text)
           DQ == DecimalsOf(Q, depth, text)
           D == DecimalsOf(P \cup Q, depth, text)
           px == encode_group(Group(prices, depth, text))
           qty == encode_group(Group(quantities, depth, text))
           o == BuildRecord(ts, update_id, side, gid, sym, depth, text, prices, quantities)
           at == [c \in P \cup Q |-> IF c \in P THEN Slice(prices, depth, px.out, c) ELSE Slice(quantities, depth, qty.out, c)]
           pscale == px.scale
           qscale == qty.scale
           r == [ts |-> ts, update_id |-> update_id, side |-> side, gid |-> gid, depth |-> depth,
                 price_scale |-> pscale, qty_scale |-> qscale, at |-> at]
<1>0. DP \subseteq D /\ DQ \subseteq D
  BY DEF DecimalsOf
<1>p. \/ px.error = "none" /\ \A any : (\A c \in P : any[c] = Slice(prices, depth, px.out, c)) => Encodes(P, depth, text, any, pscale)
      \/ px.error = "CsvParse" /\ ~AllValid(DP)
      \/ px.error = "ScaleOverflow" /\ (AllValid(DP) => TooGreat(DP))
  BY GroupEncodes, Zenon
<1>q. \/ qty.error = "none" /\ \A any : (\A c \in Q : any[c] = Slice(quantities, depth, qty.out, c)) => Encodes(Q, depth, text, any, qscale)
      \/ qty.error = "CsvParse" /\ ~AllValid(DQ)
      \/ qty.error = "ScaleOverflow" /\ (AllValid(DQ) => TooGreat(DQ))
  BY GroupEncodes, Zenon
<1>1. o = IF gid = NoSymbol THEN SkipUnknown(sym)
          ELSE IF px.error # "none" THEN Skip(skip_of(px.error))
          ELSE IF qty.error # "none" THEN Skip(skip_of(qty.error))
          ELSE [reason |-> "none", unknown |-> {}, record |-> <<r>>]
  BY Zenon DEF BuildRecord
<1>2. skip_of("CsvParse") = "BadNumber" /\ skip_of("ScaleOverflow") = "ScaleOverflow"
  BY DEF skip_of
<1>3. /\ AllValid(D) => AllValid(DP) /\ AllValid(DQ)
      /\ TooGreat(DP) => TooGreat(D)
      /\ TooGreat(DQ) => TooGreat(D)
  <2> HIDE DEF D, DP, DQ
  <2> QED
    BY <1>0 DEF AllValid, TooGreat
<1> HIDE DEF D, DP, DQ, o
<1>4. CASE gid = NoSymbol
  BY <1>1, <1>4, Zenon DEF o
<1>5. CASE gid # NoSymbol /\ px.error # "none"
  <2>1. o = Skip(skip_of(px.error))
    BY <1>1, <1>5, Zenon
  <2> HIDE DEF px
  <2>2. (o = Skip("BadNumber") /\ ~AllValid(D)) \/ (o = Skip("ScaleOverflow") /\ (AllValid(D) => TooGreat(D)))
    BY <1>2, <1>3, <1>5, <1>p, <2>1
  <2> QED
    BY <1>5, <2>2, Zenon DEF o, D
<1>6. CASE gid # NoSymbol /\ px.error = "none" /\ qty.error # "none"
  <2>1. o = Skip(skip_of(qty.error))
    BY <1>1, <1>6, Zenon
  <2> HIDE DEF px, qty
  <2>2. (o = Skip("BadNumber") /\ ~AllValid(D)) \/ (o = Skip("ScaleOverflow") /\ (AllValid(D) => TooGreat(D)))
    BY <1>2, <1>3, <1>6, <1>q, <2>1
  <2> QED
    BY <1>6, <2>2, Zenon DEF o, D
<1>7. CASE gid # NoSymbol /\ px.error = "none" /\ qty.error = "none"
  <2>1. o = [reason |-> "none", unknown |-> {}, record |-> <<r>>]
    BY <1>1, <1>7, Zenon
  <2>2. (\A c \in P : at[c] = Slice(prices, depth, px.out, c)) /\ (\A c \in Q : at[c] = Slice(quantities, depth, qty.out, c))
    <3>1. \A c \in Q : c \notin P
      OBVIOUS
    <3> HIDE DEF P, Q, px, qty
    <3> QED
      BY <3>1
  <2>3. Encodes(P, depth, text, at, pscale) /\ Encodes(Q, depth, text, at, qscale)
    <3>1. "none" # "CsvParse" /\ "none" # "ScaleOverflow"
      OBVIOUS
    <3> HIDE DEF at, px, qty, P, Q, pscale, qscale
    <3> QED
      BY <1>7, <1>p, <1>q, <2>2, <3>1
  <2>4. DOMAIN at = P \cup Q
    <3> HIDE DEF P, Q
    <3> QED
      OBVIOUS
  <2>5. IsRecord(r, ts, update_id, side, gid, depth, text, P, Q)
    <3> HIDE DEF at, pscale, qscale, P, Q
    <3>1. /\ r.ts = ts /\ r.update_id = update_id /\ r.side = side /\ r.gid = gid /\ r.depth = depth
          /\ r.price_scale = pscale /\ r.qty_scale = qscale /\ r.at = at
      OBVIOUS
    <3> HIDE DEF r
    <3> QED
      BY <2>3, <2>4, <3>1 DEF IsRecord
  <2> HIDE DEF r
  <2> QED
    BY <1>7, <2>1, <2>5, Zenon DEF o
<1> QED
  BY <1>4, <1>5, <1>6, <1>7, Zenon

-----------------------------------------------------------------------------
(* Rows *)

\* The columns that are there, the depth, the cells and the texts of a row.
KeysIn(s, t, row) == IF s = "csv" THEN Header(t) ELSE KeysOf(t, row)
DepthIn(s, t, row) == IF t.kind = "trade" THEN 1 ELSE book_depth_of(LevelsOf(KeysIn(s, t, row)))
CellAt(t, row, c) == row[idx(t, c)]
TextAt(t, row, depth) == [c \in Columns(t, depth) |-> TextOf(CellAt(t, row, c))]
PricesOf(t) == IF t.kind = "book" THEN <<"bid_px", "ask_px">> ELSE <<"px">>
QuantitiesOf(t) == IF t.kind = "book" THEN <<"bid_qty", "ask_qty">> ELSE <<"qty">>
ReadRow(s, t, row) == IF s = "csv" THEN ReadCsv(t, row) ELSE ReadJson(t, row)

\* An integer is as it was written; JSON wraps round what is out of range.
KeptAs(s, n, written, type) == n = written \/ (s = "json" /\ written \notin type /\ n % U64 = written % U64)

\* A row that is not refused for its fields has all its columns, and the builder is
\* given what the row says.
HasFields(s, t, row, depth) ==
    /\ Len(row) = Len(t.header) /\ depth \in Nat /\ depth >= 1
    /\ t.kind = "book" => depth \in Supported /\ \A n \in depth .. ProbeMax : <<"bid_px", n>> \notin KeysIn(s, t, row)
    /\ Columns(t, depth) \cup {Ts, Symbol} \subseteq KeysIn(s, t, row)

\* The builder is given what the row says.
Given(s, t, row, ts, update_id, side) ==
    /\ ts \in I64s /\ update_id \in U64s /\ side \in {0, 1}
    /\ KeptAs(s, ts, CellAt(t, row, Ts)[2], I64s)
    /\ t.kind = "book" => KeptAs(s, update_id, CellAt(t, row, UpdateId)[2], U64s)
    /\ t.kind = "trade" => side = CellAt(t, row, Side)[2]

\* What a row comes to that is refused for its fields.
Refused == {Skip("Malformed"), Skip("BadTimestamp"), Skip("BadField")}

\* A row is refused for its fields, or handed to a builder as it is.
Reads(s, t, row, o) ==
    LET depth == DepthIn(s, t, row)
        sym == TextOf(CellAt(t, row, Symbol))
    IN  \/ o \in Refused
        \/ /\ HasFields(s, t, row, depth)
           /\ \E ts, update_id, side :
                /\ Given(s, t, row, ts, update_id, side)
                /\ o = BuildRecord(ts, update_id, side, gid_of(sym), sym, depth, TextAt(t, row, depth),
                                   PricesOf(t), QuantitiesOf(t))

\* Zero is a value of every integer type.
LEMMA ZeroIn == 0 \in I64s /\ 0 \in U64s
<1>1. U64 \div 2 >= 1 /\ U64 \div 2 \in Nat /\ U64 \in Nat /\ U64 >= 1
  BY WidthAssumption
<1> DEFINE H == U64 \div 2
<1> HIDE DEF H
<1>2. 0 \in -H .. H - 1
  BY <1>1 DEF H
<1> QED
  BY <1>1, <1>2 DEF I64s, U64s, H

\* A header that is accepted has all columns.
LEMMA Resolved ==
    ASSUME NEW t, t.kind \in {"book", "trade"}, resolve_csv_cols(t) = "none", NEW row
    PROVE  LET depth == DepthIn("csv", t, row)
           IN  /\ depth \in Nat /\ depth >= 1
               /\ t.kind = "book" => depth \in Supported /\ \A n \in depth .. ProbeMax : <<"bid_px", n>> \notin Header(t)
               /\ Columns(t, depth) \cup {Ts, Symbol} \subseteq Header(t)
               /\ t.kind = "book" => UpdateId \in Header(t)
               /\ t.kind = "trade" => Side \in Header(t)
<1> DEFINE H == Header(t)
           needed == IF t.kind = "book" THEN {UpdateId} ELSE {Side, <<"px", 0>>, <<"qty", 0>>}
           d == book_depth_of(LevelsOf(H))
<1>1. /\ {Ts, Symbol} \cup needed \subseteq H
      /\ t.kind = "trade" \/ (d # 0 /\ AllColumns(d) \subseteq H)
  <2>1. "CsvSchema" # "none" /\ "BookDepthUnsupported" # "none"
    OBVIOUS
  <2> QED
    BY <2>1, Zenon DEF resolve_csv_cols
<1>2. CASE t.kind = "trade"
  <2>1. DepthIn("csv", t, row) = 1 /\ Columns(t, 1) = {<<"px", 0>>, <<"qty", 0>>}
    BY <1>2 DEF DepthIn, Columns
  <2> HIDE DEF H
  <2> QED
    BY <1>1, <1>2, <2>1 DEF H
<1>3. CASE t.kind = "book"
  <2>1. DepthIn("csv", t, row) = d /\ Columns(t, d) = AllColumns(d)
    BY <1>3 DEF DepthIn, Columns, KeysIn
  <2>2. d \in Nat /\ d # 0 /\ d \in Supported /\ \A n \in d .. ProbeMax : n \notin LevelsOf(H)
    <3>1. d # 0
      BY <1>1, <1>3
    <3> QED
      BY <3>1, DepthIs
  <2>3. \A n \in d .. ProbeMax : <<"bid_px", n>> \notin H
    <3> HIDE DEF H, d
    <3>1. ProbeMax \in Nat
      BY DepthAssumption DEF ProbeMax
    <3>2. \A n \in d .. ProbeMax : n \in 1 .. ProbeMax
      BY <2>2, <3>1
    <3> QED
      BY <2>2, <3>2 DEF LevelsOf
  <2> HIDE DEF H, d
  <2> QED
    BY <1>1, <1>3, <2>1, <2>2, <2>3 DEF H
<1> QED
  BY <1>2, <1>3

\* A row of a CSV file whose header was accepted.
LEMMA CsvReads ==
    ASSUME NEW t, IsTable(t), NEW row \in Seq(Cells), row # <<>>, resolve_csv_cols(t) = "none"
    PROVE  Reads("csv", t, row, ReadCsv(t, row))
<1> DEFINE fields == split_csv(chomp_cr(Line(t, row)))
           at(c) == fields[idx(t, c)]
           any == book_depth_of(LevelsOf(Header(t)))
           text == [c \in Columns(t, any) |-> at(c)]
           o == ReadCsv(t, row)
           d == DepthIn("csv", t, row)
           own == TextAt(t, row, d)
           sym == TextOf(CellAt(t, row, Symbol))
<1>0. t.kind \in {"book", "trade"} /\ t.crlf \in BOOLEAN /\ t.header \in Seq(STRING \X Nat)
  BY DEF IsTable
<1>1. fields = [i \in 1 .. Len(row) |-> TextOf(row[i])] /\ Len(fields) = Len(row)
  BY <1>0, RoundTrip
<1> HIDE DEF fields
<1>2. /\ d \in Nat /\ d >= 1
      /\ t.kind = "book" => d \in Supported /\ \A n \in d .. ProbeMax : <<"bid_px", n>> \notin Header(t)
      /\ Columns(t, d) \cup {Ts, Symbol} \subseteq Header(t)
      /\ t.kind = "book" => UpdateId \in Header(t)
      /\ t.kind = "trade" => Side \in Header(t)
  BY <1>0, Resolved
<1>3. o = IF Len(fields) # Len(t.header) THEN Skip("Malformed")
          ELSE IF ~IsInt(at(Ts), I64s) THEN Skip("BadTimestamp")
          ELSE IF t.kind = "book"
          THEN IF ~IsInt(at(UpdateId), U64s) THEN Skip("BadField")
               ELSE make_book_record(IntOf(at(Ts)), IntOf(at(UpdateId)), at(Symbol), any, text)
          ELSE IF ~IsInt(at(Side), I64s) THEN Skip("BadField")
               ELSE make_trade_record(IntOf(at(Ts)), at(Symbol), IntOf(at(Side)), text)
  BY Zenon DEF ReadCsv, fields
<1>4. SUFFICES ASSUME Len(row) = Len(t.header), o \notin Refused PROVE Reads("csv", t, row, o)
  <2>1. CASE Len(row) # Len(t.header)
    <3>1. o = Skip("Malformed")
      BY <1>1, <1>3, <2>1, Zenon
    <3> QED
      BY <3>1 DEF Reads, Refused
  <2>2. CASE o \in Refused
    BY <2>2 DEF Reads
  <2> QED
    BY <2>1, <2>2
<1> HIDE DEF o, d, any
<1>5. ASSUME NEW c \in Header(t)
      PROVE  CellAt(t, row, c) \in Cells /\ at(c) = TextOf(CellAt(t, row, c))
  <2>1. idx(t, c) \in 1 .. Len(row)
    <3>1. idx(t, c) \in DOMAIN t.header
      BY IdxIs
    <3> QED
      BY <1>0, <1>4, <3>1
  <2> QED
    BY <1>1, <2>1 DEF CellAt
<1> HIDE DEF at
<1>6. text = own /\ (t.kind = "book" => d = any)
  <2>1. t.kind = "book" => d = any
    BY DEF d, any, DepthIn, KeysIn
  <2>2. Columns(t, any) = Columns(t, d)
    <3>1. CASE t.kind = "book"
      BY <2>1, <3>1
    <3>2. CASE t.kind # "book"
      BY <3>2 DEF Columns
    <3> QED
      BY <3>1, <3>2
  <2>3. \A c \in Columns(t, d) : at(c) = TextOf(CellAt(t, row, c))
    BY <1>2, <1>5
  <2> QED
    BY <2>1, <2>2, <2>3 DEF TextAt
<1> HIDE DEF text, own
<1>7. at(Symbol) = sym /\ at(Ts) = TextOf(CellAt(t, row, Ts)) /\ CellAt(t, row, Ts) \in Cells
  BY <1>2, <1>5
<1>8. IsInt(at(Ts), I64s)
  <2>1. ~IsInt(at(Ts), I64s) => o = Skip("BadTimestamp")
    BY <1>1, <1>3, <1>4, Zenon DEF o
  <2> QED
    BY <1>4, <2>1 DEF Refused
<1>9. IntOf(at(Ts)) \in I64s /\ IntOf(at(Ts)) = CellAt(t, row, Ts)[2]
  BY <1>7, <1>8, IntegerText
<1>10. HasFields("csv", t, row, d)
  BY <1>2, <1>4 DEF HasFields, KeysIn
<1>11. CASE t.kind = "book"
  <2>1. IsInt(at(UpdateId), U64s)
    <3>1. ~IsInt(at(UpdateId), U64s) => o = Skip("BadField")
      BY <1>1, <1>3, <1>4, <1>8, <1>11, Zenon DEF o
    <3> QED
      BY <1>4, <3>1 DEF Refused
  <2>2. IntOf(at(UpdateId)) \in U64s /\ IntOf(at(UpdateId)) = CellAt(t, row, UpdateId)[2]
    BY <1>2, <1>5, <1>11, <2>1, IntegerText
  <2> DEFINE ts == IntOf(at(Ts))
             uid == IntOf(at(UpdateId))
  <2>3. o = make_book_record(ts, uid, at(Symbol), any, text)
    BY <1>1, <1>3, <1>4, <1>8, <1>11, <2>1, Zenon DEF o
  <2> HIDE DEF ts, uid
  <2>4. o = BuildRecord(ts, uid, 0, gid_of(sym), sym, d, own, PricesOf(t), QuantitiesOf(t))
    <3>1. PricesOf(t) = <<"bid_px", "ask_px">> /\ QuantitiesOf(t) = <<"bid_qty", "ask_qty">>
      BY <1>11 DEF PricesOf, QuantitiesOf
    <3> QED
      BY <1>6, <1>7, <1>11, <2>3, <3>1, Zenon DEF make_book_record, lid_of
  <2>5. Given("csv", t, row, ts, uid, 0)
    <3>1. t.kind # "trade"
      BY <1>11
    <3> QED
      BY <1>9, <2>2, <3>1 DEF Given, KeptAs, ts, uid
  <2> QED
    BY <1>10, <2>4, <2>5, Zenon DEF Reads, d, own
<1>12. CASE t.kind = "trade"
  <2>0. t.kind # "book"
    BY <1>12
  <2>1. IsInt(at(Side), I64s)
    <3>1. ~IsInt(at(Side), I64s) => o = Skip("BadField")
      BY <1>1, <1>3, <1>4, <1>8, <2>0, Zenon DEF o
    <3> QED
      BY <1>4, <3>1 DEF Refused
  <2>2. IntOf(at(Side)) = CellAt(t, row, Side)[2]
    BY <1>2, <1>5, <1>12, <2>1, IntegerText
  <2> DEFINE ts == IntOf(at(Ts))
             side == IntOf(at(Side))
  <2>3. o = make_trade_record(ts, at(Symbol), side, text)
    BY <1>1, <1>3, <1>4, <1>8, <2>0, <2>1, Zenon DEF o
  <2> HIDE DEF ts, side
  <2>4. side \in {0, 1}
    <3>1. side \notin {0, 1} => o = Skip("BadField")
      BY <2>3, Zenon DEF make_trade_record
    <3> QED
      BY <1>4, <3>1 DEF Refused
  <2>5. o = BuildRecord(ts, 0, side, gid_of(sym), sym, d, own, PricesOf(t), QuantitiesOf(t))
    <3>1. PricesOf(t) = <<"px">> /\ QuantitiesOf(t) = <<"qty">> /\ d = 1
      BY <1>12 DEF PricesOf, QuantitiesOf, d, DepthIn
    <3> QED
      BY <1>6, <1>7, <2>3, <2>4, <3>1, Zenon DEF make_trade_record
  <2>6. Given("csv", t, row, ts, 0, side)
    BY <1>9, <2>0, <2>2, <2>4, ZeroIn DEF Given, KeptAs, ts, side
  <2> QED
    BY <1>10, <2>5, <2>6, Zenon DEF Reads, d, own
<1> QED
  BY <1>0, <1>11, <1>12 DEF o

\* A JSON number in a column of integers.
LEMMA IntegerCell ==
    ASSUME NEW t, IsTable(t), NEW row \in Range(t.rows), Len(row) = Len(t.header),
           NEW c \in Header(t) \cap {Ts, UpdateId, Side}, CellAt(t, row, c)[3] = "number"
    PROVE  CellAt(t, row, c)[1] = "int" /\ CellAt(t, row, c)[2] \in JsonIntegers /\ CellAt(t, row, c)[2] \in Int
<1> DEFINE i == idx(t, c)
<1>1. i \in DOMAIN t.header /\ t.header[i] = c
  BY IdxIs
<1>2. t.rows \in Seq(Seq(Cells)) /\ t.header \in Seq(STRING \X Nat)
  BY DEF IsTable
<1>3. row \in Seq(Cells)
  BY <1>2 DEF Range
<1> HIDE DEF i
<1>4. i \in DOMAIN row \cap DOMAIN t.header
  BY <1>1, <1>2, <1>3
<1>5. \A j \in DOMAIN row \cap DOMAIN t.header :
        t.header[j] \in {Ts, UpdateId, Side} =>
            (row[j][3] = "number" => row[j][1] = "int" /\ row[j][2] \in JsonIntegers)
  BY DEF IsTable
<1>6. row[i] = CellAt(t, row, c)
  BY DEF CellAt, i
<1>7. CellAt(t, row, c)[1] = "int" /\ CellAt(t, row, c)[2] \in JsonIntegers
  BY <1>1, <1>4, <1>5, <1>6
<1>8. JsonIntegers \subseteq Int
  BY WidthAssumption DEF JsonIntegers
<1> QED
  BY <1>7, <1>8

\* A row of a JSON file.
LEMMA JsonReads ==
    ASSUME NEW t, IsTable(t), NEW row \in Range(t.rows)
    PROVE  Reads("json", t, row, ReadJson(t, row))
<1> DEFINE keys == KeysOf(t, row)
           at(c) == row[idx(t, c)]
           Typed(c, type) == c \in keys /\ at(c)[3] = type
           any == book_depth_of(LevelsOf(keys))
           text == [c \in Columns(t, any) |-> TextOf(at(c))]
           number(c) == at(c)[2]
           updateId == IF Typed(UpdateId, "string") THEN number(UpdateId) ELSE AsU64(number(UpdateId))
           o == ReadJson(t, row)
           d == DepthIn("json", t, row)
           own == TextAt(t, row, d)
           sym == TextOf(CellAt(t, row, Symbol))
           ts == AsI64(number(Ts))
           side == AsI64(number(Side))
<1>0. t.kind \in {"book", "trade"} /\ t.header \in Seq(STRING \X Nat) /\ t.rows \in Seq(Seq(Cells)) /\ row \in Seq(Cells)
  BY DEF IsTable, Range
<1>c. keys \subseteq Header(t)
  BY DEF KeysOf
<1>3. o = IF Len(row) # Len(t.header) THEN Skip("Malformed")
          ELSE IF ~(Typed(Ts, "number") /\ Typed(Symbol, "string")) THEN Skip("BadField")
          ELSE IF t.kind = "book"
          THEN IF \/ any = 0
                  \/ ~Typed(UpdateId, "number") /\ ~(Typed(UpdateId, "string") /\ IsInt(TextOf(at(UpdateId)), U64s))
                  \/ \E c \in AllColumns(any) : ~Typed(c, "string")
               THEN Skip("BadField")
               ELSE make_book_record(ts, updateId, TextOf(at(Symbol)), any, text)
          ELSE IF ~(Typed(Side, "number") /\ Typed(<<"px", 0>>, "string") /\ Typed(<<"qty", 0>>, "string"))
               THEN Skip("BadField")
               ELSE make_trade_record(ts, TextOf(at(Symbol)), side, text)
  BY Zenon DEF ReadJson
<1>4. SUFFICES ASSUME Len(row) = Len(t.header), o \notin Refused PROVE Reads("json", t, row, o)
  <2>1. CASE Len(row) # Len(t.header)
    <3>1. o = Skip("Malformed")
      BY <1>3, <2>1, Zenon
    <3> QED
      BY <3>1 DEF Reads, Refused
  <2>2. CASE o \in Refused
    BY <2>2 DEF Reads
  <2> QED
    BY <2>1, <2>2
<1>b. Skip("BadField") \in Refused
  BY DEF Refused
<1>5. Typed(Ts, "number") /\ Typed(Symbol, "string")
  <2>1. ~(Typed(Ts, "number") /\ Typed(Symbol, "string")) => o = Skip("BadField")
    BY <1>3, <1>4, Zenon
  <2> QED
    BY <1>4, <1>b, <2>1, Zenon
<1> HIDE DEF o, any, ts, side, updateId
<1>6. ASSUME NEW c \in Header(t) PROVE at(c) = CellAt(t, row, c) /\ CellAt(t, row, c) \in Cells
  <2>1. idx(t, c) \in 1 .. Len(row)
    <3>1. idx(t, c) \in DOMAIN t.header
      BY IdxIs
    <3> QED
      BY <1>0, <1>4, <3>1
  <2> QED
    BY <1>0, <2>1 DEF CellAt
<1>7. text = own /\ (t.kind = "book" => d = any)
  <2>1. t.kind = "book" => d = any
    BY DEF d, any, DepthIn, KeysIn
  <2>2. Columns(t, any) = Columns(t, d)
    <3>1. CASE t.kind = "book"
      BY <2>1, <3>1
    <3>2. CASE t.kind # "book"
      BY <3>2 DEF Columns
    <3> QED
      BY <3>1, <3>2
  <2>3. \A c \in Columns(t, d) : TextOf(at(c)) = TextOf(CellAt(t, row, c))
    BY DEF CellAt
  <2> HIDE DEF at
  <2> QED
    BY <2>1, <2>2, <2>3 DEF TextAt
<1> HIDE DEF text, own
<1>8. TextOf(at(Symbol)) = sym
  BY DEF CellAt
<1>9. /\ ts \in I64s /\ KeptAs("json", ts, CellAt(t, row, Ts)[2], I64s)
      /\ Ts \in keys /\ Symbol \in keys
  <2> DEFINE n == CellAt(t, row, Ts)[2]
  <2>1. Ts \in Header(t) \cap {Ts, UpdateId, Side} /\ CellAt(t, row, Ts)[3] = "number" /\ Ts \in keys /\ Symbol \in keys
    BY <1>5, <1>c DEF CellAt
  <2>2. n \in Int
    BY <1>4, <2>1, IntegerCell
  <2>3. ts = AsI64(n)
    BY DEF ts, CellAt
  <2> HIDE DEF n, keys
  <2>4. ts \in I64s /\ (n \in I64s => ts = n) /\ ts % U64 = n % U64
    BY <2>2, <2>3, Wrapping
  <2> QED
    BY <2>1, <2>4 DEF KeptAs, n
<1>11. CASE t.kind = "book"
  <2>1. /\ any # 0
        /\ Typed(UpdateId, "number") \/ (Typed(UpdateId, "string") /\ IsInt(TextOf(at(UpdateId)), U64s))
        /\ \A c \in AllColumns(any) : Typed(c, "string")
    <3> DEFINE W == \/ any = 0
                    \/ ~Typed(UpdateId, "number") /\ ~(Typed(UpdateId, "string") /\ IsInt(TextOf(at(UpdateId)), U64s))
                    \/ \E c \in AllColumns(any) : ~Typed(c, "string")
    <3>1. W => o = Skip("BadField")
      BY <1>3, <1>4, <1>5, <1>11, Zenon
    <3>2. ~W
      BY <1>4, <1>b, <3>1, Zenon
    <3> HIDE DEF Typed
    <3> QED
      BY <3>2
  <2>2. o = make_book_record(ts, updateId, TextOf(at(Symbol)), any, text)
    BY <1>3, <1>4, <1>5, <1>11, <2>1, Zenon
  <2>3. o = BuildRecord(ts, updateId, 0, gid_of(sym), sym, d, own, PricesOf(t), QuantitiesOf(t))
    <3>1. PricesOf(t) = <<"bid_px", "ask_px">> /\ QuantitiesOf(t) = <<"bid_qty", "ask_qty">>
      BY <1>11 DEF PricesOf, QuantitiesOf
    <3> QED
      BY <1>7, <1>8, <1>11, <2>2, <3>1, Zenon DEF make_book_record, lid_of
  <2>4. updateId \in U64s /\ KeptAs("json", updateId, CellAt(t, row, UpdateId)[2], U64s)
    <3> DEFINE cell == CellAt(t, row, UpdateId)
    <3>1. UpdateId \in keys /\ UpdateId \in Header(t) /\ at(UpdateId) = cell
      BY <1>c, <2>1 DEF CellAt
    <3>2. cell \in Cells
      BY <1>6, <3>1
    <3>3. CASE at(UpdateId)[3] = "string"
      <4>1. IsInt(TextOf(cell), U64s)
        BY <2>1, <3>1, <3>3
      <4>2. cell[2] \in U64s
        BY <3>2, <4>1, IntegerText
      <4>3. updateId = cell[2]
        BY <3>1, <3>3 DEF updateId
      <4> QED
        BY <4>2, <4>3 DEF KeptAs
    <3>4. CASE at(UpdateId)[3] # "string"
      <4>1. cell[3] = "number"
        BY <2>1, <3>1, <3>4
      <4> DEFINE n == cell[2]
      <4>2. n \in Int
        BY <1>4, <3>1, <4>1, IntegerCell
      <4>3. updateId = AsU64(n)
        BY <3>1, <3>4 DEF updateId
      <4> HIDE DEF n
      <4>4. updateId \in U64s /\ (n \in U64s => updateId = n) /\ updateId % U64 = n % U64
        BY <4>2, <4>3, Wrapping
      <4> QED
        BY <4>4 DEF KeptAs, n
    <3> QED
      BY <3>3, <3>4
  <2>5. Given("json", t, row, ts, updateId, 0)
    <3>1. t.kind # "trade"
      BY <1>11
    <3> QED
      BY <1>9, <2>4, <3>1 DEF Given
  <2>6. HasFields("json", t, row, d)
    <3>1. d = any /\ Columns(t, d) = AllColumns(any)
      BY <1>7, <1>11 DEF Columns
    <3>2. any \in Supported /\ any \in Nat /\ any >= 1 /\ \A n \in any .. ProbeMax : n \notin LevelsOf(keys)
      BY <2>1, DepthIs DEF any
    <3>3. \A n \in any .. ProbeMax : <<"bid_px", n>> \notin keys
      <4>1. ProbeMax \in Nat
        BY DepthAssumption DEF ProbeMax
      <4>2. \A n \in any .. ProbeMax : n \in 1 .. ProbeMax
        BY <3>2, <4>1
      <4> HIDE DEF keys
      <4> QED
        BY <3>2, <4>2 DEF LevelsOf
    <3>4. AllColumns(any) \subseteq keys
      <4> HIDE DEF keys
      <4> QED
        BY <2>1
    <3>5. KeysIn("json", t, row) = keys
      BY DEF KeysIn
    <3> HIDE DEF keys, d
    <3> QED
      BY <1>4, <1>9, <3>1, <3>2, <3>3, <3>4, <3>5 DEF HasFields
  <2> QED
    BY <2>3, <2>5, <2>6, Zenon DEF Reads, d, own
<1>12. CASE t.kind = "trade"
  <2>0. t.kind # "book"
    BY <1>12
  <2>1. Typed(Side, "number") /\ Typed(<<"px", 0>>, "string") /\ Typed(<<"qty", 0>>, "string")
    <3>1. ~(Typed(Side, "number") /\ Typed(<<"px", 0>>, "string") /\ Typed(<<"qty", 0>>, "string")) => o = Skip("BadField")
      BY <1>3, <1>4, <1>5, <2>0, Zenon
    <3> QED
      BY <1>4, <1>b, <3>1, Zenon
  <2>2. o = make_trade_record(ts, TextOf(at(Symbol)), side, text)
    BY <1>3, <1>4, <1>5, <2>0, <2>1, Zenon
  <2>3. side \in {0, 1}
    <3>1. side \notin {0, 1} => o = Skip("BadField")
      BY <2>2, Zenon DEF make_trade_record
    <3> QED
      BY <1>4, <1>b, <3>1, Zenon
  <2>4. o = BuildRecord(ts, 0, side, gid_of(sym), sym, d, own, PricesOf(t), QuantitiesOf(t))
    <3>1. PricesOf(t) = <<"px">> /\ QuantitiesOf(t) = <<"qty">> /\ d = 1
      BY <1>12 DEF PricesOf, QuantitiesOf, d, DepthIn
    <3> QED
      BY <1>7, <1>8, <2>2, <2>3, <3>1, Zenon DEF make_trade_record
  <2>5. side = CellAt(t, row, Side)[2]
    <3> DEFINE n == CellAt(t, row, Side)[2]
    <3>1. Side \in Header(t) \cap {Ts, UpdateId, Side} /\ CellAt(t, row, Side)[3] = "number"
      BY <1>c, <2>1 DEF CellAt
    <3>2. n \in Int /\ n \in JsonIntegers
      BY <1>4, <3>1, IntegerCell
    <3>3. side = AsI64(n)
      BY DEF side, CellAt
    <3> HIDE DEF n
    <3> QED
      BY <2>3, <3>2, <3>3, Wrapping DEF n
  <2>6. Given("json", t, row, ts, 0, side)
    BY <1>9, <2>0, <2>3, <2>5, ZeroIn DEF Given
  <2>7. HasFields("json", t, row, d)
    <3>1. d = 1 /\ Columns(t, d) = {<<"px", 0>>, <<"qty", 0>>}
      BY <1>12 DEF Columns, d, DepthIn
    <3>2. KeysIn("json", t, row) = keys /\ <<"px", 0>> \in keys /\ <<"qty", 0>> \in keys
      BY <2>1 DEF KeysIn
    <3> HIDE DEF keys, d
    <3> QED
      BY <1>4, <1>9, <2>0, <3>1, <3>2 DEF HasFields
  <2> QED
    BY <2>4, <2>6, <2>7, Zenon DEF Reads, d, own
<1> QED
  BY <1>0, <1>11, <1>12 DEF o

\* What a row that is not empty comes to.
RowIs(s, t, row, o) ==
    LET depth == DepthIn(s, t, row)
        sym == TextOf(CellAt(t, row, Symbol))
        text == TextAt(t, row, depth)
        prices == Range(PricesOf(t))
        quantities == Range(QuantitiesOf(t))
        numbers == DecimalsOf(prices \cup quantities, depth, text)
    IN  \/ o \in Refused
        \/ /\ HasFields(s, t, row, depth)
           /\ \/ o = SkipUnknown(sym) /\ sym \notin Range(kGidNames)
              \/ o = Skip("BadNumber") /\ ~AllValid(numbers)
              \/ o = Skip("ScaleOverflow") /\ (AllValid(numbers) => TooGreat(numbers))
              \/ \E r, ts, update_id, side :
                    /\ o = [reason |-> "none", unknown |-> {}, record |-> <<r>>]
                    /\ Given(s, t, row, ts, update_id, side)
                    /\ gid_of(sym) # NoSymbol
                    /\ IsRecord(r, ts, update_id, side, gid_of(sym), depth, text, prices, quantities)

\* The cell of a column.
LEMMA CellIs ==
    ASSUME NEW t, IsTable(t), NEW row \in Seq(Cells), Len(row) = Len(t.header), NEW c \in Header(t)
    PROVE  CellAt(t, row, c) \in Cells
<1>1. idx(t, c) \in DOMAIN t.header /\ t.header \in Seq(STRING \X Nat)
  BY IdxIs DEF IsTable
<1>2. idx(t, c) \in 1 .. Len(row)
  BY <1>1
<1> QED
  BY <1>2 DEF CellAt

\* The columns of numbers of a table.
LEMMA NumberColumns ==
    ASSUME NEW t, NEW depth \in Nat, t.kind \in {"book", "trade"}, depth >= 1, t.kind = "trade" => depth = 1
    PROVE  /\ IsGroup(PricesOf(t)) /\ IsGroup(QuantitiesOf(t)) /\ Range(PricesOf(t)) \cap Range(QuantitiesOf(t)) = {}
           /\ Range(PricesOf(t)) = IF t.kind = "book" THEN {"bid_px", "ask_px"} ELSE {"px"}
           /\ Range(QuantitiesOf(t)) = IF t.kind = "book" THEN {"bid_qty", "ask_qty"} ELSE {"qty"}
           /\ \A c \in Range(PricesOf(t)) \cup Range(QuantitiesOf(t)) : \A k \in 0 .. depth - 1 : <<c, k>> \in Columns(t, depth)
<1>1. CASE t.kind = "book"
  <2>1. PricesOf(t) = <<"bid_px", "ask_px">> /\ QuantitiesOf(t) = <<"bid_qty", "ask_qty">>
    BY <1>1 DEF PricesOf, QuantitiesOf
  <2>2. Range(PricesOf(t)) = {"bid_px", "ask_px"} /\ Range(QuantitiesOf(t)) = {"bid_qty", "ask_qty"}
    BY <2>1 DEF Range
  <2>3. Columns(t, depth) = {<<c, k>> : c \in Levelled, k \in 0 .. depth - 1}
    BY <1>1 DEF Columns, AllColumns
  <2>4. \A c \in Levelled : \A k \in 0 .. depth - 1 : <<c, k>> \in Columns(t, depth)
    BY <2>3
  <2>5. Range(PricesOf(t)) \cup Range(QuantitiesOf(t)) \subseteq Levelled
    BY <2>2 DEF Levelled
  <2>6. "bid_px" # "ask_px" /\ "bid_qty" # "ask_qty"
    OBVIOUS
  <2>7. IsGroup(PricesOf(t)) /\ IsGroup(QuantitiesOf(t))
    BY <2>1, <2>6, Zenon DEF IsGroup
  <2>8. Range(PricesOf(t)) \cap Range(QuantitiesOf(t)) = {}
    BY <2>2
  <2> QED
    BY <1>1, <2>2, <2>4, <2>5, <2>7, <2>8
<1>2. CASE t.kind = "trade"
  <2>1. PricesOf(t) = <<"px">> /\ QuantitiesOf(t) = <<"qty">> /\ t.kind # "book" /\ depth = 1
    BY <1>2 DEF PricesOf, QuantitiesOf
  <2>2. Range(PricesOf(t)) = {"px"} /\ Range(QuantitiesOf(t)) = {"qty"}
    BY <2>1 DEF Range
  <2>3. Columns(t, depth) = {<<"px", 0>>, <<"qty", 0>>}
    BY <2>1 DEF Columns
  <2>4. IsGroup(PricesOf(t)) /\ IsGroup(QuantitiesOf(t))
    BY <2>1, Zenon DEF IsGroup
  <2>5. \A k \in 0 .. depth - 1 : k = 0
    BY <2>1
  <2>6. Range(PricesOf(t)) \cap Range(QuantitiesOf(t)) = {}
    BY <2>2
  <2>7. \A c \in {"px", "qty"} : \A k \in 0 .. depth - 1 : <<c, k>> \in Columns(t, depth)
    BY <2>3, <2>5
  <2> QED
    BY <2>1, <2>2, <2>4, <2>6, <2>7
<1> QED
  BY <1>1, <1>2

\* The texts of a row are numbers to encode.
LEMMA RowTexts ==
    ASSUME NEW s \in Sources, NEW t, IsTable(t), NEW row \in Seq(Cells), NEW depth, HasFields(s, t, row, depth),
           t.kind = "trade" => depth = 1
    PROVE  /\ \A c \in Columns(t, depth) :
                CellAt(t, row, c) \in Cells /\ TextAt(t, row, depth)[c] = TextOf(CellAt(t, row, c))
           /\ AreTexts(PricesOf(t), depth, TextAt(t, row, depth))
           /\ AreTexts(QuantitiesOf(t), depth, TextAt(t, row, depth))
<1>0. /\ t.kind \in {"book", "trade"} /\ Len(row) = Len(t.header) /\ depth \in Nat /\ depth >= 1
      /\ Columns(t, depth) \subseteq Header(t)
  <2>1. KeysIn(s, t, row) \subseteq Header(t)
    BY DEF KeysIn, KeysOf
  <2> QED
    BY <2>1 DEF HasFields, IsTable
<1>1. \A c \in Columns(t, depth) :
        CellAt(t, row, c) \in Cells /\ TextAt(t, row, depth)[c] = TextOf(CellAt(t, row, c))
  <2> TAKE c \in Columns(t, depth)
  <2>1. CellAt(t, row, c) \in Cells
    BY <1>0, CellIs
  <2> QED
    BY <2>1 DEF TextAt
<1>2. \A c \in Columns(t, depth) : DecimalOf(TextAt(t, row, depth)[c]) \in ShortTexts
  BY <1>1, DecimalText
<1>3. \A c \in Range(PricesOf(t)) \cup Range(QuantitiesOf(t)) : \A k \in 0 .. depth - 1 : <<c, k>> \in Columns(t, depth)
  BY <1>0, NumberColumns
<1> QED
  BY <1>1, <1>2, <1>3 DEF AreTexts

\* A row of whichever file is refused for its fields, refused for its symbol or its
\* numbers with a cause, or becomes the record that says what the row says.
THEOREM RowIsRead ==
    ASSUME NEW s \in Sources, NEW t, IsTable(t), NEW row \in Range(t.rows), row # <<>>,
           s = "csv" => resolve_csv_cols(t) = "none"
    PROVE  RowIs(s, t, row, ReadRow(s, t, row))
<1> DEFINE o == ReadRow(s, t, row)
           depth == DepthIn(s, t, row)
           sym == TextOf(CellAt(t, row, Symbol))
           text == TextAt(t, row, depth)
           P == Range(PricesOf(t))
           Q == Range(QuantitiesOf(t))
           D == DecimalsOf(P \cup Q, depth, text)
<1>0. row \in Seq(Cells) /\ t.kind \in {"book", "trade"} /\ (t.kind = "trade" => depth = 1)
  BY DEF IsTable, Range, DepthIn
<1>1. Reads(s, t, row, o)
  <2>1. CASE s = "csv"
    BY <1>0, <2>1, CsvReads DEF ReadRow
  <2>2. CASE s = "json"
    BY <2>2, JsonReads DEF ReadRow
  <2> QED
    BY <2>1, <2>2 DEF Sources
<1> HIDE DEF o
<1>2. CASE o \in Refused
  BY <1>2, Zenon DEF RowIs, o
<1>3. CASE o \notin Refused
  <2>1. HasFields(s, t, row, depth) /\ \E ts, update_id, side :
                /\ Given(s, t, row, ts, update_id, side)
                /\ o = BuildRecord(ts, update_id, side, gid_of(sym), sym, depth, text, PricesOf(t), QuantitiesOf(t))
    BY <1>1, <1>3, Zenon DEF Reads
  <2>2. PICK ts, update_id, side :
                /\ Given(s, t, row, ts, update_id, side)
                /\ o = BuildRecord(ts, update_id, side, gid_of(sym), sym, depth, text, PricesOf(t), QuantitiesOf(t))
    BY <2>1, Zenon
  <2>3. depth \in Nat /\ depth >= 1
    BY <2>1 DEF HasFields
  <2> HIDE DEF depth, sym, text
  <2>4. IsGroup(PricesOf(t)) /\ IsGroup(QuantitiesOf(t)) /\ P \cap Q = {}
    BY <1>0, <2>3, NumberColumns
  <2>5. AreTexts(PricesOf(t), depth, text) /\ AreTexts(QuantitiesOf(t), depth, text)
    BY <1>0, <2>1, RowTexts DEF text
  <2> DEFINE gid == gid_of(sym)
  <2>6. gid = NoSymbol => sym \notin Range(kGidNames)
    BY SymbolOf
  <2> HIDE DEF gid
  <2>7. \/ gid = NoSymbol /\ o = SkipUnknown(sym)
        \/ gid # NoSymbol /\ o = Skip("BadNumber") /\ ~AllValid(D)
        \/ gid # NoSymbol /\ o = Skip("ScaleOverflow") /\ (AllValid(D) => TooGreat(D))
        \/ /\ gid # NoSymbol
           /\ \E r : /\ o = [reason |-> "none", unknown |-> {}, record |-> <<r>>]
                     /\ IsRecord(r, ts, update_id, side, gid, depth, text, P, Q)
    <3> DEFINE b == BuildRecord(ts, update_id, side, gid, sym, depth, text, PricesOf(t), QuantitiesOf(t))
    <3>1. \/ gid = NoSymbol /\ b = SkipUnknown(sym)
          \/ gid # NoSymbol /\ b = Skip("BadNumber") /\ ~AllValid(D)
          \/ gid # NoSymbol /\ b = Skip("ScaleOverflow") /\ (AllValid(D) => TooGreat(D))
          \/ /\ gid # NoSymbol
             /\ \E r : /\ b = [reason |-> "none", unknown |-> {}, record |-> <<r>>]
                       /\ IsRecord(r, ts, update_id, side, gid, depth, text, P, Q)
      BY <2>3, <2>4, <2>5, Built, ZenonT(60)
    <3>2. o = b
      BY <2>2, Zenon DEF gid
    <3> HIDE DEF b
    <3> QED
      BY <3>1, <3>2, Zenon
  <2>8. RowIs(s, t, row, o)
    <3>1. CASE gid = NoSymbol /\ o = SkipUnknown(sym)
      BY <2>1, <2>6, <3>1, Zenon DEF RowIs, depth, sym, text
    <3>2. CASE o = Skip("BadNumber") /\ ~AllValid(D)
      BY <2>1, <3>2, Zenon DEF RowIs, depth, sym, text
    <3>3. CASE o = Skip("ScaleOverflow") /\ (AllValid(D) => TooGreat(D))
      BY <2>1, <3>3, Zenon DEF RowIs, depth, sym, text
    <3>4. CASE gid # NoSymbol /\ \E r : /\ o = [reason |-> "none", unknown |-> {}, record |-> <<r>>]
                                        /\ IsRecord(r, ts, update_id, side, gid, depth, text, P, Q)
      <4>1. PICK r : /\ o = [reason |-> "none", unknown |-> {}, record |-> <<r>>]
                     /\ IsRecord(r, ts, update_id, side, gid, depth, text, P, Q)
        BY <3>4
      <4> QED
        BY <2>1, <2>2, <3>4, <4>1, Zenon DEF RowIs, depth, sym, text, gid
    <3> QED
      BY <2>7, <3>1, <3>2, <3>3, <3>4, Zenon
  <2> QED
    BY <2>8 DEF o
<1> QED
  BY <1>2, <1>3

-----------------------------------------------------------------------------
(* The state: what was read of each file is known from the table. *)

\* What a line comes to, and the next one.
OutcomeOf(s, t, row) == IF row = <<>> THEN Skip("empty") ELSE ReadRow(s, t, row)
OutcomeHere(s) == OutcomeOf(s, table, table.rows[pos[s]])
\* Where a source is whose header was refused.
Stopped == {"CsvSchema", "BookDepthUnsupported"}

\* How far each source is, and what it has made of the lines so far.
ReadingInv ==
    /\ table \in Tables
    /\ pc \in [Sources -> {"closed", "reading", "holding", "end"} \cup Stopped]
    /\ pos \in [Sources -> Nat] /\ \A s \in Sources : pos[s] \in 1 .. Len(table.rows) + 1
    /\ pc["csv"] \in {"reading", "holding", "end"} => resolve_csv_cols(table) = "none"
    /\ pc["csv"] \in Stopped => resolve_csv_cols(table) # "none"
    /\ pos["csv"] > 1 => pc["csv"] \in {"reading", "holding", "end"}
    /\ outcomes = [s \in Sources |-> [i \in 1 .. pos[s] - 1 |-> OutcomeOf(s, table, table.rows[i])]]
    /\ head = [s \in Sources |-> IF pc[s] = "holding" THEN OutcomeOf(s, table, table.rows[pos[s] - 1]).record ELSE <<>>]
    /\ \A s \in Sources : pc[s] = "holding" => pos[s] > 1

\* A sequence with one more at the end.
LEMMA Grown ==
    ASSUME NEW f, NEW n \in Nat
    PROVE  Append([i \in 1 .. n |-> f[i]], f[n + 1]) = [i \in 1 .. n + 1 |-> f[i]]
<1> DEFINE C == {f[i] : i \in 1 .. n + 1}
           u == [i \in 1 .. n |-> f[i]]
           v == [i \in 1 .. n + 1 |-> f[i]]
           x == f[n + 1]
<1>1. \A i \in 1 .. n + 1 : f[i] \in C
  OBVIOUS
<1> HIDE DEF C
<1>2. u \in Seq(C) /\ Len(u) = n /\ \A i \in 1 .. n : u[i] = f[i]
  BY <1>1
<1>3. v \in Seq(C) /\ Len(v) = n + 1 /\ \A i \in 1 .. n + 1 : v[i] = f[i]
  BY <1>1
<1>4. x \in C
  BY <1>1
<1> HIDE DEF u, v
<1> DEFINE w == Append(u, x)
<1>5. w \in Seq(C) /\ Len(w) = n + 1 /\ w[n + 1] = x /\ \A i \in 1 .. n : w[i] = u[i]
  <2> HIDE DEF x
  <2> QED
    BY <1>2, <1>4
<1>6. \A i \in 1 .. n + 1 : w[i] = v[i]
  <2> HIDE DEF w
  <2>1. \A i \in 1 .. n + 1 : i = n + 1 \/ i \in 1 .. n
    OBVIOUS
  <2> QED
    BY <1>2, <1>3, <1>5, <2>1
<1>7. w = v
  <2> HIDE DEF w
  <2> QED
    BY <1>3, <1>5, <1>6, SeqEqual
<1> QED
  BY <1>7 DEF u, v

\* One more line of a file.
LEMMA LineTaken ==
    ASSUME ReadingInv, NEW s \in Sources, NextLine(s), table' = table,
           outcomes' = [outcomes EXCEPT ![s] = Append(@, OutcomeHere(s))]
    PROVE  /\ pos' \in [Sources -> Nat] /\ \A z \in Sources : pos'[z] \in 1 .. Len(table.rows) + 1
           /\ outcomes' = [z \in Sources |-> [i \in 1 .. pos'[z] - 1 |-> OutcomeOf(z, table, table.rows[i])]]
           /\ pos'[s] = pos[s] + 1 /\ \A z \in Sources : z # s => pos'[z] = pos[z]
<1>0. pos[s] \in Nat /\ pos[s] >= 1 /\ pos[s] <= Len(table.rows) /\ pos' = [pos EXCEPT ![s] = pos[s] + 1] /\ pos \in [Sources -> Nat]
  BY DEF ReadingInv, NextLine
<1>1. table.rows \in Seq(Seq(Cells)) /\ Len(table.rows) \in Nat
  <2>1. IsTable(table)
    BY TablesAssumption DEF ReadingInv
  <2> QED
    BY <2>1 DEF IsTable
<1>2. pos'[s] = pos[s] + 1 /\ \A z \in Sources : z # s => pos'[z] = pos[z]
  BY <1>0
<1>3. pos' \in [Sources -> Nat] /\ \A z \in Sources : pos'[z] \in 1 .. Len(table.rows) + 1
  BY <1>0, <1>1 DEF ReadingInv
<1>4. outcomes' = [z \in Sources |-> [i \in 1 .. pos'[z] - 1 |-> OutcomeOf(z, table, table.rows[i])]]
  <2> DEFINE f(z) == [i \in Nat |-> OutcomeOf(z, table, table.rows[i])]
             past(z, n) == [i \in 1 .. n |-> OutcomeOf(z, table, table.rows[i])]
  <2>1. outcomes = [z \in Sources |-> past(z, pos[z] - 1)]
    BY DEF ReadingInv
  <2>2. Append(past(s, pos[s] - 1), OutcomeHere(s)) = past(s, pos[s])
    <3> DEFINE n == pos[s] - 1
    <3>1. n \in Nat /\ n + 1 = pos[s] /\ \A i \in 1 .. n + 1 : i \in Nat
      BY <1>0
    <3> HIDE DEF n
    <3>2. Append([i \in 1 .. n |-> f(s)[i]], f(s)[n + 1]) = [i \in 1 .. n + 1 |-> f(s)[i]]
      <4> HIDE DEF f
      <4> QED
        BY <3>1, Grown
    <3>3. \A i \in 1 .. n + 1 : f(s)[i] = OutcomeOf(s, table, table.rows[i])
      BY <3>1
    <3>4. \A i \in 1 .. n : i \in 1 .. n + 1
      BY <3>1
    <3>5. n + 1 \in 1 .. n + 1
      BY <3>1
    <3>6. [i \in 1 .. n |-> f(s)[i]] = past(s, n) /\ [i \in 1 .. n + 1 |-> f(s)[i]] = past(s, n + 1)
      <4> HIDE DEF f
      <4> QED
        BY <3>3, <3>4
    <3>7. f(s)[n + 1] = OutcomeHere(s)
      BY <3>1, <3>3, <3>5 DEF OutcomeHere
    <3> HIDE DEF f, past
    <3> QED
      BY <3>1, <3>2, <3>6, <3>7 DEF n
  <2> HIDE DEF past
  <2>3. outcomes' = [z \in Sources |-> IF z = s THEN past(s, pos[s]) ELSE past(z, pos[z] - 1)]
    BY <2>1, <2>2
  <2>4. \A z \in Sources : (IF z = s THEN past(s, pos[s]) ELSE past(z, pos[z] - 1)) = past(z, pos'[z] - 1)
    <3>1. pos'[s] - 1 = pos[s]
      BY <1>0, <1>2
    <3> QED
      BY <1>2, <3>1
  <2>5. outcomes' = [z \in Sources |-> past(z, pos'[z] - 1)]
    BY <2>3, <2>4
  <2> QED
    BY <2>5 DEF past
<1> QED
  BY <1>2, <1>3, <1>4

\* A line that is about to be read.
LEMMA LineIs ==
    ASSUME NEW s \in Sources, ReadingInv, NextLine(s)
    PROVE  /\ IsTable(table) /\ RowAt(s) = table.rows[pos[s]] /\ RowAt(s) \in Range(table.rows)
           /\ pos[s] \in DOMAIN table.rows
           /\ s = "csv" => resolve_csv_cols(table) = "none"
           /\ RowAt(s) # <<>> => OutcomeHere(s) = Outcome(s) /\ RowIs(s, table, RowAt(s), Outcome(s))
           /\ RowAt(s) = <<>> => OutcomeHere(s) = Skip("empty")
<1>1. IsTable(table)
  BY TablesAssumption DEF ReadingInv
<1>2. table.rows \in Seq(Seq(Cells))
  BY <1>1 DEF IsTable
<1>3. pos[s] \in DOMAIN table.rows
  <2>1. pos[s] \in 1 .. Len(table.rows) + 1 /\ pos[s] <= Len(table.rows)
    BY DEF ReadingInv, NextLine
  <2> QED
    BY <1>2, <2>1
<1>4. RowAt(s) = table.rows[pos[s]] /\ RowAt(s) \in Range(table.rows)
  BY <1>2, <1>3 DEF RowAt, Range
<1>5. s = "csv" => resolve_csv_cols(table) = "none"
  BY DEF ReadingInv, NextLine
<1>6. ASSUME RowAt(s) # <<>>
      PROVE  OutcomeHere(s) = Outcome(s) /\ RowIs(s, table, RowAt(s), Outcome(s))
  <2>1. OutcomeHere(s) = Outcome(s) /\ Outcome(s) = ReadRow(s, table, RowAt(s))
    BY <1>4, <1>6, Zenon DEF OutcomeHere, OutcomeOf, Outcome, ReadRow
  <2> DEFINE row == RowAt(s)
  <2>2. RowIs(s, table, row, ReadRow(s, table, row))
    <3>1. row \in Range(table.rows) /\ row # <<>>
      BY <1>4, <1>6
    <3> HIDE DEF row
    <3> QED
      BY <1>1, <1>5, <3>1, RowIsRead
  <2> QED
    BY <2>1, <2>2
<1>7. RowAt(s) = <<>> => OutcomeHere(s) = Skip("empty")
  BY <1>4 DEF OutcomeHere, OutcomeOf
<1> QED
  BY <1>1, <1>3, <1>4, <1>5, <1>6, <1>7

\* A row is a record, or it is skipped for a reason of the six.
LEMMA Shapes ==
    ASSUME NEW s, NEW t, NEW row, NEW o, RowIs(s, t, row, o)
    PROVE  \/ o.record = <<>> /\ o.reason \in Reasons /\ o.unknown = {}
           \/ o.record = <<>> /\ o.reason \in Reasons /\ \E sym : sym \notin Range(kGidNames) /\ o.unknown = {sym}
           \/ o.record # <<>> /\ o.unknown = {} /\ o.reason = "none"
<1>1. \A reason : Skip(reason).record = <<>> /\ Skip(reason).reason = reason /\ Skip(reason).unknown = {}
  BY DEF Skip
<1>2. CASE o \in Refused
  BY <1>1, <1>2 DEF Refused, Reasons
<1>3. CASE \E sym : o = SkipUnknown(sym) /\ sym \notin Range(kGidNames)
  BY <1>3 DEF SkipUnknown, Reasons
<1>4. CASE o = Skip("BadNumber") \/ o = Skip("ScaleOverflow")
  BY <1>1, <1>4 DEF Reasons
<1>5. CASE \E r : o = [reason |-> "none", unknown |-> {}, record |-> <<r>>]
  <2>1. PICK r : o = [reason |-> "none", unknown |-> {}, record |-> <<r>>]
    BY <1>5
  <2>2. <<r>> # <<>>
    OBVIOUS
  <2> QED
    BY <2>1, <2>2
<1> QED
  BY <1>2, <1>3, <1>4, <1>5, Zenon DEF RowIs

\* At first nothing was read.
LEMMA ReadingInit == ASSUME Init PROVE ReadingInv
<1>1. table \in Tables /\ table.rows \in Seq(Seq(Cells)) /\ Len(table.rows) \in Nat
  <2>1. table \in Tables
    BY DEF Init
  <2>2. IsTable(table)
    BY <2>1, TablesAssumption
  <2> QED
    BY <2>1, <2>2 DEF IsTable
<1>2. pos = [s \in Sources |-> 1] /\ pc = [s \in Sources |-> "closed"]
  BY DEF Init
<1>3. outcomes = [s \in Sources |-> [i \in 1 .. pos[s] - 1 |-> OutcomeOf(s, table, table.rows[i])]]
  <2>1. \A s \in Sources : 1 .. pos[s] - 1 = {}
    BY <1>2
  <2>2. \A s \in Sources : [i \in 1 .. pos[s] - 1 |-> OutcomeOf(s, table, table.rows[i])] = <<>>
    BY <2>1
  <2>3. outcomes = [s \in Sources |-> <<>>]
    BY DEF Init
  <2> QED
    BY <2>2, <2>3
<1>4. head = [s \in Sources |-> IF pc[s] = "holding" THEN OutcomeOf(s, table, table.rows[pos[s] - 1]).record ELSE <<>>]
  BY <1>2 DEF Init
<1>5. "csv" \in Sources
  BY DEF Sources
<1> QED
  BY <1>1, <1>2, <1>3, <1>4, <1>5 DEF ReadingInv, Stopped

\* Every step reads the line that is next, or none.
LEMMA ReadingStep == ASSUME ReadingInv, [Next]_vars PROVE ReadingInv'
<1> DEFINE States == {"closed", "reading", "holding", "end"} \cup Stopped
<1>0. /\ IsTable(table) /\ Len(table.rows) \in Nat /\ "csv" \in Sources /\ pos \in [Sources -> Nat]
      /\ pc \in [Sources -> States]
  <2>1. IsTable(table)
    BY TablesAssumption DEF ReadingInv
  <2>2. Len(table.rows) \in Nat
    BY <2>1 DEF IsTable
  <2> QED
    BY <2>1, <2>2 DEF ReadingInv, Sources
<1>s. "reading" \in States /\ "holding" \in States /\ "end" \in States /\ "CsvSchema" \in Stopped /\ "BookDepthUnsupported" \in Stopped
  BY DEF Stopped
<1>h. head = [s \in Sources |-> IF pc[s] = "holding" THEN OutcomeOf(s, table, table.rows[pos[s] - 1]).record ELSE <<>>]
  BY DEF ReadingInv
<1>1. ASSUME NEW s \in Sources, Open(s) PROVE ReadingInv'
  <2>1. /\ pc[s] = "closed" /\ UNCHANGED <<table, pos, head, outcomes>>
        /\ pc' = [pc EXCEPT ![s] = IF s = "json" THEN "reading" ELSE IF resolve_csv_cols(table) = "none" THEN "reading" ELSE resolve_csv_cols(table)]
    BY <1>1 DEF Open
  <2>2. resolve_csv_cols(table) \in Stopped \cup {"none"} /\ "none" \notin Stopped
    BY DEF resolve_csv_cols, Stopped
  <2>3. pc' \in [Sources -> States] /\ \A z \in Sources : z # s => pc'[z] = pc[z]
    BY <1>0, <2>1, <2>2
  <2>4. \/ pc'[s] = "reading" /\ (s = "csv" => resolve_csv_cols(table) = "none")
        \/ s = "csv" /\ pc'[s] \in Stopped /\ resolve_csv_cols(table) # "none"
    BY <1>0, <2>1, <2>2 DEF Sources
  <2>5. /\ pc'["csv"] \in {"reading", "holding", "end"} => resolve_csv_cols(table) = "none"
        /\ pc'["csv"] \in Stopped => resolve_csv_cols(table) # "none"
        /\ pos["csv"] > 1 => pc'["csv"] \in {"reading", "holding", "end"}
    <3>1. CASE s = "csv"
      <4>1. ~(pos["csv"] > 1)
        BY <2>1, <3>1 DEF ReadingInv
      <4>2. "reading" \notin Stopped /\ "holding" \notin Stopped /\ "end" \notin Stopped
        BY DEF Stopped
      <4> QED
        BY <2>4, <3>1, <4>1, <4>2
    <3>2. CASE s # "csv"
      <4>1. pc'["csv"] = pc["csv"]
        BY <1>0, <2>3, <3>2
      <4> QED
        BY <4>1 DEF ReadingInv
    <3> QED
      BY <3>1, <3>2
  <2>6. pc'[s] # "holding"
    BY <2>4 DEF Stopped
  <2>7. head' = [z \in Sources |-> IF pc'[z] = "holding" THEN OutcomeOf(z, table, table.rows[pos[z] - 1]).record ELSE <<>>]
    BY <1>h, <2>1, <2>3, <2>6
  <2>8. \A z \in Sources : pc'[z] = "holding" => pos[z] > 1
    BY <2>3, <2>6 DEF ReadingInv
  <2> QED
    BY <2>1, <2>3, <2>5, <2>7, <2>8 DEF ReadingInv
<1>2. ASSUME NEW s \in Sources, NextLine(s), UNCHANGED <<table, pc, head>>,
             outcomes' = [outcomes EXCEPT ![s] = Append(@, OutcomeHere(s))]
      PROVE  ReadingInv'
  <2>1. /\ pos' \in [Sources -> Nat] /\ \A z \in Sources : pos'[z] \in 1 .. Len(table.rows) + 1
        /\ outcomes' = [z \in Sources |-> [i \in 1 .. pos'[z] - 1 |-> OutcomeOf(z, table, table.rows[i])]]
        /\ pos'[s] = pos[s] + 1 /\ \A z \in Sources : z # s => pos'[z] = pos[z]
    BY <1>2, LineTaken
  <2>2. pc[s] = "reading"
    BY <1>2 DEF NextLine
  <2>3. head' = [z \in Sources |-> IF pc[z] = "holding" THEN OutcomeOf(z, table, table.rows[pos'[z] - 1]).record ELSE <<>>]
    BY <1>2, <1>h, <2>1, <2>2
  <2>4. pos'["csv"] > 1 => pc["csv"] \in {"reading", "holding", "end"}
    BY <1>0, <2>1, <2>2 DEF ReadingInv
  <2>5. \A z \in Sources : pc[z] = "holding" => pos'[z] > 1
    BY <2>1, <2>2 DEF ReadingInv
  <2>6. table' = table /\ table' \in Tables /\ pc' = pc
    BY <1>2 DEF ReadingInv
  <2>7. /\ outcomes' = [z \in Sources |-> [i \in 1 .. pos'[z] - 1 |-> OutcomeOf(z, table', table'.rows[i])]]
        /\ head' = [z \in Sources |-> IF pc'[z] = "holding" THEN OutcomeOf(z, table', table'.rows[pos'[z] - 1]).record ELSE <<>>]
        /\ \A z \in Sources : pos'[z] \in 1 .. Len(table'.rows) + 1
    BY <2>1, <2>3, <2>6
  <2>8. /\ pc' \in [Sources -> States]
        /\ pc'["csv"] \in {"reading", "holding", "end"} => resolve_csv_cols(table') = "none"
        /\ pc'["csv"] \in Stopped => resolve_csv_cols(table') # "none"
        /\ pos'["csv"] > 1 => pc'["csv"] \in {"reading", "holding", "end"}
        /\ \A z \in Sources : pc'[z] = "holding" => pos'[z] > 1
    BY <1>0, <2>4, <2>5, <2>6 DEF ReadingInv
  <2> QED
    BY <2>1, <2>6, <2>7, <2>8, Zenon DEF ReadingInv
<1>3. ASSUME NEW s \in Sources, HoldRecord(s) PROVE ReadingInv'
  <2>0. /\ NextLine(s) /\ RowAt(s) # <<>> /\ UNCHANGED table /\ OutcomeHere(s) = Outcome(s)
        /\ pc' = [pc EXCEPT ![s] = "holding"] /\ head' = [head EXCEPT ![s] = Outcome(s).record]
        /\ outcomes' = [outcomes EXCEPT ![s] = Append(@, Outcome(s))]
    BY <1>3, LineIs DEF HoldRecord
  <2>1. /\ pos' \in [Sources -> Nat] /\ \A z \in Sources : pos'[z] \in 1 .. Len(table.rows) + 1
        /\ outcomes' = [z \in Sources |-> [i \in 1 .. pos'[z] - 1 |-> OutcomeOf(z, table, table.rows[i])]]
        /\ pos'[s] = pos[s] + 1 /\ \A z \in Sources : z # s => pos'[z] = pos[z]
    BY <2>0, LineTaken
  <2>2. /\ pc[s] = "reading" /\ pc' \in [Sources -> States] /\ pc'[s] = "holding"
        /\ \A z \in Sources : z # s => pc'[z] = pc[z]
    BY <1>0, <2>0 DEF NextLine
  <2>3. head' = [z \in Sources |-> IF pc'[z] = "holding" THEN OutcomeOf(z, table, table.rows[pos'[z] - 1]).record ELSE <<>>]
    <3> DEFINE o(z, p) == OutcomeOf(z, table, table.rows[p]).record
               x == Outcome(s).record
    <3>1. pos'[s] - 1 = pos[s] /\ pos[s] \in Nat
      BY <1>0, <2>1
    <3>2. o(s, pos[s]) = x
      BY <2>0, Zenon DEF OutcomeHere
    <3>3. o(s, pos'[s] - 1) = x
      BY <3>1, <3>2, Zenon
    <3>4. head = [z \in Sources |-> IF pc[z] = "holding" THEN o(z, pos[z] - 1) ELSE <<>>] /\ head' = [head EXCEPT ![s] = x]
      BY <1>h, <2>0
    <3> HIDE DEF o, x
    <3>5. head' = [z \in Sources |-> IF pc'[z] = "holding" THEN o(z, pos'[z] - 1) ELSE <<>>]
      BY <2>1, <2>2, <3>3, <3>4
    <3> QED
      BY <3>5 DEF o
  <2>4. /\ pos'["csv"] > 1 => pc'["csv"] \in {"reading", "holding", "end"}
        /\ pc'["csv"] \in {"reading", "holding", "end"} => resolve_csv_cols(table) = "none"
        /\ pc'["csv"] \in Stopped => resolve_csv_cols(table) # "none"
    <3>1. "holding" \notin Stopped
      BY DEF Stopped
    <3>2. CASE s = "csv"
      <4>1. resolve_csv_cols(table) = "none"
        BY <2>2, <3>2 DEF ReadingInv
      <4> QED
        BY <2>2, <3>1, <3>2, <4>1
    <3>3. CASE s # "csv"
      BY <1>0, <2>1, <2>2, <3>3 DEF ReadingInv
    <3> QED
      BY <3>2, <3>3
  <2>5. \A z \in Sources : pc'[z] = "holding" => pos'[z] > 1
    <3>1. pos'[s] > 1
      BY <1>0, <2>1 DEF ReadingInv
    <3> QED
      BY <2>1, <2>2, <3>1 DEF ReadingInv
  <2>6. table' = table /\ table' \in Tables
    BY <2>0 DEF ReadingInv
  <2>7. /\ outcomes' = [z \in Sources |-> [i \in 1 .. pos'[z] - 1 |-> OutcomeOf(z, table', table'.rows[i])]]
        /\ head' = [z \in Sources |-> IF pc'[z] = "holding" THEN OutcomeOf(z, table', table'.rows[pos'[z] - 1]).record ELSE <<>>]
        /\ \A z \in Sources : pos'[z] \in 1 .. Len(table'.rows) + 1
    BY <2>1, <2>3, <2>6
  <2>8. /\ pc'["csv"] \in {"reading", "holding", "end"} => resolve_csv_cols(table') = "none"
        /\ pc'["csv"] \in Stopped => resolve_csv_cols(table') # "none"
    BY <2>4, <2>6
  <2> QED
    BY <2>1, <2>2, <2>4, <2>5, <2>6, <2>7, <2>8, Zenon DEF ReadingInv
<1>4. ASSUME NEW s \in Sources, NEW next \in {"reading", "end"}, pc[s] \in {"reading", "holding"},
             pc' = [pc EXCEPT ![s] = next], UNCHANGED <<table, pos, outcomes>>,
             head' = [head EXCEPT ![s] = <<>>]
      PROVE  ReadingInv'
  <2>1. pc' \in [Sources -> States] /\ pc'[s] = next /\ next # "holding" /\ \A z \in Sources : z # s => pc'[z] = pc[z]
    BY <1>0, <1>4
  <2>2. head' = [z \in Sources |-> IF pc'[z] = "holding" THEN OutcomeOf(z, table, table.rows[pos[z] - 1]).record ELSE <<>>]
    <3> DEFINE o(z) == OutcomeOf(z, table, table.rows[pos[z] - 1]).record
    <3>1. head = [z \in Sources |-> IF pc[z] = "holding" THEN o(z) ELSE <<>>]
      BY <1>h
    <3> HIDE DEF o
    <3>2. head' = [z \in Sources |-> IF pc'[z] = "holding" THEN o(z) ELSE <<>>]
      BY <1>4, <2>1, <3>1
    <3> QED
      BY <3>2 DEF o
  <2>3. /\ pos["csv"] > 1 => pc'["csv"] \in {"reading", "holding", "end"}
        /\ pc'["csv"] \in {"reading", "holding", "end"} => resolve_csv_cols(table) = "none"
        /\ pc'["csv"] \in Stopped => resolve_csv_cols(table) # "none"
    <3>1. next \notin Stopped
      BY DEF Stopped
    <3>2. CASE s = "csv"
      <4>1. resolve_csv_cols(table) = "none"
        BY <1>4, <3>2 DEF ReadingInv
      <4> QED
        BY <2>1, <3>1, <3>2, <4>1
    <3>3. CASE s # "csv"
      BY <1>0, <2>1, <3>3 DEF ReadingInv
    <3> QED
      BY <3>2, <3>3
  <2>4. \A z \in Sources : pc'[z] = "holding" => pos[z] > 1
    BY <2>1 DEF ReadingInv
  <2>5. table' = table /\ table' \in Tables /\ pos' = pos
    BY <1>4 DEF ReadingInv
  <2>6. /\ outcomes' = [z \in Sources |-> [i \in 1 .. pos'[z] - 1 |-> OutcomeOf(z, table', table'.rows[i])]]
        /\ head' = [z \in Sources |-> IF pc'[z] = "holding" THEN OutcomeOf(z, table', table'.rows[pos'[z] - 1]).record ELSE <<>>]
        /\ pos' \in [Sources -> Nat] /\ \A z \in Sources : pos'[z] \in 1 .. Len(table'.rows) + 1
    <3>1. outcomes' = [z \in Sources |-> [i \in 1 .. pos[z] - 1 |-> OutcomeOf(z, table, table.rows[i])]]
      BY <1>4 DEF ReadingInv
    <3>2. pos \in [Sources -> Nat] /\ \A z \in Sources : pos[z] \in 1 .. Len(table.rows) + 1
      BY DEF ReadingInv
    <3> QED
      BY <2>2, <2>5, <3>1, <3>2
  <2>7. /\ pos'["csv"] > 1 => pc'["csv"] \in {"reading", "holding", "end"}
        /\ pc'["csv"] \in {"reading", "holding", "end"} => resolve_csv_cols(table') = "none"
        /\ pc'["csv"] \in Stopped => resolve_csv_cols(table') # "none"
        /\ \A z \in Sources : pc'[z] = "holding" => pos'[z] > 1
    BY <2>3, <2>4, <2>5
  <2> QED
    BY <2>1, <2>5, <2>6, <2>7, Zenon DEF ReadingInv
<1>5. ASSUME NEW s \in Sources, EmptyLine(s) PROVE ReadingInv'
  <2>1. NextLine(s) /\ RowAt(s) = <<>> /\ UNCHANGED <<table, pc, head>> /\ outcomes' = [outcomes EXCEPT ![s] = Append(@, Skip("empty"))]
    BY <1>5 DEF EmptyLine
  <2>2. OutcomeHere(s) = Skip("empty")
    BY <2>1, LineIs
  <2> QED
    BY <1>2, <2>1, <2>2
<1>6. ASSUME NEW s \in Sources, SkipRow(s) PROVE ReadingInv'
  <2>1. NextLine(s) /\ RowAt(s) # <<>> /\ UNCHANGED <<table, pc, head>> /\ outcomes' = [outcomes EXCEPT ![s] = Append(@, Outcome(s))]
    BY <1>6 DEF SkipRow
  <2>2. OutcomeHere(s) = Outcome(s)
    BY <2>1, LineIs
  <2> QED
    BY <1>2, <2>1, <2>2
<1>7. ASSUME NEW s \in Sources, Advance(s) PROVE ReadingInv'
  <2>1. pc[s] \in {"reading", "holding"} /\ "reading" \in {"reading", "end"} /\ pc' = [pc EXCEPT ![s] = "reading"]
        /\ head' = [head EXCEPT ![s] = <<>>] /\ UNCHANGED <<table, pos, outcomes>>
    BY <1>7 DEF Advance
  <2> QED
    BY <1>4, <2>1, Zenon
<1>8. ASSUME NEW s \in Sources, EndOfFile(s) PROVE ReadingInv'
  <2>1. pc[s] = "reading" /\ pc' = [pc EXCEPT ![s] = "end"] /\ head' = head /\ UNCHANGED <<table, pos, outcomes>>
    BY <1>8 DEF EndOfFile
  <2>2. head' = [head EXCEPT ![s] = <<>>]
    <3>1. head[s] = <<>> /\ DOMAIN head = Sources
      BY <1>h, <2>1
    <3>2. head = [z \in Sources |-> head[z]]
      BY <1>h
    <3> QED
      BY <2>1, <3>1, <3>2
  <2>3. pc[s] \in {"reading", "holding"} /\ "end" \in {"reading", "end"}
    BY <2>1
  <2> QED
    BY <1>4, <2>1, <2>2, <2>3, Zenon
<1>9. CASE UNCHANGED vars
  BY <1>9 DEF vars, stats, ReadingInv
<1> QED
  BY <1>1, <1>3, <1>5, <1>6, <1>7, <1>8, <1>9 DEF Next

\* What was read is known in every state.
LEMMA Reading == Spec => []ReadingInv
<1>1. Init => ReadingInv
  BY ReadingInit
<1>2. ReadingInv /\ [Next]_vars => ReadingInv'
  BY ReadingStep
<1> QED
  BY <1>1, <1>2, PTL DEF Spec

\* What a line came to is known from its row.
LEMMA LineRead ==
    ASSUME NEW s \in Sources, ReadingInv
    PROVE  /\ IsTable(table) /\ DOMAIN outcomes[s] = 1 .. pos[s] - 1 /\ pos[s] - 1 \in 0 .. Len(table.rows)
           /\ Len(table.rows) \in Nat
           /\ \A i \in 1 .. pos[s] - 1 :
                /\ i \in DOMAIN table.rows /\ table.rows[i] \in Range(table.rows) /\ table.rows[i] \in Seq(Cells)
                /\ outcomes[s][i] = OutcomeOf(s, table, table.rows[i])
                /\ table.rows[i] = <<>> => outcomes[s][i] = Skip("empty")
                /\ table.rows[i] # <<>> => RowIs(s, table, table.rows[i], outcomes[s][i])
<1>1. IsTable(table) /\ table.rows \in Seq(Seq(Cells)) /\ Len(table.rows) \in Nat
  <2>1. IsTable(table)
    BY TablesAssumption DEF ReadingInv
  <2> QED
    BY <2>1 DEF IsTable
<1>2. pos[s] \in 1 .. Len(table.rows) + 1
  BY DEF ReadingInv
<1>3. outcomes[s] = [i \in 1 .. pos[s] - 1 |-> OutcomeOf(s, table, table.rows[i])]
  BY DEF ReadingInv
<1>4. pos[s] - 1 \in 0 .. Len(table.rows)
  BY <1>1, <1>2
<1>5. ASSUME NEW i \in 1 .. pos[s] - 1
      PROVE  /\ i \in DOMAIN table.rows /\ table.rows[i] \in Range(table.rows) /\ table.rows[i] \in Seq(Cells)
             /\ outcomes[s][i] = OutcomeOf(s, table, table.rows[i])
             /\ table.rows[i] = <<>> => outcomes[s][i] = Skip("empty")
             /\ table.rows[i] # <<>> => RowIs(s, table, table.rows[i], outcomes[s][i])
  <2>1. i \in DOMAIN table.rows
    BY <1>1, <1>2
  <2>2. table.rows[i] \in Range(table.rows) /\ table.rows[i] \in Seq(Cells)
    BY <1>1, <2>1 DEF Range
  <2>3. outcomes[s][i] = OutcomeOf(s, table, table.rows[i])
    BY <1>3
  <2> DEFINE row == table.rows[i]
  <2>4. ASSUME row # <<>> PROVE RowIs(s, table, row, ReadRow(s, table, row))
    <3>1. s = "csv" => resolve_csv_cols(table) = "none"
      <4>1. s = "csv" => pos["csv"] > 1
        BY <1>2
      <4> QED
        BY <4>1 DEF ReadingInv
    <3>2. row \in Range(table.rows)
      BY <2>2
    <3> HIDE DEF row
    <3> QED
      BY <1>1, <2>4, <3>1, <3>2, RowIsRead
  <2> QED
    BY <2>1, <2>2, <2>3, <2>4 DEF OutcomeOf
<1> QED
  BY <1>1, <1>3, <1>4, <1>5

\* A record is made of its row.
LEMMA RecordMade ==
    ASSUME NEW s \in Sources, ReadingInv, NEW i \in Accepted(s)
    PROVE  LET row == table.rows[i]
               depth == DepthIn(s, table, row)
               sym == TextOf(CellAt(table, row, Symbol))
           IN  /\ IsTable(table) /\ i \in 1 .. pos[s] - 1 /\ i \in DOMAIN table.rows /\ row # <<>> /\ row \in Seq(Cells)
               /\ row \in Range(table.rows)
               /\ HasFields(s, table, row, depth)
               /\ gid_of(sym) # NoSymbol
               /\ outcomes[s][i].reason = "none"
               /\ \E ts, update_id, side :
                    /\ Given(s, table, row, ts, update_id, side)
                    /\ IsRecord(Rec(s, i), ts, update_id, side, gid_of(sym), depth, TextAt(table, row, depth),
                                Range(PricesOf(table)), Range(QuantitiesOf(table)))
<1> DEFINE row == table.rows[i]
           o == outcomes[s][i]
           depth == DepthIn(s, table, row)
           sym == TextOf(CellAt(table, row, Symbol))
<1>1. i \in 1 .. pos[s] - 1 /\ o.record # <<>>
  BY LineRead DEF Accepted
<1>2. /\ IsTable(table) /\ i \in DOMAIN table.rows /\ row \in Range(table.rows) /\ row \in Seq(Cells)
      /\ row = <<>> => o = Skip("empty")
      /\ row # <<>> => RowIs(s, table, row, o)
  BY <1>1, LineRead
<1>3. row # <<>> /\ RowIs(s, table, row, o)
  BY <1>1, <1>2 DEF Skip
<1>4. HasFields(s, table, row, depth) /\ \E r, ts, update_id, side :
            /\ o = [reason |-> "none", unknown |-> {}, record |-> <<r>>]
            /\ Given(s, table, row, ts, update_id, side)
            /\ gid_of(sym) # NoSymbol
            /\ IsRecord(r, ts, update_id, side, gid_of(sym), depth, TextAt(table, row, depth),
                        Range(PricesOf(table)), Range(QuantitiesOf(table)))
  <2>1. o \notin Refused
    BY <1>1 DEF Refused, Skip
  <2>2. \A reason, any : o # Skip(reason) /\ o # SkipUnknown(any)
    BY <1>1 DEF Skip, SkipUnknown
  <2> HIDE DEF o, row
  <2> QED
    BY <1>3, <2>1, <2>2, Zenon DEF RowIs, depth, sym
<1>5. PICK r, ts, update_id, side :
            /\ o = [reason |-> "none", unknown |-> {}, record |-> <<r>>]
            /\ Given(s, table, row, ts, update_id, side)
            /\ gid_of(sym) # NoSymbol
            /\ IsRecord(r, ts, update_id, side, gid_of(sym), depth, TextAt(table, row, depth),
                        Range(PricesOf(table)), Range(QuantitiesOf(table)))
  BY <1>4, Zenon
<1>6. Rec(s, i) = r
  <2>1. o.record = <<r>>
    BY <1>5
  <2>2. Rec(s, i) = o.record[1]
    BY DEF Rec
  <2> QED
    BY <2>1, <2>2
<1>7. o.reason = "none"
  BY <1>5
<1> HIDE DEF o, row, depth, sym
<1>8. HasFields(s, table, row, depth) /\ gid_of(sym) # NoSymbol /\ Given(s, table, row, ts, update_id, side)
      /\ IsRecord(Rec(s, i), ts, update_id, side, gid_of(sym), depth, TextAt(table, row, depth),
                        Range(PricesOf(table)), Range(QuantitiesOf(table)))
  BY <1>4, <1>5, <1>6, Zenon
<1> QED
  BY <1>1, <1>2, <1>3, <1>7, <1>8, Zenon DEF o, row, depth, sym

-----------------------------------------------------------------------------
(* Records *)

\* The numbers of a row that has its fields, by its cells.
LEMMA NumbersOf ==
    ASSUME NEW s \in Sources, IsTable(table), NEW i \in DOMAIN table.rows, table.rows[i] \in Seq(Cells),
           HasFields(s, table, table.rows[i], DepthIn(s, table, table.rows[i]))
    PROVE  LET depth == DepthIn(s, table, table.rows[i])
           IN  /\ Prices = Range(PricesOf(table)) /\ Quantities = Range(QuantitiesOf(table))
               /\ \A cols \in SUBSET (Prices \cup Quantities) :
                    DecimalsOf(cols, depth, TextAt(table, table.rows[i], depth)) = Decimals(i, cols, depth)
<1> DEFINE row == table.rows[i]
           depth == DepthIn(s, table, row)
           text == TextAt(table, row, depth)
           P == Range(PricesOf(table))
           Q == Range(QuantitiesOf(table))
<1>3. depth \in Nat /\ depth >= 1 /\ table.kind \in {"book", "trade"} /\ (table.kind = "trade" => depth = 1)
  BY DEF HasFields, IsTable, DepthIn
<1>a. row \in Seq(Cells) /\ HasFields(s, table, row, depth)
  OBVIOUS
<1> HIDE DEF depth, row
<1>5. /\ P = Prices /\ Q = Quantities
      /\ \A c \in P \cup Q : \A k \in 0 .. depth - 1 : <<c, k>> \in Columns(table, depth)
  BY <1>3, NumberColumns DEF Prices, Quantities
<1>6. \A c \in Columns(table, depth) : text[c] = TextOf(CellAt(table, row, c))
  BY <1>3, <1>a, RowTexts
<1>7. \A c : CellAt(table, row, c) = Cell(i, c)
  BY DEF CellAt, Cell, row
<1> HIDE DEF P, Q, text
<1>9. ASSUME NEW cols \in SUBSET (P \cup Q) PROVE DecimalsOf(cols, depth, text) = Decimals(i, cols, depth)
  <2>1. \A c \in cols : \A k \in 0 .. depth - 1 : text[<<c, k>>] = TextOf(Cell(i, <<c, k>>))
    BY <1>5, <1>6, <1>7
  <2>2. DecimalsOf(cols, depth, text) = {DecimalOf(text[<<c, k>>]) : c \in cols, k \in 0 .. depth - 1}
    BY DEF DecimalsOf
  <2>3. Decimals(i, cols, depth) = {DecimalOf(TextOf(Cell(i, <<c, k>>))) : c \in cols, k \in 0 .. depth - 1}
    BY DEF Decimals
  <2>4. \A c \in cols : \A k \in 0 .. depth - 1 : DecimalOf(text[<<c, k>>]) = DecimalOf(TextOf(Cell(i, <<c, k>>)))
    BY <2>1
  <2> QED
    BY <2>2, <2>3, <2>4, Z3
<1> QED
  BY <1>5, <1>9 DEF P, Q, text, depth, row

\* The mantissas of an accepted row, by column and level.
LEMMA RowOfRecord ==
    ASSUME NEW s \in Sources, ReadingInv, NEW i \in Accepted(s)
    PROVE  LET r == Rec(s, i)
               row == table.rows[i]
           IN  /\ r.depth \in Nat /\ r.depth >= 1 /\ r.depth = DepthIn(s, table, row)
               /\ DOMAIN r.at = Prices \cup Quantities /\ Prices \cap Quantities = {}
               /\ \A c \in Prices : r.at[c] \in [1 .. r.depth -> 0 .. U32Max]
               /\ \A c \in Quantities : r.at[c] \in [1 .. r.depth -> 0 .. U32Max]
               /\ \A c \in DOMAIN r.at : \A k \in 1 .. r.depth :
                    LET scale == IF c \in Prices THEN r.price_scale ELSE r.qty_scale
                        n == DecimalOf(TextOf(Cell(i, <<c, k - 1>>)))
                    IN  /\ Cell(i, <<c, k - 1>>) \in Cells
                        /\ scale \in Nat
                        /\ mantissa_at(n, scale) \in 0 .. U32Max
                        /\ Valid(n) => r.at[c][k] = ExactAt(n, scale)
               /\ NotInVain(Decimals(i, Prices, r.depth), r.price_scale)
               /\ NotInVain(Decimals(i, Quantities, r.depth), r.qty_scale)
<1> DEFINE row == table.rows[i]
           r == Rec(s, i)
           depth == DepthIn(s, table, row)
           sym == TextOf(CellAt(table, row, Symbol))
           text == TextAt(table, row, depth)
           P == Range(PricesOf(table))
           Q == Range(QuantitiesOf(table))
<1>1. /\ IsTable(table) /\ row \in Seq(Cells) /\ HasFields(s, table, row, depth)
      /\ \E ts, update_id, side :
            IsRecord(r, ts, update_id, side, gid_of(sym), depth, text, P, Q)
  BY RecordMade
<1>2. PICK ts, update_id, side : IsRecord(r, ts, update_id, side, gid_of(sym), depth, text, P, Q)
  BY <1>1
<1> HIDE DEF r, sym, text
<1>3. depth \in Nat /\ depth >= 1 /\ table.kind \in {"book", "trade"} /\ (table.kind = "trade" => depth = 1)
  BY <1>1 DEF HasFields, IsTable, DepthIn
<1>4. r.depth = depth /\ DOMAIN r.at = P \cup Q /\ Encodes(P, depth, text, r.at, r.price_scale) /\ Encodes(Q, depth, text, r.at, r.qty_scale)
  BY <1>2 DEF IsRecord
<1> HIDE DEF depth
<1>5. /\ P = Prices /\ Q = Quantities /\ P \cap Q = {}
      /\ \A c \in P \cup Q : \A k \in 0 .. depth - 1 : <<c, k>> \in Columns(table, depth)
  BY <1>3, NumberColumns DEF Prices, Quantities
<1>6. \A c \in Columns(table, depth) : CellAt(table, row, c) \in Cells /\ text[c] = TextOf(CellAt(table, row, c))
  BY <1>1, <1>3, RowTexts DEF text
<1>7. \A c : CellAt(table, row, c) = Cell(i, c)
  BY DEF CellAt, Cell
<1> HIDE DEF P, Q, row
<1>8. \A c \in P \cup Q : \A k \in 0 .. depth - 1 :
        Cell(i, <<c, k>>) \in Cells /\ text[<<c, k>>] = TextOf(Cell(i, <<c, k>>))
  BY <1>5, <1>6, <1>7
<1>9. ASSUME NEW cols, cols \subseteq P \cup Q PROVE DecimalsOf(cols, depth, text) = Decimals(i, cols, depth)
  <2>1. i \in DOMAIN table.rows
    BY RecordMade
  <2>2. \A any \in SUBSET (Prices \cup Quantities) : DecimalsOf(any, depth, text) = Decimals(i, any, depth)
    BY <1>1, <2>1, NumbersOf DEF depth, row, text
  <2> QED
    BY <1>5, <1>9, <2>2
<1>10. \A c \in P \cup Q : \A k \in 1 .. depth :
          /\ Cell(i, <<c, k - 1>>) \in Cells
          /\ DecimalOf(text[<<c, k - 1>>]) = DecimalOf(TextOf(Cell(i, <<c, k - 1>>)))
  <2> TAKE c \in P \cup Q
  <2> TAKE k \in 1 .. depth
  <2>1. k - 1 \in 0 .. depth - 1
    BY <1>3
  <2> QED
    BY <1>8, <2>1
<1>11. ASSUME NEW cols, NEW scale, cols \subseteq P \cup Q, Encodes(cols, depth, text, r.at, scale)
       PROVE  /\ NotInVain(Decimals(i, cols, depth), scale)
              /\ \A c \in cols : r.at[c] \in [1 .. depth -> 0 .. U32Max]
              /\ \A c \in cols : \A k \in 1 .. depth :
                    LET n == DecimalOf(TextOf(Cell(i, <<c, k - 1>>)))
                    IN  /\ Cell(i, <<c, k - 1>>) \in Cells /\ scale \in Nat
                        /\ mantissa_at(n, scale) \in 0 .. U32Max
                        /\ Valid(n) => r.at[c][k] = ExactAt(n, scale)
  <2>1. NotInVain(DecimalsOf(cols, depth, text), scale) /\ scale \in Nat
    BY <1>11, Zenon DEF Encodes
  <2>2. NotInVain(Decimals(i, cols, depth), scale)
    BY <1>9, <1>11, <2>1, Zenon
  <2>3. ASSUME NEW c \in cols, NEW k \in 1 .. depth
        PROVE  LET n == DecimalOf(TextOf(Cell(i, <<c, k - 1>>)))
               IN  /\ Cell(i, <<c, k - 1>>) \in Cells /\ scale \in Nat
                   /\ mantissa_at(n, scale) \in 0 .. U32Max
                   /\ Valid(n) => r.at[c][k] = ExactAt(n, scale)
    <3> DEFINE n == DecimalOf(text[<<c, k - 1>>])
    <3>1. mantissa_at(n, scale) \in 0 .. U32Max /\ (Valid(n) => r.at[c][k] = ExactAt(n, scale))
      BY <1>11, <2>3, Zenon DEF Encodes
    <3>2. c \in P \cup Q
      BY <1>11
    <3>3. Cell(i, <<c, k - 1>>) \in Cells /\ n = DecimalOf(TextOf(Cell(i, <<c, k - 1>>)))
      BY <1>10, <3>2
    <3> HIDE DEF n
    <3> QED
      BY <2>1, <3>1, <3>3
  <2>4. \A c \in cols : r.at[c] \in [1 .. depth -> 0 .. U32Max]
    BY <1>11, Zenon DEF Encodes
  <2> QED
    BY <2>2, <2>3, <2>4, Zenon
<1>12. /\ NotInVain(Decimals(i, P, depth), r.price_scale)
       /\ \A c \in P : r.at[c] \in [1 .. depth -> 0 .. U32Max]
       /\ \A c \in P : \A k \in 1 .. depth :
            LET n == DecimalOf(TextOf(Cell(i, <<c, k - 1>>)))
            IN  /\ Cell(i, <<c, k - 1>>) \in Cells /\ r.price_scale \in Nat
                /\ mantissa_at(n, r.price_scale) \in 0 .. U32Max
                /\ Valid(n) => r.at[c][k] = ExactAt(n, r.price_scale)
  <2>1. P \subseteq P \cup Q
    OBVIOUS
  <2> QED
    BY <1>4, <1>11, <2>1, Zenon
<1>13. /\ NotInVain(Decimals(i, Q, depth), r.qty_scale)
       /\ \A c \in Q : r.at[c] \in [1 .. depth -> 0 .. U32Max]
       /\ \A c \in Q : \A k \in 1 .. depth :
            LET n == DecimalOf(TextOf(Cell(i, <<c, k - 1>>)))
            IN  /\ Cell(i, <<c, k - 1>>) \in Cells /\ r.qty_scale \in Nat
                /\ mantissa_at(n, r.qty_scale) \in 0 .. U32Max
                /\ Valid(n) => r.at[c][k] = ExactAt(n, r.qty_scale)
  <2>1. Q \subseteq P \cup Q
    OBVIOUS
  <2> QED
    BY <1>4, <1>11, <2>1, Zenon
<1>14. ASSUME NEW c \in P \cup Q, NEW k \in 1 .. depth
       PROVE  LET scale == IF c \in P THEN r.price_scale ELSE r.qty_scale
                  n == DecimalOf(TextOf(Cell(i, <<c, k - 1>>)))
              IN  /\ Cell(i, <<c, k - 1>>) \in Cells
                  /\ scale \in Nat
                  /\ mantissa_at(n, scale) \in 0 .. U32Max
                  /\ Valid(n) => r.at[c][k] = ExactAt(n, scale)
  <2>1. CASE c \in P
    BY <1>12, <2>1, Zenon
  <2>2. CASE c \notin P
    BY <1>13, <2>2, Zenon
  <2> QED
    BY <2>1, <2>2
<1>15. r.depth = depth /\ depth = DepthIn(s, table, table.rows[i])
  BY <1>4 DEF depth, row
<1> QED
  BY <1>3, <1>4, <1>5, <1>12, <1>13, <1>14, <1>15, Zenon DEF r

\* What it is that a record says of its row.
LEMMA FieldsOfRecord ==
    ASSUME NEW s \in Sources, ReadingInv, NEW i \in Accepted(s)
    PROVE  LET r == Rec(s, i)
           IN  /\ r.ts \in I64s /\ r.update_id \in U64s
               /\ KeptAs(s, r.ts, Cell(i, Ts)[2], I64s)
               /\ table.kind = "book" => KeptAs(s, r.update_id, Cell(i, UpdateId)[2], U64s)
               /\ table.kind = "trade" => r.side = Cell(i, Side)[2]
               /\ r.gid # NoSymbol /\ r.gid = gid_of(TextOf(Cell(i, Symbol)))
               /\ Cell(i, Symbol) \in Cells
<1> DEFINE row == table.rows[i]
           r == Rec(s, i)
           depth == DepthIn(s, table, row)
           sym == TextOf(CellAt(table, row, Symbol))
           text == TextAt(table, row, depth)
           P == Range(PricesOf(table))
           Q == Range(QuantitiesOf(table))
<1>1. /\ IsTable(table) /\ row \in Seq(Cells) /\ HasFields(s, table, row, depth) /\ gid_of(sym) # NoSymbol
      /\ \E ts, update_id, side :
            Given(s, table, row, ts, update_id, side) /\ IsRecord(r, ts, update_id, side, gid_of(sym), depth, text, P, Q)
  BY RecordMade
<1>2. PICK ts, update_id, side :
        Given(s, table, row, ts, update_id, side) /\ IsRecord(r, ts, update_id, side, gid_of(sym), depth, text, P, Q)
  BY <1>1
<1>3. \A c : CellAt(table, row, c) = Cell(i, c)
  BY DEF CellAt, Cell
<1>4. Cell(i, Symbol) \in Cells
  <2>1. Symbol \in Header(table) /\ Len(row) = Len(table.header)
    BY <1>1 DEF HasFields, KeysIn, KeysOf
  <2> QED
    BY <1>1, <1>3, <2>1, CellIs
<1> HIDE DEF r, row, depth, text, P, Q
<1>5. r.ts = ts /\ r.update_id = update_id /\ r.side = side /\ r.gid = gid_of(sym)
  BY <1>2, Zenon DEF IsRecord
<1>6. /\ ts \in I64s /\ update_id \in U64s
      /\ KeptAs(s, ts, Cell(i, Ts)[2], I64s)
      /\ table.kind = "book" => KeptAs(s, update_id, Cell(i, UpdateId)[2], U64s)
      /\ table.kind = "trade" => side = Cell(i, Side)[2]
  BY <1>2, <1>3 DEF Given
<1>7. sym = TextOf(Cell(i, Symbol))
  BY <1>3
<1> HIDE DEF sym
<1> QED
  BY <1>1, <1>4, <1>5, <1>6, <1>7, Zenon DEF r

\* A word is the only cell whose text is a name.
LEMMA NameIsAWord ==
    ASSUME NEW cell \in Cells, TextOf(cell) \in Seq(Characters)
    PROVE  TextOf(cell) = cell[2]
<1>1. CASE cell[1] = "word"
  BY <1>1 DEF TextOf
<1>2. CASE cell[1] # "word"
  <2> DEFINE a == cell[1]  b == cell[2]
  <2>1. TextOf(cell) = << <<a, b>> >>
    BY <1>2 DEF TextOf
  <2> HIDE DEF a, b
  <2> DEFINE text == TextOf(cell)
  <2>2. Len(text) = 1 /\ text[1] = <<a, b>>
    BY <2>1
  <2>3. text[1] \in Characters
    <3> HIDE DEF text
    <3>1. text \in Seq(Characters)
      BY DEF text
    <3> QED
      BY <2>2, <3>1
  <2>4. PICK l : <<a, b>> = <<l>>
    BY <2>2, <2>3 DEF Characters
  <2>5. Len(<<a, b>>) = 2 /\ Len(<<l>>) = 1
    OBVIOUS
  <2> QED
    BY <2>4, <2>5
<1> QED
  BY <1>1, <1>2

\* gid.hpp:3-5: LIDs and GIDs are in one order, which lid_of relies on.
SameOrder == \A gid \in 0 .. N_GIDS - 1 : to_gid(gid) = gid

\* Where what was read is known, every record says what its row says.
LEMMA RecordsAreRows ==
    ASSUME ReadingInv, SameOrder PROVE RecordIsTheRow
<1>1. ASSUME NEW s \in Sources, NEW i \in Accepted(s)
      PROVE  LET r == Rec(s, i)
                 Kept(n, written, type) == n = written \/ (s = "json" /\ written \notin type /\ n % U64 = written % U64)
             IN  /\ Kept(r.ts, Cell(i, Ts)[2], I64s)
                 /\ table.kind = "book" => Kept(r.update_id, Cell(i, UpdateId)[2], U64s)
                 /\ table.kind = "trade" => r.side = Cell(i, Side)[2]
                 /\ NameOf(IF table.kind = "book" THEN to_gid(r.gid) ELSE r.gid) = Cell(i, Symbol)[2]
                 /\ \A c \in DOMAIN r.at, k \in 1 .. r.depth :
                     LET n == Cell(i, <<c, k - 1>>)[2]
                     IN  Valid(n) => r.at[c][k] = ExactAt(n, IF c \in Prices THEN r.price_scale ELSE r.qty_scale)
  <2> DEFINE r == Rec(s, i)
             name == TextOf(Cell(i, Symbol))
  <2>1. /\ KeptAs(s, r.ts, Cell(i, Ts)[2], I64s)
        /\ table.kind = "book" => KeptAs(s, r.update_id, Cell(i, UpdateId)[2], U64s)
        /\ table.kind = "trade" => r.side = Cell(i, Side)[2]
        /\ r.gid # NoSymbol /\ r.gid = gid_of(name) /\ Cell(i, Symbol) \in Cells
    BY <1>1, FieldsOfRecord
  <2>2. NameOf(r.gid) = name /\ NameOf(to_gid(r.gid)) = name /\ name \in Seq(Characters)
    <3>1. r.gid \in 0 .. N_GIDS - 1 /\ NameOf(r.gid) = name /\ name \in Seq(Characters)
      BY <2>1, SymbolOf
    <3>2. to_gid(r.gid) = r.gid
      BY <3>1 DEF SameOrder
    <3> QED
      BY <3>1, <3>2
  <2>3. name = Cell(i, Symbol)[2]
    BY <2>1, <2>2, NameIsAWord
  <2>4. ASSUME NEW c \in DOMAIN r.at, NEW k \in 1 .. r.depth
        PROVE  LET n == Cell(i, <<c, k - 1>>)[2]
               IN  Valid(n) => r.at[c][k] = ExactAt(n, IF c \in Prices THEN r.price_scale ELSE r.qty_scale)
    <3> DEFINE cell == Cell(i, <<c, k - 1>>)
               n == DecimalOf(TextOf(cell))
               scale == IF c \in Prices THEN r.price_scale ELSE r.qty_scale
    <3>1. cell \in Cells /\ scale \in Nat /\ mantissa_at(n, scale) \in 0 .. U32Max /\ (Valid(n) => r.at[c][k] = ExactAt(n, scale))
      BY <1>1, <2>4, RowOfRecord
    <3> HIDE DEF scale, cell
    <3>2. cell[1] = "num"
      <4>1. IllFormed \notin 0 .. U32Max
        BY DEF IllFormed
      <4> QED
        BY <3>1, <4>1, DecimalText
    <3>3. n = cell[2]
      BY <3>1, <3>2, DecimalText
    <3> HIDE DEF n
    <3> QED
      BY <3>1, <3>3 DEF cell, scale
  <2> HIDE DEF r, name
  <2> QED
    BY <2>1, <2>2, <2>3, <2>4, Zenon DEF KeptAs, r
<1> QED
  BY <1>1, Zenon DEF RecordIsTheRow

\* A record has the levels of its depth and no more.
LEMMA RecordsAreComplete ==
    ASSUME ReadingInv PROVE AcceptedIffComplete
<1> SUFFICES ASSUME table.kind = "book"
             PROVE  /\ \A s \in Sources : \A i \in Accepted(s) :
                        LET depth == Rec(s, i).depth
                        IN  /\ AllColumns(depth) \subseteq Keys(s, i)
                            /\ \A n \in depth .. ProbeMax : <<"bid_px", n>> \notin Keys(s, i)
                            /\ depth \in Supported
                    /\ \A d \in Supported :
                        Header(table) = {Ts, Symbol, UpdateId} \cup AllColumns(d) =>
                            pc["csv"] \notin {"CsvSchema", "BookDepthUnsupported"} /\ (\A i \in Accepted("csv") : Rec("csv", i).depth = d)
  BY Zenon DEF AcceptedIffComplete
<1>1. ASSUME NEW s \in Sources, NEW i \in Accepted(s)
      PROVE  LET depth == Rec(s, i).depth
             IN  /\ AllColumns(depth) \subseteq Keys(s, i)
                 /\ \A n \in depth .. ProbeMax : <<"bid_px", n>> \notin Keys(s, i)
                 /\ depth \in Supported
  <2> DEFINE depth == Rec(s, i).depth
             row == table.rows[i]
  <2>1. depth = DepthIn(s, table, row)
    BY <1>1, RowOfRecord
  <2>2. HasFields(s, table, row, DepthIn(s, table, row))
    BY <1>1, RecordMade
  <2>3. Keys(s, i) = KeysIn(s, table, row)
    BY DEF Keys, KeysIn
  <2>4. Columns(table, depth) = AllColumns(depth)
    BY DEF Columns
  <2> HIDE DEF depth, row
  <2> QED
    BY <2>1, <2>2, <2>3, <2>4 DEF HasFields, depth
<1>2. ASSUME NEW d \in Supported, Header(table) = {Ts, Symbol, UpdateId} \cup AllColumns(d)
      PROVE  pc["csv"] \notin {"CsvSchema", "BookDepthUnsupported"} /\ \A i \in Accepted("csv") : Rec("csv", i).depth = d
  <2>1. d \in Nat /\ d >= 1 /\ d <= ProbeMax
    BY DepthIs
  <2>2. LevelsOf(Header(table)) = 1 .. d - 1
    <3>1. ASSUME NEW k \in 1 .. ProbeMax PROVE <<"bid_px", k>> \in Header(table) <=> k \in 1 .. d - 1
      <4>1. <<"bid_px", k>> \notin {Ts, Symbol, UpdateId}
        BY DEF Ts, Symbol, UpdateId
      <4>2. AllColumns(d) = {<<c, j>> : c \in Levelled, j \in 0 .. d - 1}
        BY DEF AllColumns
      <4>3. <<"bid_px", k>> \in AllColumns(d) <=> k \in 0 .. d - 1
        <5>1. "bid_px" \in Levelled
          BY DEF Levelled
        <5> QED
          BY <4>2, <5>1, Z3
      <4>4. k \in 0 .. d - 1 <=> k \in 1 .. d - 1
        BY <2>1
      <4> QED
        BY <1>2, <4>1, <4>3, <4>4, Zenon
    <3>2. ProbeMax \in Nat
      BY DepthAssumption DEF ProbeMax
    <3>3. \A k \in 1 .. d - 1 : k \in 1 .. ProbeMax
      BY <2>1, <3>2
    <3> QED
      BY <3>1, <3>3 DEF LevelsOf
  <2>3. book_depth_of(LevelsOf(Header(table))) = d
    BY <2>2, DepthIs
  <2>4. resolve_csv_cols(table) = "none"
    <3>1. /\ {Ts, Symbol} \cup {UpdateId} \subseteq Header(table) /\ AllColumns(d) \subseteq Header(table)
          /\ d # 0 /\ table.kind # "trade"
      BY <1>2, <2>1
    <3> QED
      BY <2>3, <3>1 DEF resolve_csv_cols
  <2>5. pc["csv"] \notin {"CsvSchema", "BookDepthUnsupported"}
    BY <2>4 DEF ReadingInv, Stopped
  <2>6. ASSUME NEW i \in Accepted("csv") PROVE Rec("csv", i).depth = d
    <3>1. "csv" \in Sources
      BY DEF Sources
    <3>2. Rec("csv", i).depth = DepthIn("csv", table, table.rows[i])
      BY <2>6, <3>1, RowOfRecord
    <3>3. DepthIn("csv", table, table.rows[i]) = d
      BY <2>3 DEF DepthIn, KeysIn
    <3> QED
      BY <3>2, <3>3
  <2> QED
    BY <2>5, <2>6
<1> QED
  BY <1>1, <1>2, Zenon

\* A row of a CSV file that is documented is the same in JSON.
DocumentedIn(t, row) == \A i \in DOMAIN row :
    IF t.header[i] \in {Ts, Side} THEN row[i][3] = "number" /\ row[i][2] \in I64s
    ELSE IF t.header[i] = UpdateId
    THEN row[i][3] \in {"number", "string"} /\ IsInt(TextOf(row[i]), U64s)
    ELSE row[i][3] = "string"

\* Both files make the same of a documented row.
LEMMA SameRow ==
    ASSUME NEW t, IsTable(t), NEW row \in Range(t.rows), row # <<>>, resolve_csv_cols(t) = "none", DocumentedIn(t, row)
    PROVE  ReadCsv(t, row) = ReadJson(t, row)
<1> DEFINE fields == split_csv(chomp_cr(Line(t, row)))
           f(c) == fields[idx(t, c)]
           at(c) == row[idx(t, c)]
           keys == KeysOf(t, row)
           Typed(c, type) == c \in keys /\ at(c)[3] = type
           any == book_depth_of(LevelsOf(Header(t)))
           all == book_depth_of(LevelsOf(keys))
           text == [c \in Columns(t, any) |-> f(c)]
           same == [c \in Columns(t, all) |-> TextOf(at(c))]
           number(c) == at(c)[2]
           updateId == IF Typed(UpdateId, "string") THEN number(UpdateId) ELSE AsU64(number(UpdateId))
           csv == ReadCsv(t, row)
           json == ReadJson(t, row)
<1>0. /\ t.kind \in {"book", "trade"} /\ t.crlf \in BOOLEAN /\ t.header \in Seq(STRING \X Nat)
      /\ t.rows \in Seq(Seq(Cells)) /\ row \in Seq(Cells)
  BY DEF IsTable, Range
<1>1. fields = [i \in 1 .. Len(row) |-> TextOf(row[i])] /\ Len(fields) = Len(row)
  BY <1>0, RoundTrip
<1> HIDE DEF fields
<1>c. csv = IF Len(fields) # Len(t.header) THEN Skip("Malformed")
            ELSE IF ~IsInt(f(Ts), I64s) THEN Skip("BadTimestamp")
            ELSE IF t.kind = "book"
            THEN IF ~IsInt(f(UpdateId), U64s) THEN Skip("BadField")
                 ELSE make_book_record(IntOf(f(Ts)), IntOf(f(UpdateId)), f(Symbol), any, text)
            ELSE IF ~IsInt(f(Side), I64s) THEN Skip("BadField")
                 ELSE make_trade_record(IntOf(f(Ts)), f(Symbol), IntOf(f(Side)), text)
  BY Zenon DEF ReadCsv, fields
<1>j. json = IF Len(row) # Len(t.header) THEN Skip("Malformed")
             ELSE IF ~(Typed(Ts, "number") /\ Typed(Symbol, "string")) THEN Skip("BadField")
             ELSE IF t.kind = "book"
             THEN IF \/ all = 0
                     \/ ~Typed(UpdateId, "number") /\ ~(Typed(UpdateId, "string") /\ IsInt(TextOf(at(UpdateId)), U64s))
                     \/ \E c \in AllColumns(all) : ~Typed(c, "string")
                  THEN Skip("BadField")
                  ELSE make_book_record(AsI64(number(Ts)), updateId, TextOf(at(Symbol)), all, same)
             ELSE IF ~(Typed(Side, "number") /\ Typed(<<"px", 0>>, "string") /\ Typed(<<"qty", 0>>, "string"))
                  THEN Skip("BadField")
                  ELSE make_trade_record(AsI64(number(Ts)), TextOf(at(Symbol)), AsI64(number(Side)), same)
  BY Zenon DEF ReadJson
<1> HIDE DEF csv, json
<1>2. CASE Len(row) # Len(t.header)
  <2>1. csv = Skip("Malformed") /\ json = Skip("Malformed")
    BY <1>1, <1>2, <1>c, <1>j, Zenon
  <2> QED
    BY <2>1 DEF csv, json
<1>3. CASE Len(row) = Len(t.header)
  <2> DEFINE d == DepthIn("csv", t, row)
  <2>1. /\ t.kind = "book" => d = any /\ any # 0
        /\ Columns(t, any) \cup {Ts, Symbol} \subseteq Header(t)
        /\ t.kind = "book" => UpdateId \in Header(t) /\ AllColumns(any) \subseteq Header(t)
        /\ t.kind = "trade" => Side \in Header(t) /\ <<"px", 0>> \in Header(t) /\ <<"qty", 0>> \in Header(t)
    <3>1. /\ d \in Nat /\ d >= 1
          /\ Columns(t, d) \cup {Ts, Symbol} \subseteq Header(t)
          /\ t.kind = "book" => UpdateId \in Header(t)
          /\ t.kind = "trade" => Side \in Header(t)
      BY <1>0, Resolved
    <3>2. t.kind = "book" => d = any /\ Columns(t, any) = AllColumns(any)
      BY DEF DepthIn, KeysIn, Columns
    <3>3. t.kind = "trade" => Columns(t, d) = {<<"px", 0>>, <<"qty", 0>>} /\ Columns(t, any) = Columns(t, d)
      BY DEF Columns
    <3> HIDE DEF d, any
    <3> QED
      BY <1>0, <3>1, <3>2, <3>3
  <2> HIDE DEF d
  <2>2. ASSUME NEW c \in Header(t)
        PROVE  /\ idx(t, c) \in DOMAIN row /\ at(c) \in Cells /\ f(c) = TextOf(at(c))
               /\ c \in {Ts, Side} => at(c)[3] = "number" /\ at(c)[2] \in I64s /\ at(c)[1] = "int"
               /\ c = UpdateId => at(c)[3] \in {"number", "string"} /\ IsInt(TextOf(at(c)), U64s)
               /\ c \notin {Ts, Side, UpdateId} => at(c)[3] = "string"
               /\ c \in keys
    <3> DEFINE i == idx(t, c)
    <3>1. i \in DOMAIN t.header /\ t.header[i] = c /\ i \in DOMAIN row /\ i \in 1 .. Len(row)
      <4>1. i \in DOMAIN t.header /\ t.header[i] = c
        BY IdxIs
      <4> QED
        BY <1>0, <1>3, <4>1
    <3> HIDE DEF i
    <3>2. row[i] \in Cells /\ fields[i] = TextOf(row[i])
      BY <1>0, <1>1, <3>1
    <3>3. IF c \in {Ts, Side} THEN row[i][3] = "number" /\ row[i][2] \in I64s
          ELSE IF c = UpdateId THEN row[i][3] \in {"number", "string"} /\ IsInt(TextOf(row[i]), U64s)
          ELSE row[i][3] = "string"
      BY <3>1, Zenon DEF DocumentedIn
    <3>4. c \in {Ts, Side} /\ row[i][3] = "number" => row[i][1] = "int"
      <4>1. i \in DOMAIN row \cap DOMAIN t.header
        BY <3>1
      <4> QED
        BY <3>1, <4>1 DEF IsTable
    <3>5. row[i][3] # "absent" => c \in keys
      BY DEF KeysOf, i
    <3>6. row[i][3] # "absent"
      BY <3>3
    <3>7. Ts # UpdateId /\ Side # UpdateId
      BY DEF Ts, Side, UpdateId
    <3> HIDE DEF keys
    <3> QED
      BY <3>1, <3>2, <3>3, <3>4, <3>5, <3>6, <3>7 DEF i
  <2>3. keys = Header(t) /\ all = any
    <3>1. keys \subseteq Header(t)
      BY DEF KeysOf
    <3>2. Header(t) \subseteq keys
      BY <2>2
    <3>3. keys = Header(t)
      BY <3>1, <3>2
    <3> QED
      BY <3>3
  <2>4. text = same
    <3>1. \A c \in Columns(t, any) : f(c) = TextOf(at(c))
      BY <2>1, <2>2
    <3> HIDE DEF any, all, f, at
    <3> QED
      BY <2>3, <3>1
  <2>5. Ts \in Header(t) /\ Symbol \in Header(t) /\ Symbol \notin {Ts, Side, UpdateId}
    BY <2>1 DEF Symbol, Ts, Side, UpdateId
  <2>6. /\ Typed(Ts, "number") /\ Typed(Symbol, "string") /\ f(Symbol) = TextOf(at(Symbol))
        /\ at(Ts) \in Cells /\ at(Ts)[1] = "int" /\ at(Ts)[2] \in I64s /\ f(Ts) = TextOf(at(Ts))
    <3>1. Ts \in {Ts, Side}
      OBVIOUS
    <3> HIDE DEF at, keys, f
    <3> QED
      BY <2>2, <2>5, <3>1
  <2>7. IsInt(f(Ts), I64s) /\ IntOf(f(Ts)) = at(Ts)[2] /\ AsI64(number(Ts)) = at(Ts)[2]
    <3>1. IsInt(f(Ts), I64s) /\ IntOf(f(Ts)) = at(Ts)[2] /\ at(Ts)[2] \in Int
      BY <2>6, IntegerText
    <3> QED
      BY <2>6, <3>1, Wrapping
  <2>8. CASE t.kind = "book"
    <3>1. UpdateId \in Header(t) /\ any # 0 /\ AllColumns(any) \subseteq Header(t)
      BY <2>1, <2>8
    <3>2. \A c \in AllColumns(any) : c \notin {Ts, Side, UpdateId}
      <4>1. \A c \in AllColumns(any) : \E l \in Levelled, k \in 0 .. any - 1 : c = <<l, k>>
        BY DEF AllColumns
      <4>2. \A l \in Levelled : \A k : <<l, k>> \notin {Ts, Side, UpdateId}
        BY DEF Levelled, Ts, Side, UpdateId
      <4> HIDE DEF any
      <4> QED
        BY <4>1, <4>2, Zenon
    <3>3. \A c \in AllColumns(any) : Typed(c, "string")
      <4> HIDE DEF any, at, keys
      <4> QED
        BY <2>2, <3>1, <3>2
    <3>4. /\ at(UpdateId)[3] \in {"number", "string"} /\ IsInt(TextOf(at(UpdateId)), U64s) /\ UpdateId \in keys
          /\ f(UpdateId) = TextOf(at(UpdateId)) /\ at(UpdateId) \in Cells
      <4> HIDE DEF at, keys, f
      <4> QED
        BY <2>2, <3>1
    <3>5. at(UpdateId)[2] \in U64s /\ IntOf(TextOf(at(UpdateId))) = at(UpdateId)[2] /\ at(UpdateId)[2] \in Int
      BY <3>4, IntegerText
    <3>6. updateId = at(UpdateId)[2]
      BY <3>5, Wrapping
    <3>7. Typed(UpdateId, "number") \/ Typed(UpdateId, "string")
      BY <3>4
    <3> HIDE DEF f, Typed, at, any, all, updateId, text, same, number
    <3>8. csv = make_book_record(at(Ts)[2], at(UpdateId)[2], TextOf(at(Symbol)), any, text)
      BY <1>1, <1>3, <1>c, <2>6, <2>7, <2>8, <3>4, <3>5, Zenon
    <3>9. json = make_book_record(at(Ts)[2], at(UpdateId)[2], TextOf(at(Symbol)), any, text)
      <4>1. ~(\E c \in AllColumns(all) : ~Typed(c, "string"))
        BY <2>3, <3>3
      <4>2. all # 0 /\ (Typed(UpdateId, "number") \/ (Typed(UpdateId, "string") /\ IsInt(TextOf(at(UpdateId)), U64s)))
        BY <2>3, <3>1, <3>4, <3>7
      <4>3. json = make_book_record(AsI64(number(Ts)), updateId, TextOf(at(Symbol)), all, same)
        BY <1>3, <1>j, <2>6, <2>8, <4>1, <4>2, Zenon
      <4> QED
        BY <2>3, <2>4, <2>7, <3>6, <4>3, Zenon
    <3> QED
      BY <3>8, <3>9 DEF csv, json
  <2>9. CASE t.kind = "trade"
    <3>1. Side \in Header(t) /\ <<"px", 0>> \in Header(t) /\ <<"qty", 0>> \in Header(t)
      BY <2>1, <2>9
    <3>2. <<"px", 0>> \notin {Ts, Side, UpdateId} /\ <<"qty", 0>> \notin {Ts, Side, UpdateId}
      BY DEF Ts, Side, UpdateId
    <3>3. /\ Typed(Side, "number") /\ Typed(<<"px", 0>>, "string") /\ Typed(<<"qty", 0>>, "string")
          /\ at(Side) \in Cells /\ at(Side)[1] = "int" /\ at(Side)[2] \in I64s /\ f(Side) = TextOf(at(Side))
      <4>1. Side \in {Ts, Side}
        OBVIOUS
      <4> HIDE DEF at, keys, f
      <4> QED
        BY <2>2, <3>1, <3>2, <4>1
    <3>4. IsInt(f(Side), I64s) /\ IntOf(f(Side)) = at(Side)[2] /\ AsI64(number(Side)) = at(Side)[2]
      <4>1. IsInt(f(Side), I64s) /\ IntOf(f(Side)) = at(Side)[2] /\ at(Side)[2] \in Int
        BY <3>3, IntegerText
      <4> QED
        BY <3>3, <4>1, Wrapping
    <3>5. t.kind # "book"
      BY <2>9
    <3> HIDE DEF f, Typed, at, any, all, updateId, text, same, number
    <3>6. csv = make_trade_record(at(Ts)[2], TextOf(at(Symbol)), at(Side)[2], text)
      BY <1>1, <1>3, <1>c, <2>6, <2>7, <3>4, <3>5, Zenon
    <3>7. json = make_trade_record(at(Ts)[2], TextOf(at(Symbol)), at(Side)[2], text)
      <4>1. json = make_trade_record(AsI64(number(Ts)), TextOf(at(Symbol)), AsI64(number(Side)), same)
        BY <1>3, <1>j, <2>6, <3>3, <3>5, Zenon
      <4> QED
        BY <2>4, <2>7, <3>4, <4>1, Zenon
    <3> QED
      BY <3>6, <3>7 DEF csv, json
  <2> QED
    BY <1>0, <2>8, <2>9
<1> QED
  BY <1>2, <1>3

\* What was read of either file is the same where the rows are documented.
LEMMA RowsAgree ==
    ASSUME ReadingInv PROVE FormatsAgree
<1> SUFFICES ASSUME NEW i \in DOMAIN outcomes["csv"] \cap DOMAIN outcomes["json"], Documented(table.rows[i])
             PROVE  outcomes["csv"][i] = outcomes["json"][i]
  BY Zenon DEF FormatsAgree
<1> DEFINE row == table.rows[i]
<1>0. "csv" \in Sources /\ "json" \in Sources
  BY DEF Sources
<1>1. i \in 1 .. pos["csv"] - 1 /\ i \in 1 .. pos["json"] - 1 /\ pos["csv"] \in Nat
  <2>1. DOMAIN outcomes["csv"] = 1 .. pos["csv"] - 1 /\ DOMAIN outcomes["json"] = 1 .. pos["json"] - 1
    BY <1>0, LineRead
  <2> QED
    BY <1>0, <2>1 DEF ReadingInv
<1>2. /\ IsTable(table) /\ row \in Range(table.rows)
      /\ outcomes["csv"][i] = OutcomeOf("csv", table, row) /\ outcomes["json"][i] = OutcomeOf("json", table, row)
  BY <1>0, <1>1, LineRead
<1>3. resolve_csv_cols(table) = "none"
  BY <1>1 DEF ReadingInv
<1>4. DocumentedIn(table, row)
  BY DEF Documented, DocumentedIn
<1> HIDE DEF row
<1>5. CASE row = <<>>
  BY <1>2, <1>5 DEF OutcomeOf
<1>6. CASE row # <<>>
  <2>1. ReadCsv(table, row) = ReadJson(table, row)
    BY <1>2, <1>3, <1>4, <1>6, SameRow
  <2> QED
    BY <1>2, <1>6, <2>1 DEF OutcomeOf, ReadRow
<1> QED
  BY <1>5, <1>6

\* No decimal was given up in vain, no row of numbers refused without a cause.
LEMMA ScalesAreGreatest ==
    ASSUME ReadingInv PROVE ScaleIsGreatest
<1>1. ASSUME NEW s \in Sources, NEW i \in DOMAIN table.rows, i \in DOMAIN outcomes[s]
      PROVE  LET o == outcomes[s][i]
                 depth == IF table.kind = "trade" THEN 1 ELSE book_depth_of(LevelsOf(Keys(s, i)))
             IN  /\ i \in Accepted(s) =>
                     /\ NotInVain(Decimals(i, Prices, depth), Rec(s, i).price_scale)
                     /\ NotInVain(Decimals(i, Quantities, depth), Rec(s, i).qty_scale)
                 /\ o.reason \in {"BadNumber", "ScaleOverflow"} /\ AllValid(Decimals(i, Prices \cup Quantities, depth)) =>
                     /\ o.reason = "ScaleOverflow"
                     /\ \E n \in Decimals(i, Prices \cup Quantities, depth) : ValueOf(n.int) > U32Max
  <2> DEFINE o == outcomes[s][i]
             row == table.rows[i]
             depth == IF table.kind = "trade" THEN 1 ELSE book_depth_of(LevelsOf(Keys(s, i)))
             D == Decimals(i, Prices \cup Quantities, depth)
  <2>1. depth = DepthIn(s, table, row)
    BY DEF DepthIn, Keys, KeysIn
  <2>2. /\ IsTable(table) /\ row \in Seq(Cells)
        /\ row = <<>> => o = Skip("empty")
        /\ row # <<>> => RowIs(s, table, row, o)
    BY <1>1, LineRead
  <2> HIDE DEF depth
  <2>3. ASSUME i \in Accepted(s)
        PROVE  /\ NotInVain(Decimals(i, Prices, depth), Rec(s, i).price_scale)
               /\ NotInVain(Decimals(i, Quantities, depth), Rec(s, i).qty_scale)
    <3>1. /\ Rec(s, i).depth = DepthIn(s, table, row)
          /\ NotInVain(Decimals(i, Prices, Rec(s, i).depth), Rec(s, i).price_scale)
          /\ NotInVain(Decimals(i, Quantities, Rec(s, i).depth), Rec(s, i).qty_scale)
      BY <2>3, RowOfRecord
    <3> QED
      BY <2>1, <3>1
  <2>4. ASSUME o.reason \in {"BadNumber", "ScaleOverflow"}, AllValid(D)
        PROVE  o.reason = "ScaleOverflow" /\ \E n \in D : ValueOf(n.int) > U32Max
    <3>1. RowIs(s, table, row, o)
      <4>1. row # <<>>
        BY <2>2, <2>4 DEF Skip
      <4> QED
        BY <2>2, <4>1
    <3> DEFINE numbers == DecimalsOf(Range(PricesOf(table)) \cup Range(QuantitiesOf(table)), depth, TextAt(table, row, depth))
    <3>2. /\ HasFields(s, table, row, depth)
          /\ \/ o = Skip("BadNumber") /\ ~AllValid(numbers)
             \/ o = Skip("ScaleOverflow") /\ (AllValid(numbers) => TooGreat(numbers))
      <4>1. o \notin Refused
        BY <2>4 DEF Refused, Skip
      <4>2. \A sym : o # SkipUnknown(sym)
        BY <2>4 DEF SkipUnknown
      <4>3. \A r : o # [reason |-> "none", unknown |-> {}, record |-> <<r>>]
        BY <2>4
      <4> HIDE DEF o, row
      <4> QED
        BY <2>1, <3>1, <4>1, <4>2, <4>3, Zenon DEF RowIs
    <3>3. numbers = D
      <4>1. /\ Prices = Range(PricesOf(table)) /\ Quantities = Range(QuantitiesOf(table))
            /\ \A cols \in SUBSET (Prices \cup Quantities) : DecimalsOf(cols, depth, TextAt(table, row, depth)) = Decimals(i, cols, depth)
        BY <2>1, <2>2, <3>2, NumbersOf
      <4>2. Prices \cup Quantities \in SUBSET (Prices \cup Quantities)
        OBVIOUS
      <4> HIDE DEF row
      <4> QED
        BY <4>1, <4>2
    <3>4. o = Skip("ScaleOverflow") /\ TooGreat(D)
      <4> HIDE DEF numbers, D, o, row
      <4> QED
        BY <2>4, <3>2, <3>3
    <3> HIDE DEF D
    <3> QED
      BY <3>4 DEF TooGreat, Skip
  <2> HIDE DEF o, D
  <2> QED
    BY <2>3, <2>4, Zenon DEF o, D, depth
<1> QED
  BY <1>1, Zenon DEF ScaleIsGreatest, NotInVain

-----------------------------------------------------------------------------
(* The summary *)

\* What a line of a file came to.
Result(l) == OutcomeOf(l[1], table, table.rows[l[2]])
\* The records, the skipped lines and the missing symbols, by the lines.
LinesAre ==
    /\ \A r \in Reasons : SkippedFor(r) = {l \in Lines : Result(l).reason = r}
    /\ Records = {l \in Lines : Result(l).record # <<>>}
    /\ Missing = UNION {Result(l).unknown : l \in Lines}

\* The counters account for the lines.
CountInv ==
    /\ counts \in [Reasons -> Nat] /\ total \in Nat
    /\ IsFiniteSet(Lines) /\ IsFiniteSet(unknown_syms)
    /\ SkipsAreTold

\* They are what was made of the lines.
LEMMA LinesAreRead == ReadingInv => LinesAre
<1> SUFFICES ASSUME ReadingInv PROVE LinesAre
  OBVIOUS
<1>1. ASSUME NEW l \in Lines
      PROVE  l[2] \in DOMAIN outcomes[l[1]] /\ outcomes[l[1]][l[2]] = Result(l)
  <2>1. l[1] \in Sources /\ l[2] \in DOMAIN table.rows /\ l[2] < pos[l[1]]
    BY DEF Lines
  <2> DEFINE s == l[1]  i == l[2]
  <2>2. pos[s] \in Nat /\ DOMAIN outcomes[s] = 1 .. pos[s] - 1 /\ IsTable(table)
    BY <2>1, LineRead DEF ReadingInv
  <2>3. i \in 1 .. pos[s] - 1
    <3>1. i \in Nat /\ i >= 1
      BY <2>1, <2>2 DEF IsTable
    <3> HIDE DEF i, s
    <3> QED
      BY <2>1, <2>2, <3>1 DEF i, s
  <2>4. s \in Sources
    BY <2>1
  <2> HIDE DEF s, i
  <2>5. outcomes[s][i] = OutcomeOf(s, table, table.rows[i])
    BY <2>3, <2>4, LineRead
  <2> QED
    BY <2>2, <2>3, <2>5 DEF s, i, Result
<1>2. Records = {l \in Lines : Result(l).record # <<>>}
  BY <1>1 DEF Records, Accepted
<1>3. Missing = UNION {Result(l).unknown : l \in Lines}
  BY <1>1 DEF Missing
<1>4. \A r \in Reasons : SkippedFor(r) = {l \in Lines : Result(l).reason = r}
  BY <1>1 DEF SkippedFor
<1> QED
  BY <1>2, <1>3, <1>4 DEF LinesAre

\* At first nothing is counted.
LEMMA CountInit == ASSUME Init, ReadingInv PROVE CountInv
<1>1. Lines = {}
  <2>1. \A l \in Sources \X DOMAIN table.rows : ~(l[2] < pos[l[1]])
    <3> TAKE l \in Sources \X DOMAIN table.rows
    <3>1. l[1] \in Sources /\ l[2] \in DOMAIN table.rows
      OBVIOUS
    <3>2. pos[l[1]] = 1
      BY <3>1 DEF Init
    <3>3. table.rows \in Seq(Seq(Cells))
      <4>1. IsTable(table)
        BY TablesAssumption DEF ReadingInv
      <4> QED
        BY <4>1 DEF IsTable
    <3> DEFINE i == l[2]
    <3>4. i \in Nat /\ i >= 1
      BY <3>1, <3>3
    <3> HIDE DEF i
    <3>5. ~(i < 1)
      BY <3>4
    <3> QED
      BY <3>2, <3>5 DEF i
  <2> QED
    BY <2>1 DEF Lines
<1>2. Records = {} /\ Missing = {}
  BY <1>1 DEF Records, Missing
<1>3. counts = [r \in Reasons |-> 0] /\ total = 0 /\ unknown_syms = {}
  BY DEF Init
<1>4. /\ counts["Malformed"] = 0 /\ counts["BadTimestamp"] = 0 /\ counts["BadField"] = 0
      /\ counts["UnknownSymbol"] = 0 /\ counts["BadNumber"] = 0 /\ counts["ScaleOverflow"] = 0
  BY <1>3 DEF Reasons
<1>5. IsFiniteSet({}) /\ Cardinality({}) = 0
  BY FS_EmptySet
<1>6. kMaxUnknownSamples \in Nat
  BY DepthAssumption
<1>7. \A r \in Reasons : counts[r] = Cardinality(SkippedFor(r))
  <2>1. \A r \in Reasons : SkippedFor(r) = {}
    BY <1>1 DEF SkippedFor
  <2> QED
    BY <1>3, <1>5, <2>1
<1>8. SkipsAreTold
  BY <1>1, <1>2, <1>3, <1>4, <1>5, <1>6, <1>7 DEF SkipsAreTold
<1>9. counts \in [Reasons -> Nat] /\ total \in Nat
  BY <1>3
<1> QED
  BY <1>1, <1>3, <1>5, <1>8, <1>9 DEF CountInv

\* The lines after a line was read, or none.
LEMMA LinesGrow ==
    ASSUME ReadingInv, NEW s \in Sources, NextLine(s), table' = table
    PROVE  /\ RowAt(s) = <<>> => Lines' = Lines
           /\ RowAt(s) # <<>> => Lines' = Lines \cup {<<s, pos[s]>>} /\ <<s, pos[s]>> \notin Lines
<1>1. /\ pos[s] \in Nat /\ pos' = [pos EXCEPT ![s] = pos[s] + 1] /\ pos \in [Sources -> Nat]
      /\ pos[s] \in DOMAIN table.rows /\ RowAt(s) = table.rows[pos[s]]
  BY LineIs DEF ReadingInv, NextLine
<1>2. IsTable(table) /\ table.rows \in Seq(Seq(Cells))
  <2>1. IsTable(table)
    BY TablesAssumption DEF ReadingInv
  <2> QED
    BY <2>1 DEF IsTable
<1>3. ASSUME NEW z \in Sources, NEW i \in DOMAIN table.rows
      PROVE  i < pos'[z] <=> i < pos[z] \/ (z = s /\ i = pos[s])
  <2>1. i \in Nat
    BY <1>2
  <2>2. CASE z = s
    <3>1. pos'[z] = pos[s] + 1
      BY <1>1, <2>2
    <3> QED
      BY <1>1, <2>1, <2>2, <3>1
  <2>3. CASE z # s
    BY <1>1, <2>3
  <2> QED
    BY <2>2, <2>3
<1>4. /\ Lines = {l \in Sources \X DOMAIN table.rows : l[2] < pos[l[1]] /\ table.rows[l[2]] # <<>>}
      /\ Lines' = {l \in Sources \X DOMAIN table.rows : l[2] < pos'[l[1]] /\ table.rows[l[2]] # <<>>}
  BY DEF Lines
<1>5. ASSUME NEW z \in Sources, NEW i \in DOMAIN table.rows
      PROVE  /\ <<z, i>> \in Lines <=> i < pos[z] /\ table.rows[i] # <<>>
             /\ <<z, i>> \in Lines' <=> i < pos'[z] /\ table.rows[i] # <<>>
  BY <1>4
<1>6. <<s, pos[s]>> \notin Lines
  <2>1. ~(pos[s] < pos[s])
    BY <1>1
  <2> QED
    BY <1>1, <1>5, <2>1
<1>7. \A l \in Lines \cup Lines' : \E z \in Sources, i \in DOMAIN table.rows : l = <<z, i>>
  BY <1>4
<1>8. CASE RowAt(s) = <<>>
  <2>1. \A z \in Sources : \A i \in DOMAIN table.rows : <<z, i>> \in Lines' <=> <<z, i>> \in Lines
    BY <1>1, <1>3, <1>5, <1>8
  <2>2. Lines' = Lines
    BY <1>7, <2>1
  <2> QED
    BY <1>8, <2>2
<1>9. CASE RowAt(s) # <<>>
  <2>1. \A z \in Sources : \A i \in DOMAIN table.rows : <<z, i>> \in Lines' <=> <<z, i>> \in Lines \/ <<z, i>> = <<s, pos[s]>>
    <3> TAKE z \in Sources
    <3> TAKE i \in DOMAIN table.rows
    <3>1. <<z, i>> = <<s, pos[s]>> <=> z = s /\ i = pos[s]
      OBVIOUS
    <3> QED
      BY <1>1, <1>3, <1>5, <1>9, <3>1
  <2>2. <<s, pos[s]>> \in Lines'
    BY <1>1, <2>1
  <2>3. Lines' = Lines \cup {<<s, pos[s]>>}
    BY <1>7, <2>1, <2>2
  <2> QED
    BY <1>6, <1>9, <2>3
<1> QED
  BY <1>8, <1>9

\* Nothing is told of lines that were not read.
LEMMA CountSame ==
    ASSUME LinesAre, LinesAre', CountInv, table' = table, Lines' = Lines, UNCHANGED stats
    PROVE  CountInv'
<1>1. \A l : Result(l)' = Result(l)
  BY DEF Result
<1>2. Records' = Records /\ Missing' = Missing
  <2> DEFINE O(l) == Result(l)
  <2>1. Records' = {l \in Lines : Result(l).record # <<>>} /\ Missing' = UNION {Result(l).unknown : l \in Lines}
    BY <1>1 DEF LinesAre
  <2> QED
    BY <2>1 DEF LinesAre
<1>3. counts' = counts /\ total' = total /\ unknown_syms' = unknown_syms
  BY DEF stats
<1>4. \A r \in Reasons : counts'[r] = Cardinality(SkippedFor(r)')
  <2>1. \A r \in Reasons : SkippedFor(r)' = {l \in Lines : Result(l).reason = r}
    BY <1>1 DEF LinesAre
  <2>2. \A r \in Reasons : SkippedFor(r)' = SkippedFor(r)
    BY <2>1 DEF LinesAre
  <2> QED
    BY <1>3, <2>2 DEF CountInv, SkipsAreTold
<1>5. Lines' = Lines
  OBVIOUS
<1> QED
  BY <1>2, <1>3, <1>4, <1>5 DEF CountInv, SkipsAreTold

\* One more line is one more record, or none.
LEMMA CountGrow ==
    ASSUME LinesAre, LinesAre', CountInv, table' = table, NEW l, l \notin Lines, Lines' = Lines \cup {l}
    PROVE  /\ IsFiniteSet(Lines') /\ Cardinality(Lines') = Cardinality(Lines) + 1
           /\ IsFiniteSet(Records) /\ Cardinality(Records) \in Nat /\ Cardinality(Lines) \in Nat
           /\ Result(l).record = <<>> => Records' = Records
           /\ Result(l).record # <<>> => Cardinality(Records') = Cardinality(Records) + 1
           /\ Missing' = Missing \cup Result(l).unknown
           /\ \A r \in Reasons :
                /\ r = Result(l).reason =>
                    Cardinality(SkippedFor(r)') = Cardinality(SkippedFor(r)) + 1
                /\ r # Result(l).reason => SkippedFor(r)' = SkippedFor(r)
<1>1. \A z : Result(z)' = Result(z)
  BY DEF Result
<1>2. /\ Records' = {z \in Lines \cup {l} : Result(z).record # <<>>}
      /\ Missing' = UNION {Result(z).unknown : z \in Lines \cup {l}}
      /\ Records = {z \in Lines : Result(z).record # <<>>}
      /\ Missing = UNION {Result(z).unknown : z \in Lines}
  BY <1>1 DEF LinesAre
<1>3. IsFiniteSet(Lines') /\ Cardinality(Lines') = Cardinality(Lines) + 1 /\ Cardinality(Lines) \in Nat
  BY FS_AddElement, FS_CardinalityType DEF CountInv
<1>4. IsFiniteSet(Records) /\ Cardinality(Records) \in Nat /\ l \notin Records
  <2>1. Records \subseteq Lines
    BY <1>2
  <2> QED
    BY <2>1, FS_Subset, FS_CardinalityType DEF CountInv
<1>5. Result(l).record = <<>> => Records' = Records
  BY <1>2
<1>6. ASSUME Result(l).record # <<>> PROVE Cardinality(Records') = Cardinality(Records) + 1
  <2>1. Records' = Records \cup {l}
    BY <1>2, <1>6
  <2> QED
    BY <1>4, <2>1, FS_AddElement
<1>7. Missing' = Missing \cup Result(l).unknown
  BY <1>2
<1>8. ASSUME NEW r \in Reasons
      PROVE  /\ r = Result(l).reason => Cardinality(SkippedFor(r)') = Cardinality(SkippedFor(r)) + 1
             /\ r # Result(l).reason => SkippedFor(r)' = SkippedFor(r)
  <2>1. /\ SkippedFor(r)' = {z \in Lines \cup {l} : Result(z).reason = r}
        /\ SkippedFor(r) = {z \in Lines : Result(z).reason = r}
    BY <1>1 DEF LinesAre
  <2>2. IsFiniteSet(SkippedFor(r)) /\ l \notin SkippedFor(r)
    BY <2>1, FS_Subset DEF CountInv
  <2>3. CASE r = Result(l).reason
    <3>1. SkippedFor(r)' = SkippedFor(r) \cup {l}
      BY <2>1, <2>3
    <3> QED
      BY <2>2, <2>3, <3>1, FS_AddElement
  <2>4. CASE r # Result(l).reason
    BY <2>1, <2>4
  <2> QED
    BY <2>3, <2>4
<1> QED
  BY <1>3, <1>4, <1>5, <1>6, <1>7, <1>8

\* Every step counts the line it reads.
LEMMA CountStep == ASSUME ReadingInv, LinesAre, LinesAre', CountInv, [Next]_vars PROVE CountInv'
<1>1. CASE UNCHANGED vars
  <2>1. table' = table /\ Lines' = Lines /\ UNCHANGED stats
    BY <1>1 DEF vars, Lines
  <2> QED
    BY <2>1, CountSame
<1>2. ASSUME NEW s \in Sources, Open(s) \/ Advance(s) \/ EndOfFile(s) PROVE CountInv'
  <2>1. table' = table /\ pos' = pos /\ UNCHANGED stats
    BY <1>2 DEF Open, Advance, EndOfFile
  <2>2. Lines' = Lines
    BY <2>1 DEF Lines
  <2> QED
    BY <2>1, <2>2, CountSame
<1>3. ASSUME NEW s \in Sources, EmptyLine(s) PROVE CountInv'
  <2>1. NextLine(s) /\ RowAt(s) = <<>> /\ table' = table /\ UNCHANGED stats
    BY <1>3 DEF EmptyLine
  <2>2. Lines' = Lines
    BY <2>1, LinesGrow
  <2> QED
    BY <2>1, <2>2, CountSame
<1>4. ASSUME NEW s \in Sources, SkipRow(s) \/ HoldRecord(s) PROVE CountInv'
  <2> DEFINE l == <<s, pos[s]>>
             o == Outcome(s)
             reason == o.reason
             unknown == o.unknown
  <2>1. NextLine(s) /\ RowAt(s) # <<>> /\ table' = table
    BY <1>4 DEF SkipRow, HoldRecord
  <2>2. Lines' = Lines \cup {l} /\ l \notin Lines
    BY <2>1, LinesGrow
  <2>3. OutcomeHere(s) = Outcome(s) /\ RowIs(s, table, RowAt(s), Outcome(s))
    BY <2>1, LineIs
  <2>4. Result(l) = o
    BY <2>3 DEF Result, OutcomeHere
  <2>5. \/ o.record = <<>> /\ reason \in Reasons /\ unknown = {}
        \/ o.record = <<>> /\ reason \in Reasons /\ \E sym : sym \notin Range(kGidNames) /\ unknown = {sym}
        \/ o.record # <<>> /\ unknown = {} /\ reason = "none"
    BY <2>3, Shapes, Zenon
  <2> HIDE DEF o, l
  <2>6. /\ IsFiniteSet(Lines') /\ Cardinality(Lines') = Cardinality(Lines) + 1
        /\ IsFiniteSet(Records) /\ Cardinality(Records) \in Nat /\ Cardinality(Lines) \in Nat
        /\ o.record = <<>> => Records' = Records
        /\ o.record # <<>> => Cardinality(Records') = Cardinality(Records) + 1
        /\ Missing' = Missing \cup unknown
        /\ \A r \in Reasons : /\ r = reason => Cardinality(SkippedFor(r)') = Cardinality(SkippedFor(r)) + 1
                              /\ r # reason => SkippedFor(r)' = SkippedFor(r)
    BY <2>1, <2>2, <2>4, CountGrow
  <2> HIDE DEF reason, unknown
  <2>7. CASE HoldRecord(s)
    <3>1. UNCHANGED stats /\ o.record # <<>>
      BY <2>7 DEF HoldRecord, o
    <3>2. unknown = {}
      BY <2>5, <3>1
    <3>3. counts' = counts /\ total' = total /\ unknown_syms' = unknown_syms /\ Missing' = Missing
      BY <2>6, <3>1, <3>2 DEF stats
    <3>4. Cardinality(Lines') = Cardinality(Records') + total'
      BY <2>6, <3>1, <3>3 DEF CountInv, SkipsAreTold
    <3>5. \A r \in Reasons : counts'[r] = Cardinality(SkippedFor(r)')
      <4>1. reason \notin Reasons
        BY <2>5, <3>1 DEF Reasons
      <4>2. \A r \in Reasons : SkippedFor(r)' = SkippedFor(r)
        BY <2>6, <4>1
      <4> QED
        BY <3>3, <4>2 DEF CountInv, SkipsAreTold
    <3>6. SkipsAreTold'
      BY <3>3, <3>4, <3>5 DEF CountInv, SkipsAreTold
    <3> QED
      BY <2>6, <3>3, <3>6 DEF CountInv
  <2>8. CASE SkipRow(s)
    <3>1. CountSkip(reason, unknown) /\ o.record = <<>>
      BY <2>8 DEF SkipRow, o, reason, unknown
    <3>2. reason \in Reasons /\ (unknown = {} \/ \E sym : sym \notin Range(kGidNames) /\ unknown = {sym}) /\ Records' = Records
      BY <2>5, <2>6, <3>1
    <3>3. /\ counts' = [counts EXCEPT ![reason] = counts[reason] + 1] /\ total' = total + 1
          /\ unknown_syms' = IF HasRoom THEN unknown_syms \cup unknown ELSE unknown_syms
      BY <3>1 DEF CountSkip
    <3>4. counts' \in [Reasons -> Nat] /\ total' \in Nat
      BY <3>2, <3>3 DEF CountInv
    <3>5. Cardinality(Lines') = Cardinality(Records') + total'
      BY <2>6, <3>2, <3>3 DEF CountInv, SkipsAreTold
    <3>6. total' = counts'["Malformed"] + counts'["BadTimestamp"] + counts'["BadField"]
                     + counts'["UnknownSymbol"] + counts'["BadNumber"] + counts'["ScaleOverflow"]
      <4>1. counts \in [Reasons -> Nat] /\ total \in Nat
            /\ total = counts["Malformed"] + counts["BadTimestamp"] + counts["BadField"]
                     + counts["UnknownSymbol"] + counts["BadNumber"] + counts["ScaleOverflow"]
        BY DEF CountInv, SkipsAreTold
      <4>2. Reasons = {"Malformed", "BadTimestamp", "BadField", "UnknownSymbol", "BadNumber", "ScaleOverflow"}
        BY DEF Reasons
      <4> QED
        BY <3>2, <3>3, <4>1, <4>2
    <3> DEFINE U == unknown_syms  U2 == unknown_syms'  M == Missing  M2 == Missing'  K == kMaxUnknownSamples
    <3>7. /\ IsFiniteSet(U) /\ Cardinality(U) \in Nat /\ K \in Nat
          /\ U \subseteq M \ Range(kGidNames) /\ Cardinality(U) <= K /\ (U # M => Cardinality(U) = K)
      BY DepthAssumption, FS_CardinalityType DEF CountInv, SkipsAreTold
    <3>8. M2 = M \cup unknown
      BY <2>6
    <3>9. U2 = IF Cardinality(U) < K THEN U \cup unknown ELSE U
      BY <3>3 DEF HasRoom
    <3> HIDE DEF U, U2, M, M2, K
    <3>10. IsFiniteSet(U2) /\ U2 \subseteq M2 \ Range(kGidNames) /\ Cardinality(U2) <= K /\ (U2 # M2 => Cardinality(U2) = K)
      <4>1. CASE ~(Cardinality(U) < K)
        <5>1. U2 = U /\ Cardinality(U) = K
          BY <3>7, <3>9, <4>1
        <5> QED
          BY <3>7, <3>8, <5>1
      <4>2. CASE Cardinality(U) < K /\ unknown = {}
        <5>1. U2 = U /\ M2 = M
          BY <3>8, <3>9, <4>2
        <5> QED
          BY <3>7, <5>1
      <4>3. CASE Cardinality(U) < K /\ \E sym : sym \notin Range(kGidNames) /\ unknown = {sym}
        <5>1. PICK sym : sym \notin Range(kGidNames) /\ unknown = {sym}
          BY <4>3
        <5>2. U2 = U \cup {sym} /\ M2 = M \cup {sym} /\ U = M
          BY <3>7, <3>8, <3>9, <4>3, <5>1
        <5>3. IsFiniteSet(U2) /\ Cardinality(U2) \in {Cardinality(U), Cardinality(U) + 1}
          BY <3>7, <5>2, FS_AddElement
        <5>4. Cardinality(U2) <= K
          BY <3>7, <4>3, <5>3
        <5> QED
          BY <3>7, <5>1, <5>2, <5>3, <5>4
      <4> QED
        BY <3>2, <4>1, <4>2, <4>3
    <3>11. \A r \in Reasons : counts'[r] = Cardinality(SkippedFor(r)')
      <4> TAKE r \in Reasons
      <4>1. counts \in [Reasons -> Nat] /\ counts[r] = Cardinality(SkippedFor(r))
        BY DEF CountInv, SkipsAreTold
      <4>2. CASE r = reason
        <5>1. counts'[r] = counts[r] + 1 /\ Cardinality(SkippedFor(r)') = Cardinality(SkippedFor(r)) + 1
          BY <2>6, <3>3, <4>1, <4>2
        <5> QED
          BY <4>1, <5>1
      <4>3. CASE r # reason
        <5>1. counts'[r] = counts[r] /\ SkippedFor(r)' = SkippedFor(r)
          BY <2>6, <3>3, <4>1, <4>3
        <5> QED
          BY <4>1, <5>1
      <4> QED
        BY <4>2, <4>3
    <3>12. SkipsAreTold'
      BY <3>5, <3>6, <3>10, <3>11 DEF SkipsAreTold, U2, M2, K
    <3> QED
      BY <2>6, <3>4, <3>10, <3>12 DEF CountInv, U2
  <2> QED
    BY <1>4, <2>7, <2>8
<1> QED
  BY <1>1, <1>2, <1>3, <1>4 DEF Next

\* The counters are right in every state.
LEMMA Counting == Spec => [](ReadingInv /\ CountInv)
<1>1. Init => ReadingInv /\ CountInv
  BY ReadingInit, CountInit
<1>2. ReadingInv /\ CountInv /\ [Next]_vars => (ReadingInv /\ CountInv)'
  <2>1. ReadingInv' => LinesAre'
    BY LinesAreRead, PTL
  <2> QED
    BY <2>1, LinesAreRead, ReadingStep, CountStep
<1> QED
  BY <1>1, <1>2, PTL DEF Spec

\* Where what was read is known, every variable has its type.
LEMMA TypesHold ==
    ASSUME ReadingInv, CountInv PROVE TypeOK
<1>1. ASSUME NEW s \in Sources
      PROVE  /\ pc[s] \in {"closed", "reading", "holding", "end", "CsvSchema", "BookDepthUnsupported"}
             /\ pos[s] = Len(outcomes[s]) + 1
             /\ head[s] = (IF pc[s] = "holding" THEN outcomes[s][pos[s] - 1].record ELSE <<>>)
  <2>1. DOMAIN outcomes[s] = 1 .. pos[s] - 1 /\ pos[s] - 1 \in Nat /\ pos[s] \in Nat
    BY LineRead DEF ReadingInv
  <2>2. pc[s] \in {"closed", "reading", "holding", "end", "CsvSchema", "BookDepthUnsupported"}
    BY DEF ReadingInv, Stopped
  <2>3. pos[s] = Len(outcomes[s]) + 1
    <3> DEFINE n == pos[s] - 1
               o == [i \in 1 .. n |-> OutcomeOf(s, table, table.rows[i])]
    <3>1. outcomes[s] = o
      BY DEF ReadingInv
    <3>2. Len(outcomes[s]) = n
      <4>1. n \in Nat
        BY <2>1
      <4> HIDE DEF n
      <4>2. Len(o) = n
        BY <4>1
      <4> QED
        BY <3>1, <4>2
    <3> QED
      BY <2>1, <3>2
  <2>4. head[s] = (IF pc[s] = "holding" THEN outcomes[s][pos[s] - 1].record ELSE <<>>)
    <3>1. head[s] = IF pc[s] = "holding" THEN OutcomeOf(s, table, table.rows[pos[s] - 1]).record ELSE <<>>
      BY DEF ReadingInv
    <3>2. CASE pc[s] = "holding"
      <4>1. pos[s] > 1
        BY <3>2 DEF ReadingInv
      <4> DEFINE n == pos[s] - 1
      <4>2. n \in 1 .. pos[s] - 1
        BY <2>1, <4>1
      <4> HIDE DEF n
      <4>3. outcomes[s][n] = OutcomeOf(s, table, table.rows[n])
        BY <4>2, LineRead
      <4> QED
        BY <3>1, <3>2, <4>3 DEF n
    <3>3. CASE pc[s] # "holding"
      BY <3>1, <3>3
    <3> QED
      BY <3>2, <3>3
  <2> QED
    BY <2>2, <2>3, <2>4
<1>2. ASSUME NEW s \in Sources, NEW i \in Accepted(s)
      PROVE  /\ Rec(s, i).ts \in I64s /\ Rec(s, i).update_id \in U64s
             /\ \A c \in DOMAIN Rec(s, i).at : Rec(s, i).at[c] \in [1 .. Rec(s, i).depth -> 0 .. U32Max]
  <2>1. Rec(s, i).ts \in I64s /\ Rec(s, i).update_id \in U64s
    BY <1>2, FieldsOfRecord
  <2> DEFINE r == Rec(s, i)
  <2>2. /\ DOMAIN r.at = Prices \cup Quantities
        /\ \A c \in Prices : r.at[c] \in [1 .. r.depth -> 0 .. U32Max]
        /\ \A c \in Quantities : r.at[c] \in [1 .. r.depth -> 0 .. U32Max]
    BY <1>2, RowOfRecord
  <2> HIDE DEF r
  <2>3. \A c \in DOMAIN r.at : r.at[c] \in [1 .. r.depth -> 0 .. U32Max]
    BY <2>2
  <2> QED
    BY <2>1, <2>3 DEF r
<1> QED
  BY <1>1, <1>2, Zenon DEF TypeOK, CountInv
-----------------------------------------------------------------------------
(* The properties of Rows *)

\* Every variable has its type in every state: what the sources hold and how far
\* they are, timestamps and ids of 64 bits, mantissas of 32.
THEOREM TypeCorrect == Spec => []TypeOK
BY Counting, TypesHold, PTL

\* Every record says what its row says, level by level and column by column, and
\* is for the symbol of its row, as long as LIDs and GIDs are in one order.
THEOREM RecordsSayTheirRow == ASSUME SameOrder PROVE Spec => []RecordIsTheRow
<1>1. ReadingInv => RecordIsTheRow
  BY RecordsAreRows
<1> QED
  BY <1>1, Reading, PTL

\* The scale of every record is the greatest at which its numbers fit, and no row
\* of numbers is refused unless an integer part exceeds 32 bits.
THEOREM NoDecimalInVain == Spec => []ScaleIsGreatest
BY Reading, ScalesAreGreatest, PTL

\* A documented row is the same in CSV, whatever is in quotes, and in JSON.
THEOREM FormatDoesNotMatter == Spec => []FormatsAgree
BY Reading, RowsAgree, PTL

\* A record of a book has the levels of its depth and no more.
THEOREM AcceptedAreComplete == Spec => []AcceptedIffComplete
BY Reading, RecordsAreComplete, PTL

\* The summary accounts for every line, under the reason it was skipped for, and for
\* every missing symbol.
THEOREM SkipsAreAllTold == Spec => []SkipsAreTold
<1>1. CountInv => SkipsAreTold
  BY DEF CountInv
<1> QED
  BY <1>1, Counting, PTL
=============================================================================
