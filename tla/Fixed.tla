------------------------------- MODULE Fixed -------------------------------
(***************************************************************************)
(* Decimal text to fixed point: encode_group, which gives a group of       *)
(* prices (or quantities) one common scale, with decimals_of and           *)
(* mantissa_at.  The prices of all levels of a record are one group.       *)
(*                                                                         *)
(* A text is [neg, int, dot, frac]: a leading minus, the characters before *)
(* the first dot, whether there is one, and the characters after it.  A    *)
(* character is a digit 0 .. 9 or Other.  U32Max stands for 2^32 - 1, U64  *)
(* for 2^64 and U8 for 2^8.                                                *)
(***************************************************************************)
EXTENDS Integers, Sequences, FiniteSets, FiniteSetsExt, Functions

CONSTANTS U32Max, U64, U8

ASSUME WidthAssumption == U32Max \in Nat /\ U64 \in Nat /\ U8 \in Nat /\ U8 > 0 /\ U64 > 10 * U32Max + 9 /\ U64 % 2 = 0

Other == 10
Digits == 0 .. 9
IllFormed == -1
Texts == [neg : BOOLEAN, int : Seq(Digits \cup {Other}), dot : BOOLEAN, frac : Seq(Digits \cup {Other})]

\* The length of frac without its trailing zeros.
decimals_of(n) == Max({0} \cup {k \in DOMAIN n.frac : n.frac[k] # 0})

PushAlways(m, c) == (m * 10 + c) % U64
\* push: a mantissa above U32Max stays as it is, a mark that cannot wrap.
Push(m, c) == IF m <= U32Max THEN (m * 10 + c) % U64 ELSE m

\* The characters that mantissa_at goes through: int, then scale of frac.
Read(n, sc) == n.int \o [k \in 1 .. sc |-> IF k <= Len(n.frac) THEN n.frac[k] ELSE 0]

\* m, before the first character and after each.
Mantissas(s) == LET m[k \in 0 .. Len(s)] == IF k = 0 THEN 0 ELSE Push(m[k - 1], s[k]) IN m

\* The mantissa of n at a scale, IllFormed for what the code takes for no number.
mantissa_at(n, sc) ==
    LET s == Read(n, sc)
    IN  IF n.neg \/ (n.int = <<>> /\ n.frac = <<>> /\ ~n.dot) \/ Other \in Range(s)
        THEN IllFormed
        ELSE Mantissas(s)[Len(s)]

OneMoreFits(m) == m <= U32Max + 1
\* *m > kU32Max is false.
Fits(m) == m <= U32Max

TwoBelow(sc) == IF sc > 1 THEN sc - 2 ELSE -1
\* --scale
NextScale(sc) == sc - 1

\* The scale is returned in 8 bits.
Encoded(sc, out) == [error |-> "none", scale |-> sc % U8, out |-> out]
NotEncoded(error) == [error |-> error, scale |-> 0, out |-> <<>>]

\* The greatest number of decimals in the group.
InitialScale(group) == Max({decimals_of(group[k]) : k \in DOMAIN group})

\* The mantissas of a group at a scale, and the members that end the inner loop.
mantissas_at(group, sc) == [k \in DOMAIN group |-> mantissa_at(group[k], sc)]
InTheWay(m) == {k \in DOMAIN m : m[k] = IllFormed \/ ~Fits(m[k])}

\* What the loop comes to from each scale on.  The first member in the way decides:
\* one that is no number refuses the group, one that does not fit starts it again
\* with a decimal less.
Attempts(group) ==
    LET at[sc \in -1 .. InitialScale(group)] ==
            LET m == mantissas_at(group, sc)
            IN  IF sc < 0 THEN NotEncoded("ScaleOverflow")
                ELSE IF InTheWay(m) = {} THEN Encoded(sc, m)
                ELSE IF m[Min(InTheWay(m))] = IllFormed THEN NotEncoded("CsvParse")
                ELSE at[NextScale(sc)]
    IN  at

encode_group(group) == Attempts(group)[InitialScale(group)]

-----------------------------------------------------------------------------
(* The reference: the value of a number in exact arithmetic. *)

Valid(n) == ~n.neg /\ n.int \o n.frac # <<>> /\ Range(n.int \o n.frac) \subseteq Digits

Pow10[k \in Nat] == IF k = 0 THEN 1 ELSE 10 * Pow10[k - 1]

\* The value of a string of digits: that of each of its prefixes is ten times the
\* one before plus a digit.
Values(s) == LET v[k \in 0 .. Len(s)] == IF k = 0 THEN 0 ELSE 10 * v[k - 1] + s[k] IN v
ValueOf(s) == Values(s)[Len(s)]

\* n * 10^sc rounded down, for a valid n.
ExactAt(n, sc) ==
    IF Len(n.frac) >= sc
    THEN ValueOf(n.int \o n.frac) \div Pow10[Len(n.frac) - sc]
    ELSE ValueOf(n.int \o n.frac) * Pow10[sc - Len(n.frac)]
=============================================================================
