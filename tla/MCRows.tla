------------------------------- MODULE MCRows -------------------------------
(* Rows for TLC: depths 1 and 3 of at most 3, so that the probe ends at      *)
(* level 8; U32Max 42, so that a few digits reach the limits.  The tables    *)
(* are families, each of which varies one thing.                             *)
EXTENDS Rows, SequencesExt

Whole(n) == <<"int", n, "number">>
Word(c) == <<"word", <<c>>, "string">>
Known == << << <<"B">> >>, << <<"A">> >> >>
InOrder == (0 :> 0) @@ (1 :> 1)
Absent == <<"word", <<>>, "absent">>
Junk(type) == <<"word", << <<"x">> >>, type>>

Text(sign, n, f) == [neg |-> sign, int |-> n, dot |-> f # <<>>, frac |-> f]
Dec(t) == <<"num", t, "string">>
N(n) == Dec(Text(FALSE, <<n \div 10, n % 10>>, <<>>))
Numbers == {Text(FALSE, n, f) :
    n \in {<<>>, <<0>>, <<4>>, <<4, 2>>, <<4, 3>>, <<0, 4, 2>>, <<4, 0, 0>>},
    f \in {<<>>} \cup {<<a>> : a \in {0, 4}} \cup {<<a, b>> : a \in {0, 4}, b \in {0, 2}}}
NotNumbers ==
    {Text(TRUE, <<4>>, <<>>), Text(FALSE, <<>>, <<>>), Text(FALSE, <<4, Other>>, <<>>),
     Text(FALSE, <<4>>, <<Other>>), Text(FALSE, <<4>>, <<2, Other>>)}

BookColumns(depth) == <<Ts, Symbol, UpdateId>> \o
    [i \in 1 .. 4 * depth |-> <<(<<"bid_px", "bid_qty", "ask_px", "ask_qty">>)[1 + ((i - 1) % 4)], (i - 1) \div 4>>]
TradeColumns == <<Ts, Symbol, Side, <<"px", 0>>, <<"qty", 0>>>>
Table(kind, header, rows, quoted, crlf) ==
    [kind |-> kind, header |-> header, rows |-> rows, quoted |-> quoted, crlf |-> crlf]

\* A row with nothing wrong: the number of a column at level k is k + 1, and
\* twice that on the ask side.
Good(header) == [i \in DOMAIN header |->
    IF header[i] \in {Ts, UpdateId} THEN Whole(3) ELSE IF header[i] = Side THEN Whole(1)
    ELSE IF header[i] = Symbol THEN Word(<<"A">>)
    ELSE N(IF header[i][1] \in {"ask_px", "ask_qty"} THEN 2 * header[i][2] + 2 ELSE header[i][2] + 1)]
With(header, c, cell) == [i \in DOMAIN header |-> IF header[i] = c THEN cell ELSE Good(header)[i]]

\* Every set of bid levels up to the probe's end, uneven columns, one level
\* beyond the probe, missing columns, columns back to front.
LevelHeader(levels) == SelectSeq(BookColumns(ProbeMax + 2), LAMBDA c : c[2] \in levels)
Headers ==
    {LevelHeader({0} \cup S) : S \in SUBSET (1 .. ProbeMax)}
    \cup {SelectSeq(BookColumns(4), LAMBDA c : c[2] < IF c[1] = d THEN m ELSE n) :
             d \in Levelled, n \in {1, 3}, m \in 0 .. 4}
    \cup {LevelHeader((0 .. n) \cup {ProbeMax + 1}) : n \in {0, 2}}
    \cup {SelectSeq(BookColumns(1), LAMBDA c : c # d) : d \in {Ts, Symbol, UpdateId}}
    \cup {Reverse(BookColumns(3))}
HeaderTables == {Table("book", h, <<Good(h)>>, {}, FALSE) : h \in Headers}
    \cup {Table("trade", SelectSeq(TradeColumns, LAMBDA c : c # d), <<>>, {}, FALSE) : d \in {Side, Ts}}

\* Every two texts as bid and ask price of one level.
B1 == BookColumns(1)
NumberTables == {Table("book", B1, <<[With(B1, <<"bid_px", 0>>, Dec(m)) EXCEPT ![6] = Dec(n)]>>, {}, FALSE) :
    m \in Numbers \cup NotNumbers, n \in Numbers \cup NotNumbers}

\* Every two rows with something wrong, in quotes or not.
BookRows == {<<>>, <<Whole(3)>>, Good(B1)}
    \cup {With(B1, Ts, v) : v \in {Whole(-3), Whole(250), <<"int", 3, "string">>, Junk("string"), Absent}}
    \cup {With(B1, Symbol, v) : v \in {Word(<<"X">>), Word(<<"B">>), Absent, Junk("other"),
              <<"word", << <<"X">>, Comma, QuoteMark >>, "string">>}}
    \cup {With(B1, UpdateId, v) : v \in {Whole(-1), Whole(499), <<"int", 7, "string">>, <<"int", -1, "string">>,
              <<"int", 500, "string">>, Junk("string"), Absent}}
    \cup {With(B1, <<"ask_qty", 0>>, v) : v \in {Dec(Text(FALSE, <<4, 3>>, <<>>)), Junk("string"),
              <<"num", Text(FALSE, <<4>>, <<>>), "number">>, Absent}}
    \cup {[With(B1, Symbol, Word(<<"X">>)) EXCEPT ![1] = Junk("string")]}
TradeRows == {Good(TradeColumns), With(TradeColumns, Symbol, Word(<<"B">>))}
    \cup {With(TradeColumns, Side, v) : v \in {Whole(0), Whole(2), Whole(-1), <<"int", 1, "string">>, Absent}}
    \cup {With(TradeColumns, c, v) : c \in {<<"px", 0>>, <<"qty", 0>>}, v \in {Dec(Text(FALSE, <<4, 3>>, <<>>)), Junk("string")}}
    \cup {[With(TradeColumns, Symbol, Word(<<"X">>)) EXCEPT ![3] = Whole(2)]}
ReasonTables ==
    {Table("book", B1, <<r, t>>, q, crlf) : r \in BookRows, t \in BookRows, q \in {{}, 1 .. 7}, crlf \in BOOLEAN}
    \cup {Table("trade", TradeColumns, <<r, t>>, {2, 4}, FALSE) : r \in TradeRows, t \in TradeRows}

\* More unknown symbols than the sample holds.
UnknownTables == {Table("book", B1, [i \in 1 .. 3 |-> With(B1, Symbol, Word(<<f[i]>>))], {}, FALSE) :
    f \in [1 .. 3 -> {"A", "X", "Y", "Z"}]}

\* JSON lines of several depths under one set of columns.
B3 == BookColumns(3)
Upto(n) == [i \in DOMAIN B3 |-> IF B3[i][2] < n THEN Good(B3)[i] ELSE Absent]
Gap == [i \in DOMAIN B3 |-> IF B3[i][2] # 1 THEN Good(B3)[i] ELSE Absent]
MixedTables == {Table("book", B3, <<r, t>>, {}, FALSE) : r \in {Upto(1), Upto(2), Upto(3), Gap}, t \in {Upto(1), Upto(2), Upto(3)}}

AllTables == HeaderTables \cup NumberTables \cup ReasonTables \cup UnknownTables \cup MixedTables
=============================================================================
