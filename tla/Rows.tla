-------------------------------- MODULE Rows --------------------------------
(***************************************************************************)
(* From a line of an input file to a Record or a SkipReason: the two       *)
(* Sources, StreamingCsvSource and StreamingJsonSource, the header of a    *)
(* CSV file, the record builders and the SkipStats that all sources share. *)
(*                                                                         *)
(* One table is written as a CSV file and as a JSON file, and the program  *)
(* reads both.  A table is [kind, header, rows, quoted, crlf].  The header *)
(* is a sequence of columns <<name, level>>; a row is a sequence of cells, *)
(* one per column.  A row with no cell is an empty line; one with another  *)
(* number of cells stands for a JSON line that is no object.               *)
(*                                                                         *)
(* A cell is <<form, value, type>>: its form is "int", "num" (a text of    *)
(* Fixed) or "word" (a sequence of characters), its type is what JSON      *)
(* makes of it: "number", "string", "other", "absent".  In CSV a cell is a *)
(* sequence of characters <<letter>>, where a number counts as one.        *)
(***************************************************************************)
EXTENDS Fixed

CONSTANTS Tables,               \* the tables tried
          Letters,              \* the letters of words
          kGidNames,            \* the names of gconf's symbols, as words, by GID
          kLocalToGid,          \* gconf's table from LID to GID
          Supported,            \* is_supported_depth
          kMaxDepth,
          kMaxUnknownSamples

ASSUME DepthAssumption ==
    kMaxDepth \in Nat /\ Supported \subseteq 1 .. kMaxDepth /\ kMaxUnknownSamples \in Nat

VARIABLES
    table,                          \* what the files contain; never changes
    pc,                             \* per source: where it is
    pos,                            \* per source: the next line
    head,                           \* per source: head_, <<>> or <<record>>
    counts, total, unknown_syms,    \* SkipStats
    outcomes                        \* history, per source: what each line came to

stats == <<counts, total, unknown_syms>>
vars == <<table, pc, pos, head, stats, outcomes>>

Sources == {"csv", "json"}
Reasons == {"Malformed", "BadTimestamp", "BadField", "UnknownSymbol", "BadNumber", "ScaleOverflow"}

Levelled == {"bid_px", "bid_qty", "ask_px", "ask_qty"}
Ts == <<"ts", 0>>
Symbol == <<"symbol", 0>>
UpdateId == <<"update_id", 0>>
Side == <<"side", 0>>

Comma == <<",">>
QuoteMark == <<"q">>
Cr == <<"cr">>

-----------------------------------------------------------------------------
(* The tables: any rows at all under columns of which none comes twice.  The *)
(* columns of integers hold the numbers of the form "int", a JSON number in  *)
(* them is whole and has 64 bits (beyond, the JSON parser makes a double of  *)
(* it).  No number has 2^8 decimals, no text a CR, and a line with one cell  *)
(* is not empty.                                                             *)

Characters == {<<l>> : l \in Letters}
ShortTexts == {n \in Texts : decimals_of(n) < U8}
Types == {"number", "string", "other", "absent"}
Cells == ({"int"} \X Int \X Types) \cup ({"num"} \X ShortTexts \X Types) \cup ({"word"} \X Seq(Characters) \X Types)

JsonIntegers == -(U64 \div 2) .. U64 - 1

TextOf(cell) == IF cell[1] = "word" THEN cell[2] ELSE << <<cell[1], cell[2]>> >>

IsTable(t) ==
    /\ t.kind \in {"book", "trade"} /\ t.quoted \subseteq Nat /\ t.crlf \in BOOLEAN
    /\ t.header \in Seq(STRING \X Nat)
    /\ \A i, j \in DOMAIN t.header : t.header[i] = t.header[j] => i = j
    /\ t.rows \in Seq(Seq(Cells))
    /\ \A r \in Range(t.rows) :
        /\ Len(r) = 1 => TextOf(r[1]) # <<>>
        /\ \A i \in DOMAIN r \cap DOMAIN t.header :
            IF t.header[i] \in {Ts, UpdateId, Side}
            THEN r[i][1] # "num" /\ (r[i][3] = "number" => r[i][1] = "int" /\ r[i][2] \in JsonIntegers)
            ELSE r[i][1] # "int"

ASSUME TablesAssumption ==
    /\ {",", "q"} \subseteq Letters /\ {"cr", "int", "num"} \cap Letters = {}
    /\ \A t \in Tables : IsTable(t)
    /\ kGidNames \in Seq(Seq(Characters))
    /\ DOMAIN kLocalToGid \subseteq Nat /\ Range(kLocalToGid) \subseteq 0 .. Len(kGidNames) - 1

-----------------------------------------------------------------------------
(* The files: a writer of RFC 4180 puts a field in quotes when it must, and  *)
(* may do so with others (the columns in quoted).                            *)

\* What follows the opening quote, from each character on.
Escaped(text) ==
    LET from[j \in 1 .. Len(text) + 1] ==
            IF j > Len(text) THEN <<QuoteMark>>
            ELSE (IF text[j] = QuoteMark THEN <<QuoteMark, QuoteMark>> ELSE <<text[j]>>) \o from[j + 1]
    IN  from
Quote(text) == <<QuoteMark>> \o Escaped(text)[1]

CsvField(t, cell, i) ==
    LET text == TextOf(cell)
    IN  IF i \in t.quoted \/ Range(text) \cap {Comma, QuoteMark} # {} THEN Quote(text) ELSE text

\* The fields from each column on.
Joined(t, row) ==
    LET from[k \in 1 .. Len(row)] ==
            CsvField(t, row[k], k) \o (IF k = Len(row) THEN <<>> ELSE <<Comma>> \o from[k + 1])
    IN  from

Line(t, row) == (IF row = <<>> THEN <<>> ELSE Joined(t, row)[1]) \o (IF t.crlf THEN <<Cr>> ELSE <<>>)

-----------------------------------------------------------------------------
(* Lines to fields *)

chomp_cr(line) == IF line # <<>> /\ line[Len(line)] = Cr THEN SubSeq(line, 1, Len(line) - 1) ELSE line

NeverDoubled(line, i) == FALSE
\* "" within quotes stands for one quote.
Doubled(line, i) == i < Len(line) /\ line[i + 1] = QuoteMark

\* read_quoted_field, from each character on: the rest of the field and the place
\* behind its closing quote.
Quoted(line) ==
    LET from[i \in 1 .. Len(line) + 1] ==
            IF i > Len(line) THEN [field |-> <<>>, next |-> i]
            ELSE IF line[i] = QuoteMark /\ ~Doubled(line, i) THEN [field |-> <<>>, next |-> i + 1]
            ELSE LET rest == from[IF line[i] = QuoteMark THEN i + 2 ELSE i + 1]
                 IN  [field |-> <<line[i]>> \o rest.field, next |-> rest.next]
    IN  from

\* The next comma, or the end.
EndFrom(line, i) == Min({Len(line) + 1} \cup {j \in i .. Len(line) : line[j] = Comma})

\* A field that starts with a quote goes to its closing quote, the rest up to the
\* comma is dropped; any other goes to the comma.
FieldAt(line, i) ==
    IF i <= Len(line) /\ line[i] = QuoteMark
    THEN [field |-> Quoted(line)[i + 1].field, end |-> EndFrom(line, Quoted(line)[i + 1].next)]
    ELSE [field |-> SubSeq(line, i, EndFrom(line, i) - 1), end |-> EndFrom(line, i)]

\* The fields from each place on.  Without a quote in the line this is the split
\* of the fast path.
Fields(line) ==
    LET from[i \in 1 .. Len(line) + 1] ==
            LET f == FieldAt(line, i)
            IN  IF f.end > Len(line) THEN <<f.field>> ELSE <<f.field>> \o from[f.end + 1]
    IN  from

split_csv(line) == Fields(line)[1]

-----------------------------------------------------------------------------
(* Numbers, depth, columns *)

\* The values of int64_t and of uint64_t.
I64s == -(U64 \div 2) .. (U64 \div 2) - 1
U64s == 0 .. U64 - 1

\* to_i64, to_u64 and from_chars: the whole text is an integer of the type.
IsInt(text, type) == Len(text) = 1 /\ text[1][1] = "int" /\ text[1][2] \in type
IntOf(text) == text[1][2]

\* get<int64_t>, get<uint64_t> of a JSON number wrap round what is out of range.
AsI64(n) == ((n + U64 \div 2) % U64) - (U64 \div 2)
AsU64(n) == n % U64

\* A text that encode_group is given.
DecimalOf(text) ==
    IF Len(text) = 1 /\ text[1][1] = "num" THEN text[1][2]
    ELSE [neg |-> FALSE, int |-> [i \in DOMAIN text |-> Other], dot |-> FALSE, frac |-> <<>>]

\* kProbeMax of book_depth_of.
ProbeMax == 2 * kMaxDepth + 2

\* while (k <= kProbeMax && marker(k)) ++k
FirstGap(levels) == Min({ProbeMax + 1} \cup ((1 .. ProbeMax) \ levels))
FarProbe(gap) == gap + 2
\* for (j = k + 1; ...
FirstProbe(gap) == gap + 1

\* The depth of a book with bid prices at these levels, 0 for none supported: no
\* level may follow the first gap.
book_depth_of(levels) ==
    LET gap == FirstGap(levels)
    IN  IF levels \cap (FirstProbe(gap) .. ProbeMax) = {} /\ gap \in Supported THEN gap ELSE 0

Header(t) == Range(t.header)
idx(t, c) == CHOOSE i \in DOMAIN t.header : t.header[i] = c /\ \A j \in 1 .. i - 1 : t.header[j] # c
LevelsOf(columns) == {k \in 1 .. ProbeMax : <<"bid_px", k>> \in columns}
AllColumns(depth) == {<<c, k>> : c \in Levelled, k \in 0 .. depth - 1}
Columns(t, depth) == IF t.kind = "book" THEN AllColumns(depth) ELSE {<<"px", 0>>, <<"qty", 0>>}

\* The first thing wrong with a header, or "none".
resolve_csv_cols(t) ==
    LET depth == book_depth_of(LevelsOf(Header(t)))
        needed == IF t.kind = "book" THEN {UpdateId} ELSE {Side, <<"px", 0>>, <<"qty", 0>>}
    IN  IF ~({Ts, Symbol} \cup needed \subseteq Header(t)) THEN "CsvSchema"
        ELSE IF t.kind = "trade" THEN "none"
        ELSE IF depth = 0 THEN "BookDepthUnsupported"
        ELSE IF AllColumns(depth) \subseteq Header(t) THEN "none" ELSE "CsvSchema"

-----------------------------------------------------------------------------
(* Symbols: ids count from 0.  A trade carries the GID of its symbol, a book *)
(* record is for the slot of its LID.                                        *)

N_GIDS == Len(kGidNames)
NameOf(gid) == kGidNames[gid + 1]
NoSymbol == -1

\* What a reader of slot lid takes for its symbol.
to_gid(lid) == IF lid \in DOMAIN kLocalToGid THEN kLocalToGid[lid] ELSE -1

\* The first name that is equal.
gid_of(name) ==
    LET equal == {g \in 0 .. N_GIDS - 1 : NameOf(g) = name}
    IN  IF equal = {} THEN NoSymbol ELSE Min(equal)
\* The LID is taken to be the GID, whatever kLocalToGid says of it.
lid_of(name) == gid_of(name)

-----------------------------------------------------------------------------
(* Fields to records.  A group is the texts of one or two columns, level by  *)
(* level; at[c] are the mantissas of a column.                               *)

Skip(reason) == [reason |-> reason, unknown |-> {}, record |-> <<>>]
SkipUnknown(sym) == [reason |-> "UnknownSymbol", unknown |-> {sym}, record |-> <<>>]

skip_of(error) == IF error = "ScaleOverflow" THEN "ScaleOverflow" ELSE "BadNumber"

\* px_in: bid 0 .. depth - 1, then ask 0 .. depth - 1; and back from px_out.
Group(columns, depth, text) ==
    [i \in 1 .. Len(columns) * depth |->
        DecimalOf(text[IF i <= depth THEN <<columns[1], i - 1>> ELSE <<columns[2], i - depth - 1>>])]
Slice(columns, depth, out, c) == [k \in 1 .. depth |-> out[IF c = columns[1] THEN k ELSE depth + k]]

\* Both builders from the id of the symbol on: the texts of all price columns
\* are one group, those of all quantity columns are another.  The record of one
\* kind leaves the fields of the other 0.
BuildRecord(ts, update_id, side, gid, sym, depth, text, prices, quantities) ==
    LET px == encode_group(Group(prices, depth, text))
        qty == encode_group(Group(quantities, depth, text))
    IN  IF gid = NoSymbol THEN SkipUnknown(sym)
        ELSE IF px.error # "none" THEN Skip(skip_of(px.error))
        ELSE IF qty.error # "none" THEN Skip(skip_of(qty.error))
        ELSE [reason |-> "none", unknown |-> {},
              record |-> <<[ts |-> ts, update_id |-> update_id, side |-> side, gid |-> gid, depth |-> depth,
                            price_scale |-> px.scale, qty_scale |-> qty.scale,
                            at |-> [c \in Range(prices) \cup Range(quantities) |->
                                IF c \in Range(prices) THEN Slice(prices, depth, px.out, c)
                                ELSE Slice(quantities, depth, qty.out, c)]]>>]

make_book_record(ts, update_id, sym, depth, text) ==
    BuildRecord(ts, update_id, 0, lid_of(sym), sym, depth, text, <<"bid_px", "ask_px">>, <<"bid_qty", "ask_qty">>)

make_trade_record(ts, sym, side, text) ==
    IF side \notin {0, 1} THEN Skip("BadField")
    ELSE BuildRecord(ts, 0, side, gid_of(sym), sym, 1, text, <<"px">>, <<"qty">>)

\* build_from_fields
ReadCsv(t, row) ==
    LET fields == split_csv(chomp_cr(Line(t, row)))
        at(c) == fields[idx(t, c)]
        depth == book_depth_of(LevelsOf(Header(t)))
        text == [c \in Columns(t, depth) |-> at(c)]
    IN  IF Len(fields) # Len(t.header) THEN Skip("Malformed")
        ELSE IF ~IsInt(at(Ts), I64s) THEN Skip("BadTimestamp")
        ELSE IF t.kind = "book"
        THEN IF ~IsInt(at(UpdateId), U64s) THEN Skip("BadField")
             ELSE make_book_record(IntOf(at(Ts)), IntOf(at(UpdateId)), at(Symbol), depth, text)
        ELSE IF ~IsInt(at(Side), I64s) THEN Skip("BadField")
             ELSE make_trade_record(IntOf(at(Ts)), at(Symbol), IntOf(at(Side)), text)

\* The keys of a line.
KeysOf(t, row) == {c \in Header(t) : row[idx(t, c)][3] # "absent"}

\* build_from_line.  An absent key or a value of another type throws, at whatever
\* place, and is BadField.
ReadJson(t, row) ==
    LET keys == KeysOf(t, row)
        at(c) == row[idx(t, c)]
        Typed(c, type) == c \in keys /\ at(c)[3] = type
        depth == book_depth_of(LevelsOf(keys))
        text == [c \in Columns(t, depth) |-> TextOf(at(c))]
        number(c) == at(c)[2]
        updateId == IF Typed(UpdateId, "string") THEN number(UpdateId) ELSE AsU64(number(UpdateId))
    IN  IF Len(row) # Len(t.header) THEN Skip("Malformed")
        ELSE IF ~(Typed(Ts, "number") /\ Typed(Symbol, "string")) THEN Skip("BadField")
        ELSE IF t.kind = "book"
        THEN IF \/ depth = 0
                \/ ~Typed(UpdateId, "number") /\ ~(Typed(UpdateId, "string") /\ IsInt(TextOf(at(UpdateId)), U64s))
                \/ \E c \in AllColumns(depth) : ~Typed(c, "string")
             THEN Skip("BadField")
             ELSE make_book_record(AsI64(number(Ts)), updateId, TextOf(at(Symbol)), depth, text)
        ELSE IF ~(Typed(Side, "number") /\ Typed(<<"px", 0>>, "string") /\ Typed(<<"qty", 0>>, "string"))
             THEN Skip("BadField")
             ELSE make_trade_record(AsI64(number(Ts)), TextOf(at(Symbol)), AsI64(number(Side)), text)

-----------------------------------------------------------------------------
(* The sources *)

Init ==
    /\ table \in Tables
    /\ pc = [s \in Sources |-> "closed"]
    /\ pos = [s \in Sources |-> 1]
    /\ head = [s \in Sources |-> <<>>]
    /\ counts = [r \in Reasons |-> 0]
    /\ total = 0
    /\ unknown_syms = {}
    /\ outcomes = [s \in Sources |-> <<>>]

\* load_csv_source refuses a file for its header, load_json_source none.  The
\* constructor reads ahead at once.
Open(s) ==
    /\ pc[s] = "closed"
    /\ pc' = [pc EXCEPT ![s] = IF s = "json" THEN "reading" ELSE IF resolve_csv_cols(table) = "none" THEN "reading" ELSE resolve_csv_cols(table)]
    /\ UNCHANGED <<table, pos, head, stats, outcomes>>

NextLine(s) == pc[s] = "reading" /\ pos[s] <= Len(table.rows) /\ pos' = [pos EXCEPT ![s] = @ + 1]
RowAt(s) == table.rows[pos[s]]
Outcome(s) == IF s = "csv" THEN ReadCsv(table, RowAt(s)) ELSE ReadJson(table, RowAt(s))

\* An empty line is passed over and not counted.
EmptyLine(s) ==
    /\ NextLine(s) /\ RowAt(s) = <<>>
    /\ outcomes' = [outcomes EXCEPT ![s] = Append(@, Skip("empty"))]
    /\ UNCHANGED <<table, pc, head, stats>>

AlwaysRoom == TRUE
\* unknown_syms_.size() < kMaxUnknownSamples
HasRoom == Cardinality(unknown_syms) < kMaxUnknownSamples

\* account_build_failure, SkipStats::add and add_unknown.
CountSkip(reason, unknown) ==
    /\ counts' = [counts EXCEPT ![reason] = @ + 1]
    /\ total' = total + 1
    /\ unknown_syms' = IF HasRoom THEN unknown_syms \cup unknown ELSE unknown_syms

SkipRow(s) ==
    /\ NextLine(s) /\ RowAt(s) # <<>> /\ Outcome(s).record = <<>>
    /\ CountSkip(Outcome(s).reason, Outcome(s).unknown)
    /\ outcomes' = [outcomes EXCEPT ![s] = Append(@, Outcome(s))]
    /\ UNCHANGED <<table, pc, head>>

HoldRecord(s) ==
    /\ NextLine(s) /\ RowAt(s) # <<>> /\ Outcome(s).record # <<>>
    /\ head' = [head EXCEPT ![s] = Outcome(s).record]
    /\ pc' = [pc EXCEPT ![s] = "holding"]
    /\ outcomes' = [outcomes EXCEPT ![s] = Append(@, Outcome(s))]
    /\ UNCHANGED <<table, stats>>

\* The Merger has taken the head and calls advance().
Advance(s) ==
    /\ pc[s] = "holding"
    /\ head' = [head EXCEPT ![s] = <<>>]
    /\ pc' = [pc EXCEPT ![s] = "reading"]
    /\ UNCHANGED <<table, pos, stats, outcomes>>

EndOfFile(s) ==
    /\ pc[s] = "reading" /\ pos[s] > Len(table.rows)
    /\ pc' = [pc EXCEPT ![s] = "end"]
    /\ UNCHANGED <<table, pos, head, stats, outcomes>>

Next == \E s \in Sources :
    Open(s) \/ EmptyLine(s) \/ SkipRow(s) \/ HoldRecord(s) \/ Advance(s) \/ EndOfFile(s)

Spec == Init /\ [][Next]_vars

-----------------------------------------------------------------------------
(* Properties *)

Accepted(s) == {i \in DOMAIN outcomes[s] : outcomes[s][i].record # <<>>}
Rec(s, i) == outcomes[s][i].record[1]
Cell(i, c) == table.rows[i][idx(table, c)]
Keys(s, i) == IF s = "csv" THEN Header(table) ELSE KeysOf(table, table.rows[i])
Decimals(i, names, depth) == {DecimalOf(TextOf(Cell(i, <<c, k>>))) : c \in names, k \in 0 .. depth - 1}
Prices == IF table.kind = "book" THEN {"bid_px", "ask_px"} ELSE {"px"}
Quantities == IF table.kind = "book" THEN {"bid_qty", "ask_qty"} ELSE {"qty"}
AllValid(decimals) == \A n \in decimals : Valid(n)

\* Every variable has its type: mantissas have 32 bits, timestamps and ids 64.
TypeOK ==
    /\ \A s \in Sources :
        /\ pc[s] \in {"closed", "reading", "holding", "end", "CsvSchema", "BookDepthUnsupported"}
        /\ pos[s] = Len(outcomes[s]) + 1
        /\ head[s] = (IF pc[s] = "holding" THEN outcomes[s][pos[s] - 1].record ELSE <<>>)
        /\ \A i \in Accepted(s) :
            /\ Rec(s, i).ts \in I64s
            /\ table.kind = "book" => Rec(s, i).update_id \in U64s
            /\ \A c \in DOMAIN Rec(s, i).at : Rec(s, i).at[c] \in [1 .. Rec(s, i).depth -> 0 .. U32Max]
    /\ counts \in [Reasons -> Nat] /\ total \in Nat

\* A record says what its row says: time and update_id as written, the symbol of
\* its id (for a book, the one a reader of its slot takes it for), and
\* at each level of each column that column's number of that level times
\* 10^scale, rounded down, with nothing wrapped.  The exception is a JSON number
\* out of range, which wraps round where CSV refuses the row: -1 is the greatest
\* update_id there is.
RecordIsTheRow ==
    \A s \in Sources : \A i \in Accepted(s) :
        LET r == Rec(s, i)
            Kept(n, written, type) == n = written \/ (s = "json" /\ written \notin type /\ n % U64 = written % U64)
        IN  /\ Kept(r.ts, Cell(i, Ts)[2], I64s)
            /\ table.kind = "book" => Kept(r.update_id, Cell(i, UpdateId)[2], U64s)
            /\ table.kind = "trade" => r.side = Cell(i, Side)[2]
            /\ NameOf(IF table.kind = "book" THEN to_gid(r.gid) ELSE r.gid) = Cell(i, Symbol)[2]
            /\ \A c \in DOMAIN r.at, k \in 1 .. r.depth :
                LET n == Cell(i, <<c, k - 1>>)[2]
                IN  Valid(n) => r.at[c][k] = ExactAt(n, IF c \in Prices THEN r.price_scale ELSE r.qty_scale)

\* fixed.hpp:6: no decimal is given up in vain - the scale of a group keeps every
\* decimal, or one more would not fit - and a row of numbers is refused only when
\* the integer part of one of them exceeds 32 bits.
ScaleIsGreatest ==
    \A s \in Sources, i \in DOMAIN table.rows : i \in DOMAIN outcomes[s] =>
        LET o == outcomes[s][i]
            depth == IF table.kind = "trade" THEN 1 ELSE book_depth_of(LevelsOf(Keys(s, i)))
            Greatest(decimals, scale) == AllValid(decimals) =>
                \A sc \in scale + 1 .. Max({decimals_of(n) : n \in decimals}) :
                    \E n \in decimals : ExactAt(n, sc) > U32Max
        IN  /\ i \in Accepted(s) =>
                /\ Greatest(Decimals(i, Prices, depth), Rec(s, i).price_scale)
                /\ Greatest(Decimals(i, Quantities, depth), Rec(s, i).qty_scale)
            /\ o.reason \in {"BadNumber", "ScaleOverflow"} /\ AllValid(Decimals(i, Prices \cup Quantities, depth)) =>
                /\ o.reason = "ScaleOverflow"
                /\ \E n \in Decimals(i, Prices \cup Quantities, depth) : ValueOf(n.int) > U32Max

\* A row whose JSON values have the documented types and are in range: the other
\* columns are strings, and an update_id may be one.
Documented(row) == \A i \in DOMAIN row :
    IF table.header[i] \in {Ts, Side} THEN row[i][3] = "number" /\ row[i][2] \in I64s
    ELSE IF table.header[i] = UpdateId
    THEN row[i][3] \in {"number", "string"} /\ IsInt(TextOf(row[i]), U64s)
    ELSE row[i][3] = "string"

\* json.hpp:3, csv.hpp:4: the format of a file does not matter - whichever fields
\* a CSV file has in quotes and in whatever order its columns are, a row becomes
\* the same record, or is skipped for the same reason, as in a JSON file.
FormatsAgree ==
    pc["csv"] \notin {"CsvSchema", "BookDepthUnsupported"} =>
        \A i \in DOMAIN outcomes["csv"] \cap DOMAIN outcomes["json"] :
            Documented(table.rows[i]) => outcomes["csv"][i] = outcomes["json"][i]

Lines == {l \in Sources \X DOMAIN table.rows : l[2] < pos[l[1]] /\ table.rows[l[2]] # <<>>}
Records == {l \in Lines : l[2] \in Accepted(l[1])}
SkippedFor(reason) == {l \in Lines : outcomes[l[1]][l[2]].reason = reason}
Missing == UNION {outcomes[l[1]][l[2]].unknown : l \in Lines}

\* The summary accounts for every line: what is neither a record nor an empty
\* line is counted once, under the reason it was skipped for, and the symbols that are reported missing
\* are those of the rows that were skipped for it, all of them unless the sample
\* is full.
SkipsAreTold ==
    /\ Cardinality(Lines) = Cardinality(Records) + total
    /\ \A r \in Reasons : counts[r] = Cardinality(SkippedFor(r))
    /\ total = counts["Malformed"] + counts["BadTimestamp"] + counts["BadField"]
                   + counts["UnknownSymbol"] + counts["BadNumber"] + counts["ScaleOverflow"]
    /\ unknown_syms \subseteq Missing \ Range(kGidNames)
    /\ Cardinality(unknown_syms) <= kMaxUnknownSamples
    /\ unknown_syms # Missing => Cardinality(unknown_syms) = kMaxUnknownSamples

\* A record has all four columns of each of its levels, and no bid price beyond
\* them was there: 6 levels, or 5 with a gap, never pass for fewer.  A CSV header
\* with exactly the columns of a supported depth is accepted with that depth.
AcceptedIffComplete == table.kind = "book" =>
    /\ \A s \in Sources : \A i \in Accepted(s) :
        LET depth == Rec(s, i).depth
        IN  /\ AllColumns(depth) \subseteq Keys(s, i)
            /\ \A n \in depth .. ProbeMax : <<"bid_px", n>> \notin Keys(s, i)
            /\ depth \in Supported
    /\ \A d \in Supported :
        Header(table) = {Ts, Symbol, UpdateId} \cup AllColumns(d) =>
            pc["csv"] \notin {"CsvSchema", "BookDepthUnsupported"} /\ (\A i \in Accepted("csv") : Rec("csv", i).depth = d)

\* The levels that the segment opened for a first record of this depth stores.
KeptLevels(depth) == IF depth = 1 THEN 1 ELSE kMaxDepth

\* README:41-43: a book of another depth than its file's first is refused, never
\* cut to what the segment holds.
NothingIsCut ==
    \A s \in Sources : \A i, j \in Accepted(s) :
        (\A h \in Accepted(s) : i <= h) => Rec(s, j).depth <= KeptLevels(Rec(s, i).depth)
=============================================================================
