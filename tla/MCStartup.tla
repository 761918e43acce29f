----------------------------- MODULE MCStartup -----------------------------
(* Startup for TLC: two entries over two directories. *)
EXTENDS Startup, TLC

Entry(k, fmt, d, p, c, s, e) ==
    [kind |-> k, format |-> fmt, dir |-> d, path |-> p, create |-> c, start |-> s, end |-> e]

\* Book and trade entries of every format, on either of two paths, with windows
\* that differ and some that are empty.
FirstEntries ==
    {Entry(k, fmt, 1, "/a", c, 0, e) :
        k \in {"book", "trade"}, fmt \in {"csv", "auto"}, c \in BOOLEAN, e \in {-1, 5}}
SecondEntries ==
    {Entry(k, fmt, d, p, TRUE, 3, 9) :
        k \in {"book", "trade"}, fmt \in {"json", "auto"}, d \in {1, 2}, p \in {"/a", "/b"}}
PairConfigs == {[parses |-> FALSE, realtime |-> 1, replays |-> <<>>]} \cup
    {[parses |-> TRUE, realtime |-> x, replays |-> <<Entry("trade", "csv", 1, "/a", TRUE, 0, 9)>>] : x \in {-1, 2, Nan}} \cup
    {[parses |-> TRUE, realtime |-> 1, replays |-> <<r, s>>] : r \in FirstEntries, s \in SecondEntries}

File(d, p, k, fmt, l, n) ==
    [dir |-> d, path |-> p, kind |-> k, format |-> fmt, loads |-> l, depth |-> n]

\* Two book files in directory 1 that may fail to load or differ in depth, a
\* trade file, and in directory 2 csv, json or both.
BookFiles == {{File(1, 1, "book", "csv", l, m), File(1, 2, "book", "csv", TRUE, n)} :
                 l \in BOOLEAN, m \in {0, 1, 5}, n \in {0, 1, 5}}
TradeFiles == {{}, {File(1, 3, "trade", "csv", TRUE, 1)}}
OtherFiles == {{}, {File(2, 1, "book", "json", TRUE, 5)},
               {File(2, 1, "book", "json", TRUE, 5), File(2, 2, "book", "csv", TRUE, 1),
                File(2, 3, "trade", "json", TRUE, 1)}}
MCFileSets == {b \cup t \cup o : b \in BookFiles, t \in TradeFiles, o \in OtherFiles}
=============================================================================
