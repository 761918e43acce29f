------------------------------ MODULE MCReplay ------------------------------
(* Replay for TLC: a book unit with two files and a trade unit with one. *)
EXTENDS Replay, TLC

CONSTANTS MaxUid,   \* bound: greatest update_id
          Gap       \* time between the timestamps 0, Gap and 2 * Gap

MCSources == 0 .. 2
MCUnitOf == 0 :> 0 @@ 1 :> 0 @@ 2 :> 1
MCKindOf == 0 :> "book" @@ 1 :> "trade"

Book(t, l, n, d) == [ok |-> TRUE, ts |-> t * Gap, lid |-> l, uid |-> n, depth |-> d]
Trade(t) == [ok |-> TRUE, ts |-> t * Gap, lid |-> CHOOSE l \in Lids : TRUE, uid |-> 0, depth |-> 1]
Bad == [ok |-> FALSE, ts |-> 0, lid |-> CHOOSE l \in Lids : TRUE, uid |-> 0, depth |-> 1]

FilesOf(s, first, second, last) == (s :> first) @@ (s + 1 :> second) @@ (s + 2 :> last)

\* Inputs with one symbol are of depth 1, those with two of depth 5.
DepthFor(l) == IF l = 1 THEN 1 ELSE 5

\* Book files of one depth whose update_ids may repeat or go back, within a file
\* and between the two, a bad row in the first one, and two trades at the ends of
\* the time span.
MixedInputs ==
    {FilesOf(0, <<Book(0, 1, m, DepthFor(k)), Bad, Book(2, 1, n, DepthFor(k))>>,
             <<Book(1, k, p, DepthFor(k))>>, <<Trade(0), Trade(2)>>) :
        k \in Lids, m \in 1 .. MaxUid, n \in 1 .. MaxUid, p \in 1 .. MaxUid}

\* Both units whole, or each of them without its first or its last records.
Window(first, last) == [start |-> first * Gap, end |-> last * Gap]
MCWindows ==
    {0 :> Window(0, 2) @@ 1 :> Window(0, 2),
     0 :> Window(1, 2) @@ 1 :> Window(0, 1),
     0 :> Window(0, 1) @@ 1 :> Window(1, 2)}
Realtime0AndHalf == {[num |-> 0, den |-> 1], [num |-> 1, den |-> 2]}
AutoAndManualTs0 == {FromFirst, 2}
=============================================================================
