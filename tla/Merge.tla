------------------------------- MODULE Merge -------------------------------
(***************************************************************************)
(* The input side of a replay: streaming sources (StreamingCsvSource and   *)
(* StreamingJsonSource behave alike) that buffer one record each, and the  *)
(* Merger that turns them into one stream ordered by (ts, source), each    *)
(* unit cut to its own closed time window.                                 *)
(*                                                                         *)
(* A row of a file is [ok, ts, ...]: ok = FALSE is a row that parsing or   *)
(* make_*_record rejects (Rows says for which reasons).  Sources are the   *)
(* positions in main's global source list: natural numbers, unit by unit.  *)
(* One action is one iteration of the loop in Merger::next.                *)
(***************************************************************************)
EXTENDS Integers, Sequences

CONSTANTS Sources,     \* indices of the sources
          UnitOf,      \* UnitOf[s]: the [[replays]] entry source s belongs to
          Inputs,      \* the contents the files may have: functions from
                       \* Sources to sequences of rows
          Windows      \* the windows the units may have: functions from units
                       \* to [start, end]

ASSUME SourcesAssumption == Sources \subseteq Nat
ASSUME InputsAssumption ==
    \A file \in Inputs :
        /\ DOMAIN file = Sources
        /\ \A s \in Sources :
               /\ Len(file[s]) \in Nat /\ DOMAIN file[s] = 1 .. Len(file[s])
               /\ \A i \in DOMAIN file[s] : file[s][i].ok \in BOOLEAN /\ file[s][i].ts \in Int
ASSUME WindowsAssumption ==
    \A window \in Windows : \A s \in Sources :
        window[UnitOf[s]].start \in Int /\ window[UnitOf[s]].end \in Int

VARIABLES
    file,      \* what the files contain; never changes
    window,    \* unit_window; never changes
    pos,       \* pos[s]: row of file s that is in head_, one past the end if none
    heap,      \* heap_, a set of [ts, src]
    out        \* what next() has returned, as [ts, src, row]

mergeVars == <<file, window, pos, heap, out>>

Rows(s) == 1 .. Len(file[s])
RowTs(s, i) == file[s][i].ts

-----------------------------------------------------------------------------
(* The decisions of the code, each preceded by the forms that a bug would    *)
(* give it.                                                                  *)

LaterSourceFirst(x, y) == x.ts < y.ts \/ (x.ts = y.ts /\ x.src > y.src)
\* HeapItem's order: the smaller ts first, and of equal ones the earlier source.
Before(x, y) == x.ts < y.ts \/ (x.ts = y.ts /\ x.src < y.src)

AtOrPastEnd(s, ts) == ts >= window[UnitOf[s]].end
\* rec.ts_ns > end
PastEnd(s, ts) == ts > window[UnitOf[s]].end

AtOrBeforeStart(s, ts) == ts <= window[UnitOf[s]].start
\* rec.ts_ns < start
BeforeStart(s, ts) == ts < window[UnitOf[s]].start

NoSkipping(s, i) == i
\* Source::advance reads on until a row builds a record or the file ends.
NextGood(s, i) ==
    CHOOSE j \in i .. Len(file[s]) + 1 :
        /\ j \in Rows(s) => file[s][j].ok
        /\ \A k \in i .. j - 1 : ~file[s][k].ok

-----------------------------------------------------------------------------

\* push_head: the head of s when its source stands at row i.
HeadItem(s, i) == IF i \in Rows(s) THEN {[ts |-> RowTs(s, i), src |-> s]} ELSE {}

\* The sources have read their first record, the Merger has pushed them all.
Init ==
    /\ file \in Inputs
    /\ window \in Windows
    /\ pos = [s \in Sources |-> NextGood(s, 1)]
    /\ heap = UNION {HeadItem(s, pos[s]) : s \in Sources}
    /\ out = <<>>

IsTop(x) == x \in heap /\ \A y \in heap \ {x} : Before(x, y)

\* sources_[s]->advance()
Advance(s) == pos' = [pos EXCEPT ![s] = NextGood(s, @ + 1)]

\* A record past its unit's end: the source leaves the heap for good.
Retire(x) ==
    /\ IsTop(x) /\ PastEnd(x.src, x.ts)
    /\ Advance(x.src)
    /\ heap' = heap \ {x}
    /\ UNCHANGED <<file, window, out>>

\* A record before its unit's start is dropped, its source goes on.
DropEarly(x) ==
    /\ IsTop(x) /\ ~PastEnd(x.src, x.ts) /\ BeforeStart(x.src, x.ts)
    /\ Advance(x.src)
    /\ heap' = (heap \ {x}) \cup HeadItem(x.src, pos'[x.src])
    /\ UNCHANGED <<file, window, out>>

\* next() returns the record.
Emit(x) ==
    /\ IsTop(x) /\ ~PastEnd(x.src, x.ts) /\ ~BeforeStart(x.src, x.ts)
    /\ Advance(x.src)
    /\ heap' = (heap \ {x}) \cup HeadItem(x.src, pos'[x.src])
    /\ out' = Append(out, [ts |-> x.ts, src |-> x.src, row |-> pos[x.src]])
    /\ UNCHANGED <<file, window>>

Next == \E x \in heap : Retire(x) \/ DropEarly(x) \/ Emit(x)

Spec == Init /\ [][Next]_mergeVars

-----------------------------------------------------------------------------
(* Properties *)

\* The contract of source.hpp:4: the good rows of a file never go back in time.
\* The code does not check it; what is said of the merge assumes it.
SortedInput ==
    \A s \in Sources : \A i, j \in Rows(s) :
        i < j /\ file[s][i].ok /\ file[s][j].ok => RowTs(s, i) <= RowTs(s, j)

\* A good row inside its unit's closed window: what a replay must play.
Due(s, i) ==
    file[s][i].ok /\ window[UnitOf[s]].start <= RowTs(s, i)
                  /\ RowTs(s, i) <= window[UnitOf[s]].end

\* Row i of source s comes before record y in the order of the replay.
Precedes(s, i, y) ==
    \/ RowTs(s, i) < y.ts
    \/ RowTs(s, i) = y.ts /\ s < y.src
    \/ RowTs(s, i) = y.ts /\ s = y.src /\ i < y.row

Emitted(s, i) == \E k \in DOMAIN out : out[k].src = s /\ out[k].row = i

\* The merger's state is well typed: a source stands at a good row or at its
\* end, and the heap has at most one item per source, that of its head.
TypeOK ==
    /\ file \in Inputs /\ window \in Windows
    /\ pos \in [Sources -> Nat \ {0}]
    /\ \A s \in Sources : pos[s] <= Len(file[s]) + 1 /\ (pos[s] \in Rows(s) => file[s][pos[s]].ok)
    /\ heap \subseteq [ts : Int, src : Sources]
    /\ \A x \in heap : x \in HeadItem(x.src, pos[x.src])
    /\ out \in Seq([ts : Int, src : Sources, row : Nat])
    /\ \A k \in DOMAIN out :
           out[k].row \in Rows(out[k].src) /\ out[k].ts = RowTs(out[k].src, out[k].row)

\* merge.hpp:4: the order is (ts, source) and fully determined.  Each record
\* returned comes after the one before it, ties by source and then by row.
OutputIsOrdered ==
    SortedInput => \A k \in 1 .. Len(out) - 1 : Precedes(out[k].src, out[k].row, out[k + 1])

\* next() returns no record outside the window and skips none inside it: when a
\* record is returned, every due row that precedes it has been returned.
NothingOvertaken ==
    SortedInput =>
        /\ \A k \in DOMAIN out : Due(out[k].src, out[k].row)
        /\ \A s \in Sources : \A i \in Rows(s) : \A k \in DOMAIN out :
               Due(s, i) /\ Precedes(s, i, out[k]) => Emitted(s, i)

\* When the heap is empty every due row of every source has been returned:
\* taking a source out of the heap at its first late record loses nothing.
AllDueReturned ==
    SortedInput /\ heap = {} => \A s \in Sources : \A i \in Rows(s) : Due(s, i) => Emitted(s, i)
=============================================================================
