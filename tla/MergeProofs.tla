---------------------------- MODULE MergeProofs ----------------------------
(***************************************************************************)
(* What Merger::next guarantees for any number of sources, of any lengths, *)
(* and for any windows of their units.                                     *)
(***************************************************************************)
EXTENDS Merge, FiniteFacts, SequenceTheorems, TLAPS

-----------------------------------------------------------------------------
(* Source::advance *)

\* What is known of the files.
LEMMA FileFacts ==
    ASSUME file \in Inputs, NEW s \in Sources
    PROVE  /\ Len(file[s]) \in Nat
           /\ \A i \in Rows(s) : file[s][i].ok \in BOOLEAN /\ RowTs(s, i) \in Int
BY InputsAssumption DEF Rows, RowTs

\* advance() stops at the first good row from i on, or one past the last row.
LEMMA NextGoodIsNext ==
    ASSUME file \in Inputs, NEW s \in Sources, NEW i \in 1 .. Len(file[s]) + 1
    PROVE  /\ NextGood(s, i) \in i .. Len(file[s]) + 1
           /\ NextGood(s, i) \in Rows(s) => file[s][NextGood(s, i)].ok
           /\ \A k \in i .. NextGood(s, i) - 1 : ~file[s][k].ok
<1> DEFINE Stops == {j \in i .. Len(file[s]) + 1 : j \in Rows(s) => file[s][j].ok}
<1>1. Len(file[s]) \in Nat
  BY FileFacts
<1>2. Len(file[s]) + 1 \in Stops
  BY <1>1 DEF Rows
<1>3. Stops \in SUBSET Nat
  BY <1>1
<1>4. PICK j \in Stops : \A k \in Stops : j <= k
  BY <1>2, <1>3, LeastNatural
<1>5. \A k \in i .. j - 1 : ~file[s][k].ok
  <2> SUFFICES ASSUME NEW k \in i .. j - 1, file[s][k].ok PROVE FALSE
    OBVIOUS
  <2>1. k \in Stops
    BY <1>1, <1>3
  <2> QED
    BY <1>3, <1>4, <2>1
<1>6. \E n \in i .. Len(file[s]) + 1 :
        /\ n \in Rows(s) => file[s][n].ok
        /\ \A k \in i .. n - 1 : ~file[s][k].ok
  BY <1>4, <1>5
<1> QED
  BY <1>6 DEF NextGood

\* What a step that advances the source of a heap item changes.
LEMMA AdvanceFacts ==
    ASSUME TypeOK, NEW x \in heap, Advance(x.src)
    PROVE  LET s == x.src
           IN  /\ s \in Sources /\ pos[s] \in Rows(s) /\ file[s][pos[s]].ok
               /\ x.ts \in Int /\ x.ts = RowTs(s, pos[s])
               /\ pos' \in [Sources -> Nat \ {0}]
               /\ \A r \in Sources \ {s} : pos'[r] = pos[r]
               /\ pos'[s] \in pos[s] + 1 .. Len(file[s]) + 1
               /\ pos'[s] \in Rows(s) => file[s][pos'[s]].ok
               /\ \A k \in pos[s] + 1 .. pos'[s] - 1 : ~file[s][k].ok
               /\ \A y \in heap \ {x} : y.src # s
<1> DEFINE s == x.src
<1>1. s \in Sources /\ x.ts \in Int /\ x \in HeadItem(s, pos[s])
  BY DEF TypeOK
<1>2. pos[s] \in Rows(s) /\ x = [ts |-> RowTs(s, pos[s]), src |-> s]
  BY <1>1 DEF HeadItem
<1>3. x.ts = RowTs(s, pos[s])
  BY <1>2
<1>4. file[s][pos[s]].ok
  BY <1>1, <1>2 DEF TypeOK
<1>5. \A y \in heap \ {x} : y.src # s
  <2> SUFFICES ASSUME NEW y \in heap, y.src = s PROVE y = x
    OBVIOUS
  <2>1. y \in HeadItem(s, pos[s])
    BY DEF TypeOK
  <2> QED
    BY <1>2, <2>1 DEF HeadItem
<1>6. file \in Inputs /\ pos \in [Sources -> Nat \ {0}] /\ Len(file[s]) \in Nat
  BY <1>1, FileFacts DEF TypeOK
<1>7. pos[s] + 1 \in 1 .. Len(file[s]) + 1
  BY <1>2, <1>6 DEF Rows
<1>8. /\ NextGood(s, pos[s] + 1) \in pos[s] + 1 .. Len(file[s]) + 1
      /\ NextGood(s, pos[s] + 1) \in Rows(s) => file[s][NextGood(s, pos[s] + 1)].ok
      /\ \A k \in pos[s] + 1 .. NextGood(s, pos[s] + 1) - 1 : ~file[s][k].ok
  BY <1>1, <1>6, <1>7, NextGoodIsNext
<1>9. pos' = [pos EXCEPT ![s] = NextGood(s, pos[s] + 1)]
  BY DEF Advance
<1>10. pos'[s] = NextGood(s, pos[s] + 1)
  BY <1>1, <1>6, <1>9
<1>11. pos' \in [Sources -> Nat \ {0}]
  <2>1. NextGood(s, pos[s] + 1) \in Nat \ {0}
    BY <1>6, <1>7, <1>8
  <2> QED
    BY <1>6, <1>9, <2>1
<1>12. \A r \in Sources \ {s} : pos'[r] = pos[r]
  BY <1>6, <1>9
<1> QED
  BY <1>1, <1>2, <1>3, <1>4, <1>5, <1>8, <1>10, <1>11, <1>12

-----------------------------------------------------------------------------
(* Type correctness *)

LEMMA InitTypeOK == Init => TypeOK
<1> SUFFICES ASSUME Init PROVE TypeOK
  OBVIOUS
<1>1. file \in Inputs /\ window \in Windows /\ out = <<>>
  BY DEF Init
<1>2. ASSUME NEW s \in Sources
      PROVE  /\ pos[s] \in Nat \ {0} /\ pos[s] <= Len(file[s]) + 1
             /\ pos[s] \in Rows(s) => file[s][pos[s]].ok /\ RowTs(s, pos[s]) \in Int
  <2>1. Len(file[s]) \in Nat
    BY <1>1, FileFacts
  <2>2. pos[s] = NextGood(s, 1)
    BY DEF Init
  <2>3. NextGood(s, 1) \in 1 .. Len(file[s]) + 1 /\ (NextGood(s, 1) \in Rows(s) => file[s][NextGood(s, 1)].ok)
    BY <1>1, <2>1, NextGoodIsNext
  <2> QED
    BY <1>1, <2>1, <2>2, <2>3, FileFacts
<1>3. pos \in [Sources -> Nat \ {0}]
  BY <1>2 DEF Init
<1>4. \A x \in heap : x \in [ts : Int, src : Sources] /\ x \in HeadItem(x.src, pos[x.src])
  <2> TAKE x \in heap
  <2>1. PICK s \in Sources : x \in HeadItem(s, pos[s])
    BY DEF Init
  <2>2. pos[s] \in Rows(s) /\ x = [ts |-> RowTs(s, pos[s]), src |-> s]
    BY <2>1 DEF HeadItem
  <2> QED
    BY <1>2, <2>1, <2>2
<1> QED
  BY <1>1, <1>2, <1>3, <1>4 DEF TypeOK

LEMMA NextTypeOK == ASSUME TypeOK, [Next]_mergeVars PROVE TypeOK'
<1> DEFINE Kept(x) == heap' \subseteq (heap \ {x}) \cup HeadItem(x.src, pos'[x.src])
<1>1. ASSUME NEW x \in heap, Advance(x.src), Kept(x), UNCHANGED <<file, window>>
      PROVE  /\ pos' \in [Sources -> Nat \ {0}]
             /\ \A s \in Sources : pos'[s] <= Len(file[s]) + 1 /\ (pos'[s] \in Rows(s) => file[s][pos'[s]].ok)
             /\ heap' \subseteq [ts : Int, src : Sources]
             /\ \A y \in heap' : y \in HeadItem(y.src, pos'[y.src])
  <2>1. /\ x.src \in Sources /\ pos' \in [Sources -> Nat \ {0}]
        /\ \A r \in Sources \ {x.src} : pos'[r] = pos[r]
        /\ pos'[x.src] \in pos[x.src] + 1 .. Len(file[x.src]) + 1
        /\ pos'[x.src] \in Rows(x.src) => file[x.src][pos'[x.src]].ok
        /\ \A y \in heap \ {x} : y.src # x.src
    BY <1>1, AdvanceFacts
  <2>2. Len(file[x.src]) \in Nat /\ pos[x.src] \in Nat
    BY <2>1, FileFacts DEF TypeOK
  <2>3. ASSUME NEW y \in heap'
        PROVE  y \in [ts : Int, src : Sources] /\ y \in HeadItem(y.src, pos'[y.src])
    <3>1. CASE y \in heap \ {x}
      BY <2>1, <3>1 DEF TypeOK
    <3>2. CASE y \in HeadItem(x.src, pos'[x.src])
      <4>1. pos'[x.src] \in Rows(x.src) /\ y = [ts |-> RowTs(x.src, pos'[x.src]), src |-> x.src]
        BY <3>2 DEF HeadItem
      <4>2. RowTs(x.src, pos'[x.src]) \in Int
        BY <2>1, <4>1, FileFacts DEF TypeOK
      <4>3. y.src = x.src
        BY <4>1
      <4> QED
        BY <2>1, <3>2, <4>1, <4>2, <4>3
    <3> QED
      BY <1>1, <3>1, <3>2
  <2>4. \A s \in Sources : pos'[s] <= Len(file[s]) + 1 /\ (pos'[s] \in Rows(s) => file[s][pos'[s]].ok)
    <3> TAKE s \in Sources
    <3>1. CASE s = x.src
      BY <2>1, <2>2, <3>1
    <3>2. CASE s # x.src
      BY <2>1, <3>2 DEF TypeOK
    <3> QED
      BY <3>1, <3>2
  <2> QED
    BY <2>1, <2>3, <2>4
<1>2. ASSUME NEW x \in heap, Retire(x) \/ DropEarly(x) PROVE TypeOK'
  <2>1. Advance(x.src) /\ Kept(x) /\ UNCHANGED <<file, window, out>>
    BY <1>2 DEF Retire, DropEarly
  <2> QED
    BY <1>1, <2>1 DEF TypeOK, Rows, HeadItem, RowTs
<1>3. ASSUME NEW x \in heap, Emit(x) PROVE TypeOK'
  <2>1. Advance(x.src) /\ Kept(x) /\ UNCHANGED <<file, window>>
    BY <1>3 DEF Emit
  <2>2. /\ x.src \in Sources /\ pos[x.src] \in Rows(x.src) /\ x.ts \in Int
        /\ x.ts = RowTs(x.src, pos[x.src])
    BY <2>1, AdvanceFacts
  <2> DEFINE rec == [ts |-> x.ts, src |-> x.src, row |-> pos[x.src]]
             Record == [ts : Int, src : Sources, row : Nat]
  <2>3. out' = Append(out, rec) /\ rec \in Record /\ out \in Seq(Record)
    BY <1>3, <2>2 DEF Emit, TypeOK
  <2>4. out' \in Seq(Record)
    BY <2>3
  <2>5. \A k \in DOMAIN out' : out'[k].row \in Rows(out'[k].src) /\ out'[k].ts = RowTs(out'[k].src, out'[k].row)
    <3> TAKE k \in DOMAIN out'
    <3>1. (k \in DOMAIN out /\ out'[k] = out[k]) \/ out'[k] = rec
      BY <2>3
    <3>2. CASE out'[k] = rec
      BY <2>2, <3>2
    <3>3. CASE k \in DOMAIN out /\ out'[k] = out[k]
      BY <3>3 DEF TypeOK
    <3> QED
      BY <3>1, <3>2, <3>3
  <2> QED
    BY <1>1, <2>1, <2>4, <2>5 DEF TypeOK, Rows, HeadItem, RowTs
<1>4. CASE UNCHANGED mergeVars
  BY <1>4 DEF mergeVars, TypeOK, Rows, HeadItem, RowTs
<1> QED
  BY <1>2, <1>3, <1>4 DEF Next

\* Every reachable state of the merger is well typed: a source in the heap stands
\* at a good row, the heap holds that row's time and one item per source.
THEOREM TypeCorrect == Spec => []TypeOK
<1>1. TypeOK /\ [Next]_mergeVars => TypeOK'
  BY NextTypeOK
<1> QED
  BY <1>1, InitTypeOK, PTL DEF Spec

-----------------------------------------------------------------------------
(* Order and completeness, for files whose good rows never go back in time.  *)

\* Source s was taken out of the heap at a row past its unit's end.
Retired(s) == \E i \in 1 .. pos[s] - 1 : file[s][i].ok /\ PastEnd(s, RowTs(s, i))

\* A source with a record left is in the heap or was retired.
HeapInv == \A s \in Sources : pos[s] \in Rows(s) =>
    [ts |-> RowTs(s, pos[s]), src |-> s] \in heap \/ Retired(s)

\* What a source has gone past and was due has been returned.
GoneInv == \A s \in Sources : \A i \in 1 .. pos[s] - 1 : Due(s, i) => Emitted(s, i)

\* The record last returned comes before every record in the heap.
LastInv == out # <<>> => \A x \in heap :
    Precedes(out[Len(out)].src, out[Len(out)].row, [ts |-> x.ts, src |-> x.src, row |-> pos[x.src]])

OrderInv == HeapInv /\ GoneInv /\ LastInv /\ OutputIsOrdered /\ NothingOvertaken
MergeInv == TypeOK /\ (SortedInput => OrderInv)

\* The types the comparisons of times and sources are about.
LEMMA ComparedAreNumbers ==
    ASSUME TypeOK, NEW s \in Sources
    PROVE  /\ s \in Int /\ pos[s] \in Nat \ {0} /\ Len(file[s]) \in Nat
           /\ pos[s] <= Len(file[s]) + 1
           /\ window[UnitOf[s]].start \in Int /\ window[UnitOf[s]].end \in Int
           /\ \A i \in Rows(s) : i \in Nat \ {0} /\ RowTs(s, i) \in Int
<1>1. file \in Inputs /\ window \in Windows /\ pos \in [Sources -> Nat \ {0}]
      /\ pos[s] <= Len(file[s]) + 1
  BY DEF TypeOK
<1>2. \A i \in Rows(s) : i \in Nat \ {0}
  BY <1>1, FileFacts DEF Rows
<1> QED
  BY <1>1, <1>2, FileFacts, SourcesAssumption, WindowsAssumption

LEMMA OutFacts ==
    ASSUME TypeOK
    PROVE  /\ Len(out) \in Nat /\ DOMAIN out = 1 .. Len(out)
           /\ out # <<>> => Len(out) \in DOMAIN out
           /\ \A k \in DOMAIN out :
                  /\ out[k].src \in Sources /\ out[k].row \in Rows(out[k].src)
                  /\ out[k].ts = RowTs(out[k].src, out[k].row)
<1> DEFINE Record == [ts : Int, src : Sources, row : Nat]
<1>1. out \in Seq(Record)
  BY DEF TypeOK
<1>2. /\ Len(out) \in Nat /\ DOMAIN out = 1 .. Len(out)
      /\ out # <<>> => Len(out) \in DOMAIN out
      /\ \A k \in DOMAIN out : out[k] \in Record
  <2> HIDE DEF Record
  <2>1. Len(out) \in Nat /\ DOMAIN out = 1 .. Len(out) /\ (out # <<>> => Len(out) >= 1)
    BY <1>1, LenProperties, EmptySeq
  <2>2. \A k \in DOMAIN out : out[k] \in Record
    BY <1>1, <2>1, ElementOfSeq
  <2> QED
    BY <2>1, <2>2
<1>3. \A k \in DOMAIN out : out[k].row \in Rows(out[k].src) /\ out[k].ts = RowTs(out[k].src, out[k].row)
  BY DEF TypeOK
<1> QED
  BY <1>2, <1>3

LEMMA InitOrder == ASSUME Init PROVE OrderInv
<1>1. TypeOK
  BY InitTypeOK
<1>2. out = <<>> /\ heap = UNION {HeadItem(s, pos[s]) : s \in Sources}
  BY DEF Init
<1>3. HeapInv
  <2> SUFFICES ASSUME NEW s \in Sources, pos[s] \in Rows(s)
               PROVE  [ts |-> RowTs(s, pos[s]), src |-> s] \in heap
    BY DEF HeapInv
  <2>1. HeadItem(s, pos[s]) \subseteq heap
    BY <1>2
  <2> QED
    BY <2>1 DEF HeadItem
<1>4. GoneInv
  <2> SUFFICES ASSUME NEW s \in Sources, NEW i \in 1 .. pos[s] - 1, file[s][i].ok PROVE FALSE
    BY DEF GoneInv, Due
  <2>1. file \in Inputs /\ pos[s] = NextGood(s, 1) /\ Len(file[s]) \in Nat
    BY <1>1, ComparedAreNumbers DEF Init
  <2>2. \A k \in 1 .. NextGood(s, 1) - 1 : ~file[s][k].ok
    BY <2>1, NextGoodIsNext
  <2> QED
    BY <2>1, <2>2
<1> QED
  BY <1>2, <1>3, <1>4 DEF OrderInv, LastInv, OutputIsOrdered, NothingOvertaken

\* No row from the head of a retired source on is due.
LEMMA RetiredIsOver ==
    ASSUME TypeOK, SortedInput, NEW s \in Sources, Retired(s),
           NEW j \in Rows(s), j >= pos[s]
    PROVE  ~Due(s, j)
<1> SUFFICES ASSUME file[s][j].ok PROVE RowTs(s, j) > window[UnitOf[s]].end
  BY ComparedAreNumbers DEF Due
<1>1. PICK i \in 1 .. pos[s] - 1 : file[s][i].ok /\ PastEnd(s, RowTs(s, i))
  BY DEF Retired
<1>2. i \in Rows(s) /\ i < j
  BY <1>1, ComparedAreNumbers DEF Rows
<1>3. RowTs(s, i) <= RowTs(s, j)
  BY <1>1, <1>2 DEF SortedInput
<1>4. RowTs(s, i) \in Int /\ RowTs(s, j) \in Int /\ window[UnitOf[s]].end \in Int
  BY <1>2, ComparedAreNumbers
<1>5. RowTs(s, i) > window[UnitOf[s]].end
  BY <1>1 DEF PastEnd
<1> QED
  BY <1>3, <1>4, <1>5

\* A due row that comes before the top of the heap has been returned.
LEMMA TopIsNext ==
    ASSUME TypeOK, SortedInput, HeapInv, GoneInv, NEW x \in heap, IsTop(x), Advance(x.src),
           NEW s \in Sources, NEW i \in Rows(s), Due(s, i),
           Precedes(s, i, [ts |-> x.ts, src |-> x.src, row |-> pos[x.src]])
    PROVE  Emitted(s, i)
<1>1. /\ x.src \in Sources /\ pos[x.src] \in Rows(x.src) /\ x.ts \in Int
      /\ x.ts = RowTs(x.src, pos[x.src])
      /\ \A y \in heap \ {x} : y.src # x.src
  BY AdvanceFacts
<1>2. i \in Nat \ {0} /\ RowTs(s, i) \in Int /\ pos[s] \in Nat /\ s \in Int /\ x.src \in Int
      /\ Len(file[s]) \in Nat /\ pos[x.src] \in Nat
  BY <1>1, ComparedAreNumbers
<1>3. CASE i < pos[s]
  BY <1>2, <1>3 DEF GoneInv
<1>4. CASE i >= pos[s]
  <2>1. ~Retired(s)
    BY <1>4, RetiredIsOver
  <2>2. pos[s] \in Rows(s)
    BY <1>2, <1>4 DEF Rows, TypeOK
  <2> DEFINE y == [ts |-> RowTs(s, pos[s]), src |-> s]
  <2>3. y \in heap
    BY <2>1, <2>2 DEF HeapInv
  <2>4. RowTs(s, pos[s]) \in Int /\ RowTs(s, pos[s]) <= RowTs(s, i)
    <3>1. file[s][pos[s]].ok /\ file[s][i].ok
      BY <2>2 DEF TypeOK, Due
    <3>2. pos[s] < i => RowTs(s, pos[s]) <= RowTs(s, i)
      BY <2>2, <3>1 DEF SortedInput
    <3>3. pos[s] = i \/ pos[s] < i
      BY <1>2, <1>4
    <3>4. RowTs(s, pos[s]) \in Int
      BY <2>2, ComparedAreNumbers
    <3> QED
      BY <1>2, <3>2, <3>3, <3>4
  <2>5. /\ \/ RowTs(s, i) < x.ts
           \/ RowTs(s, i) = x.ts /\ s < x.src
           \/ RowTs(s, i) = x.ts /\ s = x.src /\ i < pos[x.src]
    BY DEF Precedes
  <2>6. CASE s = x.src
    BY <1>1, <1>2, <1>4, <2>4, <2>5, <2>6
  <2>7. CASE s # x.src
    <3>1. y # x
      BY <2>7
    <3>2. x.ts < RowTs(s, pos[s]) \/ (x.ts = RowTs(s, pos[s]) /\ x.src < s)
      BY <2>3, <3>1 DEF IsTop, Before
    <3> QED
      BY <1>1, <1>2, <2>4, <2>5, <2>7, <3>2
  <2> QED
    BY <2>6, <2>7
<1> QED
  BY <1>2, <1>3, <1>4

\* The heap after a step that leaves the source of x in it.
LEMMA HeapAfter ==
    ASSUME TypeOK, SortedInput, HeapInv, NEW x \in heap, Advance(x.src), UNCHANGED <<file, window>>,
           \/ heap' = heap \ {x} /\ PastEnd(x.src, x.ts)
           \/ heap' = (heap \ {x}) \cup HeadItem(x.src, pos'[x.src])
    PROVE  HeapInv'
<1>1. /\ x.src \in Sources /\ pos[x.src] \in Rows(x.src) /\ file[x.src][pos[x.src]].ok
      /\ x.ts = RowTs(x.src, pos[x.src])
      /\ \A r \in Sources \ {x.src} : pos'[r] = pos[r]
      /\ pos'[x.src] \in pos[x.src] + 1 .. Len(file[x.src]) + 1
  BY AdvanceFacts
<1> SUFFICES ASSUME NEW s \in Sources, pos'[s] \in Rows(s)
             PROVE  [ts |-> RowTs(s, pos'[s]), src |-> s] \in heap' \/ Retired(s)'
  BY DEF HeapInv, Rows, RowTs
<1>2. CASE s # x.src
  <2>1. pos'[s] = pos[s]
    BY <1>1, <1>2
  <2>2. Retired(s)' <=> Retired(s)
    BY <2>1 DEF Retired, PastEnd, RowTs
  <2>3. [ts |-> RowTs(s, pos[s]), src |-> s] # x
    BY <1>2
  <2> QED
    BY <2>1, <2>2, <2>3 DEF HeapInv
<1>3. CASE s = x.src
  <2>1. CASE heap' = heap \ {x} /\ PastEnd(x.src, x.ts)
    <3>1. pos[s] \in 1 .. pos'[s] - 1
      BY <1>1, <1>3, ComparedAreNumbers
    <3>2. file'[s][pos[s]].ok /\ file'[s][pos[s]].ts > window'[UnitOf[s]].end
      BY <1>1, <1>3, <2>1 DEF PastEnd, RowTs
    <3>3. Retired(s)' <=> \E i \in 1 .. pos'[s] - 1 :
                             file'[s][i].ok /\ file'[s][i].ts > window'[UnitOf[s]].end
      BY DEF Retired, PastEnd, RowTs
    <3> QED
      BY <3>1, <3>2, <3>3
  <2>2. CASE heap' = (heap \ {x}) \cup HeadItem(x.src, pos'[x.src])
    BY <1>3, <2>2 DEF HeadItem
  <2> QED
    BY <2>1, <2>2
<1> QED
  BY <1>2, <1>3

\* A step that returns nothing goes past a row that is not due.
LEMMA DropsNothingDue ==
    ASSUME TypeOK, SortedInput, OrderInv, NEW x \in heap, Retire(x) \/ DropEarly(x)
    PROVE  OrderInv'
<1>1. /\ Advance(x.src) /\ IsTop(x) /\ UNCHANGED <<file, window, out>>
      /\ heap' \subseteq (heap \ {x}) \cup HeadItem(x.src, pos'[x.src])
      /\ \/ heap' = heap \ {x} /\ PastEnd(x.src, x.ts)
         \/ heap' = (heap \ {x}) \cup HeadItem(x.src, pos'[x.src])
      /\ PastEnd(x.src, x.ts) \/ BeforeStart(x.src, x.ts)
  BY DEF Retire, DropEarly
<1>2. /\ x.src \in Sources /\ pos[x.src] \in Rows(x.src) /\ file[x.src][pos[x.src]].ok
      /\ x.ts \in Int /\ x.ts = RowTs(x.src, pos[x.src])
      /\ \A r \in Sources \ {x.src} : pos'[r] = pos[r]
      /\ pos'[x.src] \in pos[x.src] + 1 .. Len(file[x.src]) + 1
      /\ pos'[x.src] \in Rows(x.src) => file[x.src][pos'[x.src]].ok
      /\ \A k \in pos[x.src] + 1 .. pos'[x.src] - 1 : ~file[x.src][k].ok
      /\ \A y \in heap \ {x} : y.src # x.src
  BY <1>1, AdvanceFacts
<1>3. HeapInv'
  BY <1>1, HeapAfter DEF OrderInv
<1>4. GoneInv'
  <2> SUFFICES ASSUME NEW s \in Sources, NEW i \in 1 .. pos'[s] - 1, Due(s, i) PROVE Emitted(s, i)
    BY <1>1 DEF GoneInv, Due, RowTs, Emitted
  <2>1. pos[s] \in Nat /\ pos[x.src] \in Nat /\ Len(file[x.src]) \in Nat
    BY <1>2, ComparedAreNumbers
  <2>2. ~Due(x.src, pos[x.src])
    BY <1>1, <1>2, ComparedAreNumbers DEF Due, PastEnd, BeforeStart
  <2>3. s # x.src => pos'[s] = pos[s]
    BY <1>2
  <2>4. s = x.src => i < pos[s] \/ i = pos[s] \/ i \in pos[x.src] + 1 .. pos'[x.src] - 1
    BY <1>2, <2>1
  <2>5. i \in 1 .. pos[s] - 1
    BY <1>2, <2>1, <2>2, <2>3, <2>4 DEF Due
  <2> QED
    BY <2>5 DEF OrderInv, GoneInv
<1>5. LastInv'
  <2> SUFFICES ASSUME out # <<>>, NEW y \in heap'
               PROVE  Precedes(out[Len(out)].src, out[Len(out)].row,
                               [ts |-> y.ts, src |-> y.src, row |-> pos'[y.src]])
    BY <1>1 DEF LastInv, Precedes, RowTs
  <2> DEFINE s == out[Len(out)].src
             i == out[Len(out)].row
  <2>1. Len(out) \in DOMAIN out
    BY OutFacts
  <2>2. s \in Sources /\ i \in Rows(s)
    BY <2>1, OutFacts
  <2>3. s \in Int /\ i \in Nat /\ RowTs(s, i) \in Int /\ x.src \in Int /\ pos[x.src] \in Nat
        /\ Len(file[x.src]) \in Nat
    BY <1>2, <2>2, ComparedAreNumbers
  <2>4. CASE y \in heap \ {x}
    <3>1. y.src \in Sources /\ pos'[y.src] = pos[y.src]
      BY <1>2, <2>4 DEF TypeOK
    <3> QED
      BY <2>4, <3>1 DEF OrderInv, LastInv
  <2>5. CASE y \in HeadItem(x.src, pos'[x.src])
    <3>1. pos'[x.src] \in Rows(x.src) /\ y.src = x.src /\ y.ts = RowTs(x.src, pos'[x.src])
      BY <1>1, <2>5 DEF HeadItem, Rows, RowTs
    <3>2. x.ts <= y.ts /\ y.ts \in Int /\ pos[x.src] < pos'[x.src] /\ pos'[x.src] \in Nat
      <4>1. pos[x.src] < pos'[x.src] /\ pos'[x.src] \in Nat
        BY <1>2, <2>3
      <4>2. file[x.src][pos[x.src]].ok /\ file[x.src][pos'[x.src]].ok
        BY <1>2, <3>1
      <4>3. RowTs(x.src, pos[x.src]) <= RowTs(x.src, pos'[x.src])
        BY <1>2, <3>1, <4>1, <4>2 DEF SortedInput
      <4>4. RowTs(x.src, pos'[x.src]) \in Int
        BY <1>2, <3>1, ComparedAreNumbers
      <4> QED
        BY <1>2, <3>1, <4>1, <4>3, <4>4
    <3>3. Precedes(s, i, [ts |-> x.ts, src |-> x.src, row |-> pos[x.src]])
      BY DEF OrderInv, LastInv
    <3> QED
      BY <1>2, <2>3, <3>1, <3>2, <3>3 DEF Precedes
  <2> QED
    BY <1>1, <2>4, <2>5
<1>6. OutputIsOrdered' /\ NothingOvertaken'
  BY <1>1 DEF OrderInv, OutputIsOrdered, NothingOvertaken, SortedInput, Precedes, Due, Emitted,
              Rows, RowTs
<1> QED
  BY <1>3, <1>4, <1>5, <1>6 DEF OrderInv

\* The record at the top of the heap is due, comes after the last one and leaves
\* behind nothing that was due before it.
LEMMA EmitsInOrder ==
    ASSUME TypeOK, SortedInput, OrderInv, NEW x \in heap, Emit(x)
    PROVE  OrderInv'
<1> DEFINE rec == [ts |-> x.ts, src |-> x.src, row |-> pos[x.src]]
           Record == [ts : Int, src : Sources, row : Nat]
<1>1. /\ Advance(x.src) /\ IsTop(x) /\ UNCHANGED <<file, window>>
      /\ heap' = (heap \ {x}) \cup HeadItem(x.src, pos'[x.src])
      /\ ~PastEnd(x.src, x.ts) /\ ~BeforeStart(x.src, x.ts)
      /\ out' = Append(out, rec)
  BY DEF Emit
<1>2. /\ x.src \in Sources /\ pos[x.src] \in Rows(x.src) /\ file[x.src][pos[x.src]].ok
      /\ x.ts \in Int /\ x.ts = RowTs(x.src, pos[x.src])
      /\ \A r \in Sources \ {x.src} : pos'[r] = pos[r]
      /\ pos'[x.src] \in pos[x.src] + 1 .. Len(file[x.src]) + 1
      /\ pos'[x.src] \in Rows(x.src) => file[x.src][pos'[x.src]].ok
      /\ \A k \in pos[x.src] + 1 .. pos'[x.src] - 1 : ~file[x.src][k].ok
      /\ \A y \in heap \ {x} : y.src # x.src
  BY <1>1, AdvanceFacts
<1>3. /\ x.src \in Int /\ pos[x.src] \in Nat \ {0} /\ Len(file[x.src]) \in Nat
      /\ window[UnitOf[x.src]].start \in Int /\ window[UnitOf[x.src]].end \in Int
  BY <1>2, ComparedAreNumbers
<1>4. /\ rec \in Record /\ out \in Seq(Record)
  BY <1>2, <1>3 DEF TypeOK
<1>5. /\ Len(out) \in Nat /\ DOMAIN out = 1 .. Len(out)
      /\ Len(out') = Len(out) + 1 /\ DOMAIN out' = 1 .. Len(out) + 1
      /\ \A k \in DOMAIN out : k \in DOMAIN out' /\ out'[k] = out[k]
      /\ out'[Len(out) + 1] = rec
  BY <1>1, <1>4
<1>6. rec.src = x.src /\ rec.row = pos[x.src] /\ rec.ts = x.ts
  OBVIOUS
<1>7. /\ SortedInput' <=> SortedInput
      /\ \A s, i : Due(s, i)' <=> Due(s, i)
      /\ \A s, i, y : Precedes(s, i, y)' <=> Precedes(s, i, y)
      /\ \A s, i : Emitted(s, i) => Emitted(s, i)'
  <2>1. /\ SortedInput' <=> SortedInput
        /\ \A s, i : Due(s, i)' <=> Due(s, i)
        /\ \A s, i, y : Precedes(s, i, y)' <=> Precedes(s, i, y)
    BY <1>1 DEF SortedInput, Due, Precedes, Rows, RowTs
  <2>2. \A s, i : Emitted(s, i) => Emitted(s, i)'
    BY <1>5 DEF Emitted
  <2> QED
    BY <2>1, <2>2
<1>8. /\ Due(x.src, pos[x.src])
      /\ \E k \in DOMAIN out' : out'[k].src = x.src /\ out'[k].row = pos[x.src]
  <2>1. \E k \in DOMAIN out' : out'[k].src = x.src /\ out'[k].row = pos[x.src]
    <3>1. Len(out) + 1 \in DOMAIN out' /\ out'[Len(out) + 1] = rec
      BY <1>5
    <3> QED
      BY <1>6, <3>1
  <2>2. Due(x.src, pos[x.src])
    BY <1>1, <1>2, <1>3 DEF Due, PastEnd, BeforeStart
  <2> QED
    BY <2>1, <2>2
<1>9. HeapInv'
  BY <1>1, HeapAfter DEF OrderInv
<1>10. GoneInv'
  <2> SUFFICES ASSUME NEW s \in Sources, NEW i \in 1 .. pos'[s] - 1, Due(s, i)
               PROVE  Emitted(s, i)'
    BY <1>7 DEF GoneInv
  <2>1. pos[s] \in Nat
    BY ComparedAreNumbers
  <2>2. CASE s = x.src /\ i = pos[x.src]
    BY <1>8, <2>2 DEF Emitted
  <2>3. CASE ~(s = x.src /\ i = pos[x.src])
    <3>1. ~(s = x.src /\ i \in pos[x.src] + 1 .. pos'[x.src] - 1)
      BY <1>2 DEF Due
    <3>2. i \in 1 .. pos[s] - 1
      BY <1>2, <1>3, <2>1, <2>3, <3>1
    <3> QED
      BY <1>7, <3>2 DEF OrderInv, GoneInv
  <2> QED
    BY <2>2, <2>3
<1>11. LastInv'
  <2> SUFFICES ASSUME NEW y \in heap'
               PROVE  Precedes(x.src, pos[x.src], [ts |-> y.ts, src |-> y.src, row |-> pos'[y.src]])
    BY <1>5, <1>6, <1>7 DEF LastInv
  <2>1. CASE y \in heap \ {x}
    <3>1. Before(x, y)
      BY <1>1, <2>1 DEF IsTop
    <3>2. y.src # x.src
      BY <1>2, <2>1
    <3> QED
      BY <1>2, <3>1, <3>2 DEF Before, Precedes
  <2>2. CASE y \in HeadItem(x.src, pos'[x.src])
    <3>1. pos'[x.src] \in Rows(x.src) /\ y.src = x.src /\ y.ts = RowTs(x.src, pos'[x.src])
      BY <1>1, <2>2 DEF HeadItem, Rows, RowTs
    <3>2. pos[x.src] < pos'[x.src]
      BY <1>2, <1>3
    <3>3. RowTs(x.src, pos[x.src]) <= RowTs(x.src, pos'[x.src])
      BY <1>2, <3>1, <3>2 DEF SortedInput
    <3>4. RowTs(x.src, pos'[x.src]) \in Int
      BY <1>2, <3>1, ComparedAreNumbers
    <3> QED
      BY <1>2, <3>1, <3>2, <3>3, <3>4 DEF Precedes
  <2> QED
    BY <1>1, <2>1, <2>2
<1>12. OutputIsOrdered'
  <2> SUFFICES ASSUME NEW k \in 1 .. Len(out)
               PROVE  Precedes(out'[k].src, out'[k].row, out'[k + 1])
    BY <1>5, <1>7 DEF OutputIsOrdered
  <2>1. CASE k < Len(out)
    <3>1. out'[k] = out[k] /\ out'[k + 1] = out[k + 1]
      BY <1>5, <2>1
    <3> QED
      BY <1>5, <2>1, <3>1 DEF OrderInv, OutputIsOrdered
  <2>2. CASE k = Len(out)
    <3>1. out # <<>> /\ out'[k] = out[Len(out)] /\ out'[k + 1] = rec
      BY <1>5, <2>2
    <3> QED
      BY <3>1 DEF OrderInv, LastInv
  <2>3. k < Len(out) \/ k = Len(out)
    <3>1. Len(out) \in Nat
      BY OutFacts
    <3> QED
      BY <3>1
  <2> QED
    BY <2>1, <2>2, <2>3, Zenon
<1>13. NothingOvertaken'
  <2>1. ASSUME NEW k \in DOMAIN out' PROVE Due(out'[k].src, out'[k].row)
    BY <1>5, <1>6, <1>8 DEF OrderInv, NothingOvertaken
  <2>2. ASSUME NEW s \in Sources, NEW i \in Rows(s), NEW k \in DOMAIN out',
               Due(s, i), Precedes(s, i, out'[k])
        PROVE  Emitted(s, i)'
    <3>1. CASE k \in DOMAIN out
      BY <1>5, <1>7, <2>2, <3>1 DEF OrderInv, NothingOvertaken
    <3>2. CASE k = Len(out) + 1
      <4>1. Precedes(s, i, rec)
        BY <1>5, <2>2, <3>2
      <4> QED
        BY <1>1, <1>7, <2>2, <4>1, TopIsNext DEF OrderInv
    <3> QED
      BY <1>5, <3>1, <3>2
  <2>3. \A s : Rows(s)' = Rows(s)
    BY <1>1 DEF Rows
  <2> QED
    BY <1>7, <2>1, <2>2, <2>3 DEF NothingOvertaken
<1> QED
  BY <1>9, <1>10, <1>11, <1>12, <1>13 DEF OrderInv

LEMMA InitMergeInv == Init => MergeInv
BY InitTypeOK, InitOrder DEF MergeInv

LEMMA NextMergeInv == ASSUME MergeInv, [Next]_mergeVars PROVE MergeInv'
<1>1. TypeOK /\ TypeOK'
  BY NextTypeOK DEF MergeInv
<1>2. UNCHANGED file
  BY DEF Next, Retire, DropEarly, Emit, mergeVars
<1>3. SortedInput' => SortedInput
  BY <1>2 DEF SortedInput, Rows, RowTs
<1> SUFFICES ASSUME SortedInput, OrderInv PROVE OrderInv'
  BY <1>1, <1>3 DEF MergeInv
<1>4. ASSUME NEW x \in heap, Retire(x) \/ DropEarly(x) PROVE OrderInv'
  BY <1>1, <1>4, DropsNothingDue
<1>5. ASSUME NEW x \in heap, Emit(x) PROVE OrderInv'
  BY <1>1, <1>5, EmitsInOrder
<1>6. CASE UNCHANGED mergeVars
  BY <1>6 DEF mergeVars, OrderInv, HeapInv, GoneInv, LastInv, OutputIsOrdered, NothingOvertaken,
              SortedInput, Retired, PastEnd, Precedes, Due, Emitted, Rows, RowTs
<1> QED
  BY <1>4, <1>5, <1>6 DEF Next

\* The merger returns records in the order (ts, source, row), for any files that
\* are in order themselves.
THEOREM OutputStaysOrdered == Spec => []OutputIsOrdered
<1>1. MergeInv /\ [Next]_mergeVars => MergeInv'
  BY NextMergeInv
<1>2. MergeInv => OutputIsOrdered
  BY DEF MergeInv, OrderInv, OutputIsOrdered
<1> QED
  BY <1>1, <1>2, InitMergeInv, PTL DEF Spec

\* It returns nothing outside a unit's window and nothing too late: what is due
\* and comes earlier has been returned, although sources that reach the end of
\* their window are not looked at again.
THEOREM NothingIsOvertaken == Spec => []NothingOvertaken
<1>1. MergeInv /\ [Next]_mergeVars => MergeInv'
  BY NextMergeInv
<1>2. MergeInv => NothingOvertaken
  BY DEF MergeInv, OrderInv, NothingOvertaken
<1> QED
  BY <1>1, <1>2, InitMergeInv, PTL DEF Spec

\* With an empty heap nothing due is left: a retired source has none.
LEMMA NothingDueIsLeft == ASSUME MergeInv PROVE AllDueReturned
<1> SUFFICES ASSUME SortedInput, heap = {}, NEW s \in Sources, NEW i \in Rows(s), Due(s, i)
             PROVE  Emitted(s, i)
  BY DEF AllDueReturned
<1>1. TypeOK /\ HeapInv /\ GoneInv
  BY DEF MergeInv, OrderInv
<1>2. i \in Nat \ {0} /\ pos[s] \in Nat /\ Len(file[s]) \in Nat
  BY <1>1, ComparedAreNumbers
<1>3. CASE i < pos[s]
  BY <1>1, <1>2, <1>3 DEF GoneInv
<1>4. CASE i >= pos[s]
  <2>1. pos[s] \in Rows(s)
    BY <1>1, <1>2, <1>4 DEF Rows, TypeOK
  <2>2. Retired(s)
    BY <1>1, <2>1 DEF HeapInv
  <2> QED
    BY <1>1, <1>4, <2>2, RetiredIsOver
<1> QED
  BY <1>2, <1>3, <1>4

\* When next() has nothing more to return, everything due was returned.
THEOREM EverythingDueIsReturned == Spec => []AllDueReturned
<1>1. MergeInv /\ [Next]_mergeVars => MergeInv'
  BY NextMergeInv
<1>2. MergeInv => AllDueReturned
  BY NothingDueIsLeft
<1> QED
  BY <1>1, <1>2, InitMergeInv, PTL DEF Spec

-----------------------------------------------------------------------------
(* No row is returned twice, sorted or not. *)

OnceInv ==
    /\ \A k \in DOMAIN out : out[k].row < pos[out[k].src]
    /\ \A j, k \in DOMAIN out : j < k => out[j].src # out[k].src \/ out[j].row # out[k].row

LEMMA InitOnce == Init => OnceInv
<1> SUFFICES ASSUME Init PROVE OnceInv
  OBVIOUS
<1>1. DOMAIN out = {}
  BY DEF Init
<1> QED
  BY <1>1 DEF OnceInv

LEMMA NextOnce == ASSUME TypeOK, OnceInv, [Next]_mergeVars PROVE OnceInv'
<1>1. \A k \in DOMAIN out : /\ out[k].src \in Sources /\ out[k].row \in Nat
                            /\ pos[out[k].src] \in Nat
  <2> SUFFICES ASSUME NEW k \in DOMAIN out
               PROVE  out[k].src \in Sources /\ out[k].row \in Nat /\ pos[out[k].src] \in Nat
    OBVIOUS
  <2>1. out[k].src \in Sources /\ out[k].row \in Rows(out[k].src)
    BY OutFacts
  <2> QED
    BY <2>1, ComparedAreNumbers
<1>2. ASSUME NEW x \in heap, Advance(x.src)
      PROVE  /\ \A s \in Sources : pos'[s] \in Nat /\ pos[s] <= pos'[s]
             /\ x.src \in Sources /\ pos[x.src] \in Nat /\ pos[x.src] < pos'[x.src]
  <2>1. /\ x.src \in Sources /\ pos' \in [Sources -> Nat \ {0}]
        /\ \A r \in Sources \ {x.src} : pos'[r] = pos[r]
        /\ pos'[x.src] \in pos[x.src] + 1 .. Len(file[x.src]) + 1
    BY <1>2, AdvanceFacts
  <2>2. \A s \in Sources : pos[s] \in Nat
    BY ComparedAreNumbers
  <2>3. pos[x.src] < pos'[x.src] /\ pos'[x.src] \in Nat
    BY <2>1, <2>2
  <2>4. ASSUME NEW s \in Sources PROVE pos'[s] \in Nat /\ pos[s] <= pos'[s]
    <3>1. CASE s = x.src
      BY <2>2, <2>3, <3>1
    <3>2. CASE s # x.src
      BY <2>1, <2>2, <3>2
    <3> QED
      BY <3>1, <3>2
  <2> QED
    BY <2>1, <2>2, <2>3, <2>4
<1>3. ASSUME NEW x \in heap, Retire(x) \/ DropEarly(x) PROVE OnceInv'
  <2>1. Advance(x.src) /\ out' = out
    BY <1>3 DEF Retire, DropEarly
  <2>2. \A k \in DOMAIN out : out[k].row < pos'[out[k].src]
    <3> SUFFICES ASSUME NEW k \in DOMAIN out PROVE out[k].row < pos'[out[k].src]
      OBVIOUS
    <3>1. /\ out[k].row < pos[out[k].src] /\ pos[out[k].src] <= pos'[out[k].src]
          /\ pos'[out[k].src] \in Nat /\ pos[out[k].src] \in Nat /\ out[k].row \in Nat
      BY <1>1, <1>2, <2>1 DEF OnceInv
    <3> QED
      BY <3>1
  <2> QED
    BY <2>1, <2>2 DEF OnceInv
<1>4. ASSUME NEW x \in heap, Emit(x) PROVE OnceInv'
  <2> DEFINE rec == [ts |-> x.ts, src |-> x.src, row |-> pos[x.src]]
             Record == [ts : Int, src : Sources, row : Nat]
             n == Len(out) + 1
  <2>1. Advance(x.src) /\ out' = Append(out, rec)
    BY <1>4 DEF Emit
  <2>2. out \in Seq(Record) /\ rec \in Record
    <3>1. x.ts \in Int /\ x.src \in Sources /\ pos[x.src] \in Nat
      BY <1>2, <2>1, AdvanceFacts
    <3> QED
      BY <3>1 DEF TypeOK
  <2>3. /\ DOMAIN out = 1 .. Len(out) /\ Len(out) \in Nat
        /\ \A k \in DOMAIN out' : (k \in DOMAIN out /\ k < n) \/ k = n
        /\ \A k \in DOMAIN out : out'[k] = out[k]
        /\ out'[n] = rec
    <3> HIDE DEF rec, Record
    <3> QED
      BY <2>1, <2>2, AppendProperties, LenProperties
  <2>4. rec.src = x.src /\ rec.row = pos[x.src]
    OBVIOUS
  <2> HIDE DEF rec
  <2>5. ASSUME NEW k \in DOMAIN out PROVE out[k].row < pos'[out[k].src]
    <3>1. /\ out[k].row < pos[out[k].src] /\ pos[out[k].src] <= pos'[out[k].src]
          /\ pos'[out[k].src] \in Nat /\ pos[out[k].src] \in Nat /\ out[k].row \in Nat
      BY <1>1, <1>2, <2>1 DEF OnceInv
    <3> QED
      BY <3>1
  <2>6. rec.row < pos'[rec.src]
    BY <1>2, <2>1, <2>4
  <2>7. ASSUME NEW k \in DOMAIN out PROVE out[k].src # rec.src \/ out[k].row # rec.row
    <3>1. out[k].row < pos[out[k].src] /\ out[k].row \in Nat /\ pos[out[k].src] \in Nat
      BY <1>1 DEF OnceInv
    <3> QED
      BY <2>4, <3>1
  <2>8. \A j, k \in DOMAIN out' : j < k =>
            j \in DOMAIN out /\ (k \in DOMAIN out \/ k = n)
    <3> HIDE DEF n
    <3>1. n \in Nat /\ \A k \in DOMAIN out : k \in Nat
      BY <2>3 DEF n
    <3> QED
      BY <2>3, <3>1
  <2> HIDE DEF n
  <2>9. \A k \in DOMAIN out' : out'[k].row < pos'[out'[k].src]
    BY <2>3, <2>5, <2>6
  <2>10. \A j, k \in DOMAIN out' : j < k => out'[j].src # out'[k].src \/ out'[j].row # out'[k].row
    BY <2>3, <2>7, <2>8 DEF OnceInv
  <2> QED
    BY <2>9, <2>10 DEF OnceInv
<1>5. CASE UNCHANGED mergeVars
  BY <1>5 DEF mergeVars, OnceInv
<1> QED
  BY <1>3, <1>4, <1>5 DEF Next
=============================================================================
