----------------------------- MODULE TradeRing -----------------------------
(***************************************************************************)
(* The trade segment in shared memory: BcastRing<TradeEntry, Cap>, a       *)
(* broadcast ring without back-pressure.  A producer takes an absolute     *)
(* slot number from head and writes cell slot % Cap under a seqlock whose  *)
(* number encodes the slot: 2*slot + 1 while writing, 2*slot when done.  A *)
(* consumer keeps its own tail outside the segment and drains from it to   *)
(* head; when more than a lap behind it jumps and reports the loss.        *)
(*                                                                         *)
(* One action is one access to an atomic of the ring or to one payload     *)
(* word; words are stored and copied in any order, as in module Board.  A  *)
(* payload word holds the slot its trade was published in, Blank in a      *)
(* zeroed segment.  head and tail are 64-bit unsigned numbers: their       *)
(* arithmetic is modulo WordSize, which exceeds every bound.               *)
(***************************************************************************)
EXTENDS Integers, Sequences, FiniteSets

CONSTANTS Producers,   \* processes that publish into the ring
          Consumers,   \* processes that drain it
          Cap,         \* cells of the ring
          Words,       \* payload words of a cell
          MaxSlots,    \* bound: trades published into one segment
          MaxDeaths,   \* bound: producers that end, in total
          Restarts,    \* how an ended producer comes back
          MayStall,    \* whether a publish may last while others go round the ring
          WordSize     \* 2^64, small enough for TLC

ASSUME CapAssumption == Cap \in Nat \ {0}
ASSUME BoundsAssumption == MaxSlots \in Nat /\ MaxDeaths \in Nat
ASSUME WordAssumption == WordSize \in Nat /\ WordSize > 2 * (MaxSlots + Cap)
ASSUME RestartsAssumption == Restarts \subseteq {"attach", "create"}
ASSUME StallAssumption == MayStall \in BOOLEAN

VARIABLES
    head,       \* slots handed out                                  (segment)
    cellseq,    \* cellseq[i]: seqlock number of cell i              (segment)
    cell,       \* cell[i][w]: slot whose trade is in word w         (segment)
    ppc,        \* where producer p is inside publish
    pslot,      \* publish's slot
    ptodo,      \* payload words publish has still to store
    deaths,     \* producers that ended so far                       (bound)
    tail,       \* tail[c]: the slot consumer c waits for
    cpc,        \* where consumer c is inside drain
    ch,         \* drain's h
    ctodo,      \* payload words still to copy
    cout,       \* drain's pl
    lost,       \* sum of the losses drain returned to c
    delivered,  \* history: what drain handed to fn, [slot, words]
    abandoned   \* history: slots whose producer was killed before the end

segment == <<head, cellseq, cell>>
plocals == <<ppc, pslot, ptodo>>
clocals == <<tail, cpc, ch, ctodo, cout, lost, delivered>>
vars    == <<segment, plocals, clocals, deaths, abandoned>>

Blank == -1
Cells == 0 .. Cap - 1
Slots == 0 .. MaxSlots - 1
CellOf(slot) == slot % Cap
Whole(slot) == [w \in Words |-> slot]

Init ==
    /\ head = 0
    /\ cellseq = [i \in Cells |-> 0]
    /\ cell = [i \in Cells |-> Whole(Blank)]
    /\ ppc = [p \in Producers |-> "idle"]
    /\ pslot = [p \in Producers |-> 0]
    /\ ptodo = [p \in Producers |-> {}]
    /\ deaths = 0
    /\ tail = [c \in Consumers |-> 0]
    /\ cpc = [c \in Consumers |-> "idle"]
    /\ ch = [c \in Consumers |-> 0]
    /\ ctodo = [c \in Consumers |-> {}]
    /\ cout = [c \in Consumers |-> Whole(Blank)]
    /\ lost = [c \in Consumers |-> 0]
    /\ delivered = [c \in Consumers |-> <<>>]
    /\ abandoned = {}

-----------------------------------------------------------------------------
(* The decisions of the code, each preceded by the forms that a bug would    *)
(* give it.                                                                  *)

\* (slot << 1) | 1
WritingMark(slot) == 2 * slot + 1

NextMark(slot) == 2 * slot + 2
\* slot << 1
DoneMark(slot) == 2 * slot

\* s1 == (tail << 1): the cell holds the very slot the consumer waits for.
Ready(c) == cellseq[CellOf(tail[c])] = DoneMark(tail[c])

Trusted(c) == TRUE
StillWriting(c) == cellseq[CellOf(tail[c])] = WritingMark(tail[c])
\* seqlock::verify(e.seq, s1), with s1 == (tail << 1).
StillReady(c) == cellseq[CellOf(tail[c])] = DoneMark(tail[c])

BehindSwapped(c, h) == (tail[c] - h) % WordSize
\* h - tail
Behind(c, h) == (h - tail[c]) % WordSize

LapPlusOne(h) == (h - Cap + 1) % WordSize
\* h - Cap: the oldest slot that a lapped consumer can still read.
OldestKept(h) == (h - Cap) % WordSize

-----------------------------------------------------------------------------
(* publish *)

\* No publish in progress is a lap old.  Nothing in the code sees to that; without
\* MayStall it is assumed: a lap is the 4096 trades of TRADE_RING_CAP.
NobodyLapped ==
    \A p \in Producers : ppc[p] \in {"begin", "store"} => head < pslot[p] + Cap

\* slot = head.fetch_add(1)
TakeSlot(p) ==
    /\ ppc[p] = "idle" /\ head < MaxSlots
    /\ MayStall \/ NobodyLapped
    /\ pslot' = [pslot EXCEPT ![p] = head]
    /\ head' = head + 1
    /\ ppc' = [ppc EXCEPT ![p] = "begin"]
    /\ UNCHANGED <<cellseq, cell, ptodo, clocals, deaths, abandoned>>

\* seqlock::begin(e.seq, (slot << 1) | 1)
BeginCell(p) ==
    /\ ppc[p] = "begin"
    /\ cellseq' = [cellseq EXCEPT ![CellOf(pslot[p])] = WritingMark(pslot[p])]
    /\ ptodo' = [ptodo EXCEPT ![p] = Words]
    /\ ppc' = [ppc EXCEPT ![p] = "store"]
    /\ UNCHANGED <<head, cell, pslot, clocals, deaths, abandoned>>

\* One word of e.p = pl, any that is left.
StoreWord(p, w) ==
    /\ ppc[p] = "store" /\ w \in ptodo[p]
    /\ cell' = [cell EXCEPT ![CellOf(pslot[p])] = [@ EXCEPT ![w] = pslot[p]]]
    /\ ptodo' = [ptodo EXCEPT ![p] = @ \ {w}]
    /\ UNCHANGED <<head, cellseq, ppc, pslot, clocals, deaths, abandoned>>

\* seqlock::end(e.seq, slot << 1)
EndCell(p) ==
    /\ ppc[p] = "store" /\ ptodo[p] = {}
    /\ cellseq' = [cellseq EXCEPT ![CellOf(pslot[p])] = DoneMark(pslot[p])]
    /\ ppc' = [ppc EXCEPT ![p] = "idle"]
    /\ UNCHANGED <<head, cell, pslot, ptodo, clocals, deaths, abandoned>>

\* The producer process ends: after its last trade or killed inside publish.
Die(p) ==
    /\ ppc[p] # "down" /\ deaths < MaxDeaths
    /\ ppc' = [ppc EXCEPT ![p] = "down"]
    /\ deaths' = deaths + 1
    /\ abandoned' = IF ppc[p] = "idle" THEN abandoned ELSE abandoned \cup {pslot[p]}
    /\ UNCHANGED <<segment, pslot, ptodo, clocals>>

\* ShmSegment::open with create = false: the ring goes on where it was left.
Attach(p) ==
    /\ "attach" \in Restarts /\ ppc[p] = "down"
    /\ ppc' = [ppc EXCEPT ![p] = "idle"]
    /\ UNCHANGED <<segment, pslot, ptodo, clocals, deaths, abandoned>>

\* ShmSegment::open with create = true: the ring is zeroed under the consumers.
Recreate(p) ==
    /\ "create" \in Restarts /\ ppc[p] = "down"
    /\ ppc' = [ppc EXCEPT ![p] = "idle"]
    /\ head' = 0
    /\ cellseq' = [i \in Cells |-> 0]
    /\ cell' = [i \in Cells |-> Whole(Blank)]
    /\ abandoned' = {}
    /\ UNCHANGED <<pslot, ptodo, clocals, deaths>>

-----------------------------------------------------------------------------
(* drain *)

\* h = head; a consumer more than a lap behind jumps to the oldest kept slot
\* and the difference is returned as lost.
StartDrain(c) ==
    /\ cpc[c] = "idle"
    /\ ch' = [ch EXCEPT ![c] = head]
    /\ cpc' = [cpc EXCEPT ![c] = "scan"]
    /\ \/ /\ Behind(c, head) > Cap
          /\ lost' = [lost EXCEPT ![c] = @ + Behind(c, head) - Cap]
          /\ tail' = [tail EXCEPT ![c] = OldestKept(head)]
       \/ /\ Behind(c, head) <= Cap
          /\ UNCHANGED <<lost, tail>>
    /\ UNCHANGED <<segment, plocals, ctodo, cout, delivered, deaths, abandoned>>

\* The for loop is over: tail reached h, or the cell at tail is not ready.
StopDrain(c) ==
    /\ cpc[c] = "scan"
    /\ tail[c] >= ch[c] \/ ~Ready(c)
    /\ cpc' = [cpc EXCEPT ![c] = "idle"]
    /\ UNCHANGED <<segment, plocals, tail, ch, ctodo, cout, lost, delivered,
                   deaths, abandoned>>

\* s1 = seqlock::snapshot(e.seq) is the number of slot tail.
SnapshotCell(c) ==
    /\ cpc[c] = "scan" /\ tail[c] < ch[c] /\ Ready(c)
    /\ ctodo' = [ctodo EXCEPT ![c] = Words]
    /\ cpc' = [cpc EXCEPT ![c] = "copy"]
    /\ UNCHANGED <<segment, plocals, tail, ch, cout, lost, delivered, deaths, abandoned>>

\* One word of pl = e.p, any that is left.
CopyWord(c, w) ==
    /\ cpc[c] = "copy" /\ w \in ctodo[c]
    /\ cout' = [cout EXCEPT ![c] = [@ EXCEPT ![w] = cell[CellOf(tail[c])][w]]]
    /\ ctodo' = [ctodo EXCEPT ![c] = @ \ {w}]
    /\ UNCHANGED <<segment, plocals, tail, cpc, ch, lost, delivered, deaths, abandoned>>

\* verify holds: fn(pl) and on to the next slot.
Deliver(c) ==
    /\ cpc[c] = "copy" /\ ctodo[c] = {} /\ StillReady(c)
    /\ delivered' = [delivered EXCEPT ![c] = Append(@, [slot |-> tail[c], words |-> cout[c]])]
    /\ tail' = [tail EXCEPT ![c] = @ + 1]
    /\ cpc' = [cpc EXCEPT ![c] = "scan"]
    /\ UNCHANGED <<segment, plocals, ch, ctodo, cout, lost, deaths, abandoned>>

\* verify fails: the cell was overwritten during the copy, break.
Discard(c) ==
    /\ cpc[c] = "copy" /\ ctodo[c] = {} /\ ~StillReady(c)
    /\ cpc' = [cpc EXCEPT ![c] = "idle"]
    /\ UNCHANGED <<segment, plocals, tail, ch, ctodo, cout, lost, delivered,
                   deaths, abandoned>>

-----------------------------------------------------------------------------

ProducerStep(p) ==
    \/ BeginCell(p) \/ EndCell(p)
    \/ \E w \in Words : StoreWord(p, w)

ConsumerStep(c) ==
    \/ StartDrain(c) \/ StopDrain(c) \/ SnapshotCell(c) \/ Deliver(c) \/ Discard(c)
    \/ \E w \in Words : CopyWord(c, w)

Next ==
    \/ \E p \in Producers : TakeSlot(p) \/ ProducerStep(p)
                            \/ Die(p) \/ Attach(p) \/ Recreate(p)
    \/ \E c \in Consumers : ConsumerStep(c)

Spec == Init /\ [][Next]_vars

\* A publish that has begun goes on, and a consumer calls drain again and again;
\* nothing forces a producer to publish, to be killed or to come back.
FairSpec ==
    /\ Spec
    /\ \A p \in Producers : WF_vars(ProducerStep(p))
    /\ \A c \in Consumers : WF_vars(ConsumerStep(c))

-----------------------------------------------------------------------------
(* Properties *)

\* What a cell or a copy of one may hold, and a copy handed to a consumer.
Copies == [Words -> Slots \cup {Blank}]
Deliveries == [slot : Slots, words : Copies]

\* Every variable has its type; in particular the losses that drain returns are
\* numbers of trades, never the result of an unsigned subtraction gone wrong.
TypeOK ==
    /\ head \in 0 .. MaxSlots
    /\ cellseq \in [Cells -> 0 .. 2 * MaxSlots]
    /\ cell \in [Cells -> Copies]
    /\ ppc \in [Producers -> {"idle", "begin", "store", "down"}]
    /\ pslot \in [Producers -> Slots \cup {0}]
    /\ ptodo \in [Producers -> SUBSET Words]
    /\ deaths \in 0 .. MaxDeaths
    /\ tail \in [Consumers -> 0 .. MaxSlots]
    /\ cpc \in [Consumers -> {"idle", "scan", "copy"}]
    /\ ch \in [Consumers -> 0 .. MaxSlots]
    /\ ctodo \in [Consumers -> SUBSET Words]
    /\ cout \in [Consumers -> Copies]
    /\ lost \in [Consumers -> 0 .. MaxSlots]
    /\ delivered \in [Consumers -> Seq(Deliveries)]
    /\ abandoned \subseteq Slots

\* From slot 1 on, what drain hands to the consumer for a slot is the trade that
\* was published in that slot, whole: not blank, not torn, not of another lap.
DeliveredIsPublished ==
    \A c \in Consumers : \A i \in DOMAIN delivered[c] :
        LET d == delivered[c][i] IN d.slot > 0 => d.words = Whole(d.slot)

\* The same for slot 0.  event.h:87 says that a slot not yet written makes drain
\* wait, and event.h:50 that seq 0 means never written.
FirstIsPublished ==
    \A c \in Consumers : \A i \in DOMAIN delivered[c] :
        LET d == delivered[c][i] IN d.slot = 0 => d.words = Whole(d.slot)

\* The slots a consumer has gone past are those delivered to it, each once and
\* in order, and those that drain reported lost: none is skipped in silence.
LossIsReported ==
    \A c \in Consumers :
        /\ Len(delivered[c]) + lost[c] = tail[c]
        /\ \A i \in 1 .. Len(delivered[c]) - 1 :
               delivered[c][i].slot < delivered[c][i + 1].slot

\* A consumer is made to skip a trade only when a trade one lap later has
\* already taken its cell.
OnlyLappedIsLost ==
    \A c \in Consumers : \A s \in 0 .. tail[c] - 1 :
        (\A i \in DOMAIN delivered[c] : delivered[c][i].slot # s) => s + Cap < head

\* The slots that count as published: those taken and left, and slot 0.
Finished == {0} \cup {s \in 0 .. head - 1 :
    s \notin abandoned /\ \A p \in Producers : ppc[p] \in {"begin", "store"} => pslot[p] # s}

\* What consumer c was given; for slot 0 that may be blank, see FirstIsPublished.
Given(c) == [i \in DOMAIN delivered[c] |->
    IF delivered[c][i].slot = 0 THEN Whole(0) ELSE delivered[c][i].words]

AbstractLog == INSTANCE BroadcastLog WITH
    Lap <- Cap, size <- head, finished <- Finished, cursor <- tail,
    heard <- [c \in Consumers |-> Given(c)], missed <- lost

\* The ring implements a log that every consumer reads in order: slot by slot it
\* is given the trade published there, when it was finished, and jumps only a lap
\* behind head, over exactly as many trades as drain says (slot 0's words aside).
ImplementsBroadcastLog == AbstractLog!Spec

\* With no publish in progress the ring holds its last lap: each of the last Cap
\* slots, killed producers' slots aside, is marked done and whole.
RingKeepsLastLap ==
    (\A p \in Producers : ppc[p] \in {"idle", "down"}) =>
        \A s \in Slots \ abandoned :
            head - Cap <= s /\ s < head =>
                cellseq[s % Cap] = 2 * s /\ cell[s % Cap] = Whole(s)

\* A consumer that keeps draining ends up at head, or it waits at a slot whose
\* producer was killed: a slow, lapped or unlucky consumer never hangs.
CatchesUp ==
    \A c \in Consumers : <>[](tail[c] = head \/ tail[c] \in abandoned)
=============================================================================
