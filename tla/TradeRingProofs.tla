-------------------------- MODULE TradeRingProofs --------------------------
(***************************************************************************)
(* What the trade ring guarantees for any number of producers, consumers,  *)
(* cells and payload words and for any bounds, as long as the segment is   *)
(* not created anew under its consumers: NoRecreate.  What the words of a  *)
(* trade are also needs NoStall: no publish lasts a whole lap.             *)
(***************************************************************************)
EXTENDS TradeRing, TLAPS

NoRecreate == "create" \notin Restarts
NoStall == MayStall = FALSE

Active(p) == ppc[p] \in {"begin", "store"}
Unfinished(s) == s \in abandoned \/ \E p \in Producers : Active(p) /\ pslot[p] = s

-----------------------------------------------------------------------------
(* Arithmetic of cells and of 64-bit differences *)

LEMMA CellIsInRing == \A s \in Nat : CellOf(s) \in Cells
BY CapAssumption DEF CellOf, Cells

\* Two slots less than a lap apart have different cells.
LEMMA CellsDiffer ==
    ASSUME NEW a \in Nat, NEW b \in Nat, a < b, b < a + Cap
    PROVE  CellOf(a) # CellOf(b)
<1> DEFINE laps == (b \div Cap) - (a \div Cap)
<1> USE CapAssumption
<1>1. SUFFICES ASSUME a % Cap = b % Cap PROVE FALSE
  BY DEF CellOf
<1>2. a = Cap * (a \div Cap) + (a % Cap) /\ b = Cap * (b \div Cap) + (b % Cap)
  OBVIOUS
<1>3. a \div Cap \in Int /\ b \div Cap \in Int /\ a % Cap \in Int /\ b % Cap \in Int
  OBVIOUS
<1>4. laps \in Int /\ b - a = Cap * laps
  BY <1>1, <1>2, <1>3
<1> HIDE DEF laps
<1>5. CASE laps <= 0
  <2>1. Cap * laps <= 0
    BY <1>4, <1>5
  <2> QED
    BY <1>4, <2>1
<1>6. CASE laps >= 1
  <2>1. Cap * laps >= Cap
    BY <1>4, <1>6
  <2> QED
    BY <1>4, <2>1
<1> QED
  BY <1>4, <1>5, <1>6

\* A difference that is not negative does not wrap.
LEMMA NoWrap == ASSUME NEW n \in 0 .. MaxSlots PROVE n % WordSize = n
<1>1. n \in Nat /\ WordSize \in Nat \ {0} /\ n < WordSize
  BY BoundsAssumption, CapAssumption, WordAssumption
<1> QED
  BY <1>1

-----------------------------------------------------------------------------
(* The invariant *)

\* Slots of publishes in progress, and those abandoned, were handed out.
SlotsTaken ==
    /\ \A p \in Producers : Active(p) => pslot[p] < head
    /\ \A s \in abandoned : s < head

\* A consumer is never ahead of the h it read, nor that of head; what it was
\* given lies behind it, in order, and makes up for all but the reported losses.
CursorInv == \A c \in Consumers :
    /\ tail[c] <= head /\ ch[c] <= head
    /\ cpc[c] = "copy" => tail[c] < ch[c]
    /\ \A i \in DOMAIN delivered[c] : delivered[c][i].slot < tail[c]

CountInv == TypeOK /\ SlotsTaken /\ CursorInv /\ LossIsReported

\* Every slot is published by one producer, within a lap.
OwnersInv ==
    /\ \A p \in Producers : Active(p) => pslot[p] \notin abandoned /\ head <= pslot[p] + Cap
    /\ \A p, q \in Producers : Active(p) /\ Active(q) /\ p # q => pslot[p] # pslot[q]

\* No cell has the mark of a trade that is still to come, or that is not finished.
MarksInv ==
    /\ \A i \in Cells : cellseq[i] = 0 \/ cellseq[i] < 2 * head
    /\ \A s \in Slots \ {0} : Unfinished(s) => \A i \in Cells : cellseq[i] # 2 * s

\* A cell that is being stored into says so, and the words stored are its slot's.
StoreInv == \A p \in Producers : ppc[p] = "store" =>
    /\ cellseq[CellOf(pslot[p])] = WritingMark(pslot[p])
    /\ \A w \in Words \ ptodo[p] : cell[CellOf(pslot[p])][w] = pslot[p]

\* A cell marked done is whole.
DoneInv == \A i \in Cells, s \in Slots \ {0} : cellseq[i] = DoneMark(s) => cell[i] = Whole(s)

\* Every finished slot of the last lap is in its cell.
KeptInv == \A s \in 0 .. head - 1 : ~Unfinished(s) /\ head <= s + Cap =>
    cellseq[CellOf(s)] = DoneMark(s) /\ cell[CellOf(s)] = Whole(s)

\* What a consumer copies was finished, so the cell cannot get its mark again: as
\* long as the mark is there, the words copied so far are its slot's.
CopyInv == \A c \in Consumers : cpc[c] = "copy" /\ tail[c] > 0 =>
    /\ ~Unfinished(tail[c])
    /\ cellseq[CellOf(tail[c])] = DoneMark(tail[c]) =>
           \A w \in Words \ ctodo[c] : cout[c][w] = tail[c]

WordsInv == OwnersInv /\ MarksInv /\ StoreInv /\ DoneInv /\ KeptInv /\ CopyInv

-----------------------------------------------------------------------------
(* Types, cursors and losses: no assumption on how long a publish lasts. *)

LEMMA InitCountInv == Init => CountInv
<1> SUFFICES ASSUME Init PROVE CountInv
  OBVIOUS
<1> USE BoundsAssumption DEF Init
<1>1. TypeOK
  BY DEF TypeOK, Slots, Copies, Deliveries, Whole
<1>2. SlotsTaken
  BY DEF SlotsTaken, Active
<1>3. CursorInv
  BY DEF CursorInv
<1>4. LossIsReported
  BY DEF LossIsReported
<1> QED
  BY <1>1, <1>2, <1>3, <1>4 DEF CountInv

\* What the two unsigned subtractions of drain come to.
LEMMA Differences ==
    ASSUME CountInv, NEW c \in Consumers
    PROVE  /\ Behind(c, head) = head - tail[c]
           /\ Behind(c, head) > Cap => OldestKept(head) = head - Cap
<1> USE CapAssumption, BoundsAssumption DEF CountInv, TypeOK, CursorInv
<1>1. head - tail[c] \in 0 .. MaxSlots
  OBVIOUS
<1>2. Behind(c, head) = head - tail[c]
  BY <1>1, NoWrap DEF Behind
<1>3. ASSUME Behind(c, head) > Cap PROVE OldestKept(head) = head - Cap
  <2>1. head - Cap \in 0 .. MaxSlots
    BY <1>2, <1>3
  <2> QED
    BY <2>1, NoWrap DEF OldestKept
<1> QED
  BY <1>2, <1>3

LEMMA TakenSlot ==
    ASSUME CountInv, NEW p \in Producers, Active(p)
    PROVE  pslot[p] \in Slots /\ pslot[p] < head
<1>1. pslot[p] \in Slots \cup {0} /\ head \in 0 .. MaxSlots
  BY DEF CountInv, TypeOK
<1>2. pslot[p] < head
  BY DEF CountInv, SlotsTaken
<1> QED
  BY <1>1, <1>2, BoundsAssumption DEF Slots

\* The numbers of a consumer.
LEMMA CursorTypes ==
    ASSUME CountInv, NEW c \in Consumers
    PROVE  /\ head \in Nat /\ tail[c] \in Nat /\ ch[c] \in Nat /\ lost[c] \in Nat
           /\ delivered[c] \in Seq(Deliveries) /\ Len(delivered[c]) \in Nat
           /\ DOMAIN delivered[c] = 1 .. Len(delivered[c])
           /\ \A i \in DOMAIN delivered[c] : delivered[c][i].slot \in Nat
<1>1. /\ head \in Nat /\ tail[c] \in Nat /\ ch[c] \in Nat /\ lost[c] \in Nat
      /\ delivered[c] \in Seq(Deliveries)
  BY DEF CountInv, TypeOK
<1>2. /\ Len(delivered[c]) \in Nat /\ DOMAIN delivered[c] = 1 .. Len(delivered[c])
      /\ \A i \in DOMAIN delivered[c] : delivered[c][i] \in Deliveries
  BY <1>1
<1>3. \A d \in Deliveries : d.slot \in Nat
  BY DEF Deliveries, Slots
<1> QED
  BY <1>1, <1>2, <1>3

\* A slot that drain is at was taken.
LEMMA CursorBehind ==
    ASSUME CountInv, NEW c \in Consumers, tail[c] < ch[c]
    PROVE  tail[c] \in Slots /\ tail[c] < head
<1>1. tail[c] \in Nat /\ ch[c] \in Nat /\ head \in 0 .. MaxSlots /\ ch[c] <= head
  BY CursorTypes DEF CountInv, CursorInv, TypeOK
<1> QED
  BY <1>1, BoundsAssumption DEF Slots

LEMMA NextTypeOK ==
    ASSUME NoRecreate, CountInv, [Next]_vars
    PROVE  TypeOK'
<1> USE BoundsAssumption DEF CountInv, TypeOK, segment, plocals, clocals
<1>1. ASSUME NEW p \in Producers, TakeSlot(p) PROVE TypeOK'
  <2>1. head \in Slots /\ head + 1 \in 0 .. MaxSlots
    BY <1>1 DEF TakeSlot, Slots
  <2> QED
    BY <1>1, <2>1 DEF TakeSlot
<1>2. ASSUME NEW p \in Producers, BeginCell(p) PROVE TypeOK'
  <2>1. WritingMark(pslot[p]) \in 0 .. 2 * MaxSlots
    BY <1>2, TakenSlot DEF BeginCell, WritingMark, Active, Slots
  <2> QED
    BY <1>2, <2>1 DEF BeginCell
<1>3. ASSUME NEW p \in Producers, NEW w \in Words, StoreWord(p, w) PROVE TypeOK'
  <2>1. pslot[p] \in Slots
    BY <1>3, TakenSlot DEF StoreWord, Active
  <2> QED
    BY <1>3, <2>1 DEF StoreWord, Copies
<1>4. ASSUME NEW p \in Producers, EndCell(p) PROVE TypeOK'
  <2>1. DoneMark(pslot[p]) \in 0 .. 2 * MaxSlots
    BY <1>4, TakenSlot DEF EndCell, DoneMark, Active, Slots
  <2> QED
    BY <1>4, <2>1 DEF EndCell
<1>5. ASSUME NEW p \in Producers, Die(p) PROVE TypeOK'
  <2>1. ppc[p] # "idle" => pslot[p] \in Slots
    BY <1>5, TakenSlot DEF Die, Active
  <2> QED
    BY <1>5, <2>1 DEF Die
<1>6. ASSUME NEW p \in Producers, Attach(p) PROVE TypeOK'
  BY <1>6 DEF Attach
<1>7. ASSUME NEW p \in Producers, Recreate(p) PROVE TypeOK'
  BY <1>7 DEF Recreate, NoRecreate
<1>8. ASSUME NEW c \in Consumers, StartDrain(c) PROVE TypeOK'
  <2>1. CASE Behind(c, head) > Cap
    <3>1. head - Cap \in 0 .. MaxSlots
      BY <2>1, Differences, CapAssumption DEF CursorInv
    <3>2. lost[c] + Behind(c, head) - Cap \in 0 .. MaxSlots
      <4>1. Len(delivered[c]) \in Nat /\ Len(delivered[c]) + lost[c] = tail[c]
        BY DEF LossIsReported
      <4> QED
        BY <2>1, <3>1, <4>1, Differences, CapAssumption
    <3> QED
      <4>1. /\ tail' = [tail EXCEPT ![c] = head - Cap]
            /\ lost' = [lost EXCEPT ![c] = lost[c] + Behind(c, head) - Cap]
        BY <1>8, <2>1, Differences, CursorTypes, CapAssumption DEF StartDrain
      <4> QED
        BY <1>8, <3>1, <3>2, <4>1 DEF StartDrain
  <2>2. CASE ~(Behind(c, head) > Cap)
    <3>1. UNCHANGED <<lost, tail>>
      BY <1>8, <2>2, Differences, CapAssumption DEF StartDrain
    <3> QED
      BY <1>8, <3>1 DEF StartDrain
  <2> QED
    BY <2>1, <2>2
<1>9. ASSUME NEW c \in Consumers, StopDrain(c) PROVE TypeOK'
  BY <1>9 DEF StopDrain
<1>10. ASSUME NEW c \in Consumers, SnapshotCell(c) PROVE TypeOK'
  BY <1>10 DEF SnapshotCell
<1>11. ASSUME NEW c \in Consumers, NEW w \in Words, CopyWord(c, w) PROVE TypeOK'
  <2>1. cell[CellOf(tail[c])] \in Copies
    BY CellIsInRing
  <2> QED
    BY <1>11, <2>1 DEF CopyWord, Copies
<1>12. ASSUME NEW c \in Consumers, Deliver(c) PROVE TypeOK'
  <2>1. tail[c] \in Slots /\ tail[c] + 1 \in 0 .. MaxSlots
    BY <1>12 DEF Deliver, CursorInv, Slots
  <2>2. [slot |-> tail[c], words |-> cout[c]] \in Deliveries
    BY <2>1 DEF Deliveries
  <2>3. Append(delivered[c], [slot |-> tail[c], words |-> cout[c]]) \in Seq(Deliveries)
    BY <2>2
  <2> QED
    BY <1>12, <2>1, <2>3 DEF Deliver
<1>13. ASSUME NEW c \in Consumers, Discard(c) PROVE TypeOK'
  BY <1>13 DEF Discard
<1>14. CASE UNCHANGED vars
  BY <1>14 DEF vars
<1> QED
  BY <1>1, <1>2, <1>3, <1>4, <1>5, <1>6, <1>7, <1>8, <1>9, <1>10, <1>11, <1>12,
     <1>13, <1>14 DEF Next, ProducerStep, ConsumerStep

LEMMA NextSlotsTaken ==
    ASSUME NoRecreate, CountInv, [Next]_vars
    PROVE  SlotsTaken'
<1>0. head \in Nat /\ ppc \in [Producers -> {"idle", "begin", "store", "down"}]
      /\ pslot \in [Producers -> Slots \cup {0}] /\ \A s \in Slots \cup {0} : s \in Nat
  BY DEF CountInv, TypeOK, Slots
<1>a. \A s \in abandoned : s \in Nat
  BY DEF CountInv, TypeOK, Slots
<1>b. SlotsTaken
  BY DEF CountInv
<1> USE <1>0, <1>a, <1>b DEF SlotsTaken, Active, segment, plocals
<1>1. ASSUME NEW p \in Producers, TakeSlot(p) PROVE SlotsTaken'
  BY <1>1 DEF TakeSlot
<1>2. ASSUME NEW p \in Producers, ProducerStep(p) PROVE SlotsTaken'
  BY <1>2 DEF ProducerStep, BeginCell, EndCell, StoreWord
<1>3. ASSUME NEW p \in Producers, Die(p) PROVE SlotsTaken'
  BY <1>3 DEF Die
<1>4. ASSUME NEW p \in Producers, Attach(p) PROVE SlotsTaken'
  BY <1>4 DEF Attach
<1>5. ASSUME NEW p \in Producers, Recreate(p) PROVE SlotsTaken'
  BY <1>5 DEF Recreate, NoRecreate
<1>6. ASSUME NEW c \in Consumers, ConsumerStep(c) PROVE SlotsTaken'
  BY <1>6 DEF ConsumerStep, StartDrain, StopDrain, SnapshotCell, CopyWord, Deliver, Discard
<1>7. CASE UNCHANGED vars
  BY <1>7 DEF vars
<1> QED
  BY <1>1, <1>2, <1>3, <1>4, <1>5, <1>6, <1>7 DEF Next

\* Only the start of a drain and a delivery move a cursor.
LEMMA NextCursors ==
    ASSUME NoRecreate, CountInv, [Next]_vars
    PROVE  CursorInv' /\ LossIsReported'
<1> DEFINE Cursor(c) ==
        /\ tail[c] <= head /\ ch[c] <= head
        /\ cpc[c] = "copy" => tail[c] < ch[c]
        /\ \A i \in DOMAIN delivered[c] : delivered[c][i].slot < tail[c]
        /\ Len(delivered[c]) + lost[c] = tail[c]
        /\ \A i \in 1 .. Len(delivered[c]) - 1 : delivered[c][i].slot < delivered[c][i + 1].slot
<1>0. \A c \in Consumers : Cursor(c)
  BY DEF CountInv, CursorInv, LossIsReported
<1>1. SUFFICES ASSUME NEW c \in Consumers PROVE Cursor(c)'
  BY DEF CursorInv, LossIsReported
<1>2. Cursor(c) /\ head \in Nat /\ tail[c] \in Nat /\ ch[c] \in Nat /\ lost[c] \in Nat
  BY <1>0, CursorTypes
<1>3. /\ tail \in [Consumers -> 0 .. MaxSlots] /\ ch \in [Consumers -> 0 .. MaxSlots]
      /\ cpc \in [Consumers -> {"idle", "scan", "copy"}] /\ lost \in [Consumers -> 0 .. MaxSlots]
      /\ delivered \in [Consumers -> Seq(Deliveries)]
  BY DEF CountInv, TypeOK
<1>4. ASSUME head' \in Nat, head' >= head, UNCHANGED <<tail[c], ch[c], lost[c], delivered[c]>>,
             cpc'[c] = "copy" => tail[c] < ch[c]
      PROVE  Cursor(c)'
  BY <1>2, <1>4
<1>5. ASSUME NEW p \in Producers, TakeSlot(p) \/ ProducerStep(p) \/ Die(p) \/ Attach(p)
      PROVE  Cursor(c)'
  <2>1. (head' = head \/ head' = head + 1) /\ UNCHANGED clocals
    BY <1>5 DEF TakeSlot, ProducerStep, BeginCell, EndCell, StoreWord, Die, Attach, segment
  <2> QED
    BY <1>2, <1>4, <2>1 DEF clocals
<1>6. ASSUME NEW p \in Producers, Recreate(p) PROVE Cursor(c)'
  BY <1>6 DEF Recreate, NoRecreate
<1>7. ASSUME NEW d \in Consumers \ {c}, ConsumerStep(d) PROVE Cursor(c)'
  <2>1. head' = head /\ UNCHANGED <<tail[c], ch[c], lost[c], delivered[c], cpc[c]>>
    BY <1>3, <1>7 DEF ConsumerStep, StartDrain, StopDrain, SnapshotCell, CopyWord, Deliver,
                      Discard, segment
  <2> QED
    BY <1>2, <1>4, <2>1
<1>8. ASSUME StopDrain(c) \/ SnapshotCell(c) \/ Discard(c) \/ \E w \in Words : CopyWord(c, w)
      PROVE  Cursor(c)'
  <2>1. /\ head' = head /\ UNCHANGED <<tail[c], ch[c], lost[c], delivered[c]>>
        /\ cpc'[c] = "copy" => tail[c] < ch[c]
    BY <1>2, <1>3, <1>8 DEF StopDrain, SnapshotCell, Discard, CopyWord, segment
  <2> QED
    BY <1>2, <1>4, <2>1
<1>9. ASSUME StartDrain(c) PROVE Cursor(c)'
  <2>1. /\ UNCHANGED <<delivered, head>> /\ ch'[c] = head /\ cpc'[c] = "scan"
        /\ \/ tail'[c] = head - Cap /\ head - tail[c] > Cap
              /\ lost'[c] = lost[c] + (head - tail[c]) - Cap
           \/ UNCHANGED <<tail[c], lost[c]>>
    BY <1>3, <1>9, Differences DEF StartDrain, segment
  <2>2. /\ DOMAIN delivered[c] = 1 .. Len(delivered[c]) /\ Len(delivered[c]) \in Nat
        /\ \A i \in DOMAIN delivered[c] : delivered[c][i].slot \in Nat
    BY CursorTypes
  <2>3. tail'[c] \in Nat /\ tail'[c] >= tail[c] /\ tail'[c] <= head
        /\ Len(delivered[c]) + lost'[c] = tail'[c]
    BY <1>2, <2>1, <2>2, CapAssumption
  <2>4. \A i \in DOMAIN delivered[c] : delivered[c][i].slot < tail'[c]
    BY <1>2, <2>2, <2>3
  <2> QED
    BY <1>2, <2>1, <2>3, <2>4
<1>10. ASSUME Deliver(c) PROVE Cursor(c)'
  <2> DEFINE copy == [slot |-> tail[c], words |-> cout[c]]
  <2>1. /\ head' = head /\ ch'[c] = ch[c] /\ lost'[c] = lost[c] /\ cpc'[c] = "scan"
        /\ tail'[c] = tail[c] + 1 /\ delivered'[c] = Append(delivered[c], copy)
    BY <1>3, <1>10 DEF Deliver, segment
  <2>2. tail[c] < ch[c]
    BY <1>2, <1>10 DEF Deliver
  <2>3. copy.slot = tail[c]
    OBVIOUS
  <2> HIDE DEF copy
  <2>4. delivered[c] \in Seq(Deliveries) /\ Len(delivered[c]) \in Nat
        /\ \A i \in DOMAIN delivered[c] : delivered[c][i].slot \in Nat
    BY CursorTypes
  <2>5. /\ Len(delivered'[c]) = Len(delivered[c]) + 1
        /\ \A i \in 1 .. Len(delivered[c]) : delivered'[c][i] = delivered[c][i]
        /\ delivered'[c][Len(delivered[c]) + 1] = copy
        /\ DOMAIN delivered'[c] = 1 .. Len(delivered[c]) + 1
        /\ DOMAIN delivered[c] = 1 .. Len(delivered[c])
    BY <2>1, <2>4
  <2>6. \A i \in DOMAIN delivered'[c] : delivered'[c][i].slot < tail'[c]
    BY <1>2, <2>1, <2>3, <2>4, <2>5
  <2>7. \A i \in 1 .. Len(delivered'[c]) - 1 : delivered'[c][i].slot < delivered'[c][i + 1].slot
    <3>1. SUFFICES ASSUME NEW i \in 1 .. Len(delivered[c])
                   PROVE  delivered'[c][i].slot < delivered'[c][i + 1].slot
      BY <2>4, <2>5
    <3>2. delivered'[c][i] = delivered[c][i] /\ delivered[c][i].slot < tail[c]
      BY <1>2, <2>5
    <3>3. CASE i = Len(delivered[c])
      BY <2>3, <2>5, <3>2, <3>3
    <3>4. CASE i # Len(delivered[c])
      <4>1. i \in 1 .. Len(delivered[c]) - 1 /\ i + 1 \in 1 .. Len(delivered[c])
        BY <2>4, <3>4
      <4> QED
        BY <1>2, <2>5, <3>2, <4>1
    <3> QED
      BY <3>3, <3>4
  <2>8. Len(delivered'[c]) + lost'[c] = tail'[c] /\ tail'[c] <= head' /\ ch'[c] <= head'
    BY <1>2, <2>1, <2>2, <2>4, <2>5
  <2> QED
    BY <2>1, <2>6, <2>7, <2>8
<1>11. CASE UNCHANGED vars
  BY <1>2, <1>4, <1>11 DEF vars, segment, clocals
<1> QED
  BY <1>5, <1>6, <1>7, <1>8, <1>9, <1>10, <1>11 DEF Next, ConsumerStep

LEMMA NextCountInv == ASSUME NoRecreate, CountInv, [Next]_vars PROVE CountInv'
BY NextTypeOK, NextSlotsTaken, NextCursors DEF CountInv

\* Every reachable state of the ring is well typed: no mark and no loss is ever
\* the result of an unsigned subtraction that went below 0.
THEOREM TypeCorrect == ASSUME NoRecreate PROVE Spec => []TypeOK
<1>1. CountInv => TypeOK
  BY DEF CountInv
<1> QED
  BY <1>1, InitCountInv, NextCountInv, PTL DEF Spec

\* What a consumer was given and what it was told it lost make up all the slots
\* it has gone past, even if producers stall, are killed and attach again.
THEOREM LossesAreExact == ASSUME NoRecreate PROVE Spec => []LossIsReported
<1>1. CountInv => LossIsReported
  BY DEF CountInv
<1> QED
  BY <1>1, InitCountInv, NextCountInv, PTL DEF Spec

-----------------------------------------------------------------------------
(* The words of a trade, when no publish lasts a whole lap *)

LEMMA RingTypes ==
    ASSUME CountInv
    PROVE  /\ head \in Nat /\ cellseq \in [Cells -> Nat] /\ cell \in [Cells -> Copies]
           /\ ppc \in [Producers -> {"idle", "begin", "store", "down"}]
           /\ pslot \in [Producers -> Nat] /\ ptodo \in [Producers -> SUBSET Words]
           /\ cpc \in [Consumers -> {"idle", "scan", "copy"}] /\ tail \in [Consumers -> Nat]
           /\ ctodo \in [Consumers -> SUBSET Words] /\ cout \in [Consumers -> Copies]
           /\ \A p \in Producers : Active(p) => pslot[p] < head /\ pslot[p] \in Slots
           /\ \A i \in abandoned : i \in Nat /\ i < head
<1>1. /\ head \in Nat /\ cellseq \in [Cells -> 0 .. 2 * MaxSlots] /\ cell \in [Cells -> Copies]
      /\ ppc \in [Producers -> {"idle", "begin", "store", "down"}]
      /\ pslot \in [Producers -> Slots \cup {0}] /\ ptodo \in [Producers -> SUBSET Words]
      /\ cpc \in [Consumers -> {"idle", "scan", "copy"}] /\ tail \in [Consumers -> 0 .. MaxSlots]
      /\ ctodo \in [Consumers -> SUBSET Words] /\ cout \in [Consumers -> Copies]
      /\ abandoned \subseteq Slots /\ \A i \in abandoned : i < head
  BY DEF CountInv, TypeOK, SlotsTaken
<1>2. \A i \in Slots \cup {0} : i \in Nat
  BY DEF Slots
<1>3. cellseq \in [Cells -> Nat] /\ tail \in [Consumers -> Nat] /\ pslot \in [Producers -> Nat]
  BY <1>1, <1>2
<1> QED
  BY <1>1, <1>2, <1>3, TakenSlot

\* A slot of the last lap and a slot being published do not share a cell.
LEMMA CellsApart ==
    ASSUME CountInv, OwnersInv, NEW p \in Producers, Active(p),
           NEW s \in 0 .. head - 1, head <= s + Cap, s # pslot[p]
    PROVE  CellOf(s) # CellOf(pslot[p])
<1>1. pslot[p] \in Nat /\ s \in Nat /\ head \in Nat /\ pslot[p] < head /\ s < head
      /\ head <= pslot[p] + Cap /\ Cap \in Nat
  BY RingTypes, CapAssumption DEF OwnersInv
<1>2. CASE s < pslot[p]
  BY <1>1, <1>2, CellsDiffer
<1>3. CASE pslot[p] < s
  BY <1>1, <1>3, CellsDiffer
<1> QED
  BY <1>1, <1>2, <1>3

LEMMA OwnersApart ==
    ASSUME CountInv, OwnersInv, NEW p \in Producers, NEW q \in Producers,
           Active(p), Active(q), p # q
    PROVE  CellOf(pslot[p]) # CellOf(pslot[q])
<1>1. pslot[p] \in 0 .. head - 1 /\ head <= pslot[p] + Cap /\ pslot[p] # pslot[q]
  BY RingTypes DEF OwnersInv
<1> QED
  BY <1>1, CellsApart

LEMMA InitWordsInv == Init => WordsInv
<1> SUFFICES ASSUME Init PROVE WordsInv
  OBVIOUS
<1> USE DEF Init, Active, Unfinished
<1>1. OwnersInv /\ MarksInv /\ StoreInv
  BY DEF OwnersInv, MarksInv, StoreInv
<1>2. DoneInv /\ KeptInv /\ CopyInv
  BY DEF DoneInv, KeptInv, CopyInv, DoneMark, Slots
<1> QED
  BY <1>1, <1>2 DEF WordsInv

\* publish
LEMMA TakeSlotKeeps ==
    ASSUME NoStall, CountInv, WordsInv, NEW p \in Producers, TakeSlot(p)
    PROVE  WordsInv'
<1> USE RingTypes, CapAssumption DEF WordsInv, TakeSlot
<1>1. /\ ~Active(p) /\ pslot'[p] = head /\ head' = head + 1
      /\ \A q \in Producers \ {p} : pslot'[q] = pslot[q] /\ ppc'[q] = ppc[q]
      /\ ppc'[p] = "begin" /\ UNCHANGED <<cellseq, cell, ptodo, clocals, abandoned>>
  BY DEF Active
<1>2. \A q \in Producers : Active(q) => head < pslot[q] + Cap
  BY DEF NoStall, NobodyLapped, Active
<1>3. \A s : Unfinished(s)' <=> Unfinished(s) \/ s = head
  BY <1>1 DEF Unfinished, Active
<1>4. OwnersInv'
  BY <1>1, <1>2 DEF OwnersInv, Active
<1>5. MarksInv'
  BY <1>1, <1>3 DEF MarksInv, Slots
<1>6. StoreInv'
  BY <1>1 DEF StoreInv
<1>7. DoneInv'
  BY <1>1 DEF DoneInv
<1>8. KeptInv'
  <2>1. SUFFICES ASSUME NEW s \in 0 .. head, ~Unfinished(s)', head + 1 <= s + Cap
                 PROVE  cellseq[CellOf(s)] = DoneMark(s) /\ cell[CellOf(s)] = Whole(s)
    BY <1>1 DEF KeptInv
  <2>2. s \in 0 .. head - 1 /\ ~Unfinished(s) /\ head <= s + Cap
    BY <1>3, <2>1
  <2> QED
    BY <2>2 DEF KeptInv
<1>9. CopyInv'
  <2>1. \A c \in Consumers : cpc[c] = "copy" => tail[c] # head
    <3>1. \A c \in Consumers : cpc[c] = "copy" => tail[c] < ch[c]
      BY DEF CountInv, CursorInv
    <3> QED
      BY <3>1, CursorBehind
  <2> QED
    BY <1>1, <1>3, <2>1 DEF CopyInv, clocals
<1> QED
  BY <1>4, <1>5, <1>6, <1>7, <1>8, <1>9

LEMMA BeginCellKeeps ==
    ASSUME CountInv, WordsInv, NEW p \in Producers, BeginCell(p)
    PROVE  WordsInv'
<1> DEFINE i == CellOf(pslot[p])
<1> USE RingTypes DEF WordsInv, BeginCell
<1>1. /\ Active(p) /\ Unfinished(pslot[p]) /\ i \in Cells /\ pslot[p] < head
      /\ cellseq'[i] = 2 * pslot[p] + 1 /\ \A j \in Cells \ {i} : cellseq'[j] = cellseq[j]
      /\ ppc'[p] = "store" /\ ptodo'[p] = Words
      /\ \A q \in Producers \ {p} : ppc'[q] = ppc[q] /\ ptodo'[q] = ptodo[q]
      /\ UNCHANGED <<head, cell, pslot, clocals, abandoned>>
  BY CellIsInRing DEF Active, Unfinished, WritingMark
<1>2. \A q \in Producers : Active(q)' <=> Active(q)
  BY <1>1 DEF Active
<1>3. \A s : Unfinished(s)' <=> Unfinished(s)
  BY <1>1, <1>2 DEF Unfinished
<1> HIDE DEF i
<1>4. OwnersInv'
  BY <1>1, <1>2 DEF OwnersInv
<1>5. MarksInv'
  BY <1>1, <1>3 DEF MarksInv, Slots
<1>6. StoreInv'
  <2>1. SUFFICES ASSUME NEW q \in Producers, ppc'[q] = "store"
                 PROVE  /\ cellseq'[CellOf(pslot[q])] = WritingMark(pslot[q])
                        /\ \A w \in Words \ ptodo'[q] : cell[CellOf(pslot[q])][w] = pslot[q]
    BY <1>1 DEF StoreInv
  <2>2. CASE q = p
    BY <1>1, <2>2 DEF WritingMark, i
  <2>3. CASE q # p
    <3>1. ppc[q] = "store" /\ CellOf(pslot[q]) # i /\ CellOf(pslot[q]) \in Cells
      BY <1>1, <2>1, <2>3, OwnersApart, CellIsInRing DEF Active, i
    <3> QED
      BY <1>1, <2>3, <3>1 DEF StoreInv
  <2> QED
    BY <2>2, <2>3
<1>7. DoneInv'
  BY <1>1 DEF DoneInv, DoneMark, Slots
<1>8. KeptInv'
  <2>1. SUFFICES ASSUME NEW s \in 0 .. head - 1, ~Unfinished(s), head <= s + Cap
                 PROVE  cellseq'[CellOf(s)] = DoneMark(s) /\ cell[CellOf(s)] = Whole(s)
    BY <1>1, <1>3 DEF KeptInv
  <2>2. CellOf(s) # i /\ CellOf(s) \in Cells
    BY <1>1, <2>1, CellsApart, CellIsInRing DEF i
  <2> QED
    BY <1>1, <2>1, <2>2 DEF KeptInv
<1>9. CopyInv'
  <2>1. SUFFICES ASSUME NEW c \in Consumers, cpc[c] = "copy", tail[c] > 0
                 PROVE  /\ ~Unfinished(tail[c])
                        /\ cellseq'[CellOf(tail[c])] = DoneMark(tail[c]) =>
                               \A w \in Words \ ctodo[c] : cout[c][w] = tail[c]
    BY <1>1, <1>3 DEF CopyInv, clocals
  <2>2. cellseq'[CellOf(tail[c])] = DoneMark(tail[c]) => cellseq[CellOf(tail[c])] = DoneMark(tail[c])
    BY <1>1, CellIsInRing DEF DoneMark
  <2> QED
    BY <2>1, <2>2 DEF CopyInv
<1> QED
  BY <1>4, <1>5, <1>6, <1>7, <1>8, <1>9

LEMMA StoreWordKeeps ==
    ASSUME CountInv, WordsInv, NEW p \in Producers, NEW w \in Words, StoreWord(p, w)
    PROVE  WordsInv'
<1> DEFINE i == CellOf(pslot[p])
<1> USE RingTypes DEF WordsInv, StoreWord
<1>1. /\ Active(p) /\ Unfinished(pslot[p]) /\ i \in Cells /\ pslot[p] \in Nat
      /\ cell'[i] = [cell[i] EXCEPT ![w] = pslot[p]]
      /\ \A j \in Cells \ {i} : cell'[j] = cell[j]
      /\ ptodo'[p] = ptodo[p] \ {w} /\ \A q \in Producers \ {p} : ptodo'[q] = ptodo[q]
      /\ UNCHANGED <<head, cellseq, ppc, pslot, clocals, abandoned>>
      /\ ppc[p] = "store"
  BY CellIsInRing DEF Active, Unfinished
<1>2. \A s : Unfinished(s)' <=> Unfinished(s)
  BY <1>1 DEF Unfinished, Active
<1>3. cellseq[i] = 2 * pslot[p] + 1
  BY <1>1 DEF StoreInv, WritingMark
<1> HIDE DEF i
<1>4. OwnersInv' /\ MarksInv'
  BY <1>1, <1>2 DEF OwnersInv, MarksInv, Active
<1>5. StoreInv'
  <2>1. SUFFICES ASSUME NEW q \in Producers, ppc[q] = "store"
                 PROVE  \A v \in Words \ ptodo'[q] : cell'[CellOf(pslot[q])][v] = pslot[q]
    BY <1>1 DEF StoreInv
  <2>2. CASE q = p
    <3>1. cell[i] \in Copies /\ \A v \in Words \ ptodo[p] : cell[i][v] = pslot[p]
      BY <1>1 DEF StoreInv, i
    <3> QED
      BY <1>1, <2>2, <3>1 DEF i, Copies
  <2>3. CASE q # p
    <3>1. CellOf(pslot[q]) # i /\ CellOf(pslot[q]) \in Cells
      BY <1>1, <2>1, <2>3, OwnersApart, CellIsInRing DEF Active, i
    <3> QED
      BY <1>1, <2>1, <2>3, <3>1 DEF StoreInv
  <2> QED
    BY <2>2, <2>3
<1>6. DoneInv'
  BY <1>1, <1>3 DEF DoneInv, DoneMark, Slots
<1>7. KeptInv'
  <2>1. SUFFICES ASSUME NEW s \in 0 .. head - 1, ~Unfinished(s), head <= s + Cap
                 PROVE  cellseq[CellOf(s)] = DoneMark(s) /\ cell'[CellOf(s)] = Whole(s)
    BY <1>1, <1>2 DEF KeptInv
  <2>2. CellOf(s) # i /\ CellOf(s) \in Cells
    BY <1>1, <2>1, CellsApart, CellIsInRing DEF i
  <2> QED
    BY <1>1, <2>1, <2>2 DEF KeptInv
<1>8. CopyInv'
  BY <1>1, <1>2 DEF CopyInv, clocals
<1> QED
  BY <1>4, <1>5, <1>6, <1>7, <1>8

LEMMA EndCellKeeps ==
    ASSUME CountInv, WordsInv, NEW p \in Producers, EndCell(p)
    PROVE  WordsInv'
<1> DEFINE i == CellOf(pslot[p])
<1> USE RingTypes DEF WordsInv, EndCell
<1>1. /\ Active(p) /\ Unfinished(pslot[p]) /\ i \in Cells /\ pslot[p] < head
      /\ cellseq'[i] = 2 * pslot[p] /\ \A j \in Cells \ {i} : cellseq'[j] = cellseq[j]
      /\ ppc'[p] = "idle" /\ \A q \in Producers \ {p} : ppc'[q] = ppc[q]
      /\ UNCHANGED <<head, cell, pslot, ptodo, clocals, abandoned>>
      /\ ppc[p] = "store" /\ ptodo[p] = {}
  BY CellIsInRing DEF Active, Unfinished, DoneMark
<1>2. \A s : Unfinished(s)' <=> Unfinished(s) /\ s # pslot[p]
  BY <1>1 DEF Unfinished, Active, OwnersInv
<1>3. cell[i] = Whole(pslot[p])
  BY <1>1 DEF StoreInv, Copies, Whole
<1> HIDE DEF i
<1>4. OwnersInv'
  BY <1>1 DEF OwnersInv, Active
<1>5. MarksInv'
  BY <1>1, <1>2 DEF MarksInv, Slots
<1>6. StoreInv'
  <2>1. SUFFICES ASSUME NEW q \in Producers \ {p}, ppc[q] = "store"
                 PROVE  cellseq'[CellOf(pslot[q])] = WritingMark(pslot[q])
    BY <1>1 DEF StoreInv
  <2>2. CellOf(pslot[q]) # i /\ CellOf(pslot[q]) \in Cells
    BY <1>1, <2>1, OwnersApart, CellIsInRing DEF Active, i
  <2> QED
    BY <1>1, <2>1, <2>2 DEF StoreInv
<1>7. DoneInv'
  BY <1>1, <1>3 DEF DoneInv, DoneMark, Slots
<1>8. KeptInv'
  <2>1. SUFFICES ASSUME NEW s \in 0 .. head - 1, ~Unfinished(s)', head <= s + Cap
                 PROVE  cellseq'[CellOf(s)] = DoneMark(s) /\ cell[CellOf(s)] = Whole(s)
    BY <1>1 DEF KeptInv
  <2>2. CASE s = pslot[p]
    BY <1>1, <1>3, <2>2 DEF DoneMark, i
  <2>3. CASE s # pslot[p]
    <3>1. CellOf(s) # i /\ CellOf(s) \in Cells /\ ~Unfinished(s)
      BY <1>1, <1>2, <2>1, <2>3, CellsApart, CellIsInRing DEF i
    <3> QED
      BY <1>1, <2>1, <3>1 DEF KeptInv
  <2> QED
    BY <2>2, <2>3
<1>9. CopyInv'
  <2>1. SUFFICES ASSUME NEW c \in Consumers, cpc[c] = "copy", tail[c] > 0
                 PROVE  /\ ~Unfinished(tail[c])
                        /\ cellseq'[CellOf(tail[c])] = DoneMark(tail[c]) =>
                               \A w \in Words \ ctodo[c] : cout[c][w] = tail[c]
    BY <1>1, <1>2 DEF CopyInv, clocals
  <2>2. tail[c] # pslot[p] /\ ~Unfinished(tail[c])
    BY <1>1, <2>1 DEF CopyInv
  <2>3. cellseq'[CellOf(tail[c])] = DoneMark(tail[c]) => cellseq[CellOf(tail[c])] = DoneMark(tail[c])
    BY <1>1, <2>2, CellIsInRing DEF DoneMark
  <2> QED
    BY <2>1, <2>2, <2>3 DEF CopyInv
<1> QED
  BY <1>4, <1>5, <1>6, <1>7, <1>8, <1>9
\* The end and the return of a producer
LEMMA DieKeeps ==
    ASSUME CountInv, WordsInv, NEW p \in Producers, Die(p)
    PROVE  WordsInv'
<1> USE RingTypes DEF WordsInv, Die
<1>1. /\ UNCHANGED <<head, cellseq, cell, pslot, ptodo, clocals>>
      /\ ppc'[p] = "down" /\ \A q \in Producers \ {p} : ppc'[q] = ppc[q]
      /\ abandoned' = IF Active(p) THEN abandoned \cup {pslot[p]} ELSE abandoned
  BY DEF segment, Active
<1>2. \A s : Unfinished(s)' <=> Unfinished(s)
  BY <1>1 DEF Unfinished, Active
<1>3. OwnersInv'
  BY <1>1 DEF OwnersInv, Active
<1>4. MarksInv' /\ DoneInv'
  BY <1>1, <1>2 DEF MarksInv, DoneInv
<1>5. StoreInv'
  BY <1>1 DEF StoreInv
<1>6. KeptInv'
  BY <1>1, <1>2 DEF KeptInv
<1>7. CopyInv'
  BY <1>1, <1>2 DEF CopyInv, clocals
<1> QED
  BY <1>3, <1>4, <1>5, <1>6, <1>7

LEMMA AttachKeeps ==
    ASSUME CountInv, WordsInv, NEW p \in Producers, Attach(p)
    PROVE  WordsInv'
<1> USE RingTypes DEF WordsInv, Attach
<1>1. /\ UNCHANGED <<head, cellseq, cell, pslot, ptodo, clocals, abandoned>>
      /\ \A q \in Producers : (Active(q)' <=> Active(q)) /\ (ppc'[q] = "store" <=> ppc[q] = "store")
  BY DEF segment, Active
<1>2. \A s : Unfinished(s)' <=> Unfinished(s)
  BY <1>1 DEF Unfinished
<1>3. OwnersInv' /\ StoreInv'
  BY <1>1 DEF OwnersInv, StoreInv
<1>4. MarksInv' /\ DoneInv'
  BY <1>1, <1>2 DEF MarksInv, DoneInv
<1>5. KeptInv'
  BY <1>1, <1>2 DEF KeptInv
<1>6. CopyInv'
  BY <1>1, <1>2 DEF CopyInv, clocals
<1> QED
  BY <1>3, <1>4, <1>5, <1>6

\* drain
LEMMA ConsumerKeeps ==
    ASSUME CountInv, WordsInv, NEW c \in Consumers, ConsumerStep(c)
    PROVE  WordsInv'
<1> USE RingTypes DEF WordsInv
<1>1. UNCHANGED <<segment, plocals, abandoned>>
  BY DEF ConsumerStep, StartDrain, StopDrain, SnapshotCell, CopyWord, Deliver, Discard
<1>2. \A s : Unfinished(s)' <=> Unfinished(s)
  BY <1>1 DEF Unfinished, Active, plocals
<1>3. OwnersInv' /\ StoreInv'
  BY <1>1 DEF OwnersInv, StoreInv, Active, segment, plocals
<1>4. MarksInv' /\ DoneInv'
  BY <1>1, <1>2 DEF MarksInv, DoneInv, segment
<1>5. KeptInv'
  BY <1>1, <1>2 DEF KeptInv, segment
<1>6. CopyInv'
  <2>1. ASSUME NEW d \in Consumers, d # c PROVE UNCHANGED <<cpc[d], tail[d], ctodo[d], cout[d]>>
    BY <2>1 DEF ConsumerStep, StartDrain, StopDrain, SnapshotCell, CopyWord, Deliver, Discard
  <2>2. CASE StartDrain(c) \/ StopDrain(c) \/ Deliver(c) \/ Discard(c)
    <3>1. cpc'[c] # "copy"
      BY <2>2 DEF StartDrain, StopDrain, Deliver, Discard
    <3> QED
      BY <1>1, <1>2, <2>1, <3>1 DEF CopyInv, segment
  <2>3. CASE SnapshotCell(c)
    <3>1. tail[c] > 0 => tail[c] \in Slots \ {0}
      BY <2>3, CursorBehind DEF SnapshotCell
    <3>2. tail[c] > 0 => ~Unfinished(tail[c])
      BY <2>3, <3>1, CellIsInRing DEF SnapshotCell, Ready, DoneMark, MarksInv
    <3>3. ctodo'[c] = Words /\ tail'[c] = tail[c]
      BY <2>3 DEF SnapshotCell
    <3> QED
      BY <1>1, <1>2, <2>1, <3>2, <3>3 DEF CopyInv, segment
  <2>4. ASSUME NEW w \in Words, CopyWord(c, w) PROVE CopyInv'
    <3>1. /\ cpc[c] = "copy" /\ UNCHANGED <<tail[c], cpc[c]>>
          /\ cout'[c] = [cout[c] EXCEPT ![w] = cell[CellOf(tail[c])][w]]
          /\ ctodo'[c] = ctodo[c] \ {w}
      BY <2>4 DEF CopyWord
    <3>2. ASSUME tail[c] > 0, cellseq[CellOf(tail[c])] = DoneMark(tail[c])
          PROVE  cell[CellOf(tail[c])][w] = tail[c]
      <4>1. tail[c] \in Slots \ {0}
        <5>1. tail[c] < ch[c]
          BY <3>1 DEF CountInv, CursorInv
        <5> QED
          BY <3>2, <5>1, CursorBehind
      <4> QED
        BY <3>2, <4>1, CellIsInRing DEF DoneInv, Whole
    <3>3. tail[c] > 0 =>
            /\ ~Unfinished(tail[c])
            /\ cellseq[CellOf(tail[c])] = DoneMark(tail[c]) =>
                   \A v \in Words \ ctodo'[c] : cout'[c][v] = tail[c]
      BY <3>1, <3>2 DEF CopyInv, Copies
    <3>4. SUFFICES ASSUME NEW d \in Consumers, cpc'[d] = "copy", tail'[d] > 0
                   PROVE  /\ ~Unfinished(tail'[d])
                          /\ cellseq[CellOf(tail'[d])] = DoneMark(tail'[d]) =>
                                 \A v \in Words \ ctodo'[d] : cout'[d][v] = tail'[d]
      BY <1>1, <1>2 DEF CopyInv, segment
    <3>5. CASE d = c
      BY <3>1, <3>3, <3>4, <3>5
    <3>6. CASE d # c
      BY <2>1, <3>4, <3>6 DEF CopyInv
    <3> QED
      BY <3>5, <3>6
  <2> QED
    BY <2>2, <2>3, <2>4 DEF ConsumerStep
<1> QED
  BY <1>3, <1>4, <1>5, <1>6

LEMMA NextWordsInv ==
    ASSUME NoRecreate, NoStall, CountInv, WordsInv, [Next]_vars
    PROVE  WordsInv'
<1>1. ASSUME NEW p \in Producers, Recreate(p) PROVE WordsInv'
  BY <1>1 DEF Recreate, NoRecreate
<1>2. CASE UNCHANGED vars
  BY <1>2 DEF vars, segment, plocals, clocals, WordsInv, OwnersInv, MarksInv, StoreInv, DoneInv,
              KeptInv, CopyInv, Unfinished, Active
<1> QED
  BY <1>1, <1>2, TakeSlotKeeps, BeginCellKeeps, StoreWordKeeps, EndCellKeeps, DieKeeps,
     AttachKeeps, ConsumerKeeps DEF Next, ProducerStep

-----------------------------------------------------------------------------
(* What follows for consumers *)

\* verify holds at the end of a copy: it is the trade of that slot.
LEMMA CopyIsWhole ==
    ASSUME CountInv, WordsInv, NEW c \in Consumers, Deliver(c), tail[c] > 0
    PROVE  cout[c] = Whole(tail[c]) /\ ~Unfinished(tail[c])
<1>1. cpc[c] = "copy" /\ ctodo[c] = {} /\ cellseq[CellOf(tail[c])] = DoneMark(tail[c])
  BY DEF Deliver, StillReady
<1>2. \A w \in Words : cout[c][w] = tail[c]
  BY <1>1 DEF WordsInv, CopyInv
<1>3. ~Unfinished(tail[c])
  BY <1>1 DEF WordsInv, CopyInv
<1> QED
  BY <1>2, <1>3, RingTypes DEF Copies, Whole

\* The deliveries after a delivery.
LEMMA Delivered ==
    ASSUME CountInv, NEW c \in Consumers, Deliver(c)
    PROVE  /\ DOMAIN delivered'[c] = 1 .. Len(delivered[c]) + 1
           /\ Len(delivered[c]) \in Nat /\ DOMAIN delivered[c] = 1 .. Len(delivered[c])
           /\ \A i \in DOMAIN delivered[c] : delivered'[c][i] = delivered[c][i]
           /\ delivered'[c][Len(delivered[c]) + 1] = [slot |-> tail[c], words |-> cout[c]]
           /\ \A d \in Consumers \ {c} : delivered'[d] = delivered[d] /\ tail'[d] = tail[d]
           /\ tail'[c] = tail[c] + 1 /\ UNCHANGED <<segment, plocals, abandoned, lost>>
<1> DEFINE copy == [slot |-> tail[c], words |-> cout[c]]
<1>1. delivered \in [Consumers -> Seq(Deliveries)] /\ tail \in [Consumers -> 0 .. MaxSlots]
  BY DEF CountInv, TypeOK
<1>2. /\ delivered'[c] = Append(delivered[c], copy) /\ tail'[c] = tail[c] + 1
      /\ \A d \in Consumers \ {c} : delivered'[d] = delivered[d] /\ tail'[d] = tail[d]
      /\ UNCHANGED <<segment, plocals, abandoned, lost>>
  BY <1>1 DEF Deliver
<1> HIDE DEF copy
<1>3. delivered[c] \in Seq(Deliveries)
  BY <1>1
<1>4. /\ DOMAIN delivered'[c] = 1 .. Len(delivered[c]) + 1
      /\ Len(delivered[c]) \in Nat /\ DOMAIN delivered[c] = 1 .. Len(delivered[c])
      /\ \A i \in DOMAIN delivered[c] : delivered'[c][i] = delivered[c][i]
      /\ delivered'[c][Len(delivered[c]) + 1] = copy
  BY <1>2, <1>3
<1> QED
  BY <1>2, <1>4 DEF copy

\* Every other step leaves the deliveries alone.
LEMMA OnlyDeliverDelivers ==
    ASSUME [Next]_vars
    PROVE  UNCHANGED delivered \/ \E c \in Consumers : Deliver(c)
BY DEF Next, vars, clocals, ProducerStep, ConsumerStep, TakeSlot, BeginCell, StoreWord, EndCell, Die,
       Attach, Recreate, StartDrain, StopDrain, SnapshotCell, CopyWord, Discard

LEMMA NextDelivered ==
    ASSUME CountInv, WordsInv, DeliveredIsPublished, [Next]_vars
    PROVE  DeliveredIsPublished'
<1>1. CASE UNCHANGED delivered
  BY <1>1 DEF DeliveredIsPublished
<1>2. ASSUME NEW c \in Consumers, Deliver(c) PROVE DeliveredIsPublished'
  <2>1. SUFFICES ASSUME NEW d \in Consumers, NEW i \in DOMAIN delivered'[d], delivered'[d][i].slot > 0
                 PROVE  delivered'[d][i].words = Whole(delivered'[d][i].slot)
    BY DEF DeliveredIsPublished
  <2>2. CASE d = c /\ i = Len(delivered[c]) + 1
    <3>1. delivered'[d][i] = [slot |-> tail[c], words |-> cout[c]]
      BY <1>2, <2>2, Delivered
    <3>2. tail[c] > 0
      BY <2>1, <3>1
    <3> QED
      BY <1>2, <3>1, <3>2, CopyIsWhole
  <2>3. CASE ~(d = c /\ i = Len(delivered[c]) + 1)
    <3>1. i \in DOMAIN delivered[d] /\ delivered'[d][i] = delivered[d][i]
      <4>1. CASE d = c
        <5>1. i \in 1 .. Len(delivered[c]) + 1 /\ Len(delivered[c]) \in Nat
          BY <1>2, <2>1, <4>1, Delivered
        <5>2. i \in 1 .. Len(delivered[c])
          BY <2>3, <4>1, <5>1
        <5> QED
          BY <1>2, <4>1, <5>2, Delivered
      <4>2. CASE d # c
        BY <1>2, <2>1, <4>2, Delivered
      <4> QED
        BY <4>1, <4>2
    <3> QED
      BY <2>1, <3>1 DEF DeliveredIsPublished
  <2> QED
    BY <2>2, <2>3
<1> QED
  BY <1>1, <1>2, OnlyDeliverDelivers

DeliveryInv == CountInv /\ WordsInv /\ DeliveredIsPublished

LEMMA InitDeliveryInv == Init => DeliveryInv
BY InitCountInv, InitWordsInv DEF DeliveryInv, DeliveredIsPublished, Init

LEMMA NextDeliveryInv ==
    ASSUME NoRecreate, NoStall, DeliveryInv, [Next]_vars
    PROVE  DeliveryInv'
BY NextCountInv, NextWordsInv, NextDelivered DEF DeliveryInv

\* With any number of producers that finish in any order, lap slow consumers and
\* are killed in the middle, a consumer is given whole trades only, each under
\* the slot it was published in - from slot 1 on.
THEOREM DeliveriesAreWhole == ASSUME NoRecreate, NoStall PROVE Spec => []DeliveredIsPublished
<1>1. DeliveryInv => DeliveredIsPublished
  BY DEF DeliveryInv
<1> QED
  BY <1>1, InitDeliveryInv, NextDeliveryInv, PTL DEF Spec

\* With no publish in progress the last lap is in the ring, for any number of
\* producers, of which some were killed.
THEOREM LastLapIsKept == ASSUME NoRecreate, NoStall PROVE Spec => []RingKeepsLastLap
<1>1. DeliveryInv => RingKeepsLastLap
  <2>1. SUFFICES ASSUME DeliveryInv, \A p \in Producers : ppc[p] \in {"idle", "down"},
                        NEW s \in Slots \ abandoned, head - Cap <= s, s < head
                 PROVE  cellseq[s % Cap] = 2 * s /\ cell[s % Cap] = Whole(s)
    BY DEF RingKeepsLastLap
  <2>2. s \in 0 .. head - 1 /\ head <= s + Cap /\ ~Unfinished(s)
    BY <2>1, RingTypes, CapAssumption DEF DeliveryInv, Unfinished, Active, Slots
  <2> QED
    BY <2>1, <2>2 DEF DeliveryInv, WordsInv, KeptInv, DoneMark, CellOf
<1> QED
  BY <1>1, InitDeliveryInv, NextDeliveryInv, PTL DEF Spec
-----------------------------------------------------------------------------
(* Losses: no assumption on how long a publish lasts *)

LEMMA NextLapped ==
    ASSUME NoRecreate, CountInv, OnlyLappedIsLost, [Next]_vars
    PROVE  OnlyLappedIsLost'
<1> DEFINE Given1(d, s) == \E i \in DOMAIN delivered[d] : delivered[d][i].slot = s
<1>0. \A d \in Consumers : tail[d] \in Nat /\ head \in Nat
  BY CursorTypes
<1>1. \A d \in Consumers, s \in Nat : s < tail[d] => Given1(d, s) \/ s + Cap < head
  BY <1>0 DEF OnlyLappedIsLost
<1>2. ASSUME UNCHANGED <<tail, delivered>>, head' = head \/ head' = head + 1
      PROVE  OnlyLappedIsLost'
  BY <1>0, <1>2, CapAssumption DEF OnlyLappedIsLost
<1>3. ASSUME NEW p \in Producers, TakeSlot(p) \/ ProducerStep(p) \/ Die(p) \/ Attach(p)
      PROVE  OnlyLappedIsLost'
  BY <1>2, <1>3 DEF TakeSlot, ProducerStep, BeginCell, EndCell, StoreWord, Die, Attach, segment, clocals
<1>4. ASSUME NEW p \in Producers, Recreate(p) PROVE OnlyLappedIsLost'
  BY <1>4 DEF Recreate, NoRecreate
<1>5. ASSUME NEW c \in Consumers, StopDrain(c) \/ SnapshotCell(c) \/ Discard(c)
                                   \/ \E w \in Words : CopyWord(c, w)
      PROVE  OnlyLappedIsLost'
  BY <1>2, <1>5 DEF StopDrain, SnapshotCell, Discard, CopyWord, segment
<1>6. ASSUME NEW c \in Consumers, StartDrain(c) PROVE OnlyLappedIsLost'
  <2>1. UNCHANGED <<head, delivered>> /\ \A d \in Consumers \ {c} : tail'[d] = tail[d]
    BY <1>6 DEF StartDrain, segment, CountInv, TypeOK
  <2>2. tail'[c] = tail[c] \/ (tail'[c] = head - Cap /\ head - tail[c] > Cap)
    BY <1>6, Differences DEF StartDrain, CountInv, TypeOK
  <2>3. SUFFICES ASSUME NEW d \in Consumers, NEW s \in Nat, s < tail'[d] PROVE Given1(d, s) \/ s + Cap < head
    BY <2>1, <2>2, <1>0, CapAssumption DEF OnlyLappedIsLost
  <2>4. CASE s < tail[d]
    BY <1>1, <2>4
  <2>5. CASE ~(s < tail[d])
    BY <1>0, <2>1, <2>2, <2>3, <2>5, CapAssumption
  <2> QED
    BY <2>4, <2>5
<1>7. ASSUME NEW c \in Consumers, Deliver(c) PROVE OnlyLappedIsLost'
  <2> DEFINE n == Len(delivered[c]) + 1
  <2>1. /\ head' = head /\ tail'[c] = tail[c] + 1
        /\ \A d \in Consumers \ {c} : delivered'[d] = delivered[d] /\ tail'[d] = tail[d]
        /\ \A i \in DOMAIN delivered[c] : i \in DOMAIN delivered'[c] /\ delivered'[c][i] = delivered[c][i]
    <3>1. head' = head /\ tail'[c] = tail[c] + 1
      BY <1>7, Delivered DEF segment
    <3>2. \A d \in Consumers \ {c} : delivered'[d] = delivered[d] /\ tail'[d] = tail[d]
      BY <1>7, Delivered
    <3>3. /\ DOMAIN delivered'[c] = 1 .. Len(delivered[c]) + 1 /\ Len(delivered[c]) \in Nat
          /\ DOMAIN delivered[c] = 1 .. Len(delivered[c])
          /\ \A i \in DOMAIN delivered[c] : delivered'[c][i] = delivered[c][i]
      BY <1>7, Delivered
    <3> QED
      BY <3>1, <3>2, <3>3
  <2>2. n \in DOMAIN delivered'[c] /\ delivered'[c][n].slot = tail[c]
    <3>1. DOMAIN delivered'[c] = 1 .. n /\ Len(delivered[c]) \in Nat
          /\ delivered'[c][n] = [slot |-> tail[c], words |-> cout[c]]
      BY <1>7, Delivered
    <3> QED
      BY <3>1
  <2>3. SUFFICES ASSUME NEW d \in Consumers, NEW s \in 0 .. tail'[d] - 1,
                        \A i \in DOMAIN delivered'[d] : delivered'[d][i].slot # s
                 PROVE  s + Cap < head
    BY <2>1 DEF OnlyLappedIsLost
  <2> HIDE DEF n
  <2>4. s < tail[d]
    <3>1. CASE d = c
      <4>1. s # tail[c]
        BY <2>2, <2>3, <3>1
      <4> QED
        BY <1>0, <2>1, <3>1, <4>1
    <3>2. CASE d # c
      BY <1>0, <2>1, <3>2
    <3> QED
      BY <3>1, <3>2
  <2>5. ~Given1(d, s)
    BY <2>1, <2>3
  <2>6. s \in Nat
    BY <1>0, <2>1
  <2> QED
    BY <1>1, <2>4, <2>5, <2>6
<1>8. CASE UNCHANGED vars
  BY <1>2, <1>8 DEF vars, segment, clocals
<1> QED
  BY <1>3, <1>4, <1>5, <1>6, <1>7, <1>8 DEF Next, ConsumerStep

\* A trade is given up only when one a lap later has been started, whatever the
\* number and the speed of the producers.
THEOREM NothingReadableIsLost == ASSUME NoRecreate PROVE Spec => []OnlyLappedIsLost
<1>1. Init => CountInv /\ OnlyLappedIsLost
  BY InitCountInv DEF Init, OnlyLappedIsLost
<1>2. CountInv /\ OnlyLappedIsLost /\ [Next]_vars => (CountInv /\ OnlyLappedIsLost)'
  BY NextCountInv, NextLapped
<1> QED
  BY <1>1, <1>2, PTL DEF Spec
-----------------------------------------------------------------------------
(* Refinement: the ring implements BroadcastLog. *)

AbstractNext == [AbstractLog!Next]_(AbstractLog!logVars)

LEMMA InitRefines == Init => AbstractLog!Init
<1> SUFFICES ASSUME Init PROVE AbstractLog!Init
  OBVIOUS
<1>1. Finished = {0}
  BY DEF Init, Finished
<1>2. \A c \in Consumers : Given(c) = <<>>
  BY DEF Init, Given
<1> QED
  BY <1>1, <1>2 DEF Init, AbstractLog!Init

\* A sequence with one more element.
LEMMA OneMore ==
    ASSUME NEW S, NEW a \in Seq(S), NEW x,
           NEW b, b = [i \in 1 .. Len(a) + 1 |-> IF i = Len(a) + 1 THEN x ELSE a[i]]
    PROVE  b = Append(a, x)
<1> DEFINE T == S \cup {x}
           d == Append(a, x)
<1>1. a \in Seq(T) /\ x \in T /\ Len(a) \in Nat
  OBVIOUS
<1>2. d \in Seq(T) /\ Len(d) = Len(a) + 1 /\ d[Len(a) + 1] = x
      /\ \A i \in 1 .. Len(a) : d[i] = a[i]
  BY <1>1
<1> HIDE DEF d
<1>3. d = [i \in 1 .. Len(a) + 1 |-> d[i]]
  BY <1>2
<1>4. \A i \in 1 .. Len(a) + 1 : d[i] = b[i]
  BY <1>1, <1>2
<1>5. b = d
  BY <1>3, <1>4
<1> QED
  BY <1>5 DEF d

LEMMA GivenIsSeq ==
    ASSUME CountInv, NEW c \in Consumers
    PROVE  Given(c) \in Seq([Words -> Int]) /\ Len(Given(c)) = Len(delivered[c])
<1> DEFINE n == Len(delivered[c])
<1>1. /\ n \in Nat /\ DOMAIN delivered[c] = 1 .. n
      /\ \A i \in 1 .. n : delivered[c][i] \in Deliveries
  <2>1. delivered[c] \in Seq(Deliveries)
    BY CursorTypes
  <2> QED
    BY <2>1
<1>2. \A d \in Deliveries : d.words \in [Words -> Int]
  BY DEF Deliveries, Copies, Slots, Blank
<1>3. Whole(0) \in [Words -> Int]
  BY DEF Whole
<1> HIDE DEF n
<1>4. Given(c) \in [1 .. n -> [Words -> Int]]
  BY <1>1, <1>2, <1>3 DEF Given
<1> QED
  BY <1>1, <1>4 DEF n

\* As long as no producer and no cursor moves, nothing happens to the log.
LEMMA Stutters ==
    ASSUME UNCHANGED <<head, delivered, tail, lost>>, Finished' = Finished
    PROVE  UNCHANGED AbstractLog!logVars
BY DEF AbstractLog!logVars, Given

LEMMA FinishedIs ==
    ASSUME CountInv
    PROVE  Finished = {0} \cup {s \in 0 .. head - 1 : ~Unfinished(s)}
BY DEF Finished, Unfinished, Active

LEMMA NextRefines ==
    ASSUME NoRecreate, NoStall, DeliveryInv, [Next]_vars
    PROVE  AbstractNext
<1> USE DEF AbstractNext
<1>0. CountInv /\ WordsInv
  BY DEF DeliveryInv
<1>1. ASSUME NEW p \in Producers, TakeSlot(p) PROVE AbstractNext
  <2>1. /\ head' = head + 1 /\ abandoned' = abandoned /\ UNCHANGED <<delivered, tail, lost>>
        /\ ppc[p] = "idle" /\ ppc'[p] = "begin" /\ pslot'[p] = head
        /\ \A q \in Producers \ {p} : ppc'[q] = ppc[q] /\ pslot'[q] = pslot[q]
    BY <1>0, <1>1, RingTypes DEF TakeSlot, clocals
  <2>2. Finished' = Finished
    BY <1>0, <2>1, RingTypes DEF Finished
  <2>3. AbstractLog!Reserve
    BY <2>1, <2>2 DEF AbstractLog!Reserve, Given
  <2> QED
    BY <2>3 DEF AbstractLog!Next
<1>2. ASSUME NEW p \in Producers, EndCell(p) PROVE AbstractNext
  <2>1. /\ UNCHANGED <<head, abandoned, pslot, delivered, tail, lost>>
        /\ ppc[p] = "store" /\ ppc'[p] = "idle" /\ \A q \in Producers \ {p} : ppc'[q] = ppc[q]
    BY <1>0, <1>2, RingTypes DEF EndCell, clocals
  <2>2. pslot[p] \in 0 .. head - 1 /\ pslot[p] \notin abandoned
        /\ \A q \in Producers \ {p} : ppc[q] \in {"begin", "store"} => pslot[q] # pslot[p]
    BY <1>0, <2>1, RingTypes DEF WordsInv, OwnersInv, Active
  <2>3. Finished' = Finished \cup {pslot[p]}
    BY <2>1, <2>2 DEF Finished
  <2>4. AbstractLog!Finish(pslot[p])
    BY <1>0, <2>1, <2>2, <2>3, RingTypes DEF AbstractLog!Finish, Given
  <2> QED
    BY <2>2, <2>4 DEF AbstractLog!Next
<1>3. ASSUME NEW p \in Producers,
             BeginCell(p) \/ Die(p) \/ Attach(p) \/ \E w \in Words : StoreWord(p, w)
      PROVE  AbstractNext
  <2>1. UNCHANGED <<head, delivered, tail, lost, pslot>>
    BY <1>3 DEF BeginCell, Die, Attach, StoreWord, clocals, segment
  <2>2. Finished' = Finished
    <3>1. \A s : Unfinished(s)' <=> Unfinished(s)
      BY <1>0, <1>3, RingTypes DEF BeginCell, Die, Attach, StoreWord, Unfinished, Active
    <3> QED
      BY <2>1, <3>1 DEF Finished, Unfinished, Active
  <2> QED
    BY <2>1, <2>2, Stutters
<1>4. ASSUME NEW p \in Producers, Recreate(p) PROVE AbstractNext
  BY <1>4 DEF Recreate, NoRecreate
<1>5. ASSUME NEW c \in Consumers, StopDrain(c) \/ SnapshotCell(c) \/ Discard(c)
                                   \/ \E w \in Words : CopyWord(c, w)
      PROVE  AbstractNext
  <2>1. UNCHANGED <<head, delivered, tail, lost, abandoned, ppc, pslot>>
    BY <1>5 DEF StopDrain, SnapshotCell, Discard, CopyWord, segment, plocals
  <2> QED
    BY <2>1, Stutters DEF Finished
<1>6. ASSUME NEW c \in Consumers, StartDrain(c) PROVE AbstractNext
  <2>1. /\ UNCHANGED <<head, delivered, abandoned, ppc, pslot>> /\ Finished' = Finished
    BY <1>6 DEF StartDrain, segment, plocals, Finished
  <2>2. CASE Behind(c, head) > Cap
    <3>1. /\ tail' = [tail EXCEPT ![c] = head - Cap] /\ tail[c] + Cap < head
          /\ lost' = [lost EXCEPT ![c] = @ + (head - Cap - tail[c])]
      <4>1. /\ Behind(c, head) = head - tail[c] /\ OldestKept(head) = head - Cap
            /\ head \in Nat /\ tail[c] \in Nat /\ lost[c] \in Nat /\ Cap \in Nat
        BY <1>0, <2>2, Differences, CursorTypes, CapAssumption
      <4>2. lost[c] + Behind(c, head) - Cap = lost[c] + (head - Cap - tail[c])
        BY <4>1
      <4> QED
        BY <1>6, <2>2, <4>1, <4>2 DEF StartDrain
    <3>2. AbstractLog!Miss(c)
      BY <2>1, <3>1 DEF AbstractLog!Miss, Given
    <3> QED
      BY <3>2 DEF AbstractLog!Next
  <2>3. CASE ~(Behind(c, head) > Cap)
    BY <1>6, <2>1, <2>3, Stutters DEF StartDrain
  <2> QED
    BY <2>2, <2>3
<1>7. ASSUME NEW c \in Consumers, Deliver(c) PROVE AbstractNext
  <2>1. UNCHANGED <<head, abandoned, ppc, pslot, lost>> /\ Finished' = Finished
    BY <1>7 DEF Deliver, segment, plocals, Finished
  <2>2. tail' = [tail EXCEPT ![c] = @ + 1] /\ tail[c] < head
    <3>1. tail[c] < ch[c]
      BY <1>0, <1>7 DEF Deliver, CountInv, CursorInv
    <3> QED
      BY <1>0, <1>7, <3>1, CursorBehind DEF Deliver
  <2>3. tail[c] \in Finished
    BY <1>0, <1>7, <2>2, CopyIsWhole, CursorTypes, FinishedIs
  <2>4. Given(c)' = Append(Given(c), Whole(tail[c]))
    <3>1. DOMAIN delivered'[c] = 1 .. Len(delivered[c]) + 1
          /\ DOMAIN delivered[c] = 1 .. Len(delivered[c]) /\ Len(delivered[c]) \in Nat
          /\ \A i \in DOMAIN delivered[c] : delivered'[c][i] = delivered[c][i]
      BY <1>0, <1>7, Delivered
    <3>2. delivered'[c][Len(delivered[c]) + 1] = [slot |-> tail[c], words |-> cout[c]]
      BY <1>0, <1>7, Delivered
    <3>3. tail[c] > 0 => cout[c] = Whole(tail[c])
      BY <1>0, <1>7, CopyIsWhole
    <3>4. Given(c)' = [i \in 1 .. Len(delivered[c]) + 1 |->
                          IF i = Len(delivered[c]) + 1 THEN Whole(tail[c]) ELSE Given(c)[i]]
      BY <3>1, <3>2, <3>3, CursorTypes, <1>0 DEF Given
    <3>5. Given(c) \in Seq([Words -> Int]) /\ Len(Given(c)) = Len(delivered[c])
      BY <1>0, GivenIsSeq
    <3> QED
      BY <3>4, <3>5, OneMore
  <2>5. \A d \in Consumers \ {c} : Given(d)' = Given(d)
    BY <1>0, <1>7, Delivered DEF Given
  <2>6. AbstractLog!Hear(c)
    BY <2>1, <2>2, <2>3, <2>4, <2>5 DEF AbstractLog!Hear, AbstractLog!Trade, Whole
  <2> QED
    BY <2>6 DEF AbstractLog!Next
<1>8. CASE UNCHANGED vars
  BY <1>8, Stutters DEF vars, segment, plocals, clocals, Finished
<1> QED
  BY <1>1, <1>2, <1>3, <1>4, <1>5, <1>6, <1>7, <1>8 DEF Next, ProducerStep, ConsumerStep

\* The ring implements the log: for any number of producers, consumers and cells,
\* slots that are published in any order by producers of which some are killed
\* read as one log, from which a consumer misses only what it is told.
THEOREM RingIsALog == ASSUME NoRecreate, NoStall PROVE Spec => ImplementsBroadcastLog
<1>1. Init => DeliveryInv /\ AbstractLog!Init
  BY InitDeliveryInv, InitRefines
<1>2. DeliveryInv /\ [Next]_vars => DeliveryInv'
  BY NextDeliveryInv
<1>3. DeliveryInv /\ [Next]_vars => AbstractNext
  BY NextRefines
<1> QED
  BY <1>1, <1>2, <1>3, PTL DEF Spec, ImplementsBroadcastLog, AbstractLog!Spec, AbstractNext
=============================================================================
