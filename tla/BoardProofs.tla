---------------------------- MODULE BoardProofs ----------------------------
(***************************************************************************)
(* What the seqlock and the claim of Board guarantee for any number of     *)
(* readers, symbols and payload words and for any bounds.                  *)
(***************************************************************************)
EXTENDS Board, TLAPS

\* One thread of control writes the segment: what mdreplay itself does.
SingleWriter == \A v, w \in Writers : v = w

-----------------------------------------------------------------------------
(* Type correctness: every action keeps the type of what it assigns. *)

LEMMA InitTypeOK == Init => TypeOK
BY BoundsAssumption DEF Init, TypeOK, Uids, Whole

LEMMA NextTypeOK == TypeOK /\ [Next]_vars => TypeOK'
<1> SUFFICES ASSUME TypeOK, [Next]_vars PROVE TypeOK'
  OBVIOUS
<1> USE BoundsAssumption DEF TypeOK, Uids, segment, wlocals, rlocals, ghosts, Whole
<1>1. ASSUME NEW w \in Writers, NEW l \in Lids, NEW u \in Uids, Offer(w, l, u) PROVE TypeOK'
  BY <1>1 DEF Offer
<1>2. ASSUME NEW w \in Writers, ClaimLose(w) PROVE TypeOK'
  BY <1>2 DEF ClaimLose
<1>3. ASSUME NEW w \in Writers, ClaimCas(w) PROVE TypeOK'
  BY <1>3 DEF ClaimCas
<1>4. ASSUME NEW w \in Writers, ClaimRetry(w) PROVE TypeOK'
  BY <1>4 DEF ClaimRetry
<1>5. ASSUME NEW w \in Writers, LoadSeq(w) PROVE TypeOK'
  BY <1>5 DEF LoadSeq
<1>6. ASSUME NEW w \in Writers, Mark(w) PROVE TypeOK'
  BY <1>6 DEF Mark, Writing
<1>7. ASSUME NEW w \in Writers, NEW f \in Fields, Store(w, f) PROVE TypeOK'
  BY <1>7 DEF Store
<1>8. ASSUME NEW w \in Writers, End(w) PROVE TypeOK'
  BY <1>8 DEF End, Written
<1>9. ASSUME NEW w \in Writers, Die(w) PROVE TypeOK'
  BY <1>9 DEF Die
<1>10. ASSUME NEW w \in Writers, Attach(w) PROVE TypeOK'
  BY <1>10 DEF Attach, FreshLocals
<1>11. ASSUME NEW w \in Writers, Recreate(w) PROVE TypeOK'
  BY <1>11 DEF Recreate, FreshLocals, ZeroSegment
<1>12. ASSUME NEW r \in Readers, NEW l \in Lids, Snapshot(r, l) PROVE TypeOK'
  BY <1>12 DEF Snapshot
<1>13. ASSUME NEW r \in Readers, NEW f \in Fields, Copy(r, f) PROVE TypeOK'
  BY <1>13 DEF Copy
<1>14. ASSUME NEW r \in Readers, Verify(r) PROVE TypeOK'
  BY <1>14 DEF Verify
<1>15. CASE UNCHANGED vars
  BY <1>15 DEF vars
<1> QED
  BY <1>1, <1>2, <1>3, <1>4, <1>5, <1>6, <1>7, <1>8, <1>9, <1>10, <1>11, <1>12,
     <1>13, <1>14, <1>15 DEF Next, WriterStep, ReaderStep

\* Every reachable state of Board, with any number of writers and every kind
\* of restart, is well typed: no sequence number is negative and no update_id
\* outside the input appears in the segment or in a reader's hands.
THEOREM TypeCorrect == Spec => []TypeOK
BY InitTypeOK, NextTypeOK, PTL DEF Spec

-----------------------------------------------------------------------------
(* The claims: for any number of racing writers, killed and attached again   *)
(* at any point, as long as nobody recreates the segment.                    *)

NoRecreate == "create" \notin Restarts

Winning == {"load", "mark", "store"}

\* A winner holds at most what best_uid says: a later claim of the symbol must
\* bring a larger update_id, so it cannot bring the same one.
WinnersBelowBest ==
    \A w \in Writers : wpc[w] \in Winning => wuid[w] <= best_uid[wlid[w]]

ClaimInv == TypeOK /\ WinnersBelowBest /\ OneWinnerPerUpdate

LEMMA InitClaimInv == Init => ClaimInv
<1> SUFFICES ASSUME Init PROVE WinnersBelowBest /\ OneWinnerPerUpdate
  BY InitTypeOK DEF ClaimInv
<1> QED
  BY DEF Init, WinnersBelowBest, OneWinnerPerUpdate, Winning

\* Claims that race for one symbol are decided by the compare-exchange alone.
LEMMA NextClaimInv ==
    ASSUME NoRecreate, ClaimInv, [Next]_vars
    PROVE  /\ ClaimInv'
           /\ \A l \in Lids : best_uid'[l] >= best_uid[l]
<1> DEFINE Rise == \A l \in Lids : best_uid'[l] >= best_uid[l]
           Goal == WinnersBelowBest' /\ OneWinnerPerUpdate' /\ Rise
<1>0. TypeOK /\ TypeOK'
  BY NextTypeOK DEF ClaimInv
<1> SUFFICES Goal
  BY <1>0 DEF ClaimInv
<1> USE <1>0 DEF ClaimInv, WinnersBelowBest, OneWinnerPerUpdate, Winning, Uids, TypeOK
<1>1. ASSUME NEW w \in Writers, NEW l \in Lids, NEW u \in Uids, Offer(w, l, u) PROVE Goal
  BY <1>1 DEF Offer, segment
<1>2. ASSUME NEW w \in Writers, ClaimLose(w) PROVE Goal
  BY <1>2 DEF ClaimLose, segment
<1>3. ASSUME NEW w \in Writers, ClaimCas(w) PROVE Goal
  <2>1. wuid[w] > best_uid[wlid[w]]
    BY <1>3 DEF ClaimCas, Newer, CasSucceeds
  <2>2. \A v \in Writers : v # w /\ wpc[v] \in Winning /\ wlid[v] = wlid[w]
                           => wuid[v] < wuid[w]
    BY <2>1
  <2>3. best_uid'[wlid[w]] = wuid[w] /\ \A l \in Lids \ {wlid[w]} : best_uid'[l] = best_uid[l]
    BY <1>3 DEF ClaimCas
  <2> QED
    BY <1>3, <2>1, <2>2, <2>3 DEF ClaimCas
<1>4. ASSUME NEW w \in Writers, ClaimRetry(w) PROVE Goal
  BY <1>4 DEF ClaimRetry, segment
<1>5. ASSUME NEW w \in Writers, LoadSeq(w) PROVE Goal
  BY <1>5 DEF LoadSeq, segment
<1>6. ASSUME NEW w \in Writers, Mark(w) PROVE Goal
  BY <1>6 DEF Mark
<1>7. ASSUME NEW w \in Writers, NEW f \in Fields, Store(w, f) PROVE Goal
  BY <1>7 DEF Store
<1>8. ASSUME NEW w \in Writers, End(w) PROVE Goal
  BY <1>8 DEF End
<1>9. ASSUME NEW w \in Writers, Die(w) PROVE Goal
  BY <1>9 DEF Die, segment
<1>10. ASSUME NEW w \in Writers, Attach(w) PROVE Goal
  BY <1>10 DEF Attach, FreshLocals, segment
<1>11. ASSUME NEW w \in Writers, Recreate(w) PROVE Goal
  BY <1>11, NoRecreate DEF Recreate, NoRecreate
<1>12. ASSUME NEW r \in Readers, NEW l \in Lids, Snapshot(r, l) PROVE Goal
  BY <1>12 DEF Snapshot, segment, wlocals
<1>13. ASSUME NEW r \in Readers, NEW f \in Fields, Copy(r, f) PROVE Goal
  BY <1>13 DEF Copy, segment, wlocals
<1>14. ASSUME NEW r \in Readers, Verify(r) PROVE Goal
  BY <1>14 DEF Verify, segment, wlocals
<1>15. CASE UNCHANGED vars
  BY <1>15 DEF vars, segment, wlocals
<1> QED
  BY <1>1, <1>2, <1>3, <1>4, <1>5, <1>6, <1>7, <1>8, <1>9, <1>10, <1>11, <1>12,
     <1>13, <1>14, <1>15 DEF Next, WriterStep, ReaderStep

\* Any number of writers racing on claim_if_newer never write one update_id of
\* a symbol twice, even when some are killed and attach again.
THEOREM WinnersAreUnique == ASSUME NoRecreate PROVE Spec => []OneWinnerPerUpdate
<1>1. Init => ClaimInv
  BY InitClaimInv
<1>2. ClaimInv /\ [Next]_vars => ClaimInv'
  BY NextClaimInv
<1>3. ClaimInv => OneWinnerPerUpdate
  BY DEF ClaimInv
<1> QED
  BY <1>1, <1>2, <1>3, PTL DEF Spec

\* Under the same conditions no stale claim ever lowers best_uid.
THEOREM ClaimsNeverFall == ASSUME NoRecreate PROVE Spec => ClaimsOnlyRise
<1>1. Init => ClaimInv
  BY InitClaimInv
<1>2. ClaimInv /\ [Next]_vars => ClaimInv'
  BY NextClaimInv
<1>3. ClaimInv /\ [Next]_vars => [\A l \in Lids : best_uid'[l] >= best_uid[l]]_vars
  BY NextClaimInv
<1> QED
  BY <1>1, <1>2, <1>3, PTL DEF Spec, ClaimsOnlyRise

-----------------------------------------------------------------------------
(* No claim is lost: while all processes run to their end.                   *)

\* best_uid never passes what was offered, and when it is behind, a writer that
\* holds the newest record is still inside claim_if_newer.
OfferInv ==
    /\ \A l \in Lids :
           /\ best_uid[l] <= highest[l]
           /\ \/ best_uid[l] = highest[l]
              \/ \E w \in Writers : wpc[w] = "claim" /\ wlid[w] = l /\ wuid[w] = highest[l]
    /\ \A w \in Writers :
           /\ wpc[w] # "down"
           /\ wpc[w] = "claim" => wprev[w] <= best_uid[wlid[w]] /\ wuid[w] <= highest[wlid[w]]

LEMMA InitOfferInv == Init => OfferInv
BY DEF Init, OfferInv

LEMMA NextOfferInv ==
    ASSUME MaxDeaths = 0, TypeOK, OfferInv, [Next]_vars
    PROVE  OfferInv'
<1> USE DEF OfferInv
<1>0. /\ best_uid \in [Lids -> Int] /\ highest \in [Lids -> Int]
      /\ wpc \in [Writers -> {"idle", "claim", "load", "mark", "store", "down"}]
      /\ wlid \in [Writers -> Lids] /\ wuid \in [Writers -> Int] /\ wprev \in [Writers -> Int]
      /\ Uids \subseteq Int
  BY DEF TypeOK, Uids
\* The new offer is the newest, or it leaves the newest as it was.
<1>1. ASSUME NEW w \in Writers, NEW l \in Lids, NEW u \in Uids, Offer(w, l, u) PROVE OfferInv'
  <2>1. /\ wpc' = [wpc EXCEPT ![w] = "claim"] /\ wlid' = [wlid EXCEPT ![w] = l]
        /\ wuid' = [wuid EXCEPT ![w] = u] /\ wprev' = [wprev EXCEPT ![w] = best_uid[l]]
        /\ highest' = [highest EXCEPT ![l] = IF u > @ THEN u ELSE @]
        /\ wpc[w] = "idle" /\ UNCHANGED best_uid
    BY <1>1 DEF Offer, segment
  <2>2. /\ \A k \in Lids : highest'[k] >= highest[k] /\ (k # l => highest'[k] = highest[k])
        /\ highest'[l] >= u /\ highest'[l] \in {u, highest[l]}
    BY <1>0, <2>1
  <2>3. ASSUME NEW k \in Lids
        PROVE  /\ best_uid'[k] <= highest'[k]
               /\ \/ best_uid'[k] = highest'[k]
                  \/ \E v \in Writers : wpc'[v] = "claim" /\ wlid'[v] = k /\ wuid'[v] = highest'[k]
    <3>1. CASE highest'[k] = highest[k]
      BY <1>0, <2>1, <3>1
    <3>2. CASE k = l /\ highest'[l] = u
      BY <1>0, <2>1, <2>2, <3>2
    <3> QED
      BY <2>2, <3>1, <3>2
  <2>4. ASSUME NEW v \in Writers, wpc'[v] = "claim"
        PROVE  wprev'[v] <= best_uid'[wlid'[v]] /\ wuid'[v] <= highest'[wlid'[v]]
    <3>1. CASE v = w
      BY <1>0, <2>1, <2>2, <3>1
    <3>2. CASE v # w
      BY <1>0, <2>1, <2>2, <2>4, <3>2
    <3> QED
      BY <3>1, <3>2
  <2> QED
    BY <1>0, <2>1, <2>3, <2>4
\* A record that loses is not newer than prev, and prev not newer than best_uid.
<1>2. ASSUME NEW w \in Writers, ClaimLose(w) PROVE OfferInv'
  <2>1. best_uid[wlid[w]] <= highest[wlid[w]] /\ wuid[w] <= best_uid[wlid[w]]
    BY <1>0, <1>2 DEF ClaimLose, Newer
  <2>2. wuid[w] = highest[wlid[w]] => best_uid[wlid[w]] = highest[wlid[w]]
    BY <1>0, <2>1
  <2> QED
    BY <1>0, <1>2, <2>2 DEF ClaimLose, segment, ghosts
\* A record that wins is newer than best_uid was.
<1>3. ASSUME NEW w \in Writers, ClaimCas(w) PROVE OfferInv'
  <2>1. best_uid[wlid[w]] < wuid[w] /\ wuid[w] <= highest[wlid[w]]
    BY <1>3 DEF ClaimCas, Newer, CasSucceeds
  <2>2. /\ best_uid' = [best_uid EXCEPT ![wlid[w]] = wuid[w]]
        /\ wpc' = [wpc EXCEPT ![w] = "load"]
        /\ UNCHANGED <<wlid, wuid, wprev, highest>>
    BY <1>3 DEF ClaimCas, ghosts
  <2>3. \A l \in Lids : best_uid'[l] >= best_uid[l] /\ best_uid'[l] <= highest'[l]
    BY <2>1, <2>2 DEF TypeOK, Uids
  <2>4. ASSUME NEW l \in Lids
        PROVE  \/ best_uid'[l] = highest'[l]
               \/ \E v \in Writers : wpc'[v] = "claim" /\ wlid'[v] = l /\ wuid'[v] = highest'[l]
    BY <2>1, <2>2 DEF TypeOK, Uids
  <2>5. ASSUME NEW v \in Writers, wpc'[v] = "claim"
        PROVE  wprev'[v] <= best_uid'[wlid'[v]] /\ wuid'[v] <= highest'[wlid'[v]]
    BY <2>2, <2>3, <2>5 DEF TypeOK, Uids
  <2> QED
    BY <2>2, <2>3, <2>4, <2>5 DEF TypeOK
<1>4. ASSUME NEW w \in Writers, ClaimRetry(w) PROVE OfferInv'
  BY <1>4 DEF ClaimRetry, segment, ghosts, TypeOK, Uids
<1>5. ASSUME NEW w \in Writers, Die(w) PROVE FALSE
  BY <1>5 DEF Die, TypeOK
<1>6. ASSUME NEW w \in Writers, Attach(w) \/ Recreate(w) PROVE FALSE
  BY <1>6 DEF Attach, Recreate, FreshLocals
<1>7. ASSUME NEW w \in Writers, LoadSeq(w) \/ Mark(w) \/ End(w) \/ \E f \in Fields : Store(w, f)
      PROVE  OfferInv'
  <2>1. wpc[w] \notin {"claim", "down"} /\ wpc'[w] \notin {"claim", "down"}
    BY <1>0, <1>7 DEF LoadSeq, Mark, End, Store
  <2>2. \A v \in Writers \ {w} : wpc'[v] = wpc[v]
    BY <1>0, <1>7 DEF LoadSeq, Mark, End, Store
  <2>3. UNCHANGED <<best_uid, highest, wlid, wuid, wprev>>
    BY <1>7 DEF LoadSeq, Mark, End, Store, segment, ghosts
  <2> QED
    BY <1>0, <2>1, <2>2, <2>3
<1>8. ASSUME NEW r \in Readers,
             (\E l \in Lids : Snapshot(r, l)) \/ (\E f \in Fields : Copy(r, f)) \/ Verify(r)
      PROVE  OfferInv'
  BY <1>8 DEF Snapshot, Copy, Verify, segment, wlocals, ghosts
<1>9. CASE UNCHANGED vars
  BY <1>9 DEF vars, segment, wlocals, ghosts
<1> QED
  BY <1>1, <1>2, <1>3, <1>4, <1>5, <1>6, <1>7, <1>8, <1>9 DEF Next, WriterStep, ReaderStep

\* However many writers race and retry, none of them killed: once no claim of a
\* symbol is in progress, the newest update_id offered for it is claimed.
THEOREM NoClaimIsLost == ASSUME MaxDeaths = 0 PROVE Spec => []NewestIsClaimed
<1>1. Init => TypeOK /\ OfferInv
  BY InitTypeOK, InitOfferInv
<1>2. TypeOK /\ OfferInv /\ [Next]_vars => (TypeOK /\ OfferInv)'
  BY NextTypeOK, NextOfferInv
<1>3. OfferInv => NewestIsClaimed
  BY DEF OfferInv, NewestIsClaimed
<1> QED
  BY <1>1, <1>2, <1>3, PTL DEF Spec

-----------------------------------------------------------------------------
(* One writer that is killed anywhere and comes back in any way.             *)

BehindInv == TypeOK /\ WinnersBelowBest /\ SlotNeverAhead

LEMMA InitBehindInv == Init => BehindInv
<1> SUFFICES ASSUME Init PROVE WinnersBelowBest /\ SlotNeverAhead
  BY InitTypeOK DEF BehindInv
<1> QED
  BY DEF Init, WinnersBelowBest, SlotNeverAhead, Winning, Whole

LEMMA NextBehindInv ==
    ASSUME SingleWriter, BehindInv, [Next]_vars
    PROVE  BehindInv'
<1> DEFINE Goal == WinnersBelowBest' /\ SlotNeverAhead'
<1>0. TypeOK /\ TypeOK'
  BY NextTypeOK DEF BehindInv
<1> SUFFICES Goal
  BY <1>0 DEF BehindInv
<1> USE <1>0 DEF SingleWriter, BehindInv, WinnersBelowBest, SlotNeverAhead, Winning
<1>1. ASSUME NEW w \in Writers, (\E l \in Lids, u \in Uids : Offer(w, l, u)) \/ ClaimLose(w)
                                \/ ClaimRetry(w) \/ LoadSeq(w) \/ Mark(w) \/ End(w) \/ Die(w)
                                \/ Attach(w)
      PROVE  Goal
  BY <1>1 DEF Offer, ClaimLose, ClaimRetry, LoadSeq, Mark, End, Die, Attach, FreshLocals,
              segment, TypeOK
\* A claim only raises best_uid.
<1>2. ASSUME NEW w \in Writers, ClaimCas(w) PROVE Goal
  BY <1>2 DEF ClaimCas, Newer, CasSucceeds, TypeOK, Uids
\* What is stored was claimed.
<1>3. ASSUME NEW w \in Writers, NEW f \in Fields, Store(w, f) PROVE Goal
  BY <1>3 DEF Store, TypeOK, Uids
\* best_uid and the slots are emptied together, by the only writer there is.
<1>4. ASSUME NEW w \in Writers, Recreate(w) PROVE Goal
  BY <1>4 DEF Recreate, FreshLocals, ZeroSegment, Whole, TypeOK
<1>5. ASSUME NEW r \in Readers,
             (\E l \in Lids : Snapshot(r, l)) \/ (\E f \in Fields : Copy(r, f)) \/ Verify(r)
      PROVE  Goal
  BY <1>5 DEF Snapshot, Copy, Verify, segment, wlocals
<1>6. CASE UNCHANGED vars
  BY <1>6 DEF vars, segment, wlocals
<1> QED
  BY <1>1, <1>2, <1>3, <1>4, <1>5, <1>6 DEF Next, WriterStep, ReaderStep

\* One writer at a time, killed anywhere and coming back by attaching or by
\* creating the segment anew, never leaves a word newer than best_uid.
THEOREM SlotsStayBehind == ASSUME SingleWriter PROVE Spec => []SlotNeverAhead
<1>1. Init => BehindInv
  BY InitBehindInv
<1>2. BehindInv /\ [Next]_vars => BehindInv'
  BY NextBehindInv
<1>3. BehindInv => SlotNeverAhead
  BY DEF BehindInv
<1> QED
  BY <1>1, <1>2, <1>3, PTL DEF Spec

-----------------------------------------------------------------------------
(* The seqlock: one writer that may be killed at any point but does not come *)
(* back to the segment, and any number of readers.                           *)

SeqlockUse == SingleWriter /\ Restarts = {}

\* A readable slot holds the words of the last record written to it.
SlotInv == \A l \in Lids : Even(seq[l]) => payload[l] = Whole(published[l])

\* Outside slot.write every slot of a living writer is readable; inside, only
\* the slot being written is not, and its stored words are the new record's.
WriterInv == \A w \in Writers :
    /\ wpc[w] \in {"idle", "claim", "load", "mark"} => \A l \in Lids : Even(seq[l])
    /\ wpc[w] = "mark" => ws[w] = seq[wlid[w]]
    /\ wpc[w] = "store" =>
         /\ Even(ws[w]) /\ seq[wlid[w]] = ws[w] + 1
         /\ \A l \in Lids \ {wlid[w]} : Even(seq[l])
         /\ \A f \in Fields \ wtodo[w] : payload[wlid[w]][f] = wuid[w]

\* What is written was claimed, and claimed once.
OrderInv ==
    /\ \A l \in Lids : published[l] <= best_uid[l]
    /\ \A w \in Writers : wpc[w] \in Winning => wuid[w] > published[wlid[w]]

\* A reader at work saw an even number that is not in the future; as long as
\* seq still has it, the words copied so far are those of one record.
ReaderInv == \A r \in Readers : rpc[r] = "copy" =>
    /\ Even(rs1[r]) /\ rs1[r] <= seq[rlid[r]]
    /\ seq[rlid[r]] = rs1[r] =>
         \A f \in Fields \ rtodo[r] : rout[r][f] = published[rlid[r]]

SeqlockInv == ClaimInv /\ SlotInv /\ WriterInv /\ OrderInv /\ ReaderInv /\ NoTornRead

\* Parity of the three numbers slot.write uses.
LEMMA Parity == \A n \in Nat : Even(n) => ~Even(n + 1) /\ Even(n + 2)
BY DEF Even

LEMMA InitSeqlockInv == Init => SeqlockInv
<1> SUFFICES ASSUME Init PROVE SlotInv /\ WriterInv /\ OrderInv /\ ReaderInv /\ NoTornRead
  BY InitClaimInv DEF SeqlockInv
<1> USE DEF Init
<1>1. Even(0)
  BY DEF Even
<1>2. SlotInv
  BY DEF SlotInv, Whole
<1>3. WriterInv
  BY <1>1 DEF WriterInv
<1>4. OrderInv
  BY DEF OrderInv, Winning
<1>5. ReaderInv
  BY DEF ReaderInv
<1>6. NoTornRead
  BY BoundsAssumption DEF NoTornRead, Uids
<1> QED
  BY <1>2, <1>3, <1>4, <1>5, <1>6

LEMMA NextSeqlockInv ==
    ASSUME SeqlockUse, SeqlockInv, [Next]_vars
    PROVE  SeqlockInv'
<1> DEFINE Goal == SlotInv' /\ WriterInv' /\ OrderInv' /\ ReaderInv' /\ NoTornRead'
<1>0. ClaimInv /\ ClaimInv'
  BY NextClaimInv DEF SeqlockInv, SeqlockUse, NoRecreate
<1>a. TypeOK /\ TypeOK'
  BY <1>0 DEF ClaimInv
<1> SUFFICES Goal
  BY <1>0 DEF SeqlockInv
<1> USE <1>a DEF SeqlockUse, SingleWriter, SeqlockInv
\* A call of the sink and its claim leave slots and readers alone.
<1>1. ASSUME NEW w \in Writers, NEW l \in Lids, NEW u \in Uids, Offer(w, l, u) PROVE Goal
  BY <1>1 DEF Offer, segment, rlocals, SlotInv, WriterInv, OrderInv, ReaderInv, NoTornRead,
              Winning, TypeOK
<1>2. ASSUME NEW w \in Writers, ClaimLose(w) PROVE Goal
  BY <1>2 DEF ClaimLose, segment, rlocals, ghosts, SlotInv, WriterInv, OrderInv, ReaderInv,
              NoTornRead, Winning, TypeOK
<1>3. ASSUME NEW w \in Writers, ClaimCas(w) PROVE Goal
  <2> USE <1>3 DEF ClaimCas, rlocals, ghosts, TypeOK
  <2>1. wuid[w] > best_uid[wlid[w]]
    BY DEF Newer, CasSucceeds
  <2>2. OrderInv'
    BY <2>1 DEF OrderInv, Winning, Uids
  <2>3. SlotInv' /\ WriterInv' /\ ReaderInv' /\ NoTornRead'
    BY DEF SlotInv, WriterInv, ReaderInv, NoTornRead
  <2> QED
    BY <2>2, <2>3
<1>4. ASSUME NEW w \in Writers, ClaimRetry(w) PROVE Goal
  BY <1>4 DEF ClaimRetry, segment, rlocals, ghosts, SlotInv, WriterInv, OrderInv, ReaderInv,
              NoTornRead, Winning, TypeOK
<1>5. ASSUME NEW w \in Writers, LoadSeq(w) PROVE Goal
  BY <1>5 DEF LoadSeq, segment, rlocals, ghosts, SlotInv, WriterInv, OrderInv, ReaderInv,
              NoTornRead, Winning, TypeOK
\* begin: the slot turns unreadable and the number passes every s1.
<1>6. ASSUME NEW w \in Writers, Mark(w) PROVE Goal
  <2> USE <1>6 DEF Mark, Writing, rlocals, ghosts, TypeOK
  <2>1. /\ Even(seq[wlid[w]]) /\ ws[w] = seq[wlid[w]]
        /\ seq'[wlid[w]] = seq[wlid[w]] + 1 /\ ~Even(seq'[wlid[w]])
        /\ \A l \in Lids \ {wlid[w]} : seq'[l] = seq[l] /\ Even(seq[l])
    BY Parity DEF WriterInv
  <2>2. SlotInv'
    BY <2>1 DEF SlotInv
  <2>3. WriterInv'
    BY <2>1 DEF WriterInv
  <2>4. OrderInv'
    BY DEF OrderInv, Winning
  <2>5. ReaderInv'
    BY <2>1 DEF ReaderInv
  <2>6. NoTornRead'
    BY DEF NoTornRead
  <2> QED
    BY <2>2, <2>3, <2>4, <2>5, <2>6
\* Stores go to the one slot that is not readable.
<1>7. ASSUME NEW w \in Writers, NEW f \in Fields, Store(w, f) PROVE Goal
  <2> USE <1>7 DEF Store, rlocals, ghosts, TypeOK
  <2>1. ~Even(seq[wlid[w]]) /\ \A l \in Lids \ {wlid[w]} : payload'[l] = payload[l]
    BY Parity DEF WriterInv
  <2>2. SlotInv'
    BY <2>1 DEF SlotInv
  <2>3. WriterInv'
    BY <2>1 DEF WriterInv
  <2>4. OrderInv' /\ ReaderInv' /\ NoTornRead'
    BY DEF OrderInv, Winning, ReaderInv, NoTornRead
  <2> QED
    BY <2>2, <2>3, <2>4
\* end: the slot is readable again under a number no reader has.
<1>8. ASSUME NEW w \in Writers, End(w) PROVE Goal
  <2> USE <1>8 DEF End, Written, rlocals, TypeOK
  <2>1. /\ Even(ws[w]) /\ seq[wlid[w]] = ws[w] + 1 /\ seq'[wlid[w]] = ws[w] + 2
        /\ Even(seq'[wlid[w]])
        /\ \A l \in Lids \ {wlid[w]} : seq'[l] = seq[l] /\ Even(seq[l])
        /\ payload[wlid[w]] = Whole(wuid[w])
    BY Parity DEF WriterInv, Whole
  <2>2. SlotInv'
    BY <2>1 DEF SlotInv, Whole
  <2>3. WriterInv'
    BY <2>1 DEF WriterInv
  <2>4. OrderInv'
    <3>1. wuid[w] <= best_uid[wlid[w]]
      BY <1>0 DEF ClaimInv, WinnersBelowBest, Winning
    <3> QED
      BY <3>1 DEF OrderInv, Winning
  <2>5. ReaderInv'
    BY <2>1 DEF ReaderInv
  <2>6. NoTornRead'
    BY DEF NoTornRead
  <2> QED
    BY <2>2, <2>3, <2>4, <2>5, <2>6
<1>9. ASSUME NEW w \in Writers, Die(w) PROVE Goal
  BY <1>9 DEF Die, segment, rlocals, SlotInv, WriterInv, OrderInv, ReaderInv, NoTornRead,
              Winning, TypeOK
<1>10. ASSUME NEW w \in Writers, Attach(w) \/ Recreate(w) PROVE Goal
  BY <1>10 DEF Attach, Recreate
<1>11. ASSUME NEW r \in Readers, NEW l \in Lids, Snapshot(r, l) PROVE Goal
  BY <1>11 DEF Snapshot, segment, wlocals, ghosts, SlotInv, WriterInv, OrderInv, ReaderInv,
               NoTornRead, TypeOK
\* While seq is still s1 the slot is readable: the word copied is the record's.
<1>12. ASSUME NEW r \in Readers, NEW f \in Fields, Copy(r, f) PROVE Goal
  <2> USE <1>12 DEF Copy, segment, wlocals, ghosts, TypeOK
  <2>1. seq[rlid[r]] = rs1[r] => payload[rlid[r]][f] = published[rlid[r]]
    BY DEF ReaderInv, SlotInv, Whole
  <2>2. ReaderInv'
    BY <2>1 DEF ReaderInv
  <2>3. SlotInv' /\ WriterInv' /\ OrderInv' /\ NoTornRead'
    BY DEF SlotInv, WriterInv, OrderInv, NoTornRead
  <2> QED
    BY <2>2, <2>3
<1>13. ASSUME NEW r \in Readers, Verify(r) PROVE Goal
  <2>1. seq[rlid[r]] = rs1[r] => rout[r] = Whole(published[rlid[r]])
    <3>1. seq[rlid[r]] = rs1[r] => \A f \in Fields : rout[r][f] = published[rlid[r]]
      BY <1>13 DEF ReaderInv, Verify
    <3>2. rout[r] \in [Fields -> Uids]
      BY DEF TypeOK
    <3> QED
      BY <3>1, <3>2 DEF Whole
  <2> USE <1>13 DEF Verify, Verified, segment, wlocals, ghosts, TypeOK
  <2>2. NoTornRead'
    BY <2>1 DEF NoTornRead
  <2>3. SlotInv' /\ WriterInv' /\ OrderInv' /\ ReaderInv'
    BY DEF SlotInv, WriterInv, OrderInv, ReaderInv
  <2> QED
    BY <2>2, <2>3
<1>14. CASE UNCHANGED vars
  BY <1>14 DEF vars, segment, wlocals, rlocals, ghosts, SlotInv, WriterInv, OrderInv,
               ReaderInv, NoTornRead
<1> QED
  BY <1>1, <1>2, <1>3, <1>4, <1>5, <1>6, <1>7, <1>8, <1>9, <1>10, <1>11, <1>12,
     <1>13, <1>14 DEF Next, WriterStep, ReaderStep

\* With one writer, killed or not, no reader ever accepts a copy with words of
\* two records: the even/odd protocol of slot.write and slot.read is enough.
THEOREM ReadsAreWhole == ASSUME SeqlockUse PROVE Spec => []NoTornRead
<1>1. Init => SeqlockInv
  BY InitSeqlockInv
<1>2. SeqlockInv /\ [Next]_vars => SeqlockInv'
  BY NextSeqlockInv
<1>3. SeqlockInv => NoTornRead
  BY DEF SeqlockInv
<1> QED
  BY <1>1, <1>2, <1>3, PTL DEF Spec

-----------------------------------------------------------------------------
(* The slot at rest. *)

\* A claim and the write it leads to are one: outside slot.write what was
\* claimed is published; inside, all but the record in hand is.
ShownInv ==
    /\ \A w \in Writers :
           /\ wpc[w] \in {"idle", "claim"} => published = best_uid
           /\ wpc[w] \in Winning =>
                  /\ best_uid[wlid[w]] = wuid[w]
                  /\ \A l \in Lids \ {wlid[w]} : published[l] = best_uid[l]

LEMMA InitShownInv == Init => ShownInv
BY DEF Init, ShownInv, Winning

LEMMA NextShownInv ==
    ASSUME SeqlockUse, TypeOK, ShownInv, [Next]_vars
    PROVE  ShownInv'
<1> USE DEF SeqlockUse, SingleWriter, ShownInv, Winning
<1>1. ASSUME NEW w \in Writers, (\E l \in Lids, u \in Uids : Offer(w, l, u)) \/ ClaimLose(w)
                                \/ ClaimRetry(w) \/ LoadSeq(w) \/ Mark(w) \/ Die(w)
                                \/ \E f \in Fields : Store(w, f)
      PROVE  ShownInv'
  BY <1>1 DEF Offer, ClaimLose, ClaimRetry, LoadSeq, Mark, Die, Store, segment, ghosts, TypeOK
<1>2. ASSUME NEW w \in Writers, ClaimCas(w) PROVE ShownInv'
  BY <1>2 DEF ClaimCas, ghosts, TypeOK
\* The end of the write publishes the record in hand, the one that was missing.
<1>3. ASSUME NEW w \in Writers, End(w) PROVE ShownInv'
  <2>1. published' = [published EXCEPT ![wlid[w]] = wuid[w]] /\ UNCHANGED best_uid
    BY <1>3 DEF End
  <2>2. \A l \in Lids : published'[l] = best_uid[l]
    BY <1>3, <2>1 DEF End, TypeOK
  <2>3. published' = best_uid'
    BY <2>1, <2>2 DEF TypeOK
  <2> QED
    BY <1>3, <2>3 DEF End, TypeOK
<1>4. ASSUME NEW w \in Writers, Attach(w) \/ Recreate(w) PROVE FALSE
  BY <1>4 DEF Attach, Recreate
<1>5. ASSUME NEW r \in Readers,
             (\E l \in Lids : Snapshot(r, l)) \/ (\E f \in Fields : Copy(r, f)) \/ Verify(r)
      PROVE  ShownInv'
  BY <1>5 DEF Snapshot, Copy, Verify, segment, wlocals, ghosts
<1>6. CASE UNCHANGED vars
  BY <1>6 DEF vars, segment, wlocals, ghosts
<1> QED
  BY <1>1, <1>2, <1>3, <1>4, <1>5, <1>6 DEF Next, WriterStep, ReaderStep

\* A writer at rest leaves every slot readable and holding the record that was
\* claimed last: no claim is without its write.
THEOREM ClaimedIsShown ==
    ASSUME SeqlockUse, Writers # {} PROVE Spec => []SlotShowsTheClaimed
<1>1. Init => SeqlockInv /\ ShownInv
  BY InitSeqlockInv, InitShownInv
<1>2. SeqlockInv /\ ShownInv /\ [Next]_vars => (SeqlockInv /\ ShownInv)'
  BY NextSeqlockInv, NextShownInv DEF SeqlockInv, ClaimInv
<1>3. SeqlockInv /\ ShownInv => SlotShowsTheClaimed
  BY DEF SeqlockInv, ShownInv, SlotInv, WriterInv, SlotShowsTheClaimed
<1> QED
  BY <1>1, <1>2, <1>3, PTL DEF Spec

-----------------------------------------------------------------------------
(* Refinement: Board with one writer implements LatestBoard. *)

AbstractNext == [AbstractBoard!Next]_(AbstractBoard!absVars)

LEMMA InitRefines == Init => AbstractBoard!Init
BY DEF Init, AbstractBoard!Init, Whole, AbstractBoard!Whole

\* The end of a write is a publication, an accepted read is a read, and every
\* other step changes neither the published records nor the accepted copies.
LEMMA NextRefines ==
    ASSUME SeqlockUse, SeqlockInv, [Next]_vars
    PROVE  AbstractNext
<1> USE DEF AbstractNext, AbstractBoard!absVars
<1>0. TypeOK
  BY DEF SeqlockInv, ClaimInv
<1>1. ASSUME NEW w \in Writers, End(w) PROVE AbstractNext
  <2>1. wlid[w] \in Lids /\ wuid[w] \in Uids /\ wuid[w] > published[wlid[w]]
    BY <1>0, <1>1 DEF SeqlockInv, OrderInv, Winning, End, TypeOK
  <2>2. AbstractBoard!Publish(wlid[w], wuid[w])
    BY <1>1, <2>1 DEF End, rlocals, AbstractBoard!Publish
  <2> QED
    BY <2>1, <2>2 DEF AbstractBoard!Next
<1>2. ASSUME NEW r \in Readers, Verify(r) PROVE AbstractNext
  <2>1. CASE Verified(r)
    <3>1. rlid[r] \in Lids
      BY <1>0 DEF TypeOK
    <3>2. \A f \in Fields : rout[r][f] = published[rlid[r]]
      BY <1>2, <2>1 DEF SeqlockInv, ReaderInv, Verify, Verified
    <3>3. rout[r] = AbstractBoard!Whole(published[rlid[r]])
      BY <1>0, <3>2 DEF TypeOK, AbstractBoard!Whole
    <3>4. got' = [got EXCEPT ![r][rlid[r]] = rout[r]] /\ UNCHANGED published
      BY <1>2, <2>1 DEF Verify, ghosts
    <3>5. AbstractBoard!Read(r, rlid[r])
      BY <3>3, <3>4 DEF AbstractBoard!Read
    <3> QED
      BY <3>1, <3>5 DEF AbstractBoard!Next
  <2>2. CASE ~Verified(r)
    BY <1>2, <2>2 DEF Verify, ghosts
  <2> QED
    BY <2>1, <2>2
<1>3. ASSUME NEW w \in Writers,
             (\E l \in Lids, u \in Uids : Offer(w, l, u)) \/ Die(w)
             \/ ClaimLose(w) \/ ClaimCas(w) \/ ClaimRetry(w) \/ LoadSeq(w)
             \/ Mark(w) \/ \E f \in Fields : Store(w, f)
      PROVE  UNCHANGED <<published, got>>
  BY <1>3 DEF Offer, Die, ClaimLose, ClaimCas, ClaimRetry, LoadSeq, Mark, Store,
              rlocals, ghosts
<1>4. ASSUME NEW r \in Readers,
             (\E l \in Lids : Snapshot(r, l)) \/ \E f \in Fields : Copy(r, f)
      PROVE  UNCHANGED <<published, got>>
  BY <1>4 DEF Snapshot, Copy, ghosts
<1>5. ASSUME NEW w \in Writers PROVE ~(Attach(w) \/ Recreate(w))
  BY SeqlockUse DEF SeqlockUse, Attach, Recreate
<1>6. CASE UNCHANGED vars
  BY <1>6 DEF vars, rlocals, ghosts
<1> QED
  BY <1>1, <1>2, <1>3, <1>4, <1>5, <1>6 DEF Next, WriterStep, ReaderStep

\* The detailed board implements the abstract one: for one writer the seqlock
\* is a register per symbol that is written and read whole, in order of
\* update_id, whenever the writer is killed and however readers interleave.
THEOREM SeqlockIsARegister == ASSUME SeqlockUse PROVE Spec => ImplementsLatestBoard
<1>1. Init => SeqlockInv /\ AbstractBoard!Init
  BY InitSeqlockInv, InitRefines
<1>2. SeqlockInv /\ [Next]_vars => SeqlockInv'
  BY NextSeqlockInv
<1>3. SeqlockInv /\ [Next]_vars => AbstractNext
  BY NextRefines
<1> QED
  BY <1>1, <1>2, <1>3, PTL DEF Spec, ImplementsLatestBoard, AbstractBoard!Spec, AbstractNext
=============================================================================
