------------------------------- MODULE Board -------------------------------
(***************************************************************************)
(* The book segments in shared memory: BookTickBoard (one level per slot)  *)
(* and DepthBoard (25 levels per slot, the same protocol).  A slot is a    *)
(* seqlock - an even sequence number means stable, an odd one means being  *)
(* written - and best_uid keeps, per symbol, the newest claimed update_id. *)
(*                                                                         *)
(* Writers are the threads of control that call BookSink::write (or        *)
(* DepthSink::write): claim_if_newer, then slot.write.  Readers are the    *)
(* consumer processes that poll slot.read.  One action is one access to an *)
(* atomic of the segment or to one payload word.  The fences of seqlock.h  *)
(* keep payload accesses between the two accesses to seq but order nothing *)
(* among them, so payload words are stored and copied in any order.        *)
(*                                                                         *)
(* A payload word holds the update_id of the record it came from, 0 in a   *)
(* zeroed segment: a copy is torn when its words name different records.   *)
(* The 64-bit wrap of seq (2^63 writes of one slot) is left out.           *)
(***************************************************************************)
EXTENDS Integers, FiniteSets

CONSTANTS Writers,     \* processes that write the segment
          Readers,     \* consumer processes
          Lids,        \* local symbol ids: the index of best_uid and slot
          Fields,      \* payload words of a slot
          MaxUid,      \* bound: greatest update_id of the input
          MaxOffers,   \* bound: records handed to one writer's sink
          MaxDeaths,   \* bound: processes that end, in total
          Restarts     \* how an ended writer comes back, see Attach, Recreate

ASSUME FieldsAssumption == Fields # {}
ASSUME BoundsAssumption == MaxUid \in Nat /\ MaxOffers \in Nat /\ MaxDeaths \in Nat
ASSUME RestartsAssumption == Restarts \subseteq {"attach", "create"}

VARIABLES
    best_uid,   \* best_uid[l]: newest claimed update_id             (segment)
    seq,        \* seq[l]: seqlock number of slot l                  (segment)
    payload,    \* payload[l][f]: record in word f of slot l         (segment)
    wpc,        \* where writer w is inside Sink::write
    wlid,       \* r.gid of the record in hand
    wuid,       \* r.update_id of the record in hand
    wprev,      \* claim_if_newer's prev
    ws,         \* slot.write's s
    wtodo,      \* payload words slot.write has still to store
    deduped,    \* BookSink::deduped_
    offers,     \* records handed to the sink so far                 (bound)
    deaths,     \* processes that ended so far                       (bound)
    rpc,        \* where reader r is inside slot.read
    rlid,       \* the slot it reads
    rs1,        \* slot.read's s1
    rtodo,      \* payload words still to copy
    rout,       \* slot.read's out
    got,        \* got[r][l]: copy of slot l that r last accepted
    published,  \* history: record of the last write of slot l that ended
    highest     \* history: newest update_id offered for l

segment == <<best_uid, seq, payload>>
wlocals == <<wpc, wlid, wuid, wprev, ws, wtodo, deduped>>
rlocals == <<rpc, rlid, rs1, rtodo, rout, got>>
ghosts  == <<offers, deaths, published, highest>>
vars    == <<segment, wlocals, rlocals, ghosts>>

Uids == 0 .. MaxUid
Even(n) == n % 2 = 0
Whole(uid) == [f \in Fields |-> uid]

AbstractBoard == INSTANCE LatestBoard WITH latest <- published, seen <- got

Init ==
    /\ best_uid = [l \in Lids |-> 0]
    /\ seq = [l \in Lids |-> 0]
    /\ payload = [l \in Lids |-> Whole(0)]
    /\ wpc = [w \in Writers |-> "idle"]
    /\ wlid \in [Writers -> Lids]
    /\ wuid = [w \in Writers |-> 0]
    /\ wprev = [w \in Writers |-> 0]
    /\ ws = [w \in Writers |-> 0]
    /\ wtodo = [w \in Writers |-> {}]
    /\ deduped = [w \in Writers |-> 0]
    /\ offers = [w \in Writers |-> 0]
    /\ deaths = 0
    /\ rpc = [r \in Readers |-> "idle"]
    /\ rlid \in [Readers -> Lids]
    /\ rs1 = [r \in Readers |-> 0]
    /\ rtodo = [r \in Readers |-> {}]
    /\ rout = [r \in Readers |-> Whole(0)]
    /\ got = [r \in Readers |-> [l \in Lids |-> Whole(0)]]
    /\ published = [l \in Lids |-> 0]
    /\ highest = [l \in Lids |-> 0]

-----------------------------------------------------------------------------
(* The decisions of the code, each preceded by the forms that a bug would    *)
(* give it; the runs show that the properties tell them apart.               *)

AlwaysNewer(w) == TRUE
NewerByTwo(w) == wuid[w] > wprev[w] + 1
\* while (update_id > prev)
Newer(w) == wuid[w] > wprev[w]

PlainStore(w) == TRUE
\* best_uid[lid].compare_exchange_weak(prev, update_id) finds prev there.
CasSucceeds(w) == best_uid[wlid[w]] = wprev[w]

MarkedBackwards(s) == s - 1
\* The odd number that says a write is going on.
Writing(s) == s + 1

LeftOdd(s) == s + 1
\* The even number that says the write has ended.
Written(s) == s + 2

NotVerified(r) == TRUE
\* seqlock::verify(seq, s1)
Verified(r) == seq[rlid[r]] = rs1[r]

SlotsKept == /\ best_uid' = [l \in Lids |-> 0]
             /\ UNCHANGED <<seq, payload>>
\* O_TRUNC and ftruncate leave zeroes in a segment readers still have mapped.
ZeroSegment == /\ best_uid' = [l \in Lids |-> 0]
               /\ seq' = [l \in Lids |-> 0]
               /\ payload' = [l \in Lids |-> Whole(0)]

-----------------------------------------------------------------------------
(* claim_if_newer *)

\* BookSink::write is called and claim_if_newer loads prev.
Offer(w, l, u) ==
    /\ wpc[w] = "idle" /\ offers[w] < MaxOffers
    /\ wpc' = [wpc EXCEPT ![w] = "claim"]
    /\ wlid' = [wlid EXCEPT ![w] = l]
    /\ wuid' = [wuid EXCEPT ![w] = u]
    /\ wprev' = [wprev EXCEPT ![w] = best_uid[l]]
    /\ offers' = [offers EXCEPT ![w] = @ + 1]
    /\ highest' = [highest EXCEPT ![l] = IF u > @ THEN u ELSE @]
    /\ UNCHANGED <<segment, ws, wtodo, deduped, rlocals, deaths, published>>

\* update_id <= prev: the record is counted and not written.
ClaimLose(w) ==
    /\ wpc[w] = "claim" /\ ~Newer(w)
    /\ wpc' = [wpc EXCEPT ![w] = "idle"]
    /\ deduped' = [deduped EXCEPT ![w] = @ + 1]
    /\ UNCHANGED <<segment, wlid, wuid, wprev, ws, wtodo, rlocals, ghosts>>

\* The compare-exchange succeeds: this writer may write the slot.
ClaimCas(w) ==
    /\ wpc[w] = "claim" /\ Newer(w) /\ CasSucceeds(w)
    /\ best_uid' = [best_uid EXCEPT ![wlid[w]] = wuid[w]]
    /\ wpc' = [wpc EXCEPT ![w] = "load"]
    /\ UNCHANGED <<seq, payload, wlid, wuid, wprev, ws, wtodo, deduped, rlocals, ghosts>>

\* It fails and leaves the current value in prev; a spurious failure of the
\* weak form leaves the same value there, a stuttering step.
ClaimRetry(w) ==
    /\ wpc[w] = "claim" /\ Newer(w) /\ ~CasSucceeds(w)
    /\ wprev' = [wprev EXCEPT ![w] = best_uid[wlid[w]]]
    /\ UNCHANGED <<segment, wpc, wlid, wuid, ws, wtodo, deduped, rlocals, ghosts>>

-----------------------------------------------------------------------------
(* slot.write *)

\* s = seq
LoadSeq(w) ==
    /\ wpc[w] = "load"
    /\ ws' = [ws EXCEPT ![w] = seq[wlid[w]]]
    /\ wpc' = [wpc EXCEPT ![w] = "mark"]
    /\ UNCHANGED <<segment, wlid, wuid, wprev, wtodo, deduped, rlocals, ghosts>>

\* seqlock::begin(seq, s + 1)
Mark(w) ==
    /\ wpc[w] = "mark"
    /\ seq' = [seq EXCEPT ![wlid[w]] = Writing(ws[w])]
    /\ wtodo' = [wtodo EXCEPT ![w] = Fields]
    /\ wpc' = [wpc EXCEPT ![w] = "store"]
    /\ UNCHANGED <<best_uid, payload, wlid, wuid, wprev, ws, deduped, rlocals, ghosts>>

\* One payload word, any that is left.
Store(w, f) ==
    /\ wpc[w] = "store" /\ f \in wtodo[w]
    /\ payload' = [payload EXCEPT ![wlid[w]] = [@ EXCEPT ![f] = wuid[w]]]
    /\ wtodo' = [wtodo EXCEPT ![w] = @ \ {f}]
    /\ UNCHANGED <<best_uid, seq, wpc, wlid, wuid, wprev, ws, deduped, rlocals, ghosts>>

\* seqlock::end(seq, s + 2), and Sink::write returns.
End(w) ==
    /\ wpc[w] = "store" /\ wtodo[w] = {}
    /\ seq' = [seq EXCEPT ![wlid[w]] = Written(ws[w])]
    /\ wpc' = [wpc EXCEPT ![w] = "idle"]
    /\ published' = [published EXCEPT ![wlid[w]] = wuid[w]]
    /\ UNCHANGED <<best_uid, payload, wlid, wuid, wprev, ws, wtodo, deduped, rlocals,
                   offers, deaths, highest>>

-----------------------------------------------------------------------------
(* The end of a writer process and the start of the next one *)

\* The process ends: at rest when the replay is over, anywhere when killed.
Die(w) ==
    /\ wpc[w] # "down" /\ deaths < MaxDeaths
    /\ wpc' = [wpc EXCEPT ![w] = "down"]
    /\ deaths' = deaths + 1
    /\ UNCHANGED <<segment, wlid, wuid, wprev, ws, wtodo, deduped, rlocals,
                   offers, published, highest>>

\* What a new process starts with.
FreshLocals(w) ==
    /\ wpc[w] = "down"
    /\ wpc' = [wpc EXCEPT ![w] = "idle"]
    /\ deduped' = [deduped EXCEPT ![w] = 0]
    /\ UNCHANGED <<wlid, wuid, wprev, ws, wtodo, rlocals, offers, deaths>>

\* ShmSegment::open with create = false: the segment is used as it was left.
Attach(w) ==
    /\ "attach" \in Restarts
    /\ FreshLocals(w)
    /\ UNCHANGED <<segment, published, highest>>

\* ShmSegment::open with create = true: the segment is emptied first.
Recreate(w) ==
    /\ "create" \in Restarts
    /\ FreshLocals(w)
    /\ ZeroSegment
    /\ published' = [l \in Lids |-> 0]
    /\ highest' = [l \in Lids |-> 0]

-----------------------------------------------------------------------------
(* slot.read *)

\* s1 = seqlock::snapshot(seq); an odd s1 returns false at once.
Snapshot(r, l) ==
    /\ rpc[r] = "idle" /\ Even(seq[l])
    /\ rpc' = [rpc EXCEPT ![r] = "copy"]
    /\ rlid' = [rlid EXCEPT ![r] = l]
    /\ rs1' = [rs1 EXCEPT ![r] = seq[l]]
    /\ rtodo' = [rtodo EXCEPT ![r] = Fields]
    /\ UNCHANGED <<segment, wlocals, rout, got, ghosts>>

\* One payload word, any that is left.
Copy(r, f) ==
    /\ rpc[r] = "copy" /\ f \in rtodo[r]
    /\ rout' = [rout EXCEPT ![r] = [@ EXCEPT ![f] = payload[rlid[r]][f]]]
    /\ rtodo' = [rtodo EXCEPT ![r] = @ \ {f}]
    /\ UNCHANGED <<segment, wlocals, rpc, rlid, rs1, got, ghosts>>

\* seqlock::verify(seq, s1): the copy counts if seq is still s1.
Verify(r) ==
    /\ rpc[r] = "copy" /\ rtodo[r] = {}
    /\ rpc' = [rpc EXCEPT ![r] = "idle"]
    /\ got' = IF Verified(r)
              THEN [got EXCEPT ![r] = [@ EXCEPT ![rlid[r]] = rout[r]]]
              ELSE got
    /\ UNCHANGED <<segment, wlocals, rlid, rs1, rtodo, rout, ghosts>>

-----------------------------------------------------------------------------

WriterStep(w) ==
    \/ ClaimLose(w) \/ ClaimCas(w) \/ ClaimRetry(w)
    \/ LoadSeq(w) \/ Mark(w) \/ End(w)
    \/ \E f \in Fields : Store(w, f)

ReaderStep(r) ==
    \/ \E f \in Fields : Copy(r, f)
    \/ Verify(r)

Next ==
    \/ \E w \in Writers : \/ \E l \in Lids, u \in Uids : Offer(w, l, u)
                          \/ WriterStep(w)
                          \/ Die(w) \/ Attach(w) \/ Recreate(w)
    \/ \E r \in Readers : \/ \E l \in Lids : Snapshot(r, l)
                          \/ ReaderStep(r)

Spec == Init /\ [][Next]_vars

\* A call that has begun goes on: sink and reader code never blocks.  A
\* consumer polls every slot again and again, so it also polls at instants
\* when the slot is readable.
FairSpec ==
    /\ Spec
    /\ \A w \in Writers : WF_vars(WriterStep(w))
    /\ \A r \in Readers : WF_vars(ReaderStep(r))
    /\ \A r \in Readers, l \in Lids : SF_vars(Snapshot(r, l))

-----------------------------------------------------------------------------
(* Properties *)

\* Every variable has its type: update_ids stay in the input's range, sequence
\* numbers never go below 0, and a writer stores nothing outside its payload.
TypeOK ==
    /\ best_uid \in [Lids -> Uids]
    /\ seq \in [Lids -> Nat]
    /\ payload \in [Lids -> [Fields -> Uids]]
    /\ wpc \in [Writers -> {"idle", "claim", "load", "mark", "store", "down"}]
    /\ wlid \in [Writers -> Lids]
    /\ wuid \in [Writers -> Uids]
    /\ wprev \in [Writers -> Uids]
    /\ ws \in [Writers -> Nat]
    /\ wtodo \in [Writers -> SUBSET Fields]
    /\ deduped \in [Writers -> Nat]
    /\ offers \in [Writers -> 0 .. MaxOffers]
    /\ deaths \in 0 .. MaxDeaths
    /\ rpc \in [Readers -> {"idle", "copy"}]
    /\ rlid \in [Readers -> Lids]
    /\ rs1 \in [Readers -> Nat]
    /\ rtodo \in [Readers -> SUBSET Fields]
    /\ rout \in [Readers -> [Fields -> Uids]]
    /\ got \in [Readers -> [Lids -> [Fields -> Uids]]]
    /\ published \in [Lids -> Uids]
    /\ highest \in [Lids -> Uids]

\* A copy that slot.read accepted holds the words of one record only
\* (booktick_board.h:49, depth_board.h:52: false means torn, true means not).
NoTornRead == \A r \in Readers, l \in Lids : \E u \in Uids : got[r][l] = Whole(u)

\* The seqlock protocol implements a board of atomic registers: a write that
\* ends is one publication of a whole newer record, an accepted read returns
\* the whole record that was last published.
ImplementsLatestBoard == AbstractBoard!Spec

\* Writers race on claim_if_newer, but best_uid of a slot only ever rises:
\* no claim won with a stale prev puts back an older update_id.
ClaimsOnlyRise ==
    [][\A l \in Lids : best_uid'[l] >= best_uid[l]]_vars

\* The same update_id offered by two writers is written by one of them: two
\* winners inside slot.write of one symbol hold different records.
OneWinnerPerUpdate ==
    \A v, w \in Writers :
        /\ wpc[v] \in {"load", "mark", "store"} /\ wpc[w] \in {"load", "mark", "store"}
        /\ wlid[v] = wlid[w] /\ wuid[v] = wuid[w]
        => v = w

\* No record is lost to the race: with no claim of symbol l in progress, the
\* newest update_id that any writer offered is the claimed one.
NewestIsClaimed ==
    \A l \in Lids :
        (\A w \in Writers : wpc[w] = "claim" => wlid[w] # l) => best_uid[l] = highest[l]

\* At rest the slot shows what was claimed: once every writer has left
\* Sink::write, the words of slot l are those of the newest claimed record.
SlotShowsTheClaimed ==
    (\A w \in Writers : wpc[w] = "idle") =>
        \A l \in Lids : Even(seq[l]) /\ payload[l] = Whole(best_uid[l])

\* With one writer at a time best_uid is never behind the slot, wherever a
\* process is killed and however the next one opens the segment: no payload word
\* is newer, so a record that wins its claim never replaces a newer one.
SlotNeverAhead ==
    \A l \in Lids, f \in Fields : payload[l][f] <= best_uid[l]

\* When the input has ended and no writer was killed, every polling reader comes
\* to hold the newest record of every slot and keeps it: none starves on retries.
ReadersConverge ==
    \A r \in Readers, l \in Lids : <>[](got[r][l] = Whole(best_uid[l]) \/ deaths > 0)
=============================================================================
