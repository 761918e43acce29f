---------------------------- MODULE LatestBoard ----------------------------
(***************************************************************************)
(* What a board segment promises its consumers, with no memory layout: for *)
(* every local symbol id one register that holds the newest book record.   *)
(* A publication replaces the whole record by a newer one; a read returns  *)
(* the whole record that is current at that instant.  A record is named by *)
(* its update_id, 0 standing for the zeroed slot of a new segment, and a   *)
(* reader holds one copy of that name for each payload field it copied.    *)
(*                                                                         *)
(* Module Board, the seqlock protocol of the code, implements this.        *)
(***************************************************************************)
EXTENDS Naturals

CONSTANTS Readers,   \* consumers mapped on the segment
          Lids,      \* local symbol ids, the index of a slot
          Fields,    \* payload words of a slot
          Uids       \* the update_ids a record may have, with 0

VARIABLES latest,    \* latest[l]: update_id of the record in slot l
          seen       \* seen[r][l]: the record reader r last accepted from l

absVars == <<latest, seen>>

\* The record uid, field by field, with no field of another record in it.
Whole(uid) == [f \in Fields |-> uid]

Init ==
    /\ latest = [l \in Lids |-> 0]
    /\ seen = [r \in Readers |-> [l \in Lids |-> Whole(0)]]

Publish(l, uid) ==
    /\ uid > latest[l]
    /\ latest' = [latest EXCEPT ![l] = uid]
    /\ UNCHANGED seen

Read(r, l) ==
    /\ seen' = [seen EXCEPT ![r][l] = Whole(latest[l])]
    /\ UNCHANGED latest

Next ==
    \/ \E l \in Lids, uid \in Uids : Publish(l, uid)
    \/ \E r \in Readers, l \in Lids : Read(r, l)

Spec == Init /\ [][Next]_absVars
=============================================================================
