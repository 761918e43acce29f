---------------------------- MODULE BroadcastLog ----------------------------
(***************************************************************************)
(* What a trade segment promises its consumers, with no cells and no       *)
(* marks: one log of trades, of which every consumer reads all in order    *)
(* from a cursor of its own, except those it is told it missed, which it   *)
(* can miss only by falling more than a lap behind.  A trade is named by   *)
(* its place in the log, once for each payload word copied.                *)
(*                                                                         *)
(* Producers reserve a place first and finish it later, in any order; a    *)
(* consumer waits for an unfinished trade.  Place 0 counts as finished     *)
(* from the start, which is what the zeroed segment says of it.            *)
(*                                                                         *)
(* Module TradeRing, the ring of the code, implements this.                *)
(***************************************************************************)
EXTENDS Naturals, Sequences

CONSTANTS Consumers,  \* processes that read the log
          Words,      \* payload words of a trade
          Lap         \* how far a consumer may fall behind

VARIABLES size,       \* places reserved
          finished,   \* places whose trade is written
          cursor,     \* cursor[c]: the next place of consumer c
          heard,      \* heard[c]: the trades c was given
          missed      \* missed[c]: how many c was told it missed

logVars == <<size, finished, cursor, heard, missed>>

Trade(place) == [w \in Words |-> place]

Init ==
    /\ size = 0
    /\ finished = {0}
    /\ cursor = [c \in Consumers |-> 0]
    /\ heard = [c \in Consumers |-> <<>>]
    /\ missed = [c \in Consumers |-> 0]

Reserve ==
    /\ size' = size + 1
    /\ UNCHANGED <<finished, cursor, heard, missed>>

Finish(place) ==
    /\ place < size
    /\ finished' = finished \cup {place}
    /\ UNCHANGED <<size, cursor, heard, missed>>

Hear(c) ==
    /\ cursor[c] < size /\ cursor[c] \in finished
    /\ heard' = [heard EXCEPT ![c] = Append(@, Trade(cursor[c]))]
    /\ cursor' = [cursor EXCEPT ![c] = @ + 1]
    /\ UNCHANGED <<size, finished, missed>>

\* A consumer too slow goes on with the last lap and is told the difference.
Miss(c) ==
    /\ cursor[c] + Lap < size
    /\ cursor' = [cursor EXCEPT ![c] = size - Lap]
    /\ missed' = [missed EXCEPT ![c] = @ + (size - Lap - cursor[c])]
    /\ UNCHANGED <<size, finished, heard>>

Next ==
    \/ Reserve
    \/ \E place \in 0 .. size - 1 : Finish(place)
    \/ \E c \in Consumers : Hear(c) \/ Miss(c)

Spec == Init /\ [][Next]_logVars
=============================================================================
