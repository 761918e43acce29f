----------------------------- MODULE MCSegment -----------------------------
(* Segment for TLC: a replay that creates the segment, and processes that    *)
(* attach to it with the same layout, another schema or another shape.       *)
EXTENDS Segment, TLC

CONSTANTS maker,              \* the creating process
          same, drifted, deep \* attaching processes

BboLayout   == [kind |-> 1, entry |-> 1, capacity |-> 2, schema |-> 1]
DriftLayout == [BboLayout EXCEPT !.schema = 2]
DepthLayout == [BboLayout EXCEPT !.entry = 2, !.schema = 3]

MCLayoutOf == maker :> BboLayout @@ same :> BboLayout
              @@ drifted :> DriftLayout @@ deep :> DepthLayout
\* The creator comes back once; attaching again would show an attacher the same.
MCMaxStarts == [p \in Processes |-> IF p \in Creators THEN 2 ELSE 1]
=============================================================================
