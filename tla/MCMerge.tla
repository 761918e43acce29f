------------------------------ MODULE MCMerge ------------------------------
(* Merge for TLC: every short file, in every combination. *)
EXTENDS Merge, TLC

CONSTANTS MaxTs,    \* bound: timestamps are 0 .. MaxTs
          MaxRows   \* bound: rows of a file

RowsUpTo == [ok : {TRUE}, ts : 0 .. MaxTs] \cup [ok : {FALSE}, ts : {0}]
Files == UNION {[1 .. n -> RowsUpTo] : n \in 0 .. MaxRows}
Ordered(f) == \A i, j \in DOMAIN f : i < j /\ f[i].ok /\ f[j].ok => f[i].ts <= f[j].ts

\* Sources 0 and 1 are of unit 0, source 2 is of unit 1.
MCSources == 0 .. 2
MCUnitOf == 0 :> 0 @@ 1 :> 0 @@ 2 :> 1
MCInputs == [MCSources -> {f \in Files : Ordered(f)}]
MCWindows == [{0, 1} -> [start : {0, 1}, end : {1, MaxTs}]]
=============================================================================
