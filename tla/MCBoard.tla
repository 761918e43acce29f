------------------------------ MODULE MCBoard ------------------------------
(* Board for TLC: the symmetry of the small instances. *)
EXTENDS Board, TLC

\* Readers, payload words and writers are interchangeable: no action or
\* invariant names one of them.
Symmetry == Permutations(Readers) \cup Permutations(Fields) \cup Permutations(Writers)
=============================================================================
