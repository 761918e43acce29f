---------------------------- MODULE MCTradeRing ----------------------------
(* TradeRing for TLC: the symmetry of the small instances. *)
EXTENDS TradeRing, TLC

\* Payload words, consumers and producers are interchangeable.
Symmetry == Permutations(Words) \cup Permutations(Consumers) \cup Permutations(Producers)
=============================================================================
