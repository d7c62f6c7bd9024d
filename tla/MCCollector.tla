---------------------------- MODULE MCCollector -----------------------------
(* Small sets of tgids, processes and chunks for Collector. *)
EXTENDS Collector, TLC

Symmetry == Permutations(Tgid) \cup Permutations(Chunk)
=============================================================================
