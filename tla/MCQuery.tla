------------------------------ MODULE MCQuery -------------------------------
(* The long calendar of MCRollup, in which hours, days and months do not   *)
(* begin together, for a query beside the two threads.                     *)
EXTENDS Query, TLC

CONSTANT home

MCDayStart == [z \in Zone |-> {0, 2, 4, 6, 8}]
MCMonthStart == [z \in Zone |-> {0, 4, 8}]

(* An ordinary clock, and one that jumps while the query waits. *)
ForwardAndJump == {1, 3}

ChunkSymmetry == Permutations(Chunk)
=============================================================================
