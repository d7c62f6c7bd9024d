--------------------------- MODULE MCInteractive ----------------------------
(* A small instance of Interactive: two identities in one group, each with *)
(* traffic in its own scope, the live window and one other, and filters    *)
(* that hide an identity or the group.                                     *)
EXTENDS Interactive, TLC

CONSTANTS i1, i2, g, Month

MCLabel == [i \in Ident |-> g]
MCFlow ==
    {[id |-> i1, scope |-> "external"], [id |-> i2, scope |-> "loopback"]}
MCFilters == {{}, {i1}, {g}}
MCMoves == {-10, -1, 1, 10}
=============================================================================
