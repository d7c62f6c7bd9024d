------------------------------ MODULE MCWatch -------------------------------
(* A small instance of Watch: two users, two deltas, and requests that     *)
(* between them use visibility, scope, grouping, a limit and a protocol    *)
(* the daemon does not have.                                               *)
EXTENDS Watch, TLC

CONSTANTS i1, i2, root, eve

MCOwner == (i1 :> eve) @@ (i2 :> root)
MCGroup == [i \in Ident |-> "one label"]
MCDelta == {[id |-> i1, scope |-> "external"], [id |-> i2, scope |-> "loopback"]}
MCRequest ==
    {[proto |-> "this",  caller |-> eve,  scope |-> "all",      grouped |-> FALSE, limit |-> 0],
     [proto |-> "this",  caller |-> root, scope |-> "external", grouped |-> TRUE,  limit |-> 0],
     [proto |-> "this",  caller |-> root, scope |-> "all",      grouped |-> FALSE, limit |-> 1],
     [proto |-> "this",  caller |-> root, scope |-> "all",      grouped |-> TRUE,  limit |-> 1],
     [proto |-> "other", caller |-> eve,  scope |-> "all",      grouped |-> FALSE, limit |-> 0]}
=============================================================================
