------------------------------ MODULE MCTrends ------------------------------
(* A small instance of Trends: an identity with a flow in each scope, one  *)
(* with a single flow, and chunks that between them are empty, name one    *)
(* flow or two, and have intervals of length 0, 1 and 2.                   *)
EXTENDS Trends, TLC

CONSTANTS i1, i2

External == [id |-> i1, scope |-> "external"]
Loopback == [id |-> i1, scope |-> "loopback"]
Other == [id |-> i2, scope |-> "external"]
MCKey == {External, Loopback, Other}
MCTraffic ==
    {[bytes |-> [k \in {} |-> 0], ms |-> 2],
     [bytes |-> External :> 1, ms |-> 0],
     [bytes |-> (Loopback :> 2) @@ (Other :> 1), ms |-> 1]}
=============================================================================
