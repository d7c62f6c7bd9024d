----------------------------- MODULE Broadcast ------------------------------
(***************************************************************************)
(* What a Watch stream promises its client, with no threads, sockets or    *)
(* caches: from the moment it is open, every published tick reaches it     *)
(* once and in order, cut down to what its caller may see.  A stream with  *)
(* a limit may have less in a tick.  When it closes, the client still gets *)
(* a beginning of what was on its way, and nothing after a gap.            *)
(***************************************************************************)
EXTENDS Naturals, Sequences

CONSTANTS
    Stream,
    Request,           \* what a stream can be asked for
    Delta,             \* what a tick may hold
    For(_, _),         \* For(r, D): what of D the request r asks for and may see
    Limited(_)         \* whether the request r has a limit

VARIABLES
    request,           \* request[s]: what s is asked for
    open,              \* the streams that are fed
    pipe               \* pipe[s]: the ticks on their way to s, oldest first

Init ==
    /\ request \in [Stream -> Request]
    /\ open = {}
    /\ pipe = [s \in Stream |-> <<>>]

Ask(s) ==
    /\ s \notin open /\ pipe[s] = <<>>
    /\ \E r \in Request : request' = [request EXCEPT ![s] = r]
    /\ UNCHANGED <<open, pipe>>

Open(s) ==
    /\ s \notin open /\ pipe[s] = <<>>
    /\ open' = open \cup {s}
    /\ UNCHANGED <<request, pipe>>

Publish(D) ==
    /\ pipe' = [s \in Stream |-> IF s \in open THEN Append(pipe[s], For(request[s], D))
                                               ELSE pipe[s]]
    /\ UNCHANGED <<request, open>>

(* A limit drops rows of one tick. *)
Cut(s) ==
    /\ Limited(request[s])
    /\ \E k \in DOMAIN pipe[s] : \E part \in SUBSET pipe[s][k] :
          pipe' = [pipe EXCEPT ![s][k] = part]
    /\ UNCHANGED <<request, open>>

Deliver(s) ==
    /\ pipe[s] # <<>>
    /\ pipe' = [pipe EXCEPT ![s] = Tail(@)]
    /\ UNCHANGED <<request, open>>

Close(s) ==
    /\ open' = open \ {s}
    /\ \E n \in 0 .. Len(pipe[s]) : pipe' = [pipe EXCEPT ![s] = SubSeq(@, 1, n)]
    /\ UNCHANGED request

Next ==
    \/ \E s \in Stream : Ask(s) \/ Open(s) \/ Cut(s) \/ Deliver(s) \/ Close(s)
    \/ \E D \in SUBSET Delta : Publish(D)

Spec == Init /\ [][Next]_<<request, open, pipe>>
=============================================================================
