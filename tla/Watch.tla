------------------------------- MODULE Watch --------------------------------
(***************************************************************************)
(* The live stream: the drain thread publishes one tick per poll to the    *)
(* hub, the hub copies it to the queue of every subscriber, and two        *)
(* threads per connection, one that writes chunks and one that reads what  *)
(* the client still sends, serve a stream until either side ends it        *)
(* (collector.rs drain_traffic, live.rs, server.rs handle, watch and       *)
(* WatchView, the frames of procflow-ipc, client.rs).                      *)
(*                                                                         *)
(* A delta is an identity and a scope; its bytes matter only for ranking,  *)
(* which may come out in any way.  A row of a chunk is the set of deltas   *)
(* it sums.  A Stream is a slot for a connection, free again once nothing  *)
(* of the earlier connection is left.                                      *)
(***************************************************************************)
EXTENDS Integers, FiniteSets, Sequences

CONSTANTS
    Stream,
    Ident,         \* identities
    Owner,         \* Owner[i]: the uid of identity i
    Group,         \* Group[i]: the label of identity i where rows are grouped
    Delta,         \* records [id, scope]: what may be moved in one poll
    Request,       \* records [proto, caller, scope, grouped, limit]: the Watch requests
    Root,          \* the uid that sees every identity
    QueueCap,      \* bound: ticks in a subscriber's queue
    SocketCap      \* frames a socket holds before a write blocks

ASSUME WatchAssumption ==
    /\ Delta \subseteq [id : Ident, scope : {"external", "loopback"}]
    /\ \A r \in Request : /\ r.proto \in {"this", "other"}
                          /\ r.scope \in {"external", "loopback", "all"}
                          /\ r.grouped \in BOOLEAN /\ r.limit \in Nat
    /\ QueueCap \in Nat \ {0} /\ SocketCap \in Nat \ {0}

VARIABLES
    live,          \* Server.live: whether there is a hub
    stored,        \* the identities in the store
    polled,        \* drain_traffic: the deltas of the poll in progress
    subscribers,   \* Hub.subscribers
    queue,         \* queue[s]: the events of s, ticks and then Stop
    request,       \* request[s]: what the client of s asked for
    server,        \* server[s]: where the thread of handle and watch is
    reader,        \* reader[s]: the thread that reads requests after the first
    known,         \* WatchView.known: hidden stands for None
    sent,          \* WatchView.sent
    held,          \* the response being written
    socket,        \* the frames written and not yet read
    shut,          \* whether the server has closed its side
    client,        \* the other end of the connection
    told           \* the identities the client has been sent

collector == <<live, stored, polled>>
threads == <<server, reader>>
view == <<known, sent>>
wire == <<socket, shut>>
peer == <<request, client, told>>
vars == <<collector, subscribers, queue, threads, view, held, wire, peer>>

Stop == [kind |-> "stop"]
Tick(D) == [kind |-> "tick", deltas |-> D]
End == [kind |-> "end"]
Error == [kind |-> "error"]
Nothing == [kind |-> "nothing"]
Chunk(rows, ids) == [kind |-> "chunk", rows |-> rows, identities |-> ids]

Ids(D) == {d.id : d \in D}

Init ==
    /\ live \in BOOLEAN
    /\ stored = {} /\ polled = {} /\ subscribers = {}
    /\ queue = [s \in Stream |-> <<>>]
    /\ request \in [Stream -> Request]
    /\ server = [s \in Stream |-> "none"] /\ reader = [s \in Stream |-> "none"]
    /\ known = [s \in Stream |-> [i \in Ident |-> "unasked"]]
    /\ sent = [s \in Stream |-> {}] /\ held = [s \in Stream |-> Nothing]
    /\ socket = [s \in Stream |-> <<>>] /\ shut = [s \in Stream |-> TRUE]
    /\ client = [s \in Stream |-> "gone"] /\ told = [s \in Stream |-> {}]

-----------------------------------------------------------------------------
(* The drain thread and the hub. *)

(* resolve puts the identity into the store before its bytes are counted. *)
Poll(d) ==
    /\ live /\ d \notin polled
    /\ stored' = stored \cup {d.id}
    /\ polled' = polled \cup {d}
    /\ UNCHANGED <<live, subscribers, queue, threads, view, held, wire, peer>>

(* The receiver lives as long as the loop over events. *)
Listening(s) == server[s] \in {"waiting", "writing"}

(* Bug: a subscriber that hung up is kept. *)
PublishAndKeep ==
    /\ live
    /\ \A s \in subscribers : Listening(s) => Len(queue[s]) < QueueCap
    /\ queue' = [s \in Stream |-> IF s \in subscribers /\ Listening(s)
                                  THEN Append(queue[s], Tick(polled)) ELSE queue[s]]
    /\ polled' = {}
    /\ UNCHANGED <<live, stored, subscribers, threads, view, held, wire, peer>>

(* Hub::publish, once per poll and with an empty tick too: a subscriber    *)
(* whose receiver is gone is forgotten.                                    *)
Publish ==
    /\ live
    /\ \A s \in subscribers : Listening(s) => Len(queue[s]) < QueueCap
    /\ subscribers' = {s \in subscribers : Listening(s)}
    /\ queue' = [s \in Stream |-> IF s \in subscribers'
                                  THEN Append(queue[s], Tick(polled)) ELSE queue[s]]
    /\ polled' = {}
    /\ UNCHANGED <<live, stored, threads, view, held, wire, peer>>

-----------------------------------------------------------------------------
(* The client. *)

Gone(s) ==
    /\ client[s] = "gone" /\ server[s] = "none" /\ reader[s] = "none"
    /\ s \notin subscribers

(* A client connects, and sends its request at once, later or never. *)
Connect(s, r) ==
    /\ Gone(s)
    /\ request' = [request EXCEPT ![s] = r]
    /\ client' = [client EXCEPT ![s] = "silent"]
    /\ told' = [told EXCEPT ![s] = {}]
    /\ server' = [server EXCEPT ![s] = "accepted"]
    /\ shut' = [shut EXCEPT ![s] = FALSE]
    /\ UNCHANGED <<collector, subscribers, queue, reader, view, held, socket>>

Ask(s) ==
    /\ client[s] = "silent" /\ server[s] = "accepted"
    /\ client' = [client EXCEPT ![s] = "open"]
    /\ server' = [server EXCEPT ![s] = "asked"]
    /\ UNCHANGED <<collector, subscribers, queue, reader, view, held, wire, request, told>>

(* WatchStream::next: an End or an Error is the last frame. *)
Read(s) ==
    /\ client[s] \in {"open", "cancelled"} /\ socket[s] # <<>>
    /\ LET frame == Head(socket[s])
       IN  /\ socket' = [socket EXCEPT ![s] = Tail(@)]
           /\ IF frame.kind = "chunk"
              THEN told' = [told EXCEPT ![s] = @ \cup frame.identities] /\ UNCHANGED client
              ELSE client' = [client EXCEPT ![s] = "gone"] /\ UNCHANGED told
    /\ UNCHANGED <<collector, subscribers, queue, threads, view, held, shut, request>>

(* A Cancel; a frame that cannot be decoded has the same effect, and any   *)
(* other request changes nothing.                                          *)
Cancel(s) ==
    /\ client[s] = "open"
    /\ client' = [client EXCEPT ![s] = "cancelled"]
    /\ UNCHANGED <<collector, subscribers, queue, threads, view, held, wire, request, told>>

(* The stream is dropped, or ends with the connection already shut. *)
HangUp(s) ==
    /\ client[s] # "gone"
    /\ client' = [client EXCEPT ![s] = "gone"]
    /\ socket' = [socket EXCEPT ![s] = <<>>]
    /\ UNCHANGED <<collector, subscribers, queue, threads, view, held, shut, request, told>>

-----------------------------------------------------------------------------
(* The thread of handle and watch. *)

(* Hub::subscribe, the second thread and a new WatchView.  Without a hub,  *)
(* or for a client of another protocol, the only response is an error.     *)
Granted(s) == live /\ request[s].proto = "this"

Handle(s) ==
    /\ server[s] = "asked"
    /\ IF Granted(s)
       THEN /\ subscribers' = subscribers \cup {s}
            /\ reader' = [reader EXCEPT ![s] = "reading"]
            /\ server' = [server EXCEPT ![s] = "waiting"]
            /\ UNCHANGED held
       ELSE /\ held' = [held EXCEPT ![s] = Error]
            /\ server' = [server EXCEPT ![s] = "writing"]
            /\ UNCHANGED <<subscribers, reader>>
    /\ UNCHANGED <<collector, queue, view, wire, peer>>

(* try_clone or set_read_timeout fails: the thread ends without a second   *)
(* one, and the hub has a subscriber whose receiver is gone.               *)
HandleFails(s) ==
    /\ server[s] = "asked" /\ Granted(s)
    /\ subscribers' = subscribers \cup {s}
    /\ server' = [server EXCEPT ![s] = "none"]
    /\ shut' = [shut EXCEPT ![s] = TRUE]
    /\ UNCHANGED <<collector, queue, reader, view, held, socket, peer>>

(* read_msg fails: the request did not come within IO_TIMEOUT, or the      *)
(* connection was closed before it did; or an error before that, of        *)
(* peer_uid or of setting the timeouts.                                    *)
NoRequest(s) ==
    /\ server[s] = "accepted"
    /\ server' = [server EXCEPT ![s] = "none"]
    /\ shut' = [shut EXCEPT ![s] = TRUE]
    /\ UNCHANGED <<collector, subscribers, queue, reader, view, held, socket, peer>>

(* identities_by_id under the caller's Visibility, for the identities of   *)
(* the tick not looked up before: what a stream knows after the lookup.    *)
Sees(r, i) == r.caller = Root \/ Owner[i] = r.caller
LookedUp(s, D) ==
    [i \in Ident |->
        IF i \notin Ids(D) \/ known[s][i] # "unasked" THEN known[s][i]
        ELSE IF i \in stored /\ Sees(request[s], i) THEN "visible" ELSE "hidden"]

(* scope_matches, and the sums by (identity or label, scope). *)
InScope(r, d) == r.scope \in {"all", d.scope}
Key(r, d) == <<IF r.grouped THEN Group[d.id] ELSE d.id, d.scope>>
Rows(r, D) == {{e \in D : Key(r, e) = Key(r, d)} : d \in D}

(* Every ranking of the rows, cut off at the limit. *)
Kept(r, rows) ==
    {kept \in SUBSET rows :
        \/ kept = rows /\ (r.limit = 0 \/ Cardinality(rows) <= r.limit)
        \/ r.limit > 0 /\ Cardinality(kept) = r.limit}

(* Bug: what the limit cuts off counts as described. *)
SentBeforeLimit(s, shown, kept) == sent[s] \cup Ids(shown)

(* The identities described once this chunk is: those of the rows kept. *)
SentAfter(s, shown, kept) == sent[s] \cup Ids(UNION kept)

(* WatchView::chunk. *)
ReceiveTick(s) ==
    /\ server[s] = "waiting" /\ queue[s] # <<>> /\ Head(queue[s]).kind = "tick"
    /\ LET r == request[s]
           D == Head(queue[s]).deltas
           knows == LookedUp(s, D)
           shown == {d \in D : knows[d.id] = "visible" /\ InScope(r, d)}
       IN  \E kept \in Kept(r, Rows(r, shown)) :
             /\ known' = [known EXCEPT ![s] = knows]
             /\ sent' = [sent EXCEPT ![s] = IF r.grouped THEN @
                                            ELSE SentAfter(s, shown, kept)]
             /\ held' = [held EXCEPT ![s] =
                   Chunk(kept, IF r.grouped THEN {} ELSE Ids(UNION kept) \ sent[s])]
    /\ queue' = [queue EXCEPT ![s] = Tail(@)]
    /\ server' = [server EXCEPT ![s] = "writing"]
    /\ UNCHANGED <<collector, subscribers, reader, wire, peer>>

(* The lookup fails: the stream ends with an error. *)
LookupFails(s) ==
    /\ server[s] = "waiting" /\ queue[s] # <<>> /\ Head(queue[s]).kind = "tick"
    /\ \E i \in Ids(Head(queue[s]).deltas) : known[s][i] = "unasked"
    /\ held' = [held EXCEPT ![s] = Error]
    /\ queue' = [queue EXCEPT ![s] = Tail(@)]
    /\ server' = [server EXCEPT ![s] = "writing"]
    /\ UNCHANGED <<collector, subscribers, reader, view, wire, peer>>

ReceiveStop(s) ==
    /\ server[s] = "waiting" /\ queue[s] # <<>> /\ Head(queue[s]) = Stop
    /\ held' = [held EXCEPT ![s] = End]
    /\ queue' = [queue EXCEPT ![s] = Tail(@)]
    /\ server' = [server EXCEPT ![s] = "writing"]
    /\ UNCHANGED <<collector, subscribers, reader, view, wire, peer>>

(* The loop ends and drops the receiver and the view. *)
LeaveLoop(s) ==
    /\ server' = [server EXCEPT ![s] = "leaving"]
    /\ queue' = [queue EXCEPT ![s] = <<>>]
    /\ known' = [known EXCEPT ![s] = [i \in Ident |-> "unasked"]]
    /\ sent' = [sent EXCEPT ![s] = {}]

(* write_msg: a chunk is followed by the next event, another response is   *)
(* the last.                                                               *)
Write(s) ==
    /\ server[s] = "writing" /\ client[s] # "gone" /\ Len(socket[s]) < SocketCap
    /\ socket' = [socket EXCEPT ![s] = Append(@, held[s])]
    /\ held' = [held EXCEPT ![s] = Nothing]
    /\ IF held[s].kind = "chunk"
       THEN server' = [server EXCEPT ![s] = "waiting"] /\ UNCHANGED <<queue, view>>
       ELSE LeaveLoop(s)
    /\ UNCHANGED <<collector, subscribers, reader, shut, peer>>

(* The frame is longer than MAX_FRAME_LEN, as a chunk of many rows may be. *)
TooLong(s) == held[s].kind = "chunk" /\ held[s].rows # {}

(* Bug: a peer that accepts nothing does not make a write fail. *)
WriteFailsWithoutTimeout(s) ==
    /\ server[s] = "writing"
    /\ client[s] = "gone" \/ TooLong(s)
    /\ held' = [held EXCEPT ![s] = Nothing]
    /\ LeaveLoop(s)
    /\ UNCHANGED <<collector, subscribers, reader, wire, peer>>

(* Bug: a chunk that cannot be written is skipped and the stream goes on. *)
WriteSkips(s) ==
    /\ server[s] = "writing"
    /\ client[s] = "gone" \/ Len(socket[s]) = SocketCap \/ TooLong(s)
    /\ held' = [held EXCEPT ![s] = Nothing]
    /\ IF held[s].kind = "chunk"
       THEN server' = [server EXCEPT ![s] = "waiting"] /\ UNCHANGED <<queue, view>>
       ELSE LeaveLoop(s)
    /\ UNCHANGED <<collector, subscribers, reader, wire, peer>>

(* The peer is gone or accepts nothing for IO_TIMEOUT, or write_msg        *)
(* refuses the frame.                                                      *)
WriteFails(s) ==
    /\ server[s] = "writing"
    /\ client[s] = "gone" \/ Len(socket[s]) = SocketCap \/ TooLong(s)
    /\ held' = [held EXCEPT ![s] = Nothing]
    /\ LeaveLoop(s)
    /\ UNCHANGED <<collector, subscribers, reader, wire, peer>>

(* Bug: the thread ends and the other one's handle keeps the connection. *)
FinishWithoutShutdown(s) ==
    /\ server[s] = "leaving"
    /\ server' = [server EXCEPT ![s] = "none"]
    /\ UNCHANGED <<collector, subscribers, queue, reader, view, held, wire, peer>>

(* shutdown(Both), which also wakes the other thread. *)
Finish(s) ==
    /\ server[s] = "leaving"
    /\ server' = [server EXCEPT ![s] = "none"]
    /\ shut' = [shut EXCEPT ![s] = TRUE]
    /\ UNCHANGED <<collector, subscribers, queue, reader, view, held, socket, peer>>

(* Bug: a Cancel ends the second thread and is not passed on. *)
ReaderStopsSilently(s) ==
    /\ reader[s] = "reading"
    /\ client[s] \in {"cancelled", "gone"} \/ shut[s]
    /\ reader' = [reader EXCEPT ![s] = "none"]
    /\ queue' = IF Listening(s) /\ client[s] = "gone"
                THEN [queue EXCEPT ![s] = Append(@, Stop)] ELSE queue
    /\ UNCHANGED <<collector, subscribers, server, view, held, wire, peer>>

(* The second thread: a Cancel or a failing read puts a Stop into the      *)
(* stream's own queue, behind the ticks that are there, and ends it.       *)
ReaderStops(s) ==
    /\ reader[s] = "reading"
    /\ client[s] \in {"cancelled", "gone"} \/ shut[s]
    /\ reader' = [reader EXCEPT ![s] = "none"]
    /\ queue' = IF Listening(s) THEN [queue EXCEPT ![s] = Append(@, Stop)] ELSE queue
    /\ UNCHANGED <<collector, subscribers, server, view, held, wire, peer>>

Collect == Publish \/ \E d \in Delta : Poll(d)

Peer(s) ==
    \/ \E r \in Request : Connect(s, r)
    \/ Ask(s) \/ Read(s) \/ Cancel(s) \/ HangUp(s)

Serve(s) ==
    \/ Handle(s) \/ HandleFails(s) \/ NoRequest(s)
    \/ ReceiveTick(s) \/ LookupFails(s) \/ ReceiveStop(s)
    \/ Write(s) \/ WriteFails(s) \/ Finish(s)

Next == Collect \/ \E s \in Stream : Peer(s) \/ Serve(s) \/ ReaderStops(s)

Spec == Init /\ [][Next]_vars

(* The drain thread polls for ever, and each thread of a stream takes its  *)
(* next step: a read or write that can do neither ends by its timeout or   *)
(* by the shutdown.  Nothing is assumed of the client.                     *)
Fairness ==
    /\ WF_vars(Publish)
    /\ \A s \in Stream : WF_vars(Serve(s)) /\ WF_vars(ReaderStops(s))

FairSpec == Spec /\ Fairness

-----------------------------------------------------------------------------
(* Properties. *)

Frame ==
    {End, Error} \cup [kind : {"chunk"}, rows : SUBSET SUBSET Delta, identities : SUBSET Ident]
Event == {Stop} \cup [kind : {"tick"}, deltas : SUBSET Delta]

TypeOK ==
    /\ live \in BOOLEAN /\ stored \subseteq Ident /\ polled \subseteq Delta
    /\ subscribers \subseteq Stream
    /\ queue \in [Stream -> Seq(Event)]
    /\ request \in [Stream -> Request]
    /\ server \in [Stream -> {"none", "accepted", "asked", "waiting", "writing", "leaving"}]
    /\ reader \in [Stream -> {"none", "reading"}]
    /\ known \in [Stream -> [Ident -> {"unasked", "hidden", "visible"}]]
    /\ sent \in [Stream -> SUBSET Ident]
    /\ held \in [Stream -> Frame \cup {Nothing}]
    /\ socket \in [Stream -> Seq(Frame)] /\ shut \in [Stream -> BOOLEAN]
    /\ \A s \in Stream : server[s] = "none" => shut[s]
    /\ client \in [Stream -> {"silent", "open", "cancelled", "gone"}]
    /\ told \in [Stream -> SUBSET Ident]

(* A thread that waits for events is never left alone: the hub still feeds *)
(* it, and its second thread watches the client or has left its Stop in    *)
(* the queue, however hang-up, Cancel and failing writes interleave.       *)
Attended ==
    \A s \in Stream : live /\ server[s] = "waiting" =>
        /\ s \in subscribers
        /\ reader[s] = "reading" \/ \E k \in DOMAIN queue[s] : queue[s][k] = Stop

(* What a sequence begins with, up to the first element of another kind. *)
Leading(kind, q) ==
    SubSeq(q, 1, CHOOSE n \in 0 .. Len(q) : /\ \A k \in 1 .. n : q[k].kind = kind
                                            /\ n < Len(q) => q[n + 1].kind # kind)

(* Chunks on their way to the client, oldest first. *)
OnTheWay(s) == Leading("chunk", Append(socket[s], held[s]))

(* "Identities described once" (server.rs:180): an identity is described   *)
(* in the first chunk of the stream that has a row of it, never again, and *)
(* only if a row of it is in the chunk, whatever a limit cut off earlier.  *)
DescribedOnce ==
    \A s \in Stream : client[s] # "gone" =>
        \A k \in DOMAIN OnTheWay(s) :
            LET chunk  == OnTheWay(s)[k]
                used   == IF request[s].grouped THEN {} ELSE Ids(UNION chunk.rows)
                before == told[s] \cup UNION {OnTheWay(s)[j].identities : j \in 1 .. k - 1}
            IN  chunk.identities = used \ before

(* A stream is a filtered copy of what is published: nothing is missing,   *)
(* doubled, reordered or another user's, though lookups are cached for     *)
(* ever, "not visible" included, and two threads end the stream.           *)
Final(s) == held[s] \in {End, Error}
BeforeStop(s) == Leading("tick", queue[s])
For(r, D) == {d \in D : Sees(r, d.id) /\ InScope(r, d)}
Limited(r) == r.limit > 0
Fed ==
    {s \in Stream : /\ client[s] # "gone" /\ Listening(s) /\ ~Final(s)
                    /\ \A k \in DOMAIN queue[s] : queue[s][k] # Stop}
Pipe ==
    [s \in Stream |->
        IF client[s] = "gone" THEN <<>>
        ELSE LET chunks == OnTheWay(s)
                 ticks == IF Final(s) THEN <<>> ELSE BeforeStop(s)
             IN  [k \in 1 .. Len(chunks) |-> UNION chunks[k].rows]
                   \o [k \in 1 .. Len(ticks) |-> For(request[s], ticks[k].deltas)]]
Promise == INSTANCE Broadcast WITH open <- Fed, pipe <- Pipe
ImplementsBroadcast == Promise!Spec

(* However a stream ends, from either side and in any order, both threads  *)
(* end and the hub forgets the subscriber: "dropping it hangs up, which    *)
(* ends the stream" (client.rs:72), as does a Cancel (server.rs:130).      *)
EndedIsForgotten ==
    \A s \in Stream :
        client[s] \in {"cancelled", "gone"} ~>
            server[s] = "none" /\ reader[s] = "none" /\ s \notin subscribers

(* IO_TIMEOUT "bounds the threads a stalled peer can hold" (server.rs:24): *)
(* a client that never reads again, without hanging up, loses its stream.  *)
StalledIsDropped ==
    \A s \in Stream :
        (<>[][~Read(s)]_vars) => []<>(server[s] = "none" /\ reader[s] = "none")

=============================================================================
