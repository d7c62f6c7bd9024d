----------------------------- MODULE WatchProofs -----------------------------
(***************************************************************************)
(* Proofs about Watch for every set of streams, identities and requests.   *)
(***************************************************************************)
EXTENDS Watch, SequenceTheorems, TLAPS

-----------------------------------------------------------------------------
(* Types of what the threads build. *)

LEMMA EventFacts ==
    /\ Stop \in Event /\ Stop.kind = "stop"
    /\ \A D \in SUBSET Delta : Tick(D) \in Event /\ Tick(D).kind = "tick"
    /\ \A e \in Event : e.kind = "tick" => e.deltas \subseteq Delta
BY DEF Event, Stop, Tick

LEMMA IdsType == \A D \in SUBSET Delta : Ids(D) \subseteq Ident
BY WatchAssumption DEF Ids

LEMMA ChunkType ==
    ASSUME NEW rows \in SUBSET SUBSET Delta, NEW I \in SUBSET Ident
    PROVE  Chunk(rows, I) \in Frame /\ Chunk(rows, I).kind = "chunk"
BY DEF Chunk, Frame

LEMMA FrameFacts ==
    /\ End \in Frame /\ Error \in Frame
    /\ End.kind # "chunk" /\ Error.kind # "chunk" /\ Nothing.kind # "chunk"
BY DEF Frame, End, Error, Nothing

(* The rows a chunk may have, and the identities it describes. *)
LEMMA KeptFacts ==
    ASSUME NEW r, NEW D \in SUBSET Delta, NEW kept \in Kept(r, Rows(r, D))
    PROVE  kept \in SUBSET SUBSET Delta /\ UNION kept \subseteq Delta /\ Ids(UNION kept) \subseteq Ident
<1>1. Rows(r, D) \subseteq SUBSET Delta
  BY DEF Rows
<1>2. kept \subseteq Rows(r, D)
  BY DEF Kept
<1>3. UNION kept \in SUBSET Delta
  BY <1>1, <1>2
<1> QED BY <1>1, <1>2, <1>3, IdsType

-----------------------------------------------------------------------------
(* The inductive invariant. *)

HasStop(q) == \E k \in DOMAIN q : q[k] = Stop

(* A thread that is or will be waiting again is fed and watched.           *)
InLoop(s) == server[s] = "waiting" \/ (server[s] = "writing" /\ held[s].kind = "chunk")
Served(s) == InLoop(s) => s \in subscribers /\ (reader[s] = "reading" \/ HasStop(queue[s]))

(* What is written is a response. *)
Holding(s) == server[s] = "writing" => held[s] \in Frame

IInv == TypeOK /\ \A s \in Stream : Served(s) /\ Holding(s)

LEMMA InvInit == Init => IInv
<1> SUFFICES ASSUME Init PROVE IInv
  OBVIOUS
<1>1. TypeOK
  <2>1. <<>> \in Seq(Event) /\ <<>> \in Seq(Frame)
    OBVIOUS
  <2> QED BY <2>1 DEF Init, TypeOK
<1>2. \A s \in Stream : Served(s) /\ Holding(s)
  BY DEF Init, Served, Holding, InLoop
<1> QED BY <1>1, <1>2 DEF IInv

(* What a stream makes of a tick. *)
LEMMA ReceiveChunk ==
    ASSUME TypeOK, NEW s \in Stream, ReceiveTick(s)
    PROVE  /\ Tail(queue[s]) \in Seq(Event)
           /\ \E knows \in [Ident -> {"unasked", "hidden", "visible"}] :
                 known' = [known EXCEPT ![s] = knows]
           /\ \E ids \in SUBSET Ident : sent' = [sent EXCEPT ![s] = ids]
           /\ \E chunk \in Frame : held' = [held EXCEPT ![s] = chunk]
<1> USE DEF TypeOK
<1> DEFINE r == request[s]
           D == Head(queue[s]).deltas
           knows == LookedUp(s, D)
           shown == {d \in D : knows[d.id] = "visible" /\ InScope(r, d)}
<1>1. Head(queue[s]) \in Event /\ Tail(queue[s]) \in Seq(Event)
  BY DEF ReceiveTick
<1>2. shown \in SUBSET Delta
  BY <1>1, EventFacts DEF ReceiveTick
<1>3. knows \in [Ident -> {"unasked", "hidden", "visible"}]
  BY DEF LookedUp
<1> HIDE DEF knows, shown
<1>4. PICK kept \in Kept(r, Rows(r, shown)) :
         /\ known' = [known EXCEPT ![s] = knows]
         /\ sent' = [sent EXCEPT ![s] = IF r.grouped THEN @ ELSE SentAfter(s, shown, kept)]
         /\ held' = [held EXCEPT ![s] =
               Chunk(kept, IF r.grouped THEN {} ELSE Ids(UNION kept) \ sent[s])]
  BY DEF ReceiveTick, knows, shown
<1>5. kept \in SUBSET SUBSET Delta /\ Ids(UNION kept) \subseteq Ident
  <2> HIDE DEF r
  <2> QED BY <1>2, KeptFacts
<1>6. (IF r.grouped THEN {} ELSE Ids(UNION kept) \ sent[s]) \in SUBSET Ident
  BY <1>5
<1>7. \E chunk \in Frame : held' = [held EXCEPT ![s] = chunk]
  BY <1>4, <1>5, <1>6, ChunkType
<1>8. \E ids \in SUBSET Ident : sent' = [sent EXCEPT ![s] = ids]
  <2>1. sent[s] \in SUBSET Ident /\ SentAfter(s, shown, kept) \in SUBSET Ident
    BY <1>5 DEF SentAfter
  <2> QED BY <1>4, <2>1
<1> QED BY <1>1, <1>3, <1>4, <1>7, <1>8

LEMMA TypeStep == IInv /\ [Next]_vars => TypeOK'
<1> SUFFICES ASSUME TypeOK, \A s \in Stream : Holding(s), [Next]_vars PROVE TypeOK'
  BY DEF IInv
<1> USE DEF TypeOK, collector, threads, view, wire, peer
<1>1. ASSUME NEW d \in Delta, Poll(d) PROVE TypeOK'
  BY <1>1, WatchAssumption DEF Poll
<1>2. CASE Publish
  BY <1>2, EventFacts DEF Publish
<1>3. ASSUME NEW s \in Stream, NEW r \in Request, Connect(s, r) PROVE TypeOK'
  BY <1>3 DEF Connect
<1>4. ASSUME NEW s \in Stream, Ask(s) PROVE TypeOK'
  BY <1>4 DEF Ask
<1>5. ASSUME NEW s \in Stream, Read(s) PROVE TypeOK'
  <2>1. Head(socket[s]) \in Frame /\ Tail(socket[s]) \in Seq(Frame)
    BY <1>5 DEF Read
  <2>2. Head(socket[s]).kind = "chunk" => Head(socket[s]).identities \subseteq Ident
    BY <2>1 DEF Frame, End, Error
  <2>3. CASE Head(socket[s]).kind = "chunk"
    <3>1. told[s] \cup Head(socket[s]).identities \in SUBSET Ident
      BY <2>2, <2>3
    <3> QED BY <1>5, <2>1, <2>3, <3>1 DEF Read
  <2>4. CASE Head(socket[s]).kind # "chunk"
    BY <1>5, <2>1, <2>4 DEF Read
  <2> QED BY <2>3, <2>4
<1>6. ASSUME NEW s \in Stream, Cancel(s) PROVE TypeOK'
  BY <1>6 DEF Cancel
<1>7. ASSUME NEW s \in Stream, HangUp(s) PROVE TypeOK'
  BY <1>7 DEF HangUp
<1>8. ASSUME NEW s \in Stream, Handle(s) PROVE TypeOK'
  <2>1. /\ subscribers' \in {subscribers, subscribers \cup {s}}
        /\ reader' \in {reader, [reader EXCEPT ![s] = "reading"]}
        /\ server' \in {[server EXCEPT ![s] = "waiting"], [server EXCEPT ![s] = "writing"]}
        /\ held' \in {held, [held EXCEPT ![s] = Error]}
        /\ UNCHANGED <<collector, queue, view, wire, peer>>
    BY <1>8 DEF Handle
  <2>2. subscribers' \subseteq Stream /\ reader' \in [Stream -> {"none", "reading"}]
    BY <2>1
  <2>3. held' \in [Stream -> Frame \cup {Nothing}]
    <3>1. held \in [Stream -> Frame \cup {Nothing}]
      OBVIOUS
    <3>2. Error \in Frame \cup {Nothing}
      BY FrameFacts
    <3>3. held' = held \/ held' = [held EXCEPT ![s] = Error]
      BY <2>1, Zenon
    <3> HIDE DEF TypeOK
    <3>4. CASE held' = held
      BY <3>1, <3>4, Zenon
    <3>5. CASE held' = [held EXCEPT ![s] = Error]
      <4>1. [held EXCEPT ![s] = Error] \in [Stream -> Frame \cup {Nothing}]
        BY <3>1, <3>2, Zenon
      <4> QED BY <3>5, <4>1, Zenon
    <3> QED BY <3>3, <3>4, <3>5, Zenon
  <2>4. /\ server' \in [Stream -> {"none", "accepted", "asked", "waiting", "writing", "leaving"}]
        /\ \A t \in Stream : server'[t] = "none" => shut[t]
    BY <2>1
  <2> QED BY <2>1, <2>2, <2>3, <2>4
<1>9. ASSUME NEW s \in Stream, NoRequest(s) PROVE TypeOK'
  BY <1>9 DEF NoRequest
<1>10. ASSUME NEW s \in Stream, ReceiveTick(s) PROVE TypeOK'
  <2>1. /\ known' \in [Stream -> [Ident -> {"unasked", "hidden", "visible"}]]
        /\ sent' \in [Stream -> SUBSET Ident]
        /\ held' \in [Stream -> Frame \cup {Nothing}]
    <3>1. PICK knows \in [Ident -> {"unasked", "hidden", "visible"}] :
             known' = [known EXCEPT ![s] = knows]
      BY <1>10, ReceiveChunk
    <3>2. PICK ids \in SUBSET Ident : sent' = [sent EXCEPT ![s] = ids]
      BY <1>10, ReceiveChunk
    <3>3. PICK chunk \in Frame : held' = [held EXCEPT ![s] = chunk]
      BY <1>10, ReceiveChunk
    <3>4. held' \in [Stream -> Frame \cup {Nothing}]
      BY <3>3
    <3>5. sent' \in [Stream -> SUBSET Ident]
      BY <3>2
    <3> QED BY <3>1, <3>4, <3>5
  <2>2. /\ queue' = [queue EXCEPT ![s] = Tail(@)]
        /\ server' = [server EXCEPT ![s] = "writing"]
        /\ UNCHANGED <<collector, subscribers, reader, wire, peer>>
    BY <1>10 DEF ReceiveTick
  <2>3. /\ queue' \in [Stream -> Seq(Event)]
        /\ server' \in [Stream -> {"none", "accepted", "asked", "waiting", "writing", "leaving"}]
        /\ \A t \in Stream : server'[t] = "none" => shut[t]
    BY <1>10, <2>2, ReceiveChunk
  <2> QED BY <2>1, <2>2, <2>3
<1>11. ASSUME NEW s \in Stream, LookupFails(s) PROVE TypeOK'
  BY <1>11, FrameFacts DEF LookupFails
<1>12. ASSUME NEW s \in Stream, ReceiveStop(s) PROVE TypeOK'
  BY <1>12, FrameFacts DEF ReceiveStop
<1>13. ASSUME NEW s \in Stream, Write(s) PROVE TypeOK'
  <2>1. held[s] \in Frame
    BY <1>13 DEF Write, Holding
  <2>2. socket' \in [Stream -> Seq(Frame)] /\ held' \in [Stream -> Frame \cup {Nothing}]
    BY <1>13, <2>1 DEF Write
  <2>3. /\ queue' \in [Stream -> Seq(Event)]
        /\ server' \in [Stream -> {"none", "accepted", "asked", "waiting", "writing", "leaving"}]
        /\ \A t \in Stream : server'[t] = "none" => shut[t]
        /\ known' \in [Stream -> [Ident -> {"unasked", "hidden", "visible"}]]
        /\ sent' \in [Stream -> SUBSET Ident]
    <3>1. \/ server' = [server EXCEPT ![s] = "waiting"] /\ UNCHANGED <<queue, view>>
          \/ LeaveLoop(s)
      BY <1>13 DEF Write
    <3>2. CASE server' = [server EXCEPT ![s] = "waiting"] /\ UNCHANGED <<queue, view>>
      BY <3>2
    <3>3. CASE LeaveLoop(s)
      BY <3>3 DEF LeaveLoop
    <3> QED BY <3>1, <3>2, <3>3
  <2>4. UNCHANGED <<collector, subscribers, reader, shut, peer>>
    BY <1>13 DEF Write
  <2> QED BY <2>2, <2>3, <2>4
<1>14. ASSUME NEW s \in Stream, WriteFails(s) PROVE TypeOK'
  BY <1>14 DEF WriteFails, LeaveLoop
<1>15. ASSUME NEW s \in Stream, Finish(s) PROVE TypeOK'
  BY <1>15 DEF Finish
<1>16. ASSUME NEW s \in Stream, ReaderStops(s) PROVE TypeOK'
  BY <1>16, EventFacts DEF ReaderStops
<1>17. CASE UNCHANGED vars
  BY <1>17 DEF vars
<1>18. ASSUME NEW s \in Stream, HandleFails(s) PROVE TypeOK'
  BY <1>18 DEF HandleFails
<1> QED
  BY <1>1, <1>2, <1>3, <1>4, <1>5, <1>6, <1>7, <1>8, <1>9, <1>10, <1>11, <1>12, <1>13, <1>14,
     <1>15, <1>16, <1>17, <1>18 DEF Next, Collect, Peer, Serve

LEMMA HoldingStep == IInv /\ [Next]_vars => \A t \in Stream : Holding(t)'
<1> SUFFICES ASSUME IInv, [Next]_vars, NEW t \in Stream PROVE Holding(t)'
  OBVIOUS
<1> USE DEF Holding, collector, threads, view, wire, peer
<1>0. TypeOK /\ Holding(t) /\ server \in [Stream -> {"none", "accepted", "asked", "waiting",
                                                  "writing", "leaving"}]
      /\ held \in [Stream -> Frame \cup {Nothing}]
  BY DEF IInv, TypeOK
<1>1. ASSUME NEW d \in Delta, Poll(d) PROVE Holding(t)'
  BY <1>0, <1>1 DEF Poll
<1>2. CASE Publish
  BY <1>0, <1>2 DEF Publish
<1>3. ASSUME NEW s \in Stream, Peer(s) PROVE Holding(t)'
  BY <1>0, <1>3 DEF Peer, Connect, Ask, Read, Cancel, HangUp
<1>4. ASSUME NEW s \in Stream, Handle(s) PROVE Holding(t)'
  BY <1>0, <1>4, FrameFacts DEF Handle
<1>5. ASSUME NEW s \in Stream, NoRequest(s) \/ HandleFails(s) \/ Finish(s) \/ ReaderStops(s)
      PROVE Holding(t)'
  BY <1>0, <1>5 DEF NoRequest, HandleFails, Finish, ReaderStops
<1>6. ASSUME NEW s \in Stream, ReceiveTick(s) PROVE Holding(t)'
  <2>1. server' = [server EXCEPT ![s] = "writing"] /\ \A u \in Stream \ {s} : held'[u] = held[u]
    BY <1>0, <1>6 DEF ReceiveTick
  <2>2. held'[s] \in Frame
    BY <1>0, <1>6, ReceiveChunk
  <2> QED BY <1>0, <2>1, <2>2
<1>7. ASSUME NEW s \in Stream, LookupFails(s) \/ ReceiveStop(s) PROVE Holding(t)'
  BY <1>0, <1>7, FrameFacts DEF LookupFails, ReceiveStop
<1>8. ASSUME NEW s \in Stream, Write(s) \/ WriteFails(s) PROVE Holding(t)'
  BY <1>0, <1>8 DEF Write, WriteFails, LeaveLoop
<1>9. CASE UNCHANGED vars
  BY <1>0, <1>9 DEF vars
<1> QED
  BY <1>1, <1>2, <1>3, <1>4, <1>5, <1>6, <1>7, <1>8, <1>9 DEF Next, Collect, Serve

(* A Stop stays in a queue that grows, and in one that loses a tick.       *)
LEMMA StopStays ==
    ASSUME NEW q \in Seq(Event), HasStop(q)
    PROVE  /\ \A e \in Event : HasStop(Append(q, e))
           /\ Head(q).kind = "tick" => HasStop(Tail(q))
<1>1. PICK k \in 1 .. Len(q) : q[k] = Stop
  BY DEF HasStop
<1>2. ASSUME NEW e \in Event PROVE HasStop(Append(q, e))
  <2>1. k \in DOMAIN Append(q, e) /\ Append(q, e)[k] = q[k]
    OBVIOUS
  <2> QED BY <1>1, <2>1 DEF HasStop
<1>3. ASSUME Head(q).kind = "tick" PROVE HasStop(Tail(q))
  <2>1. k # 1
    BY <1>1, <1>3, EventFacts
  <2>2. k - 1 \in DOMAIN Tail(q) /\ Tail(q)[k - 1] = q[k]
    BY <2>1
  <2> QED BY <1>1, <2>2 DEF HasStop
<1> QED BY <1>2, <1>3

LEMMA StopAppended == \A q \in Seq(Event) : HasStop(Append(q, Stop))
<1> SUFFICES ASSUME NEW q \in Seq(Event) PROVE HasStop(Append(q, Stop))
  OBVIOUS
<1>1. Len(q) + 1 \in DOMAIN Append(q, Stop) /\ Append(q, Stop)[Len(q) + 1] = Stop
  BY EventFacts
<1> QED BY <1>1 DEF HasStop

LEMMA ServedStep == IInv /\ [Next]_vars => \A t \in Stream : Served(t)'
<1> SUFFICES ASSUME IInv, [Next]_vars, NEW t \in Stream PROVE Served(t)'
  OBVIOUS
<1> USE DEF Served, InLoop, collector, threads, view, wire, peer
<1>0. /\ Served(t) /\ subscribers \subseteq Stream
      /\ queue \in [Stream -> Seq(Event)] /\ held \in [Stream -> Frame \cup {Nothing}]
      /\ server \in [Stream -> {"none", "accepted", "asked", "waiting", "writing", "leaving"}]
      /\ reader \in [Stream -> {"none", "reading"}] /\ polled \subseteq Delta
  BY DEF IInv, TypeOK
<1>1. ASSUME NEW d \in Delta, Poll(d) PROVE Served(t)'
  BY <1>0, <1>1 DEF Poll
<1>2. CASE Publish
  <2>1. Tick(polled) \in Event
    BY <1>0, EventFacts
  <2>2. HasStop(queue[t]) => HasStop(queue'[t])
    BY <1>0, <1>2, <2>1, StopStays DEF Publish
  <2> QED BY <1>0, <1>2, <2>2 DEF Publish, Listening
<1>3. ASSUME NEW s \in Stream, Peer(s) PROVE Served(t)'
  BY <1>0, <1>3 DEF Peer, Connect, Ask, Read, Cancel, HangUp
<1>4. ASSUME NEW s \in Stream, Handle(s) PROVE Served(t)'
  BY <1>0, <1>4, FrameFacts DEF Handle
<1>5. ASSUME NEW s \in Stream, NoRequest(s) \/ HandleFails(s) \/ Finish(s) PROVE Served(t)'
  BY <1>0, <1>5 DEF NoRequest, HandleFails, Finish
<1>6. ASSUME NEW s \in Stream, ReceiveTick(s) PROVE Served(t)'
  <2>1. /\ server' = [server EXCEPT ![s] = "writing"] /\ server[s] = "waiting"
        /\ \A u \in Stream \ {s} : held'[u] = held[u]
        /\ Head(queue[s]).kind = "tick" /\ queue' = [queue EXCEPT ![s] = Tail(@)]
        /\ subscribers' = subscribers /\ reader' = reader
    BY <1>0, <1>6 DEF ReceiveTick
  <2>2. CASE t = s
    <3>1. HasStop(queue[s]) => HasStop(Tail(queue[s]))
      BY <1>0, <2>1, StopStays
    <3> QED BY <1>0, <2>1, <2>2, <3>1
  <2>3. CASE t # s
    BY <1>0, <2>1, <2>3
  <2> QED BY <2>2, <2>3
<1>7. ASSUME NEW s \in Stream, LookupFails(s) \/ ReceiveStop(s) PROVE Served(t)'
  BY <1>0, <1>7, FrameFacts DEF LookupFails, ReceiveStop
<1>8. ASSUME NEW s \in Stream, Write(s) \/ WriteFails(s) PROVE Served(t)'
  BY <1>0, <1>8 DEF Write, WriteFails, LeaveLoop
<1>9. ASSUME NEW s \in Stream, ReaderStops(s) PROVE Served(t)'
  <2>1. CASE t = s /\ Listening(s)
    <3>1. HasStop(queue'[s])
      BY <1>0, <1>9, <2>1, StopAppended DEF ReaderStops
    <3> QED BY <1>0, <1>9, <2>1, <3>1 DEF ReaderStops
  <2>2. CASE t # s \/ ~Listening(s)
    BY <1>0, <1>9, <2>2 DEF ReaderStops, Listening
  <2> QED BY <2>1, <2>2
<1>10. CASE UNCHANGED vars
  BY <1>0, <1>10 DEF vars
<1> QED
  BY <1>1, <1>2, <1>3, <1>4, <1>5, <1>6, <1>7, <1>8, <1>9, <1>10 DEF Next, Collect, Serve

LEMMA Invariant == Spec => []IInv
<1>1. IInv /\ [Next]_vars => IInv'
  BY TypeStep, ServedStep, HoldingStep DEF IInv
<1> QED BY <1>1, InvInit, PTL DEF Spec

-----------------------------------------------------------------------------
(* The theorems. *)

(* Queues, caches, frames and threads keep their types, and a connection   *)
(* whose thread has ended is shut.                                         *)
THEOREM TypeCorrect == Spec => []TypeOK
<1>1. IInv => TypeOK
  BY DEF IInv
<1> QED BY <1>1, Invariant, PTL

(* No thread of a stream waits for events that nobody will send: for any   *)
(* number of streams and queues of any length (server.rs watch, live.rs).  *)
THEOREM StreamsAreAttended == Spec => []Attended
<1>1. IInv => Attended
  BY DEF IInv, Served, InLoop, HasStop, Attended
<1> QED BY <1>1, Invariant, PTL

-----------------------------------------------------------------------------
(* What a step of one stream does, component by component. *)

(* The other streams are as they were. *)
Others(s) ==
    \A t \in Stream \ {s} :
        /\ request'[t] = request[t] /\ client'[t] = client[t] /\ told'[t] = told[t]
        /\ server'[t] = server[t] /\ reader'[t] = reader[t] /\ queue'[t] = queue[t]
        /\ known'[t] = known[t] /\ sent'[t] = sent[t]
        /\ held'[t] = held[t] /\ socket'[t] = socket[t]

LEMMA Elsewhere ==
    ASSUME TypeOK, NEW s \in Stream, Peer(s) \/ Serve(s) \/ ReaderStops(s)
    PROVE  Others(s) /\ UNCHANGED <<live, stored, polled>>
<1> USE DEF TypeOK, Others, collector, threads, view, wire, peer
<1>1. CASE Peer(s)
  BY <1>1 DEF Peer, Connect, Ask, Read, Cancel, HangUp
<1>2. CASE Handle(s) \/ NoRequest(s) \/ HandleFails(s) \/ Finish(s) \/ ReaderStops(s)
  BY <1>2 DEF Handle, NoRequest, HandleFails, Finish, ReaderStops
<1>3. CASE ReceiveTick(s)
  BY <1>3 DEF ReceiveTick
<1>4. CASE LookupFails(s) \/ ReceiveStop(s)
  BY <1>4 DEF LookupFails, ReceiveStop
<1>5. CASE Write(s) \/ WriteFails(s)
  BY <1>5 DEF Write, WriteFails, LeaveLoop
<1> QED BY <1>1, <1>2, <1>3, <1>4, <1>5 DEF Serve

NewView(s) == [i \in Ident |-> "unasked"]

(* The loop over events is behind the thread, and its view is new. *)
Left(s) ==
    /\ server'[s] = "leaving" /\ queue'[s] = <<>>
    /\ known'[s] = NewView(s) /\ sent'[s] = {}

LEMMA PeerFacts ==
    ASSUME TypeOK, NEW s \in Stream
    PROVE  /\ \A r \in Request : Connect(s, r) =>
                /\ request'[s] = r /\ client'[s] = "silent" /\ told'[s] = {}
                /\ server'[s] = "accepted" /\ reader'[s] = reader[s] /\ queue'[s] = queue[s]
                /\ known'[s] = known[s] /\ sent'[s] = sent[s]
                /\ held'[s] = held[s] /\ socket'[s] = socket[s]
           /\ Ask(s) =>
                /\ request'[s] = request[s] /\ client'[s] = "open" /\ told'[s] = told[s]
                /\ server'[s] = "asked" /\ reader'[s] = reader[s] /\ queue'[s] = queue[s]
                /\ known'[s] = known[s] /\ sent'[s] = sent[s]
                /\ held'[s] = held[s] /\ socket'[s] = socket[s]
           /\ Read(s) =>
                /\ request'[s] = request[s]
                /\ IF Head(socket[s]).kind = "chunk"
                   THEN /\ client'[s] = client[s]
                        /\ told'[s] = told[s] \cup Head(socket[s]).identities
                   ELSE client'[s] = "gone" /\ told'[s] = told[s]
                /\ server'[s] = server[s] /\ reader'[s] = reader[s] /\ queue'[s] = queue[s]
                /\ known'[s] = known[s] /\ sent'[s] = sent[s]
                /\ held'[s] = held[s] /\ socket'[s] = Tail(socket[s])
           /\ Cancel(s) =>
                /\ request'[s] = request[s] /\ client'[s] = "cancelled" /\ told'[s] = told[s]
                /\ server'[s] = server[s] /\ reader'[s] = reader[s] /\ queue'[s] = queue[s]
                /\ known'[s] = known[s] /\ sent'[s] = sent[s]
                /\ held'[s] = held[s] /\ socket'[s] = socket[s]
           /\ HangUp(s) =>
                /\ request'[s] = request[s] /\ client'[s] = "gone" /\ told'[s] = told[s]
                /\ server'[s] = server[s] /\ reader'[s] = reader[s] /\ queue'[s] = queue[s]
                /\ known'[s] = known[s] /\ sent'[s] = sent[s]
                /\ held'[s] = held[s] /\ socket'[s] = <<>>
BY DEF TypeOK, Connect, Ask, Read, Cancel, HangUp, collector, threads, view, wire, peer

LEMMA ServeFacts ==
    ASSUME TypeOK, NEW s \in Stream, Serve(s) \/ ReaderStops(s)
    PROVE  /\ request'[s] = request[s] /\ client'[s] = client[s] /\ told'[s] = told[s]
           /\ Handle(s) =>
                /\ IF Granted(s) THEN server'[s] = "waiting" /\ held'[s] = held[s]
                                 ELSE server'[s] = "writing" /\ held'[s] = Error
                /\ queue'[s] = queue[s] /\ known'[s] = known[s] /\ sent'[s] = sent[s]
                /\ socket'[s] = socket[s]
           /\ NoRequest(s) \/ HandleFails(s) \/ Finish(s) =>
                /\ server'[s] = "none" /\ held'[s] = held[s]
                /\ queue'[s] = queue[s] /\ known'[s] = known[s] /\ sent'[s] = sent[s]
                /\ socket'[s] = socket[s]
           /\ LookupFails(s) =>
                /\ server'[s] = "writing" /\ held'[s] = Error
                /\ queue'[s] = Tail(queue[s]) /\ known'[s] = known[s] /\ sent'[s] = sent[s]
                /\ socket'[s] = socket[s]
           /\ ReceiveStop(s) =>
                /\ server'[s] = "writing" /\ held'[s] = End
                /\ queue'[s] = Tail(queue[s]) /\ known'[s] = known[s] /\ sent'[s] = sent[s]
                /\ socket'[s] = socket[s]
           /\ Write(s) =>
                /\ held'[s] = Nothing /\ socket'[s] = Append(socket[s], held[s])
                /\ IF held[s].kind = "chunk"
                   THEN /\ server'[s] = "waiting"
                        /\ queue'[s] = queue[s] /\ known'[s] = known[s] /\ sent'[s] = sent[s]
                   ELSE Left(s)
           /\ WriteFails(s) =>
                held'[s] = Nothing /\ socket'[s] = socket[s] /\ Left(s)
           /\ ReaderStops(s) =>
                /\ server'[s] = server[s] /\ held'[s] = held[s]
                /\ queue'[s] = IF Listening(s) THEN Append(queue[s], Stop) ELSE queue[s]
                /\ known'[s] = known[s] /\ sent'[s] = sent[s]
                /\ socket'[s] = socket[s]
<1> USE DEF TypeOK, collector, threads, view, wire, peer
<1>1. request'[s] = request[s] /\ client'[s] = client[s] /\ told'[s] = told[s]
  BY DEF Serve, Handle, HandleFails, NoRequest, ReceiveTick, LookupFails, ReceiveStop, Write,
         WriteFails, Finish, ReaderStops
<1>2. Handle(s) =>
        /\ IF Granted(s) THEN server'[s] = "waiting" /\ held'[s] = held[s]
                         ELSE server'[s] = "writing" /\ held'[s] = Error
        /\ queue'[s] = queue[s] /\ known'[s] = known[s] /\ sent'[s] = sent[s]
        /\ socket'[s] = socket[s]
  BY DEF Handle
<1>3. NoRequest(s) \/ HandleFails(s) \/ Finish(s) =>
        /\ server'[s] = "none" /\ held'[s] = held[s]
        /\ queue'[s] = queue[s] /\ known'[s] = known[s] /\ sent'[s] = sent[s]
        /\ socket'[s] = socket[s]
  BY DEF NoRequest, HandleFails, Finish
<1>4. LookupFails(s) =>
        /\ server'[s] = "writing" /\ held'[s] = Error
        /\ queue'[s] = Tail(queue[s]) /\ known'[s] = known[s] /\ sent'[s] = sent[s]
        /\ socket'[s] = socket[s]
  BY DEF LookupFails
<1>5. ReceiveStop(s) =>
        /\ server'[s] = "writing" /\ held'[s] = End
        /\ queue'[s] = Tail(queue[s]) /\ known'[s] = known[s] /\ sent'[s] = sent[s]
        /\ socket'[s] = socket[s]
  BY DEF ReceiveStop
<1>6. Write(s) =>
        /\ held'[s] = Nothing /\ socket'[s] = Append(socket[s], held[s])
        /\ IF held[s].kind = "chunk"
           THEN /\ server'[s] = "waiting"
                /\ queue'[s] = queue[s] /\ known'[s] = known[s] /\ sent'[s] = sent[s]
           ELSE Left(s)
  BY DEF Write, LeaveLoop, Left, NewView
<1>7. WriteFails(s) => held'[s] = Nothing /\ socket'[s] = socket[s] /\ Left(s)
  BY DEF WriteFails, LeaveLoop, Left, NewView
<1>8. ReaderStops(s) =>
        /\ server'[s] = server[s] /\ held'[s] = held[s]
        /\ queue'[s] = IF Listening(s) THEN Append(queue[s], Stop) ELSE queue[s]
        /\ known'[s] = known[s] /\ sent'[s] = sent[s]
        /\ socket'[s] = socket[s]
  BY DEF ReaderStops
<1> QED BY <1>1, <1>2, <1>3, <1>4, <1>5, <1>6, <1>7, <1>8

(* What a thread makes of a tick, and what it knows then. *)
Shown(s, D) == {d \in D : LookedUp(s, D)[d.id] = "visible" /\ InScope(request[s], d)}
Made(s, D, kept) ==
    Chunk(kept, IF request[s].grouped THEN {} ELSE Ids(UNION kept) \ sent[s])

LEMMA ReceiveFacts ==
    ASSUME TypeOK, NEW s \in Stream, ReceiveTick(s)
    PROVE  /\ server[s] = "waiting" /\ server'[s] = "writing"
           /\ queue[s] # <<>> /\ Head(queue[s]).kind = "tick" /\ queue'[s] = Tail(queue[s])
           /\ Head(queue[s]).deltas \in SUBSET Delta
           /\ known'[s] = LookedUp(s, Head(queue[s]).deltas) /\ socket'[s] = socket[s]
           /\ \E kept \in Kept(request[s], Rows(request[s], Shown(s, Head(queue[s]).deltas))) :
                /\ held'[s] = Made(s, Head(queue[s]).deltas, kept)
                /\ sent'[s] = IF request[s].grouped THEN sent[s] ELSE sent[s] \cup Ids(UNION kept)
<1> DEFINE D == Head(queue[s]).deltas
<1>1. /\ server[s] = "waiting" /\ server' = [server EXCEPT ![s] = "writing"]
      /\ queue[s] # <<>> /\ Head(queue[s]).kind = "tick"
      /\ queue' = [queue EXCEPT ![s] = Tail(@)] /\ socket' = socket
  BY DEF ReceiveTick, wire
<1>2. D \in SUBSET Delta
  <2>1. Head(queue[s]) \in Event
    BY <1>1 DEF TypeOK
  <2> QED BY <1>1, <2>1, EventFacts
<1>3. PICK kept \in Kept(request[s], Rows(request[s], Shown(s, D))) :
        /\ known' = [known EXCEPT ![s] = LookedUp(s, D)]
        /\ sent' = [sent EXCEPT ![s] = IF request[s].grouped THEN @
                                       ELSE SentAfter(s, Shown(s, D), kept)]
        /\ held' = [held EXCEPT ![s] = Made(s, D, kept)]
  BY DEF ReceiveTick, Shown, Made
<1>4. /\ known'[s] = LookedUp(s, D) /\ held'[s] = Made(s, D, kept)
      /\ sent'[s] = IF request[s].grouped THEN sent[s] ELSE sent[s] \cup Ids(UNION kept)
  BY <1>3 DEF TypeOK, SentAfter
<1>5. server'[s] = "writing" /\ queue'[s] = Tail(queue[s]) /\ socket'[s] = socket[s]
  BY <1>1 DEF TypeOK
<1> QED BY <1>1, <1>2, <1>4, <1>5

-----------------------------------------------------------------------------
(* The phases of a stream. *)

(* Outside the loop over events nothing is held, queued, cached or sent,   *)
(* and before it nothing was written either.                               *)
Fresh(s) == queue[s] = <<>> /\ held[s] = Nothing /\ known[s] = NewView(s) /\ sent[s] = {}
Phases(s) ==
    /\ server[s] \in {"none", "accepted", "asked", "leaving"} => Fresh(s)
    /\ server[s] \in {"accepted", "asked"} /\ client[s] # "gone"
          => socket[s] = <<>> /\ told[s] = {}
    /\ server[s] = "waiting" => held[s] = Nothing
    /\ server[s] = "writing" => held[s] \in Frame
    /\ client[s] = "gone" => socket[s] = <<>>

(* A frame that is not a chunk is the last, and the loop is over.          *)
LastFrame(s) ==
    \A k \in 1 .. Len(socket[s]) : socket[s][k].kind # "chunk" =>
        k = Len(socket[s]) /\ server[s] \in {"leaving", "none"}

(* The queue is ticks and then, perhaps, a Stop with more behind it; once  *)
(* the last frame is held, what is left of it is dropped.                  *)
Leads(kind, q, n) ==
    /\ n \in 0 .. Len(q) /\ \A k \in 1 .. n : q[k].kind = kind
    /\ n < Len(q) => q[n + 1].kind # kind
Queued(s) == ~Final(s) => \E n \in 0 .. Len(queue[s]) : Leads("tick", queue[s], n)

(* What is polled or queued is in the store, and the cache is right.       *)
FromStore(s) ==
    \A k \in 1 .. Len(queue[s]) :
        queue[s][k].kind = "tick" => Ids(queue[s][k].deltas) \subseteq stored
Truthful(s) ==
    \A i \in Ident : /\ known[s][i] = "visible" => Sees(request[s], i)
                     /\ known[s][i] = "hidden" => ~Sees(request[s], i)

StreamInv(s) == Phases(s) /\ LastFrame(s) /\ Queued(s) /\ FromStore(s) /\ Truthful(s)
LoopInv == Ids(polled) \subseteq stored /\ \A s \in Stream : StreamInv(s)

(* A queue that grows or loses its head is still ticks and a Stop. *)
LEMMA LeadsOn ==
    ASSUME NEW kind, NEW S, NEW q \in Seq(S), NEW n, Leads(kind, q, n)
    PROVE  /\ \A e \in S : Leads(kind, Append(q, e),
                                 IF n = Len(q) /\ e.kind = kind THEN n + 1 ELSE n)
           /\ q # <<>> /\ Head(q).kind = kind => n >= 1 /\ Leads(kind, Tail(q), n - 1)
           /\ q # <<>> /\ Head(q).kind # kind => n = 0
<1>1. n \in Nat /\ n <= Len(q) /\ Len(q) \in Nat
  BY DEF Leads
<1>2. ASSUME NEW e \in S
      PROVE  Leads(kind, Append(q, e), IF n = Len(q) /\ e.kind = kind THEN n + 1 ELSE n)
  <2> DEFINE p == Append(q, e)
  <2>1. /\ Len(p) = Len(q) + 1 /\ \A k \in 1 .. Len(q) : p[k] = q[k]
        /\ p[Len(q) + 1] = e
    OBVIOUS
  <2> HIDE DEF p
  <2>2. CASE n = Len(q) /\ e.kind = kind
    <3>1. \A k \in 1 .. n + 1 : p[k].kind = kind
      <4>1. ASSUME NEW k \in 1 .. n + 1 PROVE p[k].kind = kind
        <5>1. CASE k = n + 1
          BY <2>1, <2>2, <5>1
        <5>2. CASE k # n + 1
          BY <1>1, <2>1, <2>2, <5>2 DEF Leads
        <5> QED BY <5>1, <5>2
      <4> QED BY <4>1
    <3> QED BY <1>1, <2>1, <2>2, <3>1 DEF Leads
  <2>3. CASE ~(n = Len(q) /\ e.kind = kind)
    BY <1>1, <2>1, <2>3 DEF Leads
  <2> QED BY <2>2, <2>3 DEF p
<1>3. ASSUME q # <<>>, Head(q).kind = kind PROVE n >= 1 /\ Leads(kind, Tail(q), n - 1)
  <2>1. n >= 1
    BY <1>1, <1>3 DEF Leads
  <2>2. /\ Len(Tail(q)) = Len(q) - 1
        /\ \A k \in 1 .. Len(q) - 1 : Tail(q)[k] = q[k + 1]
    BY <1>3
  <2> QED BY <1>1, <2>1, <2>2 DEF Leads
<1>4. ASSUME q # <<>>, Head(q).kind # kind PROVE n = 0
  BY <1>1, <1>4 DEF Leads
<1> QED BY <1>2, <1>3, <1>4

LEMMA QueueLeads ==
    ASSUME NEW q \in Seq(Event), NEW n, Leads("tick", q, n)
    PROVE  /\ Leads("tick", Append(q, Stop), n)
           /\ \A D \in SUBSET Delta :
                 Leads("tick", Append(q, Tick(D)), IF n = Len(q) THEN n + 1 ELSE n)
           /\ q # <<>> /\ Head(q).kind = "tick" => n >= 1 /\ Leads("tick", Tail(q), n - 1)
           /\ q # <<>> /\ Head(q).kind # "tick" => n = 0
<1>1. Leads("tick", Append(q, Stop), n)
  <2>1. Stop \in Event /\ Stop.kind # "tick"
    BY EventFacts
  <2>2. Leads("tick", Append(q, Stop), IF n = Len(q) /\ Stop.kind = "tick" THEN n + 1 ELSE n)
    BY <2>1, LeadsOn
  <2> QED BY <2>1, <2>2
<1>2. ASSUME NEW D \in SUBSET Delta
      PROVE  Leads("tick", Append(q, Tick(D)), IF n = Len(q) THEN n + 1 ELSE n)
  <2>1. Tick(D) \in Event /\ Tick(D).kind = "tick"
    BY EventFacts
  <2>2. Leads("tick", Append(q, Tick(D)),
              IF n = Len(q) /\ Tick(D).kind = "tick" THEN n + 1 ELSE n)
    BY <2>1, LeadsOn
  <2> QED BY <2>1, <2>2
<1>3. /\ q # <<>> /\ Head(q).kind = "tick" => n >= 1 /\ Leads("tick", Tail(q), n - 1)
      /\ q # <<>> /\ Head(q).kind # "tick" => n = 0
  BY LeadsOn
<1> QED BY <1>1, <1>2, <1>3

(* An empty sequence leads to nothing. *)
LEMMA LeadsNowhere == \A kind : Leads(kind, <<>>, 0)
BY DEF Leads

LEMMA LoopInit == Init => LoopInv
<1> SUFFICES ASSUME Init PROVE LoopInv
  OBVIOUS
<1>1. Ids(polled) \subseteq stored
  BY DEF Init, Ids
<1>2. ASSUME NEW s \in Stream PROVE StreamInv(s)
  <2>1. /\ queue[s] = <<>> /\ held[s] = Nothing /\ known[s] = NewView(s) /\ sent[s] = {}
        /\ server[s] = "none" /\ socket[s] = <<>>
    BY DEF Init, NewView
  <2>2. Phases(s) /\ LastFrame(s) /\ FromStore(s) /\ Truthful(s)
    BY <2>1 DEF Phases, Fresh, LastFrame, FromStore, Truthful, NewView
  <2>3. Queued(s)
    BY <2>1, LeadsNowhere DEF Queued
  <2> QED BY <2>2, <2>3 DEF StreamInv
<1> QED BY <1>1, <1>2 DEF LoopInv

(* A stream that nothing touches keeps what holds of it; the store grows.  *)
LEMMA StreamStays ==
    ASSUME NEW t \in Stream, StreamInv(t), stored \subseteq stored',
           request'[t] = request[t], client'[t] = client[t], told'[t] = told[t],
           server'[t] = server[t], queue'[t] = queue[t],
           known'[t] = known[t], sent'[t] = sent[t], held'[t] = held[t], socket'[t] = socket[t]
    PROVE  StreamInv(t)'
BY DEF StreamInv, Phases, Fresh, NewView, LastFrame, Queued, Final, Leads, FromStore, Truthful, Sees

LEMMA TypesAt ==
    ASSUME TypeOK, NEW s \in Stream
    PROVE  /\ queue[s] \in Seq(Event) /\ socket[s] \in Seq(Frame)
           /\ held[s] \in Frame \cup {Nothing} /\ request[s] \in Request
           /\ known[s] \in [Ident -> {"unasked", "hidden", "visible"}]
           /\ server[s] \in {"none", "accepted", "asked", "waiting", "writing", "leaving"}
           /\ client[s] \in {"silent", "open", "cancelled", "gone"}
           /\ sent[s] \subseteq Ident /\ told[s] \subseteq Ident /\ polled \subseteq Delta
BY DEF TypeOK

(* Publish appends one tick to the queues of those who listen. *)
LEMMA PublishFacts ==
    ASSUME TypeOK, Publish, NEW t \in Stream
    PROVE  /\ request'[t] = request[t] /\ client'[t] = client[t] /\ told'[t] = told[t]
           /\ server'[t] = server[t] /\ reader'[t] = reader[t]
           /\ known'[t] = known[t] /\ sent'[t] = sent[t]
           /\ held'[t] = held[t] /\ socket'[t] = socket[t]
           /\ polled' = {} /\ stored' = stored
           /\ queue'[t] = IF t \in subscribers /\ Listening(t)
                          THEN Append(queue[t], Tick(polled)) ELSE queue[t]
BY DEF Publish, TypeOK, collector, threads, view, wire, peer

(* A view that is looked up tells the truth of what is in the store. *)
LEMMA LookupIsTrue ==
    ASSUME TypeOK, NEW s \in Stream, Truthful(s), NEW D \in SUBSET Delta, Ids(D) \subseteq stored
    PROVE  /\ \A i \in Ident : /\ LookedUp(s, D)[i] = "visible" => Sees(request[s], i)
                               /\ LookedUp(s, D)[i] = "hidden" => ~Sees(request[s], i)
           /\ \A d \in D : LookedUp(s, D)[d.id] = "visible" <=> Sees(request[s], d.id)
<1>1. known[s] \in [Ident -> {"unasked", "hidden", "visible"}] /\ Ids(D) \subseteq Ident
  BY TypesAt, IdsType
<1>2. ASSUME NEW i \in Ident
      PROVE  /\ LookedUp(s, D)[i] = "visible" => Sees(request[s], i)
             /\ LookedUp(s, D)[i] = "hidden" => ~Sees(request[s], i)
  BY <1>1 DEF LookedUp, Truthful
<1>3. ASSUME NEW d \in D PROVE LookedUp(s, D)[d.id] = "visible" <=> Sees(request[s], d.id)
  <2>1. d.id \in Ids(D) /\ d.id \in Ident /\ d.id \in stored
    BY <1>1 DEF Ids
  <2>2. LookedUp(s, D)[d.id] = IF known[s][d.id] # "unasked" THEN known[s][d.id]
                               ELSE IF Sees(request[s], d.id) THEN "visible" ELSE "hidden"
    BY <2>1 DEF LookedUp
  <2> QED BY <1>1, <2>1, <2>2 DEF Truthful
<1> QED BY <1>2, <1>3

(* Each step of a stream keeps what holds of it.                           *)
LEMMA ReceiveKeeps ==
    ASSUME TypeOK, NEW s \in Stream, StreamInv(s), ReceiveTick(s)
    PROVE  StreamInv(s)'
<1> DEFINE D == Head(queue[s]).deltas
<1> USE DEF StreamInv
<1>1. PICK kept \in Kept(request[s], Rows(request[s], Shown(s, D))) :
        held'[s] = Made(s, D, kept)
  BY ReceiveFacts
<1>2. /\ server[s] = "waiting" /\ server'[s] = "writing" /\ D \in SUBSET Delta
      /\ queue[s] # <<>> /\ Head(queue[s]).kind = "tick" /\ queue'[s] = Tail(queue[s])
      /\ known'[s] = LookedUp(s, D) /\ socket'[s] = socket[s]
  BY ReceiveFacts
<1>3. /\ request'[s] = request[s] /\ client'[s] = client[s] /\ told'[s] = told[s]
      /\ stored' = stored
  BY ServeFacts, Elsewhere DEF Serve
<1>4. /\ queue[s] \in Seq(Event) /\ Len(Tail(queue[s])) = Len(queue[s]) - 1
      /\ \A k \in 1 .. Len(queue[s]) - 1 : Tail(queue[s])[k] = queue[s][k + 1]
      /\ Head(queue[s]) = queue[s][1]
  BY <1>2, TypesAt
<1> HIDE DEF D
<1>5. held'[s] \in Frame
  <2>1. Shown(s, D) \in SUBSET Delta
    BY <1>2 DEF Shown
  <2>2. kept \in SUBSET SUBSET Delta /\ Ids(UNION kept) \subseteq Ident
    BY <1>1, <2>1, KeptFacts
  <2>3. (IF request[s].grouped THEN {} ELSE Ids(UNION kept) \ sent[s]) \in SUBSET Ident
    BY <2>2
  <2> QED BY <1>1, <2>2, <2>3, ChunkType DEF Made
<1>6. Phases(s)'
  BY <1>2, <1>3, <1>5 DEF Phases
<1>7. LastFrame(s)'
  BY <1>2 DEF LastFrame
<1>8. Queued(s)'
  <2>1. PICK n \in 0 .. Len(queue[s]) : Leads("tick", queue[s], n)
    BY <1>2, FrameFacts DEF Queued, Final, Phases, Nothing, End, Error
  <2>2. n >= 1 /\ Leads("tick", queue'[s], n - 1)
    BY <1>2, <1>4, <2>1, QueueLeads
  <2> QED BY <2>2 DEF Queued, Leads
<1>9. FromStore(s)'
  BY <1>2, <1>3, <1>4 DEF FromStore
<1>10. Truthful(s)'
  <2>1. Ids(D) \subseteq stored
    BY <1>2, <1>4 DEF FromStore, D
  <2> QED BY <1>2, <1>3, <2>1, LookupIsTrue DEF Truthful, Sees
<1> QED BY <1>6, <1>7, <1>8, <1>9, <1>10

LEMMA StreamKeeps ==
    ASSUME TypeOK, NEW s \in Stream, StreamInv(s), Peer(s) \/ Serve(s) \/ ReaderStops(s)
    PROVE  StreamInv(s)'
<1> USE DEF StreamInv
<1>0. /\ UNCHANGED <<live, stored, polled>>
      /\ queue[s] \in Seq(Event) /\ socket[s] \in Seq(Frame) /\ held[s] \in Frame \cup {Nothing}
  BY Elsewhere, TypesAt
(* What a queue is made of stays with the queue, and the cache with the view. *)
<1>1. ASSUME queue'[s] = queue[s], held'[s] = held[s] \/ held[s].kind = "chunk"
      PROVE  Queued(s)' /\ FromStore(s)'
  BY <1>0, <1>1, FrameFacts DEF Queued, Final, Leads, FromStore
<1>2. ASSUME queue'[s] = <<>> PROVE Queued(s)' /\ FromStore(s)'
  BY <1>2, LeadsNowhere DEF Queued, FromStore
<1>3. ASSUME queue[s] # <<>>, queue'[s] = Tail(queue[s]) PROVE FromStore(s)'
  <2>1. /\ Len(Tail(queue[s])) = Len(queue[s]) - 1
        /\ \A k \in 1 .. Len(queue[s]) - 1 : Tail(queue[s])[k] = queue[s][k + 1]
    BY <1>0, <1>3
  <2> QED BY <1>0, <1>3, <2>1 DEF FromStore
<1>4. ASSUME Final(s)' PROVE Queued(s)'
  BY <1>4 DEF Queued
<1>5. ASSUME known'[s] = known[s], request'[s] = request[s] PROVE Truthful(s)'
  BY <1>5 DEF Truthful, Sees
<1>6. ASSUME known'[s] = NewView(s) PROVE Truthful(s)'
  BY <1>6 DEF Truthful, NewView
<1>7. ASSUME NEW r \in Request, Connect(s, r) PROVE StreamInv(s)'
  <2>1. server[s] = "none" /\ client[s] = "gone"
    BY <1>7 DEF Connect, Gone
  <2>2. /\ Phases(s)' /\ LastFrame(s)' /\ known'[s] = NewView(s)
        /\ queue'[s] = queue[s] /\ held'[s] = held[s]
    BY <1>7, <2>1, PeerFacts DEF Phases, Fresh, LastFrame, NewView
  <2> QED BY <1>1, <1>6, <2>2
<1>8. CASE Ask(s)
  <2>1. server[s] = "accepted" /\ client[s] = "silent"
    BY <1>8 DEF Ask
  <2> QED BY <1>1, <1>5, <1>8, <2>1, PeerFacts DEF Phases, Fresh, LastFrame, NewView
<1>9. CASE Read(s)
  <2>1. client[s] # "gone" /\ socket[s] # <<>>
    BY <1>9 DEF Read
  <2>2. /\ Len(Tail(socket[s])) = Len(socket[s]) - 1
        /\ \A k \in 1 .. Len(socket[s]) - 1 : Tail(socket[s])[k] = socket[s][k + 1]
        /\ Head(socket[s]) = socket[s][1] /\ Tail(socket[s]) \in Seq(Frame)
        /\ Len(socket[s]) \in Nat /\ Len(socket[s]) >= 1
        /\ server'[s] = server[s] /\ socket'[s] = Tail(socket[s])
    BY <1>0, <1>9, <2>1, PeerFacts
  <2>3. LastFrame(s)'
    <3>1. ASSUME NEW k \in 1 .. Len(socket[s]) - 1, socket[s][k + 1].kind # "chunk"
          PROVE  k = Len(socket[s]) - 1 /\ server[s] \in {"leaving", "none"}
      <4>1. k + 1 \in 1 .. Len(socket[s])
        BY <2>2
      <4> QED BY <2>2, <3>1, <4>1 DEF LastFrame
    <3> QED BY <2>2, <3>1 DEF LastFrame
  <2>4. Head(socket[s]).kind # "chunk" => Tail(socket[s]) = <<>>
    <3>1. 1 \in 1 .. Len(socket[s])
      BY <2>2
    <3>2. Head(socket[s]).kind # "chunk" => Len(socket[s]) = 1
      BY <2>2, <3>1 DEF LastFrame
    <3>3. Len(socket[s]) = 1 => Tail(socket[s]) = <<>>
      <4>1. \A q \in Seq(Frame) : Len(q) = 0 => q = <<>>
        BY EmptySeq
      <4>2. Len(socket[s]) = 1 => Len(Tail(socket[s])) = 0
        BY <2>2
      <4>3. Tail(socket[s]) \in Seq(Frame)
        BY <2>2
      <4> QED BY <4>1, <4>2, <4>3, Zenon
    <3> QED BY <3>2, <3>3
  <2>5. Phases(s)'
    <3>1. socket[s] # <<>>
      BY <2>1
    <3> QED BY <1>9, <2>1, <2>4, <3>1, PeerFacts DEF Phases, Fresh, NewView
  <2> QED BY <1>1, <1>5, <1>9, <2>3, <2>5, PeerFacts
<1>10. CASE Cancel(s)
  <2>1. client[s] = "open"
    BY <1>10 DEF Cancel
  <2> QED BY <1>1, <1>5, <1>10, <2>1, PeerFacts DEF Phases, Fresh, LastFrame, NewView
<1>11. CASE HangUp(s)
  BY <1>1, <1>5, <1>11, PeerFacts DEF Phases, Fresh, LastFrame, NewView
<1>12. CASE Handle(s)
  <2>1. server[s] = "asked"
    BY <1>12 DEF Handle
  <2> QED BY <1>2, <1>5, <1>12, <2>1, ServeFacts, FrameFacts
          DEF Serve, Phases, Fresh, LastFrame, NewView
<1>13. CASE NoRequest(s) \/ HandleFails(s) \/ Finish(s)
  <2>1. server[s] \in {"accepted", "asked", "leaving"}
    BY <1>13 DEF NoRequest, HandleFails, Finish
  <2> QED BY <1>1, <1>5, <1>13, <2>1, ServeFacts DEF Serve, Phases, Fresh, LastFrame, NewView
<1>14. CASE ReceiveTick(s)
  BY <1>14, ReceiveKeeps
<1>15. CASE LookupFails(s)
  <2>1. server[s] = "waiting" /\ queue[s] # <<>> /\ Head(queue[s]).kind = "tick"
    BY <1>15 DEF LookupFails
  <2>2. Phases(s)' /\ LastFrame(s)'
    BY <1>15, <2>1, ServeFacts, FrameFacts DEF Serve, Phases, LastFrame
  <2> QED BY <1>3, <1>4, <1>5, <1>15, <2>1, <2>2, ServeFacts DEF Serve, Final
<1>16. CASE ReceiveStop(s)
  <2>1. server[s] = "waiting" /\ queue[s] # <<>> /\ Head(queue[s]) = Stop
    BY <1>16 DEF ReceiveStop
  <2>2. Phases(s)' /\ LastFrame(s)'
    BY <1>16, <2>1, ServeFacts, FrameFacts DEF Serve, Phases, LastFrame
  <2> QED BY <1>3, <1>4, <1>5, <1>16, <2>1, <2>2, ServeFacts DEF Serve, Final
<1>17. CASE Write(s)
  <2>1. server[s] = "writing" /\ client[s] # "gone"
    BY <1>17 DEF Write
  <2>2. held[s] \in Frame /\ held'[s] = Nothing /\ socket'[s] = Append(socket[s], held[s])
        /\ client'[s] = client[s] /\ request'[s] = request[s]
    BY <1>17, <2>1, ServeFacts DEF Serve, Phases
  <2>3. /\ Len(socket'[s]) = Len(socket[s]) + 1 /\ Len(socket[s]) \in Nat
        /\ \A k \in 1 .. Len(socket[s]) : socket'[s][k] = socket[s][k]
        /\ socket'[s][Len(socket[s]) + 1] = held[s]
    BY <1>0, <2>2
  <2>4. \A k \in 1 .. Len(socket[s]) : socket[s][k].kind = "chunk"
    BY <2>1 DEF LastFrame
  <2>5. ASSUME NEW k \in 1 .. Len(socket'[s]), socket'[s][k].kind # "chunk"
        PROVE  k = Len(socket'[s]) /\ held[s].kind # "chunk"
    BY <2>3, <2>4, <2>5
  <2>6. CASE held[s].kind = "chunk"
    <3>1. /\ server'[s] = "waiting" /\ known'[s] = known[s] /\ queue'[s] = queue[s]
      BY <1>17, <2>6, ServeFacts DEF Serve
    <3>2. Phases(s)'
      BY <2>1, <2>2, <3>1 DEF Phases
    <3>3. LastFrame(s)'
      BY <2>5, <2>6 DEF LastFrame
    <3> QED BY <1>1, <1>5, <2>2, <2>6, <3>1, <3>2, <3>3
  <2>7. CASE held[s].kind # "chunk"
    <3>1. Left(s)
      BY <1>17, <2>7, ServeFacts DEF Serve
    <3> QED BY <1>2, <1>6, <2>1, <2>2, <2>5, <3>1
            DEF Left, Phases, Fresh, NewView, LastFrame
  <2> QED BY <2>6, <2>7
<1>18. CASE WriteFails(s)
  <2>1. Left(s) /\ held'[s] = Nothing /\ socket'[s] = socket[s] /\ client'[s] = client[s]
    BY <1>18, ServeFacts DEF Serve
  <2>2. server[s] = "writing"
    BY <1>18 DEF WriteFails
  <2> QED BY <1>2, <1>6, <2>1, <2>2 DEF Left, Phases, Fresh, NewView, LastFrame
<1>19. CASE ReaderStops(s)
  <2>1. /\ server'[s] = server[s] /\ held'[s] = held[s] /\ known'[s] = known[s]
        /\ sent'[s] = sent[s] /\ socket'[s] = socket[s] /\ request'[s] = request[s]
        /\ client'[s] = client[s] /\ told'[s] = told[s]
        /\ queue'[s] = IF Listening(s) THEN Append(queue[s], Stop) ELSE queue[s]
    BY <1>19, ServeFacts
  <2>2. CASE Listening(s)
    <3>1. ASSUME ~Final(s), NEW n \in 0 .. Len(queue[s]), Leads("tick", queue[s], n)
          PROVE  Queued(s)'
      <4>1. Leads("tick", queue'[s], n)
        BY <1>0, <2>1, <2>2, <3>1, QueueLeads
      <4> QED BY <4>1 DEF Queued, Leads
    <3>3. Queued(s)'
      BY <2>1, <3>1 DEF Queued, Final
    <3>4. FromStore(s)'
      <4>1. /\ Len(queue'[s]) = Len(queue[s]) + 1 /\ queue'[s][Len(queue[s]) + 1] = Stop
            /\ \A k \in 1 .. Len(queue[s]) : queue'[s][k] = queue[s][k]
        BY <1>0, <2>1, <2>2, EventFacts
      <4> QED BY <1>0, <4>1, EventFacts DEF FromStore
    <3> QED BY <1>5, <2>1, <2>2, <3>3, <3>4 DEF Listening, Phases, LastFrame
  <2>3. CASE ~Listening(s)
    BY <1>1, <1>5, <2>1, <2>3 DEF Phases, Fresh, NewView, LastFrame
  <2> QED BY <2>2, <2>3
<1> QED
  BY <1>7, <1>8, <1>9, <1>10, <1>11, <1>12, <1>13, <1>14, <1>15, <1>16, <1>17, <1>18, <1>19
     DEF Peer, Serve
LEMMA LoopStep == TypeOK /\ LoopInv /\ [Next]_vars => LoopInv'
<1> SUFFICES ASSUME TypeOK, LoopInv, [Next]_vars PROVE LoopInv'
  OBVIOUS
<1>1. ASSUME NEW d \in Delta, Poll(d) PROVE LoopInv'
  <2>1. polled' = polled \cup {d} /\ stored' = stored \cup {d.id}
        /\ UNCHANGED <<queue, threads, view, held, wire, peer>>
    BY <1>1 DEF Poll
  <2>2. (Ids(polled) \subseteq stored)'
    BY <2>1 DEF LoopInv, Ids
  <2>3. ASSUME NEW t \in Stream PROVE StreamInv(t)'
    BY <2>1, StreamStays DEF LoopInv, threads, view, wire, peer
  <2> QED BY <2>2, <2>3 DEF LoopInv
<1>2. CASE Publish
  <2>1. polled' = {} /\ stored' = stored
    BY <1>2 DEF Publish, collector
  <2>2. (Ids(polled) \subseteq stored)'
    BY <2>1 DEF Ids
  <2>3. ASSUME NEW t \in Stream PROVE StreamInv(t)'
    <3>1. CASE t \in subscribers /\ Listening(t)
      <4>1. /\ request'[t] = request[t] /\ client'[t] = client[t] /\ told'[t] = told[t]
            /\ server'[t] = server[t] /\ known'[t] = known[t] /\ sent'[t] = sent[t]
            /\ held'[t] = held[t] /\ socket'[t] = socket[t]
            /\ queue'[t] = Append(queue[t], Tick(polled))
        BY <1>2, <3>1, PublishFacts
      <4>2. queue[t] \in Seq(Event) /\ polled \in SUBSET Delta /\ Tick(polled) \in Event
        BY TypesAt, EventFacts
      <4>3. /\ Len(queue'[t]) = Len(queue[t]) + 1
            /\ queue'[t][Len(queue[t]) + 1] = Tick(polled)
            /\ \A k \in 1 .. Len(queue[t]) : queue'[t][k] = queue[t][k]
        BY <4>1, <4>2
      <4>4. StreamInv(t) /\ Ids(polled) \subseteq stored
        BY DEF LoopInv
      <4>5. FromStore(t)'
        BY <2>1, <4>2, <4>3, <4>4 DEF StreamInv, FromStore, Tick
      <4>6. Queued(t)'
        <5>1. ASSUME NEW n \in 0 .. Len(queue[t]), Leads("tick", queue[t], n)
              PROVE  \E m \in 0 .. Len(queue'[t]) : Leads("tick", queue'[t], m)
          <6>1. Leads("tick", queue'[t], IF n = Len(queue[t]) THEN n + 1 ELSE n)
            BY <4>1, <4>2, <5>1, QueueLeads
          <6> QED BY <6>1 DEF Leads
        <5> QED BY <4>1, <4>4, <5>1 DEF StreamInv, Queued, Final
      <4> QED BY <3>1, <4>1, <4>4, <4>5, <4>6
              DEF Listening, StreamInv, Phases, LastFrame, Truthful, Sees
    <3>2. CASE ~(t \in subscribers /\ Listening(t))
      <4>1. queue'[t] = queue[t]
        BY <1>2, <3>2, PublishFacts
      <4> QED BY <1>2, <2>1, <4>1, PublishFacts, StreamStays DEF LoopInv
    <3> QED BY <3>1, <3>2
  <2> QED BY <2>2, <2>3 DEF LoopInv
<1>3. ASSUME NEW s \in Stream, Peer(s) \/ Serve(s) \/ ReaderStops(s) PROVE LoopInv'
  <2>1. Others(s) /\ UNCHANGED <<live, stored, polled>>
    BY <1>3, Elsewhere
  <2>2. StreamInv(s)'
    BY <1>3, StreamKeeps DEF LoopInv
  <2>3. ASSUME NEW t \in Stream, t # s PROVE StreamInv(t)'
    BY <2>1, <2>3, StreamStays DEF LoopInv, Others
  <2> QED BY <2>1, <2>2, <2>3 DEF LoopInv, Ids
<1>4. CASE UNCHANGED vars
  <2>1. UNCHANGED <<collector, queue, threads, view, held, wire, peer>>
    BY <1>4 DEF vars
  <2>2. ASSUME NEW t \in Stream PROVE StreamInv(t)'
    BY <2>1, StreamStays DEF LoopInv, collector, threads, view, wire, peer
  <2> QED BY <2>1, <2>2 DEF LoopInv, Ids, collector
<1> QED BY <1>1, <1>2, <1>3, <1>4 DEF Next, Collect

LEMMA LoopInvariant == Spec => [](TypeOK /\ LoopInv)
<1>1. IInv => TypeOK
  BY DEF IInv
<1> QED BY <1>1, Invariant, LoopInit, LoopStep, PTL DEF Spec

-----------------------------------------------------------------------------
(* What the chunks of a stream describe. *)

(* The identities described before the k-th of the frames q, when those in *)
(* T had been described before the first.                                  *)
Before(T, q, k) == T \cup UNION {q[j].identities : j \in 1 .. k - 1}
Used(r, chunk) == IF r.grouped THEN {} ELSE Ids(UNION chunk.rows)

(* Chunks written and the one held describe what they use and nobody has   *)
(* described; what the view has sent is what they describe.                *)
Described(s) ==
    client[s] # "gone" =>
        /\ \A k \in 1 .. Len(socket[s]) : socket[s][k].kind = "chunk" =>
              socket[s][k].identities =
                 Used(request[s], socket[s][k]) \ Before(told[s], socket[s], k)
        /\ server[s] = "waiting" => sent[s] = Before(told[s], socket[s], Len(socket[s]) + 1)
        /\ held[s].kind = "chunk" =>
              LET before == Before(told[s], socket[s], Len(socket[s]) + 1)
              IN  /\ held[s].identities = Used(request[s], held[s]) \ before
                  /\ sent[s] = before \cup held[s].identities

LEMMA BeforeFacts ==
    ASSUME NEW T, NEW q \in Seq(Frame)
    PROVE  /\ \A e \in Frame : \A k \in 1 .. Len(q) + 1 : Before(T, Append(q, e), k) = Before(T, q, k)
           /\ \A e \in Frame : Before(T, Append(q, e), Len(q) + 2)
                                 = Before(T, q, Len(q) + 1) \cup e.identities
           /\ q # <<>> => \A k \in 1 .. Len(q) :
                Before(T \cup Head(q).identities, Tail(q), k) = Before(T, q, k + 1)
<1>1. ASSUME NEW e \in Frame, NEW k \in 1 .. Len(q) + 1
      PROVE  Before(T, Append(q, e), k) = Before(T, q, k)
  <2>1. \A j \in 1 .. k - 1 : Append(q, e)[j] = q[j]
    OBVIOUS
  <2> QED BY <2>1 DEF Before
<1>2. ASSUME NEW e \in Frame
      PROVE  Before(T, Append(q, e), Len(q) + 2) = Before(T, q, Len(q) + 1) \cup e.identities
  <2> DEFINE p == Append(q, e)
  <2>1. /\ \A j \in 1 .. Len(q) : p[j] = q[j]
        /\ p[Len(q) + 1] = e /\ Len(q) \in Nat
    OBVIOUS
  <2> HIDE DEF p
  <2>2. UNION {p[j].identities : j \in 1 .. Len(q) + 1}
          = (UNION {q[j].identities : j \in 1 .. Len(q)}) \cup e.identities
    BY <2>1
  <2> QED BY <2>1, <2>2 DEF Before, p
<1>3. ASSUME q # <<>>, NEW k \in 1 .. Len(q)
      PROVE  Before(T \cup Head(q).identities, Tail(q), k) = Before(T, q, k + 1)
  <2> DEFINE p == Tail(q)
  <2>1. /\ \A j \in 1 .. Len(q) - 1 : p[j] = q[j + 1]
        /\ Head(q) = q[1] /\ Len(q) \in Nat
    BY <1>3
  <2> HIDE DEF p
  <2>2. UNION {q[j].identities : j \in 1 .. k}
          = Head(q).identities \cup UNION {p[j].identities : j \in 1 .. k - 1}
    <3>1. ASSUME NEW j \in 1 .. k
          PROVE  q[j].identities \subseteq
                    Head(q).identities \cup UNION {p[i].identities : i \in 1 .. k - 1}
      <4>1. CASE j = 1
        BY <2>1, <4>1
      <4>2. CASE j # 1
        <5>1. j - 1 \in 1 .. k - 1 /\ p[j - 1] = q[j]
          BY <2>1, <4>2
        <5> QED BY <5>1
      <4> QED BY <4>1, <4>2
    <3>2. ASSUME NEW j \in 1 .. k - 1
          PROVE  p[j].identities \subseteq UNION {q[i].identities : i \in 1 .. k}
      <4>1. j + 1 \in 1 .. k /\ p[j] = q[j + 1]
        BY <2>1
      <4> QED BY <4>1
    <3>3. Head(q).identities \subseteq UNION {q[i].identities : i \in 1 .. k}
      <4>1. 1 \in 1 .. k
        OBVIOUS
      <4> QED BY <2>1, <4>1
    <3> QED BY <3>1, <3>2, <3>3
  <2> QED BY <2>1, <2>2 DEF Before, p
<1> QED BY <1>1, <1>2, <1>3

LEMMA DescribedStays ==
    ASSUME NEW t \in Stream, Described(t),
           request'[t] = request[t], client'[t] = client[t], told'[t] = told[t],
           server'[t] = server[t], sent'[t] = sent[t], held'[t] = held[t], socket'[t] = socket[t]
    PROVE  Described(t)'
BY Zenon DEF Described

LEMMA ReceiveDescribes ==
    ASSUME TypeOK, NEW s \in Stream, StreamInv(s), Described(s), ReceiveTick(s)
    PROVE  Described(s)'
<1> DEFINE D == Head(queue[s]).deltas
           before == Before(told[s], socket[s], Len(socket[s]) + 1)
<1>1. PICK kept \in Kept(request[s], Rows(request[s], Shown(s, D))) :
        /\ held'[s] = Made(s, D, kept)
        /\ sent'[s] = IF request[s].grouped THEN sent[s] ELSE sent[s] \cup Ids(UNION kept)
  BY ReceiveFacts
<1>2. server[s] = "waiting" /\ server'[s] = "writing" /\ socket'[s] = socket[s]
  BY ReceiveFacts
<1>3. request'[s] = request[s] /\ client'[s] = client[s] /\ told'[s] = told[s]
  BY ServeFacts DEF Serve
<1>4. held'[s].rows = kept
      /\ held'[s].identities = IF request[s].grouped THEN {} ELSE Ids(UNION kept) \ sent[s]
  BY <1>1 DEF Made, Chunk
<1> HIDE DEF D, before
<1>5. ASSUME client[s] # "gone" PROVE sent[s] = before
  BY <1>2, <1>5 DEF Described, before
<1>6. ASSUME client[s] # "gone"
      PROVE  /\ held'[s].identities = Used(request[s], held'[s]) \ before
             /\ sent'[s] = before \cup held'[s].identities
  BY <1>1, <1>4, <1>5, <1>6 DEF Used
<1>7. Before(told'[s], socket'[s], Len(socket'[s]) + 1) = before
  BY <1>2, <1>3 DEF before
<1>8. ASSUME client[s] # "gone", NEW k \in 1 .. Len(socket[s]), socket[s][k].kind = "chunk"
      PROVE  socket[s][k].identities =
                Used(request[s], socket[s][k]) \ Before(told[s], socket[s], k)
  BY <1>8 DEF Described
<1>9. ASSUME client[s] # "gone" PROVE held'[s].kind = "chunk" /\ server'[s] # "waiting"
  BY <1>1, <1>2 DEF Made, Chunk
<1> HIDE DEF D
<1> QED BY <1>2, <1>3, <1>6, <1>7, <1>8, <1>9, Zenon DEF Described

LEMMA DescribedKeeps ==
    ASSUME TypeOK, NEW s \in Stream, StreamInv(s), Described(s),
           Peer(s) \/ Serve(s) \/ ReaderStops(s)
    PROVE  Described(s)'
<1>0. socket[s] \in Seq(Frame) /\ Len(socket[s]) \in Nat /\ Phases(s) /\ LastFrame(s)
  BY TypesAt DEF StreamInv
<1>1. ASSUME NEW r \in Request, Connect(s, r) PROVE Described(s)'
  <2>1. client[s] = "gone" /\ server[s] = "none"
    BY <1>1 DEF Connect, Gone
  <2>2. server'[s] = "accepted" /\ socket'[s] = <<>> /\ held'[s] = Nothing
    BY <1>0, <1>1, <2>1, PeerFacts DEF Phases, Fresh
  <2>3. Len(socket'[s]) = 0 /\ held'[s].kind # "chunk" /\ server'[s] # "waiting"
    BY <2>2, FrameFacts
  <2> QED BY <2>3 DEF Described
<1>2. CASE Ask(s)
  <2>1. server[s] = "accepted" /\ client[s] = "silent"
    BY <1>2 DEF Ask
  <2>2. Len(socket'[s]) = 0 /\ held'[s] = Nothing /\ server'[s] = "asked"
    BY <1>0, <1>2, <2>1, PeerFacts DEF Phases, Fresh
  <2> QED BY <2>2, FrameFacts DEF Described
<1>3. CASE Read(s)
  <2>1. client[s] # "gone" /\ socket[s] # <<>>
    BY <1>3 DEF Read
  <2>2. /\ Len(Tail(socket[s])) = Len(socket[s]) - 1
        /\ \A k \in 1 .. Len(socket[s]) - 1 : Tail(socket[s])[k] = socket[s][k + 1]
        /\ Len(socket[s]) >= 1
    BY <1>0, <2>1
  <2>3. CASE Head(socket[s]).kind = "chunk"
    <3>1. /\ request'[s] = request[s] /\ told'[s] = told[s] \cup Head(socket[s]).identities
          /\ server'[s] = server[s] /\ sent'[s] = sent[s] /\ held'[s] = held[s]
          /\ socket'[s] = Tail(socket[s])
      BY <1>3, <2>3, PeerFacts
    <3>2. \A k \in 1 .. Len(socket[s]) :
             Before(told'[s], socket'[s], k) = Before(told[s], socket[s], k + 1)
      <4>1. \A k \in 1 .. Len(socket[s]) :
               Before(told[s] \cup Head(socket[s]).identities, Tail(socket[s]), k)
                 = Before(told[s], socket[s], k + 1)
        <5>1. socket[s] \in Seq(Frame) /\ socket[s] # <<>>
          BY <1>0, <2>1
        <5> DEFINE q == socket[s]
                   T == told[s]
        <5>2. q \in Seq(Frame) /\ q # <<>>
          BY <5>1
        <5> HIDE DEF q, T
        <5>3. \A k \in 1 .. Len(q) :
                 Before(T \cup Head(q).identities, Tail(q), k) = Before(T, q, k + 1)
          BY <5>2, BeforeFacts
        <5> QED BY <5>3 DEF q, T
      <4> QED BY <3>1, <4>1, Zenon
    <3>3. Before(told'[s], socket'[s], Len(socket'[s]) + 1)
            = Before(told[s], socket[s], Len(socket[s]) + 1)
      <4>1. Len(socket'[s]) + 1 = Len(socket[s]) /\ Len(socket[s]) \in 1 .. Len(socket[s])
        BY <1>0, <2>2, <3>1
      <4> QED BY <3>2, <4>1
    <3>4. ASSUME NEW k \in 1 .. Len(socket'[s]), socket'[s][k].kind = "chunk"
          PROVE  socket'[s][k].identities =
                    Used(request'[s], socket'[s][k]) \ Before(told'[s], socket'[s], k)
      <4>1. /\ k \in 1 .. Len(socket[s]) /\ k + 1 \in 1 .. Len(socket[s])
            /\ socket'[s][k] = socket[s][k + 1]
        BY <1>0, <2>2, <3>1
      <4>2. socket[s][k + 1].identities =
              Used(request[s], socket[s][k + 1]) \ Before(told[s], socket[s], k + 1)
        BY <2>1, <3>4, <4>1 DEF Described
      <4> QED BY <3>1, <3>2, <4>1, <4>2
    <3>5. server[s] = "waiting" => sent[s] = Before(told[s], socket[s], Len(socket[s]) + 1)
      BY <2>1 DEF Described
    <3>6. held[s].kind = "chunk" =>
            /\ held[s].identities = Used(request[s], held[s])
                                      \ Before(told[s], socket[s], Len(socket[s]) + 1)
            /\ sent[s] = Before(told[s], socket[s], Len(socket[s]) + 1) \cup held[s].identities
      BY <2>1 DEF Described
    <3> QED BY <3>1, <3>3, <3>4, <3>5, <3>6, Zenon DEF Described
  <2>4. CASE Head(socket[s]).kind # "chunk"
    <3>1. client'[s] = "gone"
      BY <1>3, <2>4, PeerFacts
    <3> QED BY <3>1 DEF Described
  <2> QED BY <2>3, <2>4
<1>4. CASE Cancel(s)
  <2>1. client[s] = "open" /\ client'[s] = "cancelled"
    BY <1>4, PeerFacts DEF Cancel
  <2>2. /\ request'[s] = request[s] /\ told'[s] = told[s] /\ server'[s] = server[s]
        /\ sent'[s] = sent[s] /\ held'[s] = held[s] /\ socket'[s] = socket[s]
    BY <1>4, PeerFacts
  <2>3. client[s] # "gone"
    BY <2>1
  <2> QED BY <2>2, <2>3, Zenon DEF Described
<1>5. CASE HangUp(s)
  <2>1. client'[s] = "gone"
    BY <1>5, PeerFacts
  <2> QED BY <2>1 DEF Described
<1>6. CASE Serve(s) \/ ReaderStops(s)
  <2>0. request'[s] = request[s] /\ client'[s] = client[s] /\ told'[s] = told[s]
    BY <1>6, ServeFacts
  (* A stream that is not in the loop over events after the step. *)
  <2>1. ASSUME server'[s] # "waiting", held'[s].kind # "chunk", socket'[s] = socket[s]
        PROVE  Described(s)'
    <3>1. ASSUME client[s] # "gone", NEW k \in 1 .. Len(socket[s]), socket[s][k].kind = "chunk"
          PROVE  socket[s][k].identities =
                    Used(request[s], socket[s][k]) \ Before(told[s], socket[s], k)
      BY <3>1 DEF Described
    <3> QED BY <2>0, <2>1, <3>1, Zenon DEF Described
  <2>2. CASE Handle(s)
    <3>1. server[s] = "asked"
      BY <2>2 DEF Handle
    <3>2. /\ sent[s] = {} /\ held[s] = Nothing
          /\ client[s] # "gone" => socket[s] = <<>> /\ told[s] = {}
      BY <1>0, <3>1 DEF Phases, Fresh
    <3>3. CASE Granted(s)
      <4>1. /\ server'[s] = "waiting" /\ held'[s] = Nothing /\ sent'[s] = {}
            /\ client[s] # "gone" => socket'[s] = <<>> /\ told'[s] = {}
        BY <1>6, <2>0, <2>2, <3>2, <3>3, ServeFacts
      <4>2. Before({}, <<>>, Len(<<>>) + 1) = {} /\ Len(<<>>) = 0
        BY DEF Before
      <4>3. client[s] # "gone" => sent'[s] = Before(told'[s], socket'[s], Len(socket'[s]) + 1)
                                  /\ Len(socket'[s]) = 0
        BY <4>1, <4>2, Zenon
      <4> QED BY <2>0, <4>1, <4>3, FrameFacts DEF Described
    <3>4. CASE ~Granted(s)
      BY <1>6, <2>1, <2>2, <3>4, ServeFacts, FrameFacts
    <3> QED BY <3>3, <3>4
  <2>3. CASE NoRequest(s) \/ HandleFails(s) \/ Finish(s)
    <3>1. server[s] \in {"accepted", "asked", "leaving"}
      BY <2>3 DEF NoRequest, HandleFails, Finish
    <3>2. held[s] = Nothing
      BY <1>0, <3>1 DEF Phases, Fresh
    <3> QED BY <1>6, <2>1, <2>3, <3>2, ServeFacts, FrameFacts
  <2>4. CASE ReceiveTick(s)
    BY <2>4, ReceiveDescribes
  <2>5. CASE LookupFails(s) \/ ReceiveStop(s)
    BY <1>6, <2>1, <2>5, ServeFacts, FrameFacts
  <2>6. CASE Write(s)
    <3>1. server[s] = "writing" /\ client[s] # "gone" /\ held[s] \in Frame
      BY <1>0, <2>6 DEF Write, Phases
    <3>2. /\ held'[s] = Nothing /\ socket'[s] = Append(socket[s], held[s])
          /\ IF held[s].kind = "chunk" THEN server'[s] = "waiting" /\ sent'[s] = sent[s]
                                       ELSE server'[s] = "leaving"
      BY <1>6, <2>6, ServeFacts DEF Left
    <3>3. /\ \A k \in 1 .. Len(socket[s]) + 1 :
                Before(told'[s], socket'[s], k) = Before(told[s], socket[s], k)
          /\ Before(told'[s], socket'[s], Len(socket[s]) + 2)
               = Before(told[s], socket[s], Len(socket[s]) + 1) \cup held[s].identities
      <4>1. socket'[s] = Append(socket[s], held[s])
        BY <3>2
      <4>2. /\ \A k \in 1 .. Len(socket[s]) + 1 :
                  Before(told[s], Append(socket[s], held[s]), k) = Before(told[s], socket[s], k)
            /\ Before(told[s], Append(socket[s], held[s]), Len(socket[s]) + 2)
                 = Before(told[s], socket[s], Len(socket[s]) + 1) \cup held[s].identities
        <5> DEFINE q == socket[s]
                   T == told[s]
                   e == held[s]
        <5>1. q \in Seq(Frame) /\ e \in Frame
          BY <1>0, <3>1
        <5> HIDE DEF q, T, e
        <5>2. /\ \A k \in 1 .. Len(q) + 1 : Before(T, Append(q, e), k) = Before(T, q, k)
              /\ Before(T, Append(q, e), Len(q) + 2) = Before(T, q, Len(q) + 1) \cup e.identities
          BY <5>1, BeforeFacts
        <5> QED BY <5>2 DEF q, T, e
      <4> QED BY <2>0, <4>1, <4>2, Zenon
    <3>4. /\ Len(socket'[s]) = Len(socket[s]) + 1 /\ socket'[s][Len(socket[s]) + 1] = held[s]
          /\ \A k \in 1 .. Len(socket[s]) : socket'[s][k] = socket[s][k]
      BY <1>0, <3>1, <3>2
    <3>5. ASSUME NEW k \in 1 .. Len(socket'[s]), socket'[s][k].kind = "chunk"
          PROVE  socket'[s][k].identities =
                    Used(request'[s], socket'[s][k]) \ Before(told'[s], socket'[s], k)
      <4>0. k \in 1 .. Len(socket[s]) + 1
        BY <3>4
      <4>1. CASE k = Len(socket[s]) + 1
        <5>1. socket'[s][k] = held[s]
          BY <3>4, <4>1
        <5>2. held[s].identities = Used(request[s], held[s])
                                     \ Before(told[s], socket[s], Len(socket[s]) + 1)
          BY <3>1, <3>5, <5>1 DEF Described
        <5>3. Before(told'[s], socket'[s], k) = Before(told[s], socket[s], Len(socket[s]) + 1)
          BY <3>3, <4>0, <4>1
        <5> QED BY <2>0, <5>1, <5>2, <5>3
      <4>2. CASE k # Len(socket[s]) + 1
        <5>1. k \in 1 .. Len(socket[s]) /\ socket'[s][k] = socket[s][k]
          BY <1>0, <3>4, <4>0, <4>2
        <5>2. socket[s][k].identities =
                Used(request[s], socket[s][k]) \ Before(told[s], socket[s], k)
          BY <3>1, <3>5, <5>1 DEF Described
        <5> QED BY <2>0, <3>3, <4>0, <5>1, <5>2
      <4> QED BY <4>1, <4>2
    <3>6. server'[s] = "waiting" =>
             sent'[s] = Before(told'[s], socket'[s], Len(socket'[s]) + 1)
      <4>1. ASSUME held[s].kind = "chunk"
            PROVE  sent[s] = Before(told[s], socket[s], Len(socket[s]) + 1) \cup held[s].identities
        BY <3>1, <4>1 DEF Described
      <4>2. Len(socket'[s]) + 1 = Len(socket[s]) + 2
        BY <1>0, <3>4
      <4> QED BY <3>2, <3>3, <4>1, <4>2
    <3>7. held'[s].kind # "chunk"
      BY <3>2, FrameFacts
    <3> QED BY <3>5, <3>6, <3>7, Zenon DEF Described
  <2>7. CASE WriteFails(s)
    BY <1>6, <2>1, <2>7, ServeFacts, FrameFacts DEF Left
  <2>8. CASE ReaderStops(s)
    <3>1. /\ server'[s] = server[s] /\ held'[s] = held[s]
          /\ sent'[s] = sent[s] /\ socket'[s] = socket[s]
      BY <1>6, <2>8, ServeFacts
    <3> QED BY <2>0, <3>1, DescribedStays
  <2> QED BY <1>6, <2>2, <2>3, <2>4, <2>5, <2>6, <2>7, <2>8 DEF Serve
<1> QED BY <1>1, <1>2, <1>3, <1>4, <1>5, <1>6 DEF Peer

LEMMA DescribedStep ==
    TypeOK /\ LoopInv /\ (\A s \in Stream : Described(s)) /\ [Next]_vars
      => (\A s \in Stream : Described(s))'
<1> SUFFICES ASSUME TypeOK, LoopInv, \A s \in Stream : Described(s), [Next]_vars,
                    NEW t \in Stream
             PROVE  Described(t)'
  OBVIOUS
<1>1. ASSUME NEW d \in Delta, Poll(d) PROVE Described(t)'
  BY <1>1, DescribedStays DEF Poll, threads, view, wire, peer
<1>2. CASE Publish
  BY <1>2, DescribedStays, PublishFacts
<1>3. ASSUME NEW s \in Stream, Peer(s) \/ Serve(s) \/ ReaderStops(s) PROVE Described(t)'
  <2>1. CASE t = s
    BY <1>3, <2>1, DescribedKeeps DEF LoopInv
  <2>2. CASE t # s
    <3>1. Others(s)
      BY <1>3, Elsewhere
    <3> QED BY <2>2, <3>1, DescribedStays DEF Others
  <2> QED BY <2>1, <2>2
<1>4. CASE UNCHANGED vars
  BY <1>4, DescribedStays DEF vars, threads, view, wire, peer
<1> QED BY <1>1, <1>2, <1>3, <1>4 DEF Next, Collect

LEMMA StreamInvariant == Spec => [](TypeOK /\ LoopInv /\ \A s \in Stream : Described(s))
<1>1. Init => \A s \in Stream : Described(s)
  BY DEF Init, Described
<1> QED BY <1>1, DescribedStep, LoopInvariant, PTL DEF Spec

(* What a sequence begins with is found by any count that leads it. *)
LEMMA LeadingIs ==
    ASSUME NEW kind, NEW q, Len(q) \in Nat, NEW n, Leads(kind, q, n)
    PROVE  Leading(kind, q) = SubSeq(q, 1, n)
<1> DEFINE P(m) == /\ \A k \in 1 .. m : q[k].kind = kind
                   /\ m < Len(q) => q[m + 1].kind # kind
<1>1. n \in 0 .. Len(q) /\ P(n)
  BY DEF Leads
<1>2. ASSUME NEW m \in 0 .. Len(q), P(m) PROVE m = n
  <2>1. ~(m < n)
    <3>1. SUFFICES ASSUME m < n PROVE FALSE
      OBVIOUS
    <3>2. m + 1 \in 1 .. n /\ m < Len(q)
      BY <1>1, <3>1
    <3> QED BY <1>1, <1>2, <3>2
  <2>2. ~(n < m)
    <3>1. SUFFICES ASSUME n < m PROVE FALSE
      OBVIOUS
    <3>2. n + 1 \in 1 .. m /\ n < Len(q)
      BY <1>1, <3>1
    <3> QED BY <1>1, <1>2, <3>2
  <2> QED BY <1>1, <2>1, <2>2
<1>3. (CHOOSE m \in 0 .. Len(q) : P(m)) = n
  <2> HIDE DEF P
  <2> QED BY <1>1, <1>2
<1> QED BY <1>3 DEF Leading

(* How many chunks are on their way. *)
Pending(s) ==
    IF held[s].kind = "chunk" THEN Len(socket[s]) + 1
    ELSE IF socket[s] # <<>> /\ socket[s][Len(socket[s])].kind # "chunk" THEN Len(socket[s]) - 1
    ELSE Len(socket[s])

LEMMA WayFacts ==
    ASSUME TypeOK, NEW s \in Stream, StreamInv(s)
    PROVE  /\ Pending(s) \in Nat /\ Pending(s) <= Len(socket[s]) + 1
           /\ Leads("chunk", Append(socket[s], held[s]), Pending(s))
           /\ OnTheWay(s) = SubSeq(Append(socket[s], held[s]), 1, Pending(s))
           /\ OnTheWay(s) \in Seq(Frame) /\ Len(OnTheWay(s)) = Pending(s)
           /\ \A k \in 1 .. Pending(s) :
                 /\ OnTheWay(s)[k] = IF k = Len(socket[s]) + 1 THEN held[s] ELSE socket[s][k]
                 /\ OnTheWay(s)[k] \in Frame /\ OnTheWay(s)[k].kind = "chunk"
<1> DEFINE q == socket[s]
           frames == Append(q, held[s])
           n == Pending(s)
<1>1. q \in Seq(Frame) /\ Len(q) \in Nat /\ held[s] \in Frame \cup {Nothing}
      /\ Phases(s) /\ LastFrame(s)
  BY TypesAt DEF StreamInv
<1>2. /\ Len(frames) = Len(q) + 1 /\ frames[Len(q) + 1] = held[s]
      /\ \A k \in 1 .. Len(q) : frames[k] = q[k]
      /\ frames \in Seq(Frame \cup {Nothing})
  BY <1>1
<1>3. q # <<>> => Len(q) >= 1
  BY <1>1
<1>4. n \in 0 .. Len(q) + 1
  BY <1>1, <1>3 DEF Pending
<1>5. held[s].kind = "chunk" => server[s] = "writing" /\ held[s] \in Frame
  BY <1>1, TypesAt, FrameFacts DEF Phases, Fresh
<1>6. ASSUME NEW k \in 1 .. Len(q), q[k].kind # "chunk"
      PROVE  k = Len(q) /\ held[s].kind # "chunk"
  BY <1>1, <1>5, <1>6 DEF LastFrame
<1>7. \A k \in 1 .. n : frames[k].kind = "chunk"
  <2>1. SUFFICES ASSUME NEW k \in 1 .. n PROVE frames[k].kind = "chunk"
    OBVIOUS
  <2>2. CASE held[s].kind = "chunk"
    BY <1>1, <1>2, <1>4, <1>6, <2>2 DEF Pending
  <2>3. CASE held[s].kind # "chunk"
    <3>1. k \in 1 .. Len(q) /\ q # <<>>
      BY <1>1, <1>4, <2>3 DEF Pending
    <3>2. q[k].kind = "chunk"
      BY <1>1, <1>3, <1>6, <2>3, <3>1 DEF Pending
    <3> QED BY <1>2, <3>1, <3>2
  <2> QED BY <2>2, <2>3
<1>8. Leads("chunk", frames, n)
  <2>1. n < Len(frames) => frames[n + 1].kind # "chunk"
    BY <1>1, <1>2, <1>3 DEF Pending
  <2> QED BY <1>2, <1>4, <1>7, <2>1 DEF Leads
<1>9. OnTheWay(s) = SubSeq(frames, 1, n)
  <2>1. Len(frames) \in Nat /\ OnTheWay(s) = Leading("chunk", frames)
    BY <1>1, <1>2 DEF OnTheWay
  <2> HIDE DEF frames, n
  <2> QED BY <1>8, <2>1, LeadingIs
<1>10. /\ Len(OnTheWay(s)) = n
       /\ \A k \in 1 .. n : OnTheWay(s)[k] = frames[k]
  <2>1. \A k \in 1 .. n : frames[k] \in Frame \cup {Nothing}
    BY <1>1, <1>2, <1>4
  <2>2. n \in Int /\ 1 \in Int /\ n >= 0
    BY <1>1, <1>4
  <2> HIDE DEF frames, n
  <2>3. /\ Len(SubSeq(frames, 1, n)) = IF 1 <= n THEN n - 1 + 1 ELSE 0
        /\ \A k \in 1 .. n - 1 + 1 : SubSeq(frames, 1, n)[k] = frames[1 + k - 1]
    BY <2>1, <2>2, SubSeqProperties
  <2>4. n - 1 + 1 = n /\ \A k \in 1 .. n : 1 + k - 1 = k
    BY <2>2
  <2> QED BY <1>9, <2>2, <2>3, <2>4
<1>11. ASSUME NEW k \in 1 .. n
       PROVE  /\ OnTheWay(s)[k] = IF k = Len(q) + 1 THEN held[s] ELSE q[k]
              /\ OnTheWay(s)[k] \in Frame /\ OnTheWay(s)[k].kind = "chunk"
  <2>1. k = Len(q) + 1 \/ k \in 1 .. Len(q)
    BY <1>1, <1>4
  <2> QED BY <1>1, <1>2, <1>5, <1>7, <1>10, <2>1
<1>12. OnTheWay(s) \in Seq(Frame)
  <2>1. n \in Int /\ 1 \in Int /\ \A k \in 1 .. n : frames[k] \in Frame
    BY <1>1, <1>4, <1>10, <1>11
  <2> HIDE DEF frames, n
  <2> QED BY <1>9, <2>1, SubSeqProperties
<1> QED BY <1>4, <1>8, <1>9, <1>10, <1>11, <1>12
LEMMA DescribesOnce == TypeOK /\ LoopInv /\ (\A s \in Stream : Described(s)) => DescribedOnce
<1> SUFFICES ASSUME TypeOK, LoopInv, NEW s \in Stream, Described(s), client[s] # "gone",
                    NEW k \in DOMAIN OnTheWay(s)
             PROVE  OnTheWay(s)[k].identities =
                      Used(request[s], OnTheWay(s)[k]) \ Before(told[s], OnTheWay(s), k)
  BY Zenon DEF DescribedOnce, Used, Before
<1>1. socket[s] \in Seq(Frame) /\ Len(socket[s]) \in Nat
  BY TypesAt
<1>2. /\ Pending(s) \in Nat /\ Pending(s) <= Len(socket[s]) + 1
      /\ OnTheWay(s) \in Seq(Frame) /\ Len(OnTheWay(s)) = Pending(s)
      /\ \A j \in 1 .. Pending(s) :
            /\ OnTheWay(s)[j] = IF j = Len(socket[s]) + 1 THEN held[s] ELSE socket[s][j]
            /\ OnTheWay(s)[j].kind = "chunk"
  BY WayFacts DEF LoopInv
<1>3. k \in 1 .. Pending(s) /\ (k = Len(socket[s]) + 1 \/ k \in 1 .. Len(socket[s]))
  <2>1. DOMAIN OnTheWay(s) = 1 .. Len(OnTheWay(s))
    BY <1>2, LenProperties
  <2> QED BY <1>1, <1>2, <2>1
<1>4. Before(told[s], OnTheWay(s), k) = Before(told[s], socket[s], k)
  <2>1. \A j \in 1 .. k - 1 : OnTheWay(s)[j] = socket[s][j]
    BY <1>1, <1>2, <1>3
  <2> QED BY <2>1 DEF Before
<1>5. CASE k = Len(socket[s]) + 1
  <2>1. OnTheWay(s)[k] = held[s] /\ held[s].kind = "chunk"
    BY <1>2, <1>3, <1>5
  <2>2. held[s].identities =
          Used(request[s], held[s]) \ Before(told[s], socket[s], Len(socket[s]) + 1)
    BY <2>1 DEF Described
  <2> QED BY <1>4, <1>5, <2>1, <2>2, Zenon
<1>6. CASE k \in 1 .. Len(socket[s])
  <2>1. OnTheWay(s)[k] = socket[s][k] /\ socket[s][k].kind = "chunk"
    BY <1>1, <1>2, <1>3, <1>6
  <2>2. socket[s][k].identities =
          Used(request[s], socket[s][k]) \ Before(told[s], socket[s], k)
    BY <1>6, <2>1 DEF Described
  <2> QED BY <1>4, <2>1, <2>2, Zenon
<1> QED BY <1>3, <1>5, <1>6

(* "Identities described once" (server.rs:180): however long a stream runs *)
(* and whatever its limit cuts off, the chunks on their way describe each  *)
(* identity with its first row and never again (server.rs WatchView).      *)
THEOREM ChunksDescribeOnce == Spec => []DescribedOnce
BY StreamInvariant, DescribesOnce, PTL

-----------------------------------------------------------------------------
(* The pipe of a stream: the deltas of the chunks on their way, and what   *)
(* the ticks before a Stop will show.                                      *)

Line(r, frames, q, final) ==
    LET chunks == Leading("chunk", frames)
        ticks == IF final THEN <<>> ELSE Leading("tick", q)
    IN  [k \in 1 .. Len(chunks) |-> UNION chunks[k].rows]
          \o [k \in 1 .. Len(ticks) |-> For(r, ticks[k].deltas)]

Frames(s) == Append(socket[s], held[s])

(* How many of its elements are chunks, and how many are ticks. *)
Chunks(frames, c) == Leads("chunk", frames, c)
Ticks(q, final, n) == IF final THEN n = 0 ELSE Leads("tick", q, n)

(* The beginning of a sequence, element by element. *)
LEMMA LeadingFacts ==
    ASSUME NEW kind, NEW q, q \in Seq(Event) \/ q \in Seq(Frame \cup {Nothing}),
           NEW n, Leads(kind, q, n)
    PROVE  /\ Leading(kind, q) = SubSeq(q, 1, n) /\ n \in Nat /\ n <= Len(q)
           /\ Len(SubSeq(q, 1, n)) = n
           /\ \A k \in 1 .. n : SubSeq(q, 1, n)[k] = q[k] /\ q[k].kind = kind
<1>1. n \in Nat /\ n <= Len(q) /\ Len(q) \in Nat
  BY DEF Leads
<1>2. \A k \in 1 .. n : q[k].kind = kind
  BY <1>1 DEF Leads
<1>3. /\ Len(SubSeq(q, 1, n)) = n
      /\ \A k \in 1 .. n : SubSeq(q, 1, n)[k] = q[k]
  BY <1>1
<1> QED BY <1>1, <1>2, <1>3, LeadingIs

(* A line of c chunks and n ticks. *)
Shaped(f, q, final, c, n) ==
    /\ f \in Seq(Frame \cup {Nothing}) /\ q \in Seq(Event)
    /\ Chunks(f, c) /\ Ticks(q, final, n)
LineFacts(line, r, f, q, c, n) ==
    /\ line \in Seq(SUBSET Delta) /\ Len(line) = c + n /\ c \in Nat /\ n \in Nat
    /\ \A k \in 1 .. c : line[k] = UNION f[k].rows
    /\ \A k \in 1 .. n : line[c + k] = For(r, q[k].deltas)

LEMMA LineIs ==
    \A r, frames, q, final, c, n :
        Shaped(frames, q, final, c, n) =>
            LineFacts(Line(r, frames, q, final), r, frames, q, c, n)
<1> SUFFICES ASSUME NEW r, NEW frames, NEW q, NEW final, NEW c, NEW n,
                    Shaped(frames, q, final, c, n)
             PROVE  LineFacts(Line(r, frames, q, final), r, frames, q, c, n)
  OBVIOUS
<1>0. /\ frames \in Seq(Frame \cup {Nothing}) /\ q \in Seq(Event)
      /\ Chunks(frames, c) /\ Ticks(q, final, n)
  BY DEF Shaped
<1> DEFINE chunks == SubSeq(frames, 1, c)
           ticks == IF final THEN <<>> ELSE SubSeq(q, 1, n)
           a == [k \in 1 .. c |-> UNION frames[k].rows]
           b == [k \in 1 .. n |-> For(r, q[k].deltas)]
<1>1. /\ Leading("chunk", frames) = chunks /\ c \in Nat /\ Len(chunks) = c
      /\ \A k \in 1 .. c : /\ chunks[k] = frames[k] /\ frames[k] \in Frame \cup {Nothing}
                           /\ frames[k].kind = "chunk"
  <2>1. Leads("chunk", frames, c)
    BY <1>0 DEF Chunks
  <2>2. /\ Leading("chunk", frames) = chunks /\ c \in Nat /\ c <= Len(frames)
        /\ Len(chunks) = c /\ \A k \in 1 .. c : chunks[k] = frames[k] /\ frames[k].kind = "chunk"
    <3> HIDE DEF chunks
    <3> QED BY <1>0, <2>1, LeadingFacts DEF chunks
  <2> QED BY <1>0, <2>2, ElementOfSeq
<1>2. /\ (IF final THEN <<>> ELSE Leading("tick", q)) = ticks /\ n \in Nat /\ Len(ticks) = n
      /\ \A k \in 1 .. n : ticks[k] = q[k] /\ q[k] \in Event /\ q[k].kind = "tick"
  <2>1. CASE final
    <3>1. n = 0 /\ ticks = <<>>
      BY <1>0, <2>1 DEF Ticks
    <3> QED BY <2>1, <3>1
  <2>2. CASE ~final
    BY <1>0, <2>2, LeadingFacts DEF Ticks
  <2> QED BY <2>1, <2>2
<1>3. a \in Seq(SUBSET Delta) /\ Len(a) = c
  <2>1. \A k \in 1 .. c : UNION frames[k].rows \in SUBSET Delta
    BY <1>1, FrameFacts DEF Frame
  <2> QED BY <1>1, <2>1
<1>4. b \in Seq(SUBSET Delta) /\ Len(b) = n
  <2>1. \A k \in 1 .. n : For(r, q[k].deltas) \in SUBSET Delta
    BY <1>2, EventFacts DEF For
  <2>2. n \in Nat
    BY <1>2
  <2> QED BY <2>1, <2>2
<1>5. Line(r, frames, q, final) = a \o b
  <2>1. [k \in 1 .. Len(chunks) |-> UNION chunks[k].rows] = a
    BY <1>1
  <2>2. [k \in 1 .. Len(ticks) |-> For(r, ticks[k].deltas)] = b
    BY <1>2
  <2> HIDE DEF chunks, ticks, a, b
  <2> QED BY <1>1, <1>2, <2>1, <2>2, Zenon DEF Line
<1>6. /\ a \o b \in Seq(SUBSET Delta) /\ Len(a \o b) = c + n
      /\ \A k \in 1 .. c + n : (a \o b)[k] = IF k <= c THEN a[k] ELSE b[k - c]
  <2> HIDE DEF a, b
  <2> QED BY <1>3, <1>4, ConcatProperties
<1>7. \A k \in 1 .. c : (a \o b)[k] = UNION frames[k].rows
  <2>1. ASSUME NEW k \in 1 .. c PROVE k \in 1 .. c + n /\ k <= c /\ a[k] = UNION frames[k].rows
    BY <1>1, <1>2
  <2> HIDE DEF a, b
  <2> QED BY <1>6, <2>1
<1>8. \A k \in 1 .. n : (a \o b)[c + k] = For(r, q[k].deltas)
  <2>1. ASSUME NEW k \in 1 .. n PROVE (a \o b)[c + k] = For(r, q[k].deltas)
    <3> DEFINE i == c + k
    <3>1. i \in 1 .. c + n /\ ~(i <= c) /\ i - c = k
      BY <1>1, <1>2
    <3>2. b[k] = For(r, q[k].deltas)
      OBVIOUS
    <3> HIDE DEF a, b, i
    <3>3. (a \o b)[i] = b[i - c]
      BY <1>6, <3>1
    <3> QED BY <3>1, <3>2, <3>3 DEF i
  <2> QED BY <2>1
<1> HIDE DEF a, b
<1> QED BY <1>1, <1>2, <1>5, <1>6, <1>7, <1>8 DEF LineFacts

(* How a line changes with its frames and its queue. *)
Alike(f, g, q, p, final, done, c, n) ==
    /\ Shaped(f, q, final, c, n) /\ Shaped(g, p, done, c, n)
    /\ \A k \in 1 .. c : g[k] = f[k]
    /\ \A k \in 1 .. n : p[k] = q[k]

LEMMA LineSame ==
    \A r, f, g, q, p, final, done, c, n :
        Alike(f, g, q, p, final, done, c, n) => Line(r, g, p, done) = Line(r, f, q, final)
<1> SUFFICES ASSUME NEW r, NEW f, NEW g, NEW q, NEW p, NEW final, NEW done, NEW c, NEW n,
                    Alike(f, g, q, p, final, done, c, n)
             PROVE  Line(r, g, p, done) = Line(r, f, q, final)
  OBVIOUS
<1>0. /\ Shaped(f, q, final, c, n) /\ Shaped(g, p, done, c, n)
      /\ \A k \in 1 .. c : g[k] = f[k]
      /\ \A k \in 1 .. n : p[k] = q[k]
  BY DEF Alike
<1> DEFINE x == Line(r, f, q, final)
           y == Line(r, g, p, done)
<1>1. LineFacts(x, r, f, q, c, n) /\ LineFacts(y, r, g, p, c, n)
  BY <1>0, LineIs
<1> HIDE DEF x, y
<1>2. /\ x \in Seq(SUBSET Delta) /\ Len(x) = c + n /\ c \in Nat /\ n \in Nat
      /\ \A k \in 1 .. c : x[k] = UNION f[k].rows
      /\ \A k \in 1 .. n : x[c + k] = For(r, q[k].deltas)
  BY <1>0, <1>1 DEF LineFacts
<1>3. /\ y \in Seq(SUBSET Delta) /\ Len(y) = c + n
      /\ \A k \in 1 .. c : y[k] = UNION f[k].rows
      /\ \A k \in 1 .. n : y[c + k] = For(r, q[k].deltas)
  BY <1>0, <1>1 DEF LineFacts
<1>4. ASSUME NEW k \in 1 .. c + n PROVE y[k] = x[k]
  <2>1. CASE k <= c
    <3>1. k \in 1 .. c
      BY <1>2, <2>1
    <3> QED BY <1>2, <1>3, <3>1, Zenon
  <2>2. CASE ~(k <= c)
    <3> DEFINE j == k - c
    <3>1. j \in 1 .. n /\ c + j = k
      BY <1>2, <2>2
    <3> HIDE DEF j
    <3>2. x[c + j] = For(r, q[j].deltas) /\ y[c + j] = For(r, q[j].deltas)
      BY <1>2, <1>3, <3>1
    <3> QED BY <3>1, <3>2
  <2> QED BY <2>1, <2>2
<1>5. y = x
  BY <1>2, <1>3, <1>4, SeqEqual
<1> QED BY <1>5 DEF x, y

(* The chunks are still there, or a beginning of them, and no tick is. *)
Shorter(f, g, q, p, final, done, c, n, m) ==
    /\ Shaped(f, q, final, c, n) /\ Shaped(g, p, done, m, 0)
    /\ m <= c /\ \A k \in 1 .. m : g[k] = f[k]

IsBeginning(y, x) == \E m \in 0 .. Len(x) : y = SubSeq(x, 1, m)

LEMMA LineCut ==
    \A r, f, g, q, p, final, done, c, n, m :
        Shorter(f, g, q, p, final, done, c, n, m) =>
            IsBeginning(Line(r, g, p, done), Line(r, f, q, final))
<1> SUFFICES ASSUME NEW r, NEW f, NEW g, NEW q, NEW p, NEW final, NEW done,
                    NEW c, NEW n, NEW m, Shorter(f, g, q, p, final, done, c, n, m)
             PROVE  IsBeginning(Line(r, g, p, done), Line(r, f, q, final))
  OBVIOUS
<1>0. /\ Shaped(f, q, final, c, n) /\ Shaped(g, p, done, m, 0)
      /\ m <= c /\ \A k \in 1 .. m : g[k] = f[k]
  BY DEF Shorter
<1> DEFINE x == Line(r, f, q, final)
           y == Line(r, g, p, done)
<1>1. LineFacts(x, r, f, q, c, n) /\ LineFacts(y, r, g, p, m, 0)
  BY <1>0, LineIs
<1> HIDE DEF x, y
<1>2. /\ x \in Seq(SUBSET Delta) /\ Len(x) = c + n /\ c \in Nat /\ n \in Nat
      /\ \A k \in 1 .. c : x[k] = UNION f[k].rows
  BY <1>0, <1>1 DEF LineFacts
<1>3. /\ y \in Seq(SUBSET Delta) /\ Len(y) = m + 0 /\ m \in Nat
      /\ \A k \in 1 .. m : y[k] = UNION f[k].rows
  BY <1>0, <1>1 DEF LineFacts
<1>4. /\ SubSeq(x, 1, m) \in Seq(SUBSET Delta) /\ Len(SubSeq(x, 1, m)) = m
      /\ \A k \in 1 .. m : SubSeq(x, 1, m)[k] = x[k]
  BY <1>0, <1>2, <1>3
<1>5. Len(y) = m /\ \A k \in 1 .. m : y[k] = x[k]
  <2>1. ASSUME NEW k \in 1 .. m PROVE y[k] = x[k]
    <3>1. k \in 1 .. c
      BY <1>0, <1>2, <1>3
    <3> QED BY <1>2, <1>3, <3>1
  <2> QED BY <1>3, <2>1
<1>6. y = SubSeq(x, 1, m)
  <2> DEFINE z == SubSeq(x, 1, m)
  <2>1. /\ z \in Seq(SUBSET Delta) /\ Len(z) = m
        /\ \A k \in 1 .. m : z[k] = x[k]
    BY <1>4
  <2> HIDE DEF z
  <2>2. y = z
    BY <1>3, <1>5, <2>1, SeqEqual
  <2> QED BY <2>2 DEF z
<1>7. m \in 0 .. Len(x)
  BY <1>0, <1>2, <1>3
<1> QED BY <1>6, <1>7, Zenon DEF IsBeginning, x, y

LEMMA LineTail ==
    ASSUME NEW r, NEW f, NEW q, NEW final, NEW c, NEW n, c >= 1,
           Shaped(f, q, final, c, n), Shaped(Tail(f), q, final, c - 1, n)
    PROVE  /\ Line(r, f, q, final) # <<>>
           /\ Line(r, Tail(f), q, final) = Tail(Line(r, f, q, final))
<1> DEFINE g == Tail(f)
           x == Line(r, f, q, final)
           y == Line(r, g, q, final)
<1>0. c <= Len(f) /\ c \in Nat /\ Len(f) \in Nat /\ f \in Seq(Frame \cup {Nothing})
  BY DEF Shaped, Chunks, Leads
<1>1. \A k \in 1 .. Len(f) - 1 : g[k] = f[k + 1]
  BY <1>0
<1>2. LineFacts(x, r, f, q, c, n) /\ LineFacts(y, r, g, q, c - 1, n)
  BY LineIs
<1> HIDE DEF g, x, y
<1>3. /\ x \in Seq(SUBSET Delta) /\ Len(x) = c + n /\ n \in Nat
      /\ \A k \in 1 .. c : x[k] = UNION f[k].rows
      /\ \A k \in 1 .. n : x[c + k] = For(r, q[k].deltas)
  BY <1>2 DEF LineFacts
<1>4. /\ y \in Seq(SUBSET Delta) /\ Len(y) = (c - 1) + n
      /\ \A k \in 1 .. c - 1 : y[k] = UNION g[k].rows
      /\ \A k \in 1 .. n : y[(c - 1) + k] = For(r, q[k].deltas)
  BY <1>2 DEF LineFacts
<1>5. /\ x # <<>> /\ Tail(x) \in Seq(SUBSET Delta) /\ Len(Tail(x)) = (c - 1) + n
      /\ \A k \in 1 .. (c - 1) + n : Tail(x)[k] = x[k + 1]
  <2>1. x \in Seq(SUBSET Delta) /\ x # <<>>
    <3>1. c + n > 0
      BY <1>0, <1>3
    <3> QED BY <1>3, <3>1
  <2>2. /\ Tail(x) \in Seq(SUBSET Delta) /\ Len(Tail(x)) = Len(x) - 1
        /\ \A k \in 1 .. Len(Tail(x)) : Tail(x)[k] = x[k + 1]
    BY <2>1, HeadTailProperties
  <2>3. Len(x) - 1 = (c - 1) + n
    BY <1>0, <1>3
  <2> QED BY <2>1, <2>2, <2>3
<1>6. ASSUME NEW k \in 1 .. (c - 1) + n PROVE y[k] = Tail(x)[k]
  <2>1. CASE k <= c - 1
    <3>1. k \in 1 .. Len(f) - 1 /\ k + 1 \in 1 .. c /\ k \in 1 .. c - 1
      BY <1>0, <2>1
    <3> QED BY <1>1, <1>3, <1>4, <1>5, <3>1
  <2>2. CASE ~(k <= c - 1)
    <3> DEFINE j == k - (c - 1)
    <3>1. j \in 1 .. n /\ (c - 1) + j = k /\ c + j = k + 1
      BY <1>0, <1>3, <2>2
    <3> HIDE DEF j
    <3>2. x[c + j] = For(r, q[j].deltas) /\ y[(c - 1) + j] = For(r, q[j].deltas)
      BY <1>3, <1>4, <3>1
    <3> QED BY <1>5, <3>1, <3>2
  <2> QED BY <2>1, <2>2
<1>7. y = Tail(x)
  <2> DEFINE z == Tail(x)
  <2>1. z \in Seq(SUBSET Delta) /\ Len(z) = (c - 1) + n /\ \A k \in 1 .. (c - 1) + n : y[k] = z[k]
    BY <1>5, <1>6
  <2> HIDE DEF z
  <2>2. y = z
    BY <1>4, <2>1, SeqEqual
  <2> QED BY <2>2 DEF z
<1> QED BY <1>5, <1>7 DEF x, y, g

LEMMA LineGrows ==
    ASSUME NEW r, NEW f, NEW q, NEW final, NEW c, NEW D \in SUBSET Delta,
           Shaped(f, q, final, c, Len(q)), Shaped(f, Append(q, Tick(D)), final, c, Len(q) + 1)
    PROVE  Line(r, f, Append(q, Tick(D)), final) = Append(Line(r, f, q, final), For(r, D))
<1> DEFINE n == Len(q)
           p == Append(q, Tick(D))
           x == Line(r, f, q, final)
           y == Line(r, f, p, final)
           d == For(r, D)
<1>0. q \in Seq(Event) /\ Tick(D) \in Event /\ d \in SUBSET Delta
  BY EventFacts DEF Shaped, For
<1>1. n \in Nat /\ p[n + 1].deltas = D /\ \A k \in 1 .. n : p[k] = q[k]
  BY <1>0 DEF Tick
<1>2. LineFacts(x, r, f, q, c, n) /\ LineFacts(y, r, f, p, c, n + 1)
  BY LineIs
<1>3. d = For(r, D)
  OBVIOUS
<1> HIDE DEF n, p, x, y, d
<1>4. /\ x \in Seq(SUBSET Delta) /\ Len(x) = c + n /\ c \in Nat
      /\ \A k \in 1 .. c : x[k] = UNION f[k].rows
      /\ \A k \in 1 .. n : x[c + k] = For(r, q[k].deltas)
  BY <1>2 DEF LineFacts
<1>5. /\ y \in Seq(SUBSET Delta) /\ Len(y) = c + (n + 1)
      /\ \A k \in 1 .. c : y[k] = UNION f[k].rows
      /\ \A k \in 1 .. n + 1 : y[c + k] = For(r, p[k].deltas)
  BY <1>2 DEF LineFacts
<1> DEFINE z == Append(x, d)
<1>6. /\ z \in Seq(SUBSET Delta) /\ Len(z) = c + (n + 1) /\ z[c + (n + 1)] = d
      /\ \A k \in 1 .. c + n : z[k] = x[k]
  BY <1>0, <1>1, <1>4
<1> HIDE DEF z
<1>7. ASSUME NEW k \in 1 .. c + (n + 1) PROVE y[k] = z[k]
  <2>1. CASE k <= c
    <3>1. k \in 1 .. c /\ k \in 1 .. c + n
      BY <1>1, <1>4, <2>1
    <3>2. y[k] = x[k]
      BY <1>4, <1>5, <3>1, Zenon
    <3> QED BY <1>6, <3>1, <3>2, Zenon
  <2>2. CASE c < k /\ k <= c + n
    <3> DEFINE j == k - c
    <3>1. j \in 1 .. n /\ j \in 1 .. n + 1 /\ c + j = k /\ k \in 1 .. c + n
      BY <1>1, <1>4, <2>2
    <3> HIDE DEF j
    <3>2. y[c + j] = For(r, p[j].deltas) /\ x[c + j] = For(r, q[j].deltas) /\ p[j] = q[j]
      BY <1>1, <1>4, <1>5, <3>1
    <3> QED BY <1>6, <3>1, <3>2
  <2>3. CASE k = c + (n + 1)
    <3>1. n + 1 \in 1 .. n + 1
      BY <1>1
    <3>2. y[c + (n + 1)] = For(r, p[n + 1].deltas)
      BY <1>5, <3>1, Zenon
    <3> QED BY <1>1, <1>3, <1>6, <2>3, <3>2
  <2>4. k <= c \/ (c < k /\ k <= c + n) \/ k = c + (n + 1)
    <3>1. c \in Nat /\ n \in Nat /\ k \in 1 .. c + (n + 1)
      BY <1>1, <1>4, <1>7
    <3> QED BY <3>1
  <2> QED BY <2>1, <2>2, <2>3, <2>4, Zenon
<1>8. y = z
  BY <1>5, <1>6, <1>7, SeqEqual
<1> QED BY <1>8 DEF x, y, z, p, d

(* The first tick of a queue is made a chunk. *)
Turning(f, g, q, p, final, done, c, d, n, m) ==
    /\ Shaped(f, q, final, c, n) /\ Shaped(g, p, done, d, m)
    /\ n >= 1 /\ d = c + 1 /\ m = n - 1 /\ p = Tail(q)
    /\ \A k \in 1 .. c : g[k] = f[k]

LEMMA LineTurns ==
    \A r, f, g, q, p, final, done, c, d, n, m :
        Turning(f, g, q, p, final, done, c, d, n, m) =>
            /\ d \in DOMAIN Line(r, f, q, final)
            /\ Line(r, f, q, final)[d] = For(r, Head(q).deltas)
            /\ Line(r, g, p, done) = [Line(r, f, q, final) EXCEPT ![d] = UNION g[d].rows]
<1> SUFFICES ASSUME NEW r, NEW f, NEW g, NEW q, NEW p, NEW final, NEW done,
                    NEW c, NEW d, NEW n, NEW m, Turning(f, g, q, p, final, done, c, d, n, m)
             PROVE  /\ d \in DOMAIN Line(r, f, q, final)
                    /\ Line(r, f, q, final)[d] = For(r, Head(q).deltas)
                    /\ Line(r, g, p, done)
                         = [Line(r, f, q, final) EXCEPT ![d] = UNION g[d].rows]
  OBVIOUS
<1>0. /\ Shaped(f, q, final, c, n) /\ Shaped(g, p, done, d, m)
      /\ n >= 1 /\ d = c + 1 /\ m = n - 1 /\ p = Tail(q)
      /\ \A k \in 1 .. c : g[k] = f[k]
  BY DEF Turning
<1> DEFINE e == Head(q)
           x == Line(r, f, q, final)
           y == Line(r, g, p, done)
           u == UNION g[d].rows
<1>1. LineFacts(x, r, f, q, c, n) /\ LineFacts(y, r, g, p, c + 1, n - 1)
  BY <1>0, LineIs
<1>2. q \in Seq(Event) /\ n \in Nat /\ c \in Nat
  BY <1>0, <1>1 DEF Shaped, LineFacts
<1>3. /\ e = q[1] /\ \A k \in 1 .. n - 1 : p[k] = q[k + 1]
  <2>1. ~final /\ Leads("tick", q, n)
    BY <1>0 DEF Shaped, Ticks
  <2>2. q # <<>> /\ n <= Len(q) /\ Len(q) \in Nat
    BY <1>0, <1>2, <2>1 DEF Leads
  <2> QED BY <1>0, <1>2, <2>2
<1> HIDE DEF e, x, y, u
<1>4. /\ x \in Seq(SUBSET Delta) /\ Len(x) = c + n
      /\ \A k \in 1 .. c : x[k] = UNION f[k].rows
      /\ \A k \in 1 .. n : x[c + k] = For(r, q[k].deltas)
  BY <1>1 DEF LineFacts
<1>5. /\ y \in Seq(SUBSET Delta) /\ Len(y) = c + 1 + (n - 1)
      /\ \A k \in 1 .. c + 1 : y[k] = UNION g[k].rows
      /\ \A k \in 1 .. n - 1 : y[c + 1 + k] = For(r, p[k].deltas)
  BY <1>1 DEF LineFacts
<1>6. c + 1 \in 1 .. Len(x) /\ DOMAIN x = 1 .. Len(x) /\ x[c + 1] = For(r, e.deltas)
  BY <1>0, <1>2, <1>3, <1>4
<1>7. y[c + 1] = u
  <2>1. c + 1 \in 1 .. c + 1
    BY <1>2
  <2> QED BY <1>0, <1>5, <2>1 DEF u
<1> DEFINE z == [x EXCEPT ![c + 1] = u]
<1>8. u \in SUBSET Delta
  <2>1. c + 1 \in 1 .. Len(y)
    BY <1>0, <1>2, <1>5
  <2>2. y[c + 1] \in SUBSET Delta
    BY <1>5, <2>1, ElementOfSeq
  <2> QED BY <1>7, <2>2
<1>9. /\ z \in Seq(SUBSET Delta) /\ Len(z) = c + n /\ z[c + 1] = u
      /\ \A k \in 1 .. c + n : k # c + 1 => z[k] = x[k]
  BY <1>2, <1>4, <1>6, <1>8, ExceptSeq
<1> HIDE DEF z
<1>10. ASSUME NEW k \in 1 .. c + n PROVE y[k] = z[k]
  <2>1. CASE k <= c
    <3>1. k \in 1 .. c /\ k \in 1 .. c + 1 /\ k # c + 1
      BY <1>2, <2>1
    <3>2. y[k] = UNION g[k].rows /\ x[k] = UNION f[k].rows /\ g[k] = f[k]
      BY <1>0, <1>4, <1>5, <3>1, Zenon
    <3> QED BY <1>9, <3>1, <3>2
  <2>2. CASE k = c + 1
    BY <1>7, <1>9, <2>2
  <2>3. CASE c + 1 < k
    <3> DEFINE j == k - (c + 1)
    <3>1. /\ j \in 1 .. n - 1 /\ j + 1 \in 1 .. n /\ c + 1 + j = k /\ c + (j + 1) = k
          /\ k # c + 1
      BY <1>2, <2>3
    <3> HIDE DEF j
    <3>2. y[c + 1 + j] = For(r, p[j].deltas) /\ x[c + (j + 1)] = For(r, q[j + 1].deltas)
      BY <1>4, <1>5, <3>1
    <3> QED BY <1>3, <1>9, <3>1, <3>2
  <2> QED BY <1>2, <2>1, <2>2, <2>3
<1>11. y = z
  <2>1. Len(y) = c + n /\ Len(z) = c + n
    BY <1>2, <1>5, <1>9
  <2> QED BY <1>5, <1>9, <1>10, <2>1, SeqEqual
<1> QED BY <1>0, <1>6, <1>11 DEF x, y, z, e, u

-----------------------------------------------------------------------------
(* What a step of a stream does to its pipe. *)

Here(s) == IF client[s] = "gone" THEN <<>>
           ELSE Line(request[s], Frames(s), queue[s], Final(s))
IsFed(s) == client[s] # "gone" /\ Listening(s) /\ ~Final(s) /\ ~HasStop(queue[s])

LEMMA Mapping ==
    /\ Pipe = [s \in Stream |-> Here(s)] /\ Pipe' = [s \in Stream |-> Here(s)']
    /\ Fed = {s \in Stream : IsFed(s)} /\ Fed' = {s \in Stream : IsFed(s)'}
<1>1. Pipe = [s \in Stream |-> Here(s)] /\ Pipe' = [s \in Stream |-> Here(s)']
  BY Zenon DEF Pipe, Here, Line, Frames, OnTheWay, BeforeStop
<1>2. Fed = {s \in Stream : IsFed(s)} /\ Fed' = {s \in Stream : IsFed(s)'}
  BY DEF Fed, IsFed, HasStop
<1> QED BY <1>1, <1>2

Unfed(s) == (IsFed(s)' <=> IsFed(s))
StaysAt(s) == Unfed(s) /\ Here(s)' = Here(s)
DeliversAt(s) == Unfed(s) /\ Here(s) # <<>> /\ Here(s)' = Tail(Here(s))
CutsAt(s) ==
    /\ Unfed(s) /\ Limited(request[s])
    /\ \E k \in DOMAIN Here(s) : \E part \in SUBSET Here(s)[k] :
          Here(s)' = [Here(s) EXCEPT ![k] = part]
ClosesAt(s) ==
    ~IsFed(s)' /\ \E n \in 0 .. Len(Here(s)) : Here(s)' = SubSeq(Here(s), 1, n)
OpensAt(s) == ~IsFed(s) /\ IsFed(s)' /\ Here(s) = <<>> /\ Here(s)' = <<>>
AsksAt(s) == ~IsFed(s) /\ ~IsFed(s)' /\ Here(s) = <<>> /\ Here(s)' = <<>>

(* The shape of a stream's line. *)
LEMMA ShapeAt ==
    ASSUME TypeOK, NEW s \in Stream, StreamInv(s)
    PROVE  /\ \E n : Shaped(Frames(s), queue[s], Final(s), Pending(s), n)
           /\ Frames(s) \in Seq(Frame \cup {Nothing}) /\ Len(Frames(s)) = Len(socket[s]) + 1
           /\ Len(socket[s]) \in Nat /\ Len(queue[s]) \in Nat
           /\ \A k \in 1 .. Len(socket[s]) : Frames(s)[k] = socket[s][k]
           /\ server[s] \notin {"leaving", "none"} =>
                /\ \A k \in 1 .. Len(socket[s]) : socket[s][k].kind = "chunk"
                /\ Pending(s) = IF held[s].kind = "chunk" THEN Len(socket[s]) + 1
                                ELSE Len(socket[s])
<1>1. /\ queue[s] \in Seq(Event) /\ socket[s] \in Seq(Frame)
      /\ held[s] \in Frame \cup {Nothing}
  BY TypesAt
<1>2. /\ Frames(s) \in Seq(Frame \cup {Nothing}) /\ Len(Frames(s)) = Len(socket[s]) + 1
      /\ \A k \in 1 .. Len(socket[s]) : Frames(s)[k] = socket[s][k]
      /\ Len(socket[s]) \in Nat /\ Len(queue[s]) \in Nat
  BY <1>1 DEF Frames
<1>3. Chunks(Frames(s), Pending(s))
  BY WayFacts DEF Chunks, Frames
<1>4. \E n : Ticks(queue[s], Final(s), n)
  <2>1. CASE Final(s)
    BY <2>1 DEF Ticks
  <2>2. CASE ~Final(s)
    BY <2>2 DEF Ticks, StreamInv, Queued
  <2> QED BY <2>1, <2>2
<1>5. ASSUME server[s] \notin {"leaving", "none"}
      PROVE  /\ \A k \in 1 .. Len(socket[s]) : socket[s][k].kind = "chunk"
             /\ Pending(s) = IF held[s].kind = "chunk" THEN Len(socket[s]) + 1
                             ELSE Len(socket[s])
  <2>1. \A k \in 1 .. Len(socket[s]) : socket[s][k].kind = "chunk"
    BY <1>5 DEF StreamInv, LastFrame
  <2>2. socket[s] # <<>> => Len(socket[s]) \in 1 .. Len(socket[s])
    BY <1>1, EmptySeq
  <2> QED BY <2>1, <2>2 DEF Pending
<1> QED BY <1>1, <1>2, <1>3, <1>4, <1>5 DEF Shaped

(* Chunks and what is held behind them. *)
LEMMA ChunkCount ==
    ASSUME NEW q \in Seq(Frame), \A k \in 1 .. Len(q) : q[k].kind = "chunk",
           NEW h \in Frame \cup {Nothing}
    PROVE  /\ Append(q, h) \in Seq(Frame \cup {Nothing})
           /\ Chunks(Append(q, h), IF h.kind = "chunk" THEN Len(q) + 1 ELSE Len(q))
           /\ \A k \in 1 .. Len(q) : Append(q, h)[k] = q[k]
<1> DEFINE f == Append(q, h)
<1>1. /\ f \in Seq(Frame \cup {Nothing}) /\ Len(f) = Len(q) + 1 /\ Len(q) \in Nat
      /\ f[Len(q) + 1] = h /\ \A k \in 1 .. Len(q) : f[k] = q[k]
  OBVIOUS
<1> HIDE DEF f
<1>2. CASE h.kind = "chunk"
  <2>1. ASSUME NEW k \in 1 .. Len(q) + 1 PROVE f[k].kind = "chunk"
    <3>1. k \in 1 .. Len(q) \/ k = Len(q) + 1
      BY <1>1
    <3> QED BY <1>1, <1>2, <3>1
  <2> QED BY <1>1, <1>2, <2>1 DEF f, Chunks, Leads
<1>3. CASE h.kind # "chunk"
  BY <1>1, <1>3 DEF f, Chunks, Leads
<1> QED BY <1>1, <1>2, <1>3 DEF f

(* Before the first frame nothing is on its way. *)
LEMMA EmptyLine ==
    ASSUME NEW r, NEW h \in Frame \cup {Nothing}, h.kind # "chunk", NEW final
    PROVE  Line(r, Append(<<>>, h), <<>>, final) = <<>>
<1> DEFINE x == Line(r, Append(<<>>, h), <<>>, final)
<1>1. /\ <<>> \in Seq(Frame) /\ Len(<<>>) = 0 /\ <<>> \in Seq(Event)
      /\ \A k \in 1 .. Len(<<>>) : <<>>[k].kind = "chunk"
  OBVIOUS
<1>2. Append(<<>>, h) \in Seq(Frame \cup {Nothing}) /\ Chunks(Append(<<>>, h), 0)
  BY <1>1, ChunkCount
<1>3. Ticks(<<>>, final, 0)
  BY LeadsNowhere DEF Ticks
<1>4. LineFacts(x, r, Append(<<>>, h), <<>>, 0, 0)
  BY <1>1, <1>2, <1>3, LineIs DEF Shaped
<1> HIDE DEF x
<1>5. x \in Seq(SUBSET Delta) /\ Len(x) = 0
  BY <1>4 DEF LineFacts
<1>6. x = <<>>
  BY <1>5, EmptySeq
<1> QED BY <1>6 DEF x

(* A line depends on nothing else: what leaves these alone leaves it alone. *)
LEMMA Untouched ==
    ASSUME NEW s \in Stream, client'[s] = "gone" <=> client[s] = "gone",
           request'[s] = request[s], socket'[s] = socket[s], held'[s] = held[s],
           queue'[s] = queue[s]
    PROVE  /\ Here(s)' = Here(s)
           /\ (Listening(s)' <=> Listening(s)) => StaysAt(s)
<1>1. Frames(s)' = Frames(s) /\ Final(s)' = Final(s)
  BY DEF Frames, Final
<1>2. Here(s)' = Here(s)
  BY <1>1, Zenon DEF Here
<1>3. IsFed(s)' <=> (client[s] # "gone" /\ Listening(s)' /\ ~Final(s) /\ ~HasStop(queue[s]))
  BY <1>1, Zenon DEF IsFed
<1> QED BY <1>2, <1>3 DEF StaysAt, Unfed, IsFed

(* A stream whose client has gone has nothing on its way. *)
LEMMA GoneCloses ==
    ASSUME TypeOK, NEW s \in Stream, StreamInv(s), client'[s] = "gone"
    PROVE  ClosesAt(s)
<1>1. Here(s)' = <<>> /\ ~IsFed(s)'
  BY DEF Here, IsFed
<1>2. SubSeq(Here(s), 1, 0) = <<>>
  BY SubSeqEmpty
<1>3. 0 \in 0 .. Len(Here(s))
  <2>1. CASE client[s] = "gone"
    <3>1. Here(s) = <<>>
      BY <2>1 DEF Here
    <3> QED BY <3>1
  <2>2. CASE client[s] # "gone"
    <3>1. PICK n : Shaped(Frames(s), queue[s], Final(s), Pending(s), n)
      BY ShapeAt
    <3>2. LineFacts(Here(s), request[s], Frames(s), queue[s], Pending(s), n)
      BY <2>2, <3>1, LineIs DEF Here
    <3>3. Len(Here(s)) = Pending(s) + n /\ Pending(s) \in Nat /\ n \in Nat
      BY <3>2 DEF LineFacts
    <3> QED BY <3>3
  <2> QED BY <2>1, <2>2
<1> QED BY <1>1, <1>2, <1>3, Zenon DEF ClosesAt

LEMMA PeerPipe ==
    ASSUME TypeOK, NEW s \in Stream, StreamInv(s)
    PROVE  /\ \A r \in Request : Connect(s, r) => AsksAt(s)
           /\ Ask(s) \/ Cancel(s) => StaysAt(s)
           /\ HangUp(s) => ClosesAt(s)
           /\ Read(s) => DeliversAt(s) \/ ClosesAt(s)
<1> USE DEF StreamInv
<1>1. ASSUME NEW r \in Request, Connect(s, r) PROVE AsksAt(s)
  <2>1. client[s] = "gone" /\ server[s] = "none"
    BY <1>1 DEF Connect, Gone
  <2>2. held[s] = Nothing /\ queue[s] = <<>> /\ socket[s] = <<>>
    BY <2>1 DEF Phases, Fresh
  <2>3. /\ Frames(s)' = Append(<<>>, Nothing) /\ queue'[s] = <<>>
        /\ client'[s] = "silent" /\ server'[s] = "accepted"
    BY <1>1, <2>2, PeerFacts DEF Frames
  <2>4. Here(s)' = <<>>
    <3>1. Line(request'[s], Append(<<>>, Nothing), <<>>, Final(s)') = <<>>
      BY EmptyLine, FrameFacts
    <3> QED BY <2>3, <3>1 DEF Here
  <2>5. Here(s) = <<>> /\ ~IsFed(s) /\ ~IsFed(s)'
    BY <2>1, <2>3 DEF Here, IsFed, Listening
  <2> QED BY <2>4, <2>5 DEF AsksAt
<1>2. ASSUME Ask(s) PROVE StaysAt(s)
  <2>1. client[s] = "silent" /\ server[s] = "accepted"
    BY <1>2 DEF Ask
  <2>2. /\ client'[s] = "open" /\ server'[s] = "asked" /\ request'[s] = request[s]
        /\ socket'[s] = socket[s] /\ held'[s] = held[s] /\ queue'[s] = queue[s]
    BY <1>2, PeerFacts
  <2> QED BY <2>1, <2>2, Untouched DEF Listening
<1>3. ASSUME Cancel(s) PROVE StaysAt(s)
  <2>1. client[s] = "open"
    BY <1>3 DEF Cancel
  <2>2. /\ client'[s] = "cancelled" /\ server'[s] = server[s] /\ request'[s] = request[s]
        /\ socket'[s] = socket[s] /\ held'[s] = held[s] /\ queue'[s] = queue[s]
    BY <1>3, PeerFacts
  <2> QED BY <2>1, <2>2, Untouched DEF Listening
<1>4. ASSUME HangUp(s) PROVE ClosesAt(s)
  BY <1>4, PeerFacts, GoneCloses
<1>5. ASSUME Read(s) PROVE DeliversAt(s) \/ ClosesAt(s)
  <2>1. client[s] # "gone" /\ socket[s] # <<>>
    BY <1>5 DEF Read
  <2>2. CASE Head(socket[s]).kind # "chunk"
    BY <1>5, <2>2, PeerFacts, GoneCloses
  <2>3. CASE Head(socket[s]).kind = "chunk"
    <3>1. /\ client'[s] = client[s] /\ server'[s] = server[s] /\ request'[s] = request[s]
          /\ socket'[s] = Tail(socket[s]) /\ held'[s] = held[s] /\ queue'[s] = queue[s]
      BY <1>5, <2>3, PeerFacts
    <3>2. PICK n : Shaped(Frames(s), queue[s], Final(s), Pending(s), n)
      BY ShapeAt
    <3> DEFINE f == Frames(s)
               c == Pending(s)
    <3>3. f \in Seq(Frame \cup {Nothing}) /\ queue[s] \in Seq(Event) /\ Leads("chunk", f, c)
          /\ Ticks(queue[s], Final(s), n)
      BY <3>2 DEF Shaped, Chunks
    <3>4. f # <<>> /\ Head(f) = Head(socket[s]) /\ Frames(s)' = Tail(f)
          /\ Tail(f) \in Seq(Frame \cup {Nothing})
      <4>1. socket[s] \in Seq(Frame \cup {Nothing}) /\ held[s] \in Frame \cup {Nothing}
        BY TypesAt
      <4>2. /\ Head(Append(socket[s], held[s])) = Head(socket[s])
            /\ Tail(Append(socket[s], held[s])) = Append(Tail(socket[s]), held[s])
        BY <2>1, <4>1, HeadTailAppend
      <4>3. f # <<>>
        BY <4>1, AppendProperties DEF Frames
      <4> QED BY <3>1, <3>3, <4>2, <4>3 DEF Frames
    <3>5. c >= 1 /\ Leads("chunk", Tail(f), c - 1)
      <4> HIDE DEF f, c
      <4> QED BY <2>3, <3>3, <3>4, LeadsOn
    <3>6. Shaped(Tail(f), queue[s], Final(s), c - 1, n)
      BY <3>3, <3>4, <3>5 DEF Shaped, Chunks
    <3>7. /\ Line(request[s], f, queue[s], Final(s)) # <<>>
          /\ Line(request[s], Tail(f), queue[s], Final(s))
               = Tail(Line(request[s], f, queue[s], Final(s)))
      BY <3>2, <3>5, <3>6, LineTail
    <3>8. Final(s)' = Final(s) /\ (IsFed(s)' <=> IsFed(s))
      BY <3>1, Zenon DEF Final, IsFed, Listening
    <3>9. Here(s) = Line(request[s], f, queue[s], Final(s))
          /\ Here(s)' = Line(request[s], Tail(f), queue[s], Final(s))
      BY <2>1, <3>1, <3>4, <3>8, Zenon DEF Here
    <3> QED BY <3>7, <3>8, <3>9, Zenon DEF DeliversAt, Unfed
  <2> QED BY <2>2, <2>3
<1> QED BY <1>1, <1>2, <1>3, <1>4, <1>5

(* The rows of a chunk are parts of what the request shows of the tick,    *)
(* and without a limit all of it.                                          *)
LEMMA KeptShows ==
    ASSUME NEW r \in Request, NEW D, NEW kept \in Kept(r, Rows(r, D))
    PROVE  UNION kept \subseteq D /\ (~Limited(r) => UNION kept = D)
<1>1. UNION Rows(r, D) = D
  <2>1. ASSUME NEW d \in D PROVE d \in UNION Rows(r, D)
    <3>1. d \in {e \in D : Key(r, e) = Key(r, d)}
      OBVIOUS
    <3> QED BY <3>1 DEF Rows
  <2> QED BY <2>1 DEF Rows
<1>2. kept \subseteq Rows(r, D)
  BY DEF Kept
<1>3. ~Limited(r) => kept = Rows(r, D)
  BY DEF Kept, Limited
<1> QED BY <1>1, <1>2, <1>3

LEMMA StopOnly ==
    ASSUME NEW q \in Seq(Event), q # <<>>, Head(q).kind = "tick"
    PROVE  HasStop(Tail(q)) <=> HasStop(q)
<1>1. HasStop(q) => HasStop(Tail(q))
  BY StopStays
<1>2. ASSUME HasStop(Tail(q)) PROVE HasStop(q)
  <2>1. /\ Tail(q) \in Seq(Event) /\ Len(Tail(q)) = Len(q) - 1 /\ Len(q) \in Nat
        /\ \A k \in 1 .. Len(q) - 1 : Tail(q)[k] = q[k + 1]
    OBVIOUS
  <2>2. PICK k \in 1 .. Len(q) - 1 : Tail(q)[k] = Stop
    BY <1>2, <2>1 DEF HasStop
  <2>3. k + 1 \in 1 .. Len(q) /\ q[k + 1] = Stop
    BY <2>1, <2>2
  <2>4. DOMAIN q = 1 .. Len(q)
    OBVIOUS
  <2> QED BY <2>3, <2>4 DEF HasStop
<1> QED BY <1>1, <1>2

LEMMA ReceivePipe ==
    ASSUME TypeOK, NEW s \in Stream, StreamInv(s), ReceiveTick(s)
    PROVE  StaysAt(s) \/ CutsAt(s)
<1> DEFINE e == Head(queue[s])
           D == e.deltas
           r == request[s]
           q == queue[s]
           f == Frames(s)
           n0 == Len(socket[s])
<1>1. PICK kept \in Kept(r, Rows(r, Shown(s, D))) : held'[s] = Made(s, D, kept)
  BY ReceiveFacts
<1>2. /\ server[s] = "waiting" /\ server'[s] = "writing" /\ D \in SUBSET Delta
      /\ q # <<>> /\ e.kind = "tick" /\ queue'[s] = Tail(q) /\ socket'[s] = socket[s]
  BY ReceiveFacts
<1>3. request'[s] = r /\ client'[s] = client[s]
  BY ServeFacts DEF Serve
<1>4. q \in Seq(Event) /\ socket[s] \in Seq(Frame) /\ r \in Request
  BY TypesAt
<1>5. held[s] = Nothing /\ ~Final(s)
  BY <1>2, FrameFacts DEF StreamInv, Phases, Final, Nothing, End, Error
<1>6. /\ held'[s].kind = "chunk" /\ held'[s].rows = kept /\ held'[s] \in Frame
      /\ ~Final(s)'
  <2>1. Shown(s, D) \in SUBSET Delta
    BY <1>2 DEF Shown
  <2>2. kept \in SUBSET SUBSET Delta /\ Ids(UNION kept) \subseteq Ident
    <3> HIDE DEF r
    <3> QED BY <1>1, <2>1, KeptFacts
  <2>3. (IF request[s].grouped THEN {} ELSE Ids(UNION kept) \ sent[s]) \in SUBSET Ident
    BY <2>2
  <2>4. held'[s].kind = "chunk" /\ held'[s].rows = kept /\ held'[s] \in Frame
    <3> HIDE DEF D, r
    <3>1. held'[s].kind = "chunk" /\ held'[s] \in Frame
      BY <1>1, <2>2, <2>3, ChunkType DEF Made
    <3>2. held'[s].rows = kept
      BY <1>1 DEF Made, Chunk
    <3> QED BY <3>1, <3>2
  <2> QED BY <2>4, FrameFacts DEF Final
<1>7. Shown(s, D) = For(r, D)
  <2>1. Truthful(s) /\ Ids(D) \subseteq stored
    <3>1. 1 \in 1 .. Len(q) /\ e = q[1]
      BY <1>2, <1>4
    <3> QED BY <1>2, <3>1 DEF StreamInv, FromStore
  <2>2. \A d \in D : LookedUp(s, D)[d.id] = "visible" <=> Sees(r, d.id)
    BY <1>2, <2>1, LookupIsTrue
  <2> QED BY <2>2 DEF Shown, For
<1>8. UNION kept \subseteq For(r, D) /\ (~Limited(r) => UNION kept = For(r, D))
  <2> HIDE DEF r, D
  <2> QED BY <1>1, <1>4, <1>7, KeptShows
<1>9. IsFed(s)' <=> IsFed(s)
  <2>1. HasStop(queue[s])' <=> HasStop(queue[s])
    BY <1>2, <1>4, StopOnly DEF HasStop
  <2> QED BY <1>2, <1>3, <1>5, <1>6, <2>1 DEF IsFed, Listening
<1>10. CASE client[s] = "gone"
  BY <1>3, <1>9, <1>10 DEF StaysAt, Unfed, Here
<1>11. CASE client[s] # "gone"
  <2>1. PICK n : Shaped(f, q, FALSE, Pending(s), n)
    <3>1. \E n : Shaped(f, q, Final(s), Pending(s), n)
      BY ShapeAt
    <3>2. \A n : Shaped(f, q, Final(s), Pending(s), n) => Shaped(f, q, FALSE, Pending(s), n)
      BY <1>5 DEF Shaped, Ticks
    <3> QED BY <3>1, <3>2
  <2>2. /\ Pending(s) = n0 /\ n0 \in Nat /\ \A k \in 1 .. n0 : socket[s][k].kind = "chunk"
        /\ \A k \in 1 .. n0 : f[k] = socket[s][k]
    BY <1>2, <1>5, FrameFacts, ShapeAt
  <2>3. n >= 1 /\ Leads("tick", Tail(q), n - 1)
    BY <1>2, <1>4, <2>1, QueueLeads DEF Shaped, Ticks
  <2> DEFINE g == Append(socket[s], held'[s])
  <2>4. /\ g \in Seq(Frame \cup {Nothing}) /\ Chunks(g, n0 + 1)
        /\ \A k \in 1 .. n0 : g[k] = f[k]
    BY <1>4, <1>6, <2>2, ChunkCount
  <2>5. g[n0 + 1] = held'[s]
    BY <1>4, <1>6
  <2>6. Shaped(g, Tail(q), FALSE, n0 + 1, n - 1)
    <3>1. Tail(q) \in Seq(Event)
      BY <1>2, <1>4
    <3> QED BY <2>3, <2>4, <3>1 DEF Shaped, Ticks
  <2> DEFINE x == Line(r, f, q, FALSE)
             y == Line(r, g, Tail(q), FALSE)
  <2>7. Here(s) = x /\ Here(s)' = y
    <3>1. Final(s) = FALSE /\ Final(s)' = FALSE
      BY <1>5, <1>6
    <3>2. Frames(s)' = g
      BY <1>2 DEF Frames
    <3> HIDE DEF g
    <3> QED BY <1>2, <1>3, <1>11, <3>1, <3>2, Zenon DEF Here
  <2>8. /\ n0 + 1 \in DOMAIN x /\ x[n0 + 1] = For(r, D)
        /\ y = [x EXCEPT ![n0 + 1] = UNION g[n0 + 1].rows]
    <3>1. Shaped(f, q, FALSE, n0, n)
      BY <2>1, <2>2
    <3>2. /\ n0 + 1 \in DOMAIN Line(r, f, q, FALSE)
          /\ Line(r, f, q, FALSE)[n0 + 1] = For(r, Head(q).deltas)
          /\ Line(r, g, Tail(q), FALSE)
               = [Line(r, f, q, FALSE) EXCEPT ![n0 + 1] = UNION g[n0 + 1].rows]
      <4> DEFINE no == FALSE
                 p == Tail(q)
                 d == n0 + 1
                 m == n - 1
      <4>1. Turning(f, g, q, p, no, no, n0, d, n, m)
        BY <2>3, <2>4, <2>6, <3>1 DEF Turning
      <4> HIDE DEF f, g, q, r, n0, no, p, d, m
      <4>2. /\ d \in DOMAIN Line(r, f, q, no)
            /\ Line(r, f, q, no)[d] = For(r, Head(q).deltas)
            /\ Line(r, g, p, no) = [Line(r, f, q, no) EXCEPT ![d] = UNION g[d].rows]
        BY <4>1, LineTurns
      <4> QED BY <4>2 DEF no, p, d
    <3> QED BY <3>2
  <2>9. y = [x EXCEPT ![n0 + 1] = UNION kept]
    BY <1>6, <2>5, <2>8
  <2> HIDE DEF x, y
  <2>10. CASE Limited(r)
    <3>1. UNION kept \in SUBSET x[n0 + 1]
      BY <1>8, <2>8
    <3> QED BY <1>9, <2>7, <2>8, <2>9, <2>10, <3>1 DEF CutsAt, Unfed
  <2>11. CASE ~Limited(r)
    <3>1. UNION kept = x[n0 + 1]
      BY <1>8, <2>8, <2>11
    <3>2. x \in Seq(SUBSET Delta)
      BY <2>1, LineIs DEF x, LineFacts
    <3>3. x = [k \in DOMAIN x |-> x[k]]
      BY <3>2
    <3>4. y = x
      BY <2>8, <2>9, <3>1, <3>3
    <3> QED BY <1>9, <2>7, <3>4 DEF StaysAt, Unfed
  <2> QED BY <2>10, <2>11
<1> QED BY <1>10, <1>11

(* What ends a stream leaves its chunks and none of its ticks. *)
LEMMA EndPipe ==
    ASSUME TypeOK, NEW s \in Stream, StreamInv(s), LookupFails(s) \/ WriteFails(s)
    PROVE  ClosesAt(s)
<1> DEFINE f == Frames(s)
           g == Append(socket[s], held'[s])
           m == Len(socket[s])
           q == queue[s]
           p == queue'[s]
           final == Final(s)
           done == Final(s)'
<1>1. server[s] \in {"waiting", "writing"} /\ socket'[s] = socket[s]
      /\ request'[s] = request[s] /\ client'[s] = client[s]
  BY ServeFacts DEF Serve, LookupFails, WriteFails
<1>2. PICK n : Shaped(f, q, final, Pending(s), n)
  BY ShapeAt
<1>3. /\ \A k \in 1 .. m : socket[s][k].kind = "chunk" /\ f[k] = socket[s][k]
      /\ m \in Nat /\ m <= Pending(s)
  BY <1>1, ShapeAt
<1>4. /\ held'[s] \in Frame \cup {Nothing} /\ held'[s].kind # "chunk"
      /\ p \in Seq(Event) /\ Ticks(p, done, 0) /\ ~IsFed(s)'
  <2>1. CASE LookupFails(s)
    <3>1. held'[s] = Error /\ p = Tail(q) /\ q # <<>>
      BY <2>1, ServeFacts DEF Serve, LookupFails
    <3>2. p \in Seq(Event)
      BY <3>1, TypesAt
    <3>3. done
      BY <3>1 DEF Final
    <3> QED BY <3>1, <3>2, <3>3, FrameFacts DEF Ticks, IsFed
  <2>2. CASE WriteFails(s)
    <3>1. held'[s] = Nothing /\ p = <<>> /\ server'[s] = "leaving"
      BY <2>2, ServeFacts DEF Serve, Left
    <3>2. Ticks(p, done, 0)
      BY <3>1, LeadsNowhere DEF Ticks
    <3> QED BY <3>1, <3>2, FrameFacts DEF IsFed, Listening
  <2> QED BY <2>1, <2>2
<1>5. /\ g \in Seq(Frame \cup {Nothing}) /\ Chunks(g, m)
      /\ \A k \in 1 .. m : g[k] = f[k]
  <2>1. socket[s] \in Seq(Frame)
    BY TypesAt
  <2>2. /\ g \in Seq(Frame \cup {Nothing})
        /\ Chunks(g, IF held'[s].kind = "chunk" THEN m + 1 ELSE m)
        /\ \A k \in 1 .. m : g[k] = socket[s][k]
    BY <1>3, <1>4, <2>1, ChunkCount
  <2> HIDE DEF g, m, f
  <2> QED BY <1>3, <1>4, <2>2
<1>6. CASE client[s] = "gone"
  BY <1>1, <1>6, GoneCloses
<1>7. CASE client[s] # "gone"
  <2>1. Here(s) = Line(request[s], f, q, final) /\ Here(s)' = Line(request[s], g, p, done)
    <3>1. Frames(s)' = g
      BY <1>1 DEF Frames
    <3> HIDE DEF g
    <3> QED BY <1>1, <1>7, <3>1, Zenon DEF Here
  <2>2. Shaped(g, p, done, m, 0)
    BY <1>4, <1>5 DEF Shaped
  <2> HIDE DEF f, g, m, q, p, final, done
  <2>3. IsBeginning(Line(request[s], g, p, done), Line(request[s], f, q, final))
    <3>1. Shorter(f, g, q, p, final, done, Pending(s), n, m)
      BY <1>2, <1>3, <1>5, <2>2 DEF Shorter
    <3> QED BY <3>1, LineCut
  <2> QED BY <1>4, <2>1, <2>3 DEF ClosesAt, IsBeginning
<1> QED BY <1>6, <1>7

LEMMA WritePipe ==
    ASSUME TypeOK, NEW s \in Stream, StreamInv(s), Write(s)
    PROVE  StaysAt(s)
<1> DEFINE f == Frames(s)
           g == Append(f, Nothing)
           q == queue[s]
           p == queue'[s]
           c == Pending(s)
           final == Final(s)
           done == Final(s)'
<1>1. server[s] = "writing" /\ client[s] # "gone"
  BY DEF Write
<1>2. /\ held'[s] = Nothing /\ socket'[s] = f
      /\ request'[s] = request[s] /\ client'[s] = client[s]
      /\ IF held[s].kind = "chunk" THEN server'[s] = "waiting" /\ p = q
                                   ELSE server'[s] = "leaving" /\ p = <<>>
  BY ServeFacts DEF Serve, Left, Frames
<1>3. ~done
  BY <1>2, FrameFacts DEF Final, Nothing, End, Error
<1>4. final <=> held[s].kind # "chunk"
  BY <1>1, FrameFacts DEF StreamInv, Phases, Final, Frame
<1>5. PICK n : Shaped(f, q, final, c, n)
  BY ShapeAt
<1>6. /\ f \in Seq(Frame \cup {Nothing}) /\ q \in Seq(Event) /\ Leads("chunk", f, c)
      /\ Ticks(q, final, n) /\ Len(f) \in Nat
  BY <1>5, ShapeAt DEF Shaped, Chunks
<1>7. g \in Seq(Frame \cup {Nothing}) /\ Leads("chunk", g, c) /\ \A k \in 1 .. c : g[k] = f[k]
  <2>1. /\ g \in Seq(Frame \cup {Nothing}) /\ \A k \in 1 .. Len(f) : g[k] = f[k]
    BY <1>6
  <2>2. c \in Nat /\ c <= Len(f)
    BY <1>6 DEF Leads
  <2> HIDE DEF f, c
  <2>3. Leads("chunk", g, IF c = Len(f) /\ Nothing.kind = "chunk" THEN c + 1 ELSE c)
    <3>1. Nothing \in Frame \cup {Nothing}
      OBVIOUS
    <3> QED BY <1>6, <3>1, LeadsOn
  <2>4. Nothing.kind # "chunk"
    BY FrameFacts
  <2> QED BY <1>6, <2>1, <2>2, <2>3, <2>4
<1>8. Ticks(p, done, n) /\ p \in Seq(Event) /\ \A k \in 1 .. n : p[k] = q[k]
  <2>1. CASE held[s].kind = "chunk"
    BY <1>2, <1>3, <1>4, <1>6, <2>1 DEF Ticks
  <2>2. CASE held[s].kind # "chunk"
    <3>1. n = 0 /\ p = <<>>
      BY <1>2, <1>4, <1>6, <2>2 DEF Ticks
    <3> QED BY <1>3, <3>1, LeadsNowhere DEF Ticks
  <2> QED BY <2>1, <2>2
<1>9. Here(s) = Line(request[s], f, q, final) /\ Here(s)' = Line(request[s], g, p, done)
  <2>1. Frames(s)' = g
    BY <1>2 DEF Frames
  <2> HIDE DEF g
  <2> QED BY <1>1, <1>2, <2>1, Zenon DEF Here
<1>10. Here(s)' = Here(s)
  <2>1. Shaped(g, p, done, c, n)
    BY <1>7, <1>8 DEF Shaped, Chunks
  <2> HIDE DEF f, g, q, p, c, final, done
  <2>2. Alike(f, g, q, p, final, done, c, n)
    BY <1>5, <1>7, <1>8, <2>1 DEF Alike
  <2> QED BY <1>9, <2>2, LineSame
<1>11. IsFed(s)' <=> IsFed(s)
  BY <1>1, <1>2, <1>3, <1>4 DEF IsFed, Listening
<1> QED BY <1>10, <1>11 DEF StaysAt, Unfed

LEMMA StopPipe ==
    ASSUME TypeOK, NEW s \in Stream, StreamInv(s), ReceiveStop(s)
    PROVE  StaysAt(s)
<1> DEFINE f == Frames(s)
           g == Append(socket[s], End)
           q == queue[s]
           p == queue'[s]
           c == Pending(s)
           final == Final(s)
           done == Final(s)'
<1>1. server[s] = "waiting" /\ q # <<>> /\ Head(q) = Stop
  BY DEF ReceiveStop
<1>2. /\ held'[s] = End /\ socket'[s] = socket[s] /\ p = Tail(q)
      /\ request'[s] = request[s] /\ client'[s] = client[s]
  BY ServeFacts DEF Serve
<1>3. done /\ ~final /\ held[s] = Nothing
  BY <1>1, <1>2, FrameFacts DEF StreamInv, Phases, Final, Nothing, End, Error
<1>4. PICK n : Shaped(f, q, final, c, n)
  BY ShapeAt
<1>5. q \in Seq(Event) /\ p \in Seq(Event) /\ Leads("tick", q, n) /\ socket[s] \in Seq(Frame)
  BY <1>1, <1>2, <1>3, <1>4, TypesAt DEF Shaped, Ticks
<1>6. n = 0
  <2>1. Head(q).kind # "tick"
    BY <1>1, EventFacts
  <2> HIDE DEF q
  <2> QED BY <1>1, <1>5, <2>1, QueueLeads
<1>7. /\ c = Len(socket[s]) /\ \A k \in 1 .. c : f[k] = socket[s][k]
      /\ \A k \in 1 .. c : socket[s][k].kind = "chunk"
  BY <1>1, <1>3, FrameFacts, ShapeAt
<1>8. g \in Seq(Frame \cup {Nothing}) /\ Chunks(g, c) /\ \A k \in 1 .. c : g[k] = f[k]
  <2>1. End \in Frame \cup {Nothing} /\ End.kind # "chunk"
    BY FrameFacts
  <2>2. /\ g \in Seq(Frame \cup {Nothing}) /\ Chunks(g, Len(socket[s]))
        /\ \A k \in 1 .. Len(socket[s]) : g[k] = socket[s][k]
    BY <1>5, <1>7, <2>1, ChunkCount
  <2> HIDE DEF g, c, f
  <2> QED BY <1>7, <2>2
<1>9. Alike(f, g, q, p, final, done, c, n)
  <2>1. Ticks(p, done, n)
    BY <1>3, <1>6 DEF Ticks
  <2>2. \A k \in 1 .. n : p[k] = q[k]
    BY <1>6
  <2> HIDE DEF f, g, q, p, c, final, done
  <2> QED BY <1>4, <1>5, <1>8, <2>1, <2>2 DEF Alike, Shaped
<1>10. ~IsFed(s) /\ ~IsFed(s)'
  <2>1. HasStop(q)
    <3>1. 1 \in DOMAIN q /\ q[1] = Stop
      BY <1>1, <1>5
    <3> QED BY <3>1 DEF HasStop
  <2> QED BY <1>3, <2>1 DEF IsFed
<1>11. CASE client[s] = "gone"
  BY <1>2, <1>10, <1>11 DEF Here, StaysAt, Unfed
<1>12. CASE client[s] # "gone"
  <2>1. Here(s) = Line(request[s], f, q, final) /\ Here(s)' = Line(request[s], g, p, done)
    <3>1. Frames(s)' = g
      BY <1>2 DEF Frames
    <3> HIDE DEF g
    <3> QED BY <1>2, <1>12, <3>1, Zenon DEF Here
  <2> HIDE DEF f, g, q, p, c, final, done
  <2> QED BY <1>9, <1>10, <2>1, LineSame DEF StaysAt, Unfed
<1> QED BY <1>11, <1>12

LEMMA HandlePipe ==
    ASSUME TypeOK, NEW s \in Stream, StreamInv(s), Handle(s)
    PROVE  StaysAt(s) \/ OpensAt(s)
<1>1. server[s] = "asked"
  BY DEF Handle
<1>2. /\ request'[s] = request[s] /\ client'[s] = client[s]
      /\ queue'[s] = queue[s] /\ socket'[s] = socket[s]
      /\ IF Granted(s) THEN server'[s] = "waiting" /\ held'[s] = held[s]
                       ELSE server'[s] = "writing" /\ held'[s] = Error
  BY ServeFacts DEF Serve
<1>3. ~IsFed(s) /\ queue[s] = <<>> /\ held[s] = Nothing
  BY <1>1 DEF IsFed, Listening, StreamInv, Phases, Fresh
<1>4. CASE client[s] = "gone"
  BY <1>2, <1>3, <1>4 DEF StaysAt, Unfed, IsFed, Here
<1>5. CASE client[s] # "gone"
  <2>1. socket[s] = <<>>
    BY <1>1, <1>5 DEF StreamInv, Phases
  <2>2. /\ held'[s] \in {Nothing, Error} /\ Frames(s) = Append(<<>>, Nothing)
        /\ Frames(s)' = Append(<<>>, held'[s])
    BY <1>2, <1>3, <2>1 DEF Frames
  <2>3. Here(s) = <<>>
    <3>1. Line(request[s], Append(<<>>, Nothing), <<>>, Final(s)) = <<>>
      BY EmptyLine, FrameFacts
    <3> QED BY <1>3, <1>5, <2>2, <3>1 DEF Here
  <2>4. Here(s)' = <<>>
    <3>1. held'[s] \in Frame \cup {Nothing} /\ held'[s].kind # "chunk"
      BY <2>2, FrameFacts
    <3> DEFINE h == held'[s]
               done == Final(s)'
               r == request'[s]
    <3>2. Line(r, Append(<<>>, h), <<>>, done) = <<>>
      <4> HIDE DEF h, done, r
      <4>1. h \in Frame \cup {Nothing} /\ h.kind # "chunk"
        BY <3>1 DEF h
      <4> QED BY <4>1, EmptyLine
    <3> QED BY <1>2, <1>3, <2>2, <3>2, Zenon DEF Here
  <2>5. CASE Granted(s)
    <3>1. ~Final(s)'
      BY <1>2, <1>3, <2>5, FrameFacts DEF Final, Nothing, End, Error
    <3>2. IsFed(s)'
      BY <1>2, <1>3, <1>5, <2>5, <3>1 DEF IsFed, Listening, HasStop
    <3> QED BY <1>3, <2>3, <2>4, <3>2 DEF OpensAt
  <2>6. CASE ~Granted(s)
    <3>1. Final(s)'
      BY <1>2, <2>6 DEF Final
    <3> QED BY <1>3, <2>3, <2>4, <3>1 DEF StaysAt, Unfed, IsFed
  <2> QED BY <2>5, <2>6
<1> QED BY <1>4, <1>5

LEMMA ReaderPipe ==
    ASSUME TypeOK, NEW s \in Stream, StreamInv(s), ReaderStops(s)
    PROVE  StaysAt(s) \/ ClosesAt(s)
<1> DEFINE f == Frames(s)
           q == queue[s]
           p == queue'[s]
           c == Pending(s)
           final == Final(s)
<1>1. /\ server'[s] = server[s] /\ held'[s] = held[s] /\ socket'[s] = socket[s]
      /\ request'[s] = request[s] /\ client'[s] = client[s]
      /\ p = IF Listening(s) THEN Append(q, Stop) ELSE q
  BY ServeFacts
<1>2. CASE ~Listening(s)
  BY <1>1, <1>2, Untouched DEF Listening
<1>3. CASE Listening(s) /\ client[s] = "gone"
  BY <1>1, <1>3, GoneCloses
<1>4. CASE Listening(s) /\ client[s] # "gone"
  <2>1. PICK n : Shaped(f, q, final, c, n)
    BY ShapeAt
  <2>2. /\ q \in Seq(Event) /\ p = Append(q, Stop) /\ p \in Seq(Event) /\ HasStop(p)
        /\ Len(q) \in Nat /\ \A k \in 1 .. Len(q) : p[k] = q[k]
    BY <1>1, <1>4, TypesAt, EventFacts, StopAppended
  <2>3. Ticks(p, final, n) /\ \A k \in 1 .. n : p[k] = q[k]
    <3>1. CASE final
      BY <2>1, <3>1 DEF Shaped, Ticks
    <3>2. CASE ~final
      <4>1. Leads("tick", q, n)
        BY <2>1, <3>2 DEF Shaped, Ticks
      <4>2. Leads("tick", p, n) /\ n <= Len(q) /\ n \in Nat
        <5> HIDE DEF q, p
        <5> QED BY <2>2, <4>1, QueueLeads DEF Leads
      <4> QED BY <2>2, <3>2, <4>2 DEF Ticks
    <3> QED BY <3>1, <3>2
  <2>4. Alike(f, f, q, p, final, final, c, n)
    <3> HIDE DEF f, q, p, c, final
    <3> QED BY <2>1, <2>2, <2>3 DEF Alike, Shaped
  <2>5. Here(s) = Line(request[s], f, q, final) /\ Here(s)' = Line(request[s], f, p, final)
    <3>1. Frames(s)' = f /\ Final(s)' = final
      BY <1>1 DEF Frames, Final
    <3> QED BY <1>1, <1>4, <3>1, Zenon DEF Here
  <2>6. Here(s)' = Here(s)
    <3> HIDE DEF f, q, p, c, final
    <3> QED BY <2>4, <2>5, LineSame
  <2>7. ~IsFed(s)'
    BY <2>2 DEF IsFed, HasStop
  <2>8. Here(s) \in Seq(SUBSET Delta)
    <3> HIDE DEF f, q, c, final
    <3> QED BY <2>1, <2>5, LineIs DEF LineFacts
  <2>9. Len(Here(s)) \in 0 .. Len(Here(s)) /\ SubSeq(Here(s), 1, Len(Here(s))) = Here(s)
    BY <2>8, SubSeqFull
  <2> QED BY <2>6, <2>7, <2>9, Zenon DEF ClosesAt
<1> QED BY <1>2, <1>3, <1>4

LEMMA ServePipe ==
    ASSUME TypeOK, NEW s \in Stream, StreamInv(s), Serve(s) \/ ReaderStops(s)
    PROVE  StaysAt(s) \/ OpensAt(s) \/ CutsAt(s) \/ ClosesAt(s)
<1>1. CASE NoRequest(s) \/ HandleFails(s) \/ Finish(s)
  <2>1. server[s] \in {"accepted", "asked", "leaving"} /\ server'[s] = "none"
    BY <1>1, ServeFacts DEF Serve, NoRequest, HandleFails, Finish
  <2>2. /\ request'[s] = request[s] /\ client'[s] = client[s] /\ socket'[s] = socket[s]
        /\ held'[s] = held[s] /\ queue'[s] = queue[s]
    BY <1>1, ServeFacts DEF Serve
  <2> QED BY <2>1, <2>2, Untouched DEF Listening
<1> QED
  BY <1>1, HandlePipe, ReceivePipe, EndPipe, StopPipe, WritePipe, ReaderPipe DEF Serve

-----------------------------------------------------------------------------
(* Each step keeps the promise of Broadcast. *)

PromiseVars == <<request, Fed, Pipe>>

(* What happens to one stream is a step of the promise, or none. *)
LEMMA OneStream ==
    ASSUME NEW s \in Stream, \A t \in Stream \ {s} : StaysAt(t)
    PROVE  /\ Pipe[s] = Here(s) /\ Pipe' = [Pipe EXCEPT ![s] = Here(s)']
           /\ s \in Fed <=> IsFed(s)
           /\ Unfed(s) => Fed' = Fed
           /\ ~IsFed(s)' => Fed' = Fed \ {s}
           /\ IsFed(s)' => Fed' = Fed \cup {s}
<1>1. Pipe[s] = Here(s) /\ Pipe' = [Pipe EXCEPT ![s] = Here(s)']
  BY Mapping DEF StaysAt
<1>2. \A t \in Stream \ {s} : IsFed(t)' <=> IsFed(t)
  BY DEF StaysAt, Unfed
<1>3. Fed = {t \in Stream : IsFed(t)} /\ Fed' = {t \in Stream : IsFed(t)'}
  BY Mapping
<1> QED BY <1>1, <1>2, <1>3 DEF Unfed

LEMMA PipeStep ==
    ASSUME NEW s \in Stream, \A t \in Stream \ {s} : StaysAt(t), request' = request,
           StaysAt(s) \/ OpensAt(s) \/ DeliversAt(s) \/ CutsAt(s) \/ ClosesAt(s)
    PROVE  Promise!Next \/ UNCHANGED PromiseVars
<1>0. /\ Pipe[s] = Here(s) /\ Pipe' = [Pipe EXCEPT ![s] = Here(s)']
      /\ s \in Fed <=> IsFed(s)
      /\ Unfed(s) => Fed' = Fed
      /\ ~IsFed(s)' => Fed' = Fed \ {s}
      /\ IsFed(s)' => Fed' = Fed \cup {s}
  BY OneStream
<1>1. Pipe = [t \in Stream |-> Here(t)]
  BY Mapping
<1>2. CASE StaysAt(s)
  <2>1. Pipe' = Pipe
    BY <1>0, <1>1, <1>2 DEF StaysAt
  <2> QED BY <1>0, <1>2, <2>1 DEF StaysAt, PromiseVars
<1>3. CASE OpensAt(s)
  <2>1. Pipe' = Pipe
    BY <1>0, <1>1, <1>3 DEF OpensAt
  <2>2. Promise!Open(s)
    BY <1>0, <1>3, <2>1 DEF OpensAt, Promise!Open
  <2> QED BY <2>2 DEF Promise!Next
<1>4. CASE DeliversAt(s)
  <2>1. Promise!Deliver(s)
    BY <1>0, <1>4 DEF DeliversAt, Promise!Deliver
  <2> QED BY <2>1 DEF Promise!Next
<1>5. CASE CutsAt(s)
  <2>1. PICK k \in DOMAIN Here(s) :
           \E part \in SUBSET Here(s)[k] : Here(s)' = [Here(s) EXCEPT ![k] = part]
    BY <1>5 DEF CutsAt
  <2>2. PICK part \in SUBSET Here(s)[k] : Here(s)' = [Here(s) EXCEPT ![k] = part]
    BY <2>1
  <2>3. Pipe' = [Pipe EXCEPT ![s][k] = part]
    BY <1>0, <2>2
  <2>4. Promise!Cut(s)
    BY <1>0, <1>5, <2>2, <2>3 DEF CutsAt, Promise!Cut
  <2> QED BY <2>4 DEF Promise!Next
<1>6. CASE ClosesAt(s)
  <2>1. PICK n \in 0 .. Len(Here(s)) : Here(s)' = SubSeq(Here(s), 1, n)
    BY <1>6 DEF ClosesAt
  <2>2. n \in 0 .. Len(Pipe[s]) /\ Pipe' = [Pipe EXCEPT ![s] = SubSeq(@, 1, n)]
    BY <1>0, <2>1
  <2>3. Promise!Close(s)
    BY <1>0, <1>6, <2>2 DEF ClosesAt, Promise!Close
  <2> QED BY <2>3 DEF Promise!Next
<1> QED BY <1>2, <1>3, <1>4, <1>5, <1>6

LEMMA PromisedStream ==
    ASSUME TypeOK, LoopInv, NEW s \in Stream, Peer(s) \/ Serve(s) \/ ReaderStops(s)
    PROVE  Promise!Next \/ UNCHANGED PromiseVars
<1>1. ASSUME NEW t \in Stream \ {s} PROVE StaysAt(t)
  <2>1. Others(s)
    BY Elsewhere
  <2> QED BY <2>1, Untouched DEF Others, Listening
<1>2. StreamInv(s)
  BY DEF LoopInv
<1>3. CASE Serve(s) \/ ReaderStops(s)
  <2>1. request' = request
    BY <1>3 DEF Serve, Handle, HandleFails, NoRequest, ReceiveTick, LookupFails, ReceiveStop,
                Write, WriteFails, Finish, ReaderStops, peer
  <2> QED BY <1>1, <1>2, <1>3, <2>1, ServePipe, PipeStep
<1>4. CASE Ask(s) \/ Read(s) \/ Cancel(s) \/ HangUp(s)
  <2>1. request' = request
    BY <1>4 DEF Ask, Read, Cancel, HangUp
  <2> QED BY <1>1, <1>2, <1>4, <2>1, PeerPipe, PipeStep
<1>5. ASSUME NEW r \in Request, Connect(s, r) PROVE Promise!Next
  <2>1. AsksAt(s)
    BY <1>2, <1>5, PeerPipe
  <2>2. Pipe[s] = Here(s) /\ Pipe' = [Pipe EXCEPT ![s] = Here(s)'] /\ (s \in Fed <=> IsFed(s))
        /\ (Unfed(s) => Fed' = Fed)
    BY <1>1, OneStream
  <2>3. Pipe' = Pipe
    BY <2>1, <2>2, Mapping DEF AsksAt
  <2>4. Promise!Ask(s)
    BY <1>5, <2>1, <2>2, <2>3 DEF AsksAt, Unfed, Connect, Promise!Ask
  <2> QED BY <2>4 DEF Promise!Next
<1> QED BY <1>3, <1>4, <1>5 DEF Peer

(* A published tick joins the pipes of the streams that are fed. *)
LEMMA PublishPipe ==
    ASSUME IInv, LoopInv, Publish, NEW t \in Stream
    PROVE  /\ IsFed(t)' <=> IsFed(t)
           /\ Here(t)' = IF IsFed(t) THEN Append(Here(t), For(request[t], polled)) ELSE Here(t)
<1> DEFINE f == Frames(t)
           q == queue[t]
           e == Tick(polled)
           p == Append(q, e)
           c == Pending(t)
           final == Final(t)
<1>1. /\ request'[t] = request[t] /\ client'[t] = client[t] /\ server'[t] = server[t]
      /\ held'[t] = held[t] /\ socket'[t] = socket[t]
      /\ queue'[t] = IF t \in subscribers /\ Listening(t) THEN p ELSE q
  BY PublishFacts DEF IInv
<1>2. TypeOK /\ StreamInv(t) /\ q \in Seq(Event) /\ polled \in SUBSET Delta /\ e \in Event
      /\ e.kind = "tick"
  BY TypesAt, EventFacts DEF IInv, LoopInv
<1>3. /\ p \in Seq(Event) /\ Len(p) = Len(q) + 1 /\ Len(q) \in Nat /\ p[Len(q) + 1] = e
      /\ \A k \in 1 .. Len(q) : p[k] = q[k]
      /\ DOMAIN p = 1 .. Len(q) + 1 /\ DOMAIN q = 1 .. Len(q)
  BY <1>2
<1>4. HasStop(p) <=> HasStop(q)
  <2>1. e # Stop
    BY <1>2, EventFacts
  <2> HIDE DEF p, q, e
  <2>2. ASSUME HasStop(p) PROVE HasStop(q)
    <3>1. PICK k \in 1 .. Len(q) + 1 : p[k] = Stop
      BY <1>3, <2>2 DEF HasStop
    <3>2. k \in 1 .. Len(q)
      BY <1>3, <2>1, <3>1
    <3> QED BY <1>3, <3>1, <3>2 DEF HasStop
  <2>3. ASSUME HasStop(q) PROVE HasStop(p)
    <3>1. PICK k \in 1 .. Len(q) : q[k] = Stop
      BY <1>3, <2>3 DEF HasStop
    <3>2. k \in 1 .. Len(q) + 1 /\ p[k] = Stop
      BY <1>3, <3>1
    <3> QED BY <1>3, <3>2 DEF HasStop
  <2> QED BY <2>2, <2>3
<1>5. IsFed(t)' <=> IsFed(t)
  <2>1. Final(t)' = Final(t)
    BY <1>1 DEF Final
  <2>2. HasStop(queue[t])' <=> HasStop(queue[t])
    <3> HIDE DEF p
    <3>1. HasStop(queue'[t]) <=> HasStop(queue[t])
      BY <1>1, <1>4
    <3> QED BY <3>1 DEF HasStop
  <2> QED BY <1>1, <2>1, <2>2, Zenon DEF IsFed, Listening
<1>6. CASE ~(t \in subscribers /\ Listening(t))
  <2>1. Here(t)' = Here(t)
    BY <1>1, <1>6, Untouched
  <2>2. ~IsFed(t)
    <3>1. SUFFICES ASSUME IsFed(t) PROVE FALSE
      OBVIOUS
    <3>2. Listening(t) /\ ~Final(t)
      BY <3>1 DEF IsFed
    <3>3. Served(t) /\ Holding(t)
      BY DEF IInv
    <3>4. InLoop(t)
      BY <3>2, <3>3, FrameFacts DEF Listening, Final, Holding, InLoop, Frame
    <3> QED BY <1>6, <3>2, <3>3, <3>4 DEF Served
  <2> QED BY <1>5, <2>1, <2>2
<1>7. CASE t \in subscribers /\ Listening(t) /\ client[t] = "gone"
  BY <1>1, <1>5, <1>7 DEF IsFed, Here
<1>8. CASE t \in subscribers /\ Listening(t) /\ client[t] # "gone"
  <2>1. PICK n : Shaped(f, q, final, c, n)
    BY <1>2, ShapeAt
  <2>2. Here(t) = Line(request[t], f, q, final) /\ Here(t)' = Line(request[t], f, p, final)
    <3>1. Frames(t)' = f /\ Final(t)' = final
      BY <1>1 DEF Frames, Final
    <3>2. queue'[t] = p
      BY <1>1, <1>8
    <3> HIDE DEF p
    <3> QED BY <1>1, <1>8, <3>1, <3>2, Zenon DEF Here
  <2>3. ~final => Leads("tick", q, n) /\ n \in Nat /\ n <= Len(q)
    BY <2>1 DEF Shaped, Ticks, Leads
  <2>4. CASE IsFed(t)
    <3>1. ~final /\ ~HasStop(q)
      BY <2>4 DEF IsFed
    <3>2. n = Len(q)
      <4>1. SUFFICES ASSUME n < Len(q) PROVE FALSE
        BY <1>3, <2>3, <3>1
      <4>2. n + 1 \in 1 .. Len(q) /\ q[n + 1].kind # "tick"
        BY <1>3, <2>3, <3>1, <4>1 DEF Leads
      <4>3. q[n + 1] \in Event /\ q[n + 1] # Stop
        BY <1>2, <1>3, <3>1, <4>2 DEF HasStop
      <4> QED BY <4>2, <4>3 DEF Event
    <3>3. Leads("tick", p, n + 1)
      <4>1. Leads("tick", Append(q, Tick(polled)), IF n = Len(q) THEN n + 1 ELSE n)
        BY <1>2, <2>3, <3>1, QueueLeads
      <4> QED BY <3>2, <4>1
    <3>4. Shaped(f, q, final, c, Len(q)) /\ Shaped(f, p, final, c, Len(q) + 1)
      BY <1>3, <2>1, <3>1, <3>2, <3>3 DEF Shaped, Ticks
    <3>5. Line(request[t], f, p, final)
            = Append(Line(request[t], f, q, final), For(request[t], polled))
      BY <1>2, <3>4, LineGrows
    <3> QED BY <1>5, <2>2, <2>4, <3>5
  <2>5. CASE ~IsFed(t)
    <3>1. final \/ HasStop(q)
      BY <1>8, <2>5 DEF IsFed
    <3>2. Ticks(p, final, n) /\ \A k \in 1 .. n : p[k] = q[k]
      <4>1. CASE final
        BY <2>1, <4>1 DEF Shaped, Ticks
      <4>2. CASE ~final
        <5>1. PICK k \in 1 .. Len(q) : q[k] = Stop
          BY <1>3, <3>1, <4>2 DEF HasStop
        <5>2. n # Len(q)
          BY <1>3, <2>3, <4>2, <5>1, EventFacts DEF Leads
        <5>3. Leads("tick", Append(q, Tick(polled)), IF n = Len(q) THEN n + 1 ELSE n)
          BY <1>2, <2>3, <4>2, QueueLeads
        <5> QED BY <1>3, <2>3, <4>2, <5>2, <5>3 DEF Ticks
      <4> QED BY <4>1, <4>2
    <3>3. Alike(f, f, q, p, final, final, c, n)
      <4> HIDE DEF f, q, p, c, final
      <4> QED BY <1>3, <2>1, <3>2 DEF Alike, Shaped
    <3>4. Line(request[t], f, p, final) = Line(request[t], f, q, final)
      <4> HIDE DEF f, q, p, c, final
      <4> QED BY <3>3, LineSame
    <3> QED BY <1>5, <2>2, <2>5, <3>4
  <2> QED BY <2>4, <2>5
<1> QED BY <1>6, <1>7, <1>8

(* No stream is fed and nothing is on its way before anybody connects. *)
LEMMA PromiseInit == Init => Promise!Init
<1> SUFFICES ASSUME Init PROVE Promise!Init
  OBVIOUS
<1>1. request \in [Stream -> Request] /\ \A s \in Stream : client[s] = "gone"
  BY DEF Init
<1>2. Fed = {} /\ Pipe = [s \in Stream |-> <<>>]
  BY <1>1 DEF Fed, Pipe
<1> QED BY <1>1, <1>2 DEF Promise!Init

LEMMA PromisedTick ==
    ASSUME IInv, LoopInv, Publish
    PROVE  Promise!Next
<1>1. request' = request /\ polled \in SUBSET Delta
  BY DEF Publish, peer, IInv, TypeOK
<1>2. /\ Pipe = [t \in Stream |-> Here(t)] /\ Pipe' = [t \in Stream |-> Here(t)']
      /\ Fed = {t \in Stream : IsFed(t)} /\ Fed' = {t \in Stream : IsFed(t)'}
  BY Mapping
<1>3. \A t \in Stream : /\ IsFed(t)' <=> IsFed(t)
                        /\ Here(t)' = IF IsFed(t) THEN Append(Here(t), For(request[t], polled))
                                                  ELSE Here(t)
  BY PublishPipe
<1>4. Fed' = Fed
  BY <1>2, <1>3
<1>5. Pipe' = [t \in Stream |-> IF t \in Fed THEN Append(Pipe[t], For(request[t], polled))
                                             ELSE Pipe[t]]
  BY <1>2, <1>3
<1>6. Promise!Publish(polled)
  BY <1>1, <1>4, <1>5 DEF Promise!Publish
<1> QED BY <1>1, <1>6 DEF Promise!Next

LEMMA PromiseStep == IInv /\ LoopInv /\ [Next]_vars => [Promise!Next]_<<request, Fed, Pipe>>
<1> SUFFICES ASSUME IInv, LoopInv, [Next]_vars
             PROVE  Promise!Next \/ UNCHANGED PromiseVars
  BY DEF PromiseVars
<1>1. TypeOK
  BY DEF IInv
<1>2. CASE Publish
  BY <1>2, PromisedTick
<1>3. CASE UNCHANGED vars \/ \E d \in Delta : Poll(d)
  <2>1. UNCHANGED <<request, client, server, queue, held, socket>>
    BY <1>3 DEF vars, Poll, threads, view, wire, peer
  <2>2. ASSUME NEW t \in Stream PROVE StaysAt(t)
    <3>1. Listening(t)' <=> Listening(t)
      BY <2>1 DEF Listening
    <3> QED BY <2>1, <3>1, Untouched
  <2>3. Pipe' = Pipe /\ Fed' = Fed
    BY <2>2, Mapping DEF StaysAt, Unfed
  <2> QED BY <2>1, <2>3 DEF PromiseVars
<1>4. CASE \E s \in Stream : Peer(s) \/ Serve(s) \/ ReaderStops(s)
  BY <1>1, <1>4, PromisedStream
<1> QED BY <1>2, <1>3, <1>4 DEF Next, Collect

(* The two threads of a stream, the hub and the cache of what the caller   *)
(* may see give each client what Broadcast promises: every tick published  *)
(* while its stream is open, once and in order and cut down to its own     *)
(* rows, and when the stream ends a beginning of what was on its way, for  *)
(* any number of streams, sockets and queues of any length (server.rs      *)
(* watch and WatchView, live.rs).                                          *)
THEOREM StreamsKeepThePromise == Spec => ImplementsBroadcast
<1> QED BY Invariant, LoopInvariant, PromiseInit, PromiseStep, PTL
        DEF Spec, ImplementsBroadcast, Promise!Spec

=============================================================================
