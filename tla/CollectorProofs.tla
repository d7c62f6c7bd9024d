--------------------------- MODULE CollectorProofs ---------------------------
(***************************************************************************)
(* Proofs about Collector for any tgids, processes and chunks, any map     *)
(* sizes, any reuse of tgids and any faults: the maps keep to their sizes, *)
(* no counter is added twice, bytes that were counted are dropped on       *)
(* failures only, a process is charged with another one's bytes only where *)
(* a trace of an earlier owner of the tgid was left, and the first process *)
(* of a tgid is named while it runs.                                       *)
(***************************************************************************)
EXTENDS Collector, FiniteSetTheorems, TLAPS

-----------------------------------------------------------------------------
(* Type correctness. *)

(* A key is being worked on from its reading to its attribution.           *)
KeyHeld == pc \in {"remove", "attribute"} => key \in Tgid

(* The part of TypeOK that speaks of one variable at a time, and the part  *)
(* that bounds the maps, which needs the sets it counts to be finite.      *)
Shapes ==
    /\ proc \in [Tgid -> Proc \cup {NoProc}] /\ zombie \subseteq Tgid
    /\ owners \in [Tgid -> SUBSET Proc]
    /\ inHook \subseteq Tgid
    /\ pidMeta \in [Tgid -> Proc \cup {NoProc}]
    /\ ring \subseteq Tgid
    /\ traffic \in [Tgid -> SUBSET Chunk]
    /\ cache \in [Tgid -> Identity \cup {NoIdentity}]
    /\ pc \in {"asleep", "new_pids", "read", "remove", "attribute", "scan", "evict"}
    /\ todo \subseteq Tgid /\ key \in Tgid \cup {NoTgid} /\ reading \subseteq Chunk
    /\ attributed \in [Chunk -> Identity \cup {NoIdentity}]
    /\ sender \in [Chunk -> Proc \cup {NoProc}]
    /\ uncounted \subseteq Chunk /\ again \subseteq Chunk /\ missed \subseteq Tgid
    /\ unread \subseteq Chunk /\ heirs \subseteq Proc
Within(used, cap) == IsFiniteSet(used) /\ Cardinality(used) <= cap
Bounds == Within(Noted, PidCap) /\ Within(ring, RingCap) /\ Within(Keys, TrafficCap)

TypeInv == Shapes /\ KeyHeld /\ Bounds

LEMMA TypeSuffices == TypeInv => TypeOK
BY DEF TypeInv, Shapes, Bounds, Within, TypeOK

(* An entry added where there is room keeps a map within its size, and so  *)
(* does one that is taken away.                                            *)
LEMMA RoomForOne ==
    ASSUME NEW used, NEW g, NEW cap \in Nat, Within(used, cap),
           g \in used \/ HasRoom(used, cap)
    PROVE  Within(used \cup {g}, cap)
<1>1. /\ IsFiniteSet(used \cup {g}) /\ Cardinality(used) \in Nat
      /\ Cardinality(used \cup {g}) = IF g \in used THEN Cardinality(used)
                                                    ELSE Cardinality(used) + 1
  BY FS_AddElement, FS_CardinalityType DEF Within
<1> QED BY <1>1 DEF Within, HasRoom

LEMMA FewerFit ==
    ASSUME NEW used, NEW fewer, NEW cap \in Nat, Within(used, cap), fewer \subseteq used
    PROVE  Within(fewer, cap)
<1>1. /\ IsFiniteSet(fewer) /\ Cardinality(fewer) <= Cardinality(used)
      /\ Cardinality(used) \in Nat /\ Cardinality(fewer) \in Nat
  BY FS_Subset, FS_CardinalityType DEF Within
<1> QED BY <1>1 DEF Within

LEMMA NoneFit == \A cap \in Nat : Within({}, cap)
BY FS_EmptySet DEF Within

LEMMA RecordType ==
    ASSUME Shapes, NEW g \in Tgid
    PROVE  /\ Record(g) \in Identity /\ Record(g) # NoIdentity
           /\ Resolved(g) \in Identity /\ Resolved(g) # NoIdentity
<1>1. Record(g) \in Identity
  BY DEF Shapes, Record, Identity, Alive, Noted
<1>2. NoIdentity \notin Identity
  BY DEF NoIdentity, Identity, Nobody, Full, Degraded
<1>3. Resolved(g) \in Identity
  BY <1>1 DEF Resolved, Cached, Shapes
<1> QED BY <1>1, <1>2, <1>3

LEMMA TypeInit == Init => TypeInv
<1> SUFFICES ASSUME Init PROVE TypeInv
  OBVIOUS
<1>1. Noted = {} /\ ring = {} /\ Keys = {}
  BY DEF Init, Noted, Keys
<1>2. Bounds
  BY <1>1, NoneFit, CollectorAssumption DEF Bounds
<1>3. Shapes /\ KeyHeld
  BY DEF Init, Shapes, KeyHeld, NoTgid
<1> QED BY <1>2, <1>3 DEF TypeInv

LEMMA ShapesStep ==
    ASSUME Shapes, KeyHeld, [Next]_vars
    PROVE  Shapes' /\ KeyHeld'
<1> USE DEF Shapes, KeyHeld, processes, maps, drain, history
<1>1. ASSUME NEW g \in Tgid, NEW p \in Proc, Fork(g, p) PROVE Shapes' /\ KeyHeld'
  BY <1>1 DEF Fork
<1>2. ASSUME NEW g \in Tgid, Exit(g) \/ Reap(g) PROVE Shapes' /\ KeyHeld'
  BY <1>2 DEF Exit, Reap
<1>3. ASSUME NEW g \in Tgid, NotePid(g) PROVE Shapes' /\ KeyHeld'
  <2>1. /\ pidMeta' \in [Tgid -> Proc \cup {NoProc}]
        /\ ring' \subseteq Tgid /\ missed' \subseteq Tgid /\ inHook' \subseteq Tgid
    BY <1>3 DEF NotePid, Captured
  <2>2. UNCHANGED <<processes, traffic, drain, sender, uncounted, again, unread, heirs>>
    BY <1>3 DEF NotePid
  <2> QED BY <2>1, <2>2
<1>4. ASSUME NEW g \in Tgid, NEW c \in Chunk, Count(g, c) PROVE Shapes' /\ KeyHeld'
  <2>1. /\ sender' \in [Chunk -> Proc \cup {NoProc}] /\ inHook' \subseteq Tgid
        /\ traffic' \in [Tgid -> SUBSET Chunk] /\ uncounted' \subseteq Chunk
        /\ unread' \subseteq Chunk
    BY <1>4 DEF Count
  <2>2. UNCHANGED <<processes, pidMeta, ring, drain, again, missed, heirs>>
    BY <1>4 DEF Count
  <2> QED BY <2>1, <2>2
<1>5. ASSUME NEW g \in Tgid, ScopeFails(g) PROVE Shapes' /\ KeyHeld'
  BY <1>5 DEF ScopeFails
<1>6. CASE TakeNewPids \/ ListKeys \/ Flush \/ FlushFails \/ ScanDead \/ TickDone
  BY <1>6 DEF TakeNewPids, ListKeys, Flush, FlushFails, ScanDead, TickDone, Keys, DeadTgids,
     Noted
<1>7. ASSUME NEW g \in Tgid, ResolveNew(g) PROVE Shapes' /\ KeyHeld'
  <2>1. Resolved(g) \in Identity
    BY RecordType
  <2> QED BY <1>7, <2>1 DEF ResolveNew, Remember
<1>8. ASSUME NEW g \in Tgid, ReadKey(g) \/ Evict(g) \/ EvictFails(g) \/ ResolveNewFails(g)
      PROVE  Shapes' /\ KeyHeld'
  <2>1. CASE ReadKey(g)
    BY <2>1 DEF ReadKey
  <2>2. CASE Evict(g) \/ EvictFails(g)
    BY <2>2 DEF Evict, EvictFails
  <2>3. CASE ResolveNewFails(g)
    BY <2>3 DEF ResolveNewFails
  <2> QED BY <1>8, <2>1, <2>2, <2>3
<1>9. CASE RemoveKey
  BY <1>9 DEF RemoveKey
<1>10. CASE RemoveFails \/ AttributeFails
  BY <1>10 DEF RemoveFails, AttributeFails
<1>11. CASE Attribute
  <2>1. key \in Tgid
    BY <1>11 DEF Attribute
  <2>2. Resolved(key) \in Identity
    BY <2>1, RecordType
  <2>3. /\ cache' \in [Tgid -> Identity \cup {NoIdentity}]
        /\ attributed' \in [Chunk -> Identity \cup {NoIdentity}] /\ again' \subseteq Chunk
    BY <1>11, <2>1, <2>2 DEF Attribute, Remember
  <2>4. /\ UNCHANGED <<processes, inHook, maps, todo, sender, uncounted, missed, unread, heirs>>
        /\ pc' = "read" /\ key' = NoTgid /\ reading' = {}
    BY <1>11 DEF Attribute
  <2> QED BY <2>3, <2>4
<1>12. CASE Restart
  BY <1>12 DEF Restart
<1>13. CASE UNCHANGED vars
  BY <1>13 DEF vars
<1> QED
  BY <1>1, <1>2, <1>3, <1>4, <1>5, <1>6, <1>7, <1>8, <1>9, <1>10, <1>11, <1>12, <1>13
     DEF Next, Machine, Hook, Tick, TickFails

LEMMA BoundsStep ==
    ASSUME Shapes, Bounds, [Next]_vars
    PROVE  Bounds'
<1> USE CollectorAssumption
<1>1. ASSUME NEW g \in Tgid, NotePid(g) PROVE Bounds'
  <2>1. Within(Noted', PidCap)
    <3>1. CASE g \notin Noted /\ HasRoom(Noted, PidCap)
      <4>1. Noted' \subseteq Noted \cup {g}
        BY <1>1, <3>1 DEF NotePid, Noted, Shapes
      <4>2. Within(Noted \cup {g}, PidCap)
        BY <3>1, RoomForOne DEF Bounds
      <4> QED BY <4>1, <4>2, FewerFit
    <3>2. CASE ~(g \notin Noted /\ HasRoom(Noted, PidCap))
      <4>1. Noted' = Noted
        BY <1>1, <3>2 DEF NotePid, Noted
      <4> QED BY <4>1 DEF Bounds
    <3> QED BY <3>1, <3>2
  <2>2. Within(ring', RingCap)
    <3>1. CASE HasRoom(ring, RingCap)
      <4>1. ring' \subseteq ring \cup {g}
        BY <1>1 DEF NotePid
      <4>2. Within(ring \cup {g}, RingCap)
        BY <3>1, RoomForOne DEF Bounds
      <4> QED BY <4>1, <4>2, FewerFit
    <3>2. CASE ~HasRoom(ring, RingCap)
      <4>1. ring' = ring
        BY <1>1, <3>2 DEF NotePid
      <4> QED BY <4>1 DEF Bounds
    <3> QED BY <3>1, <3>2
  <2>3. Keys' = Keys
    BY <1>1 DEF NotePid, Keys
  <2> QED BY <2>1, <2>2, <2>3 DEF Bounds
<1>2. ASSUME NEW g \in Tgid, NEW c \in Chunk, Count(g, c) PROVE Bounds'
  <2>1. Noted' = Noted /\ ring' = ring
    BY <1>2 DEF Count, Noted
  <2>2. CASE g \in Keys \/ HasRoom(Keys, TrafficCap)
    <3>1. Keys' \subseteq Keys \cup {g}
      BY <1>2, <2>2 DEF Count, Keys, Shapes
    <3>2. Within(Keys \cup {g}, TrafficCap)
      BY <2>2, RoomForOne DEF Bounds
    <3>3. Within(Keys', TrafficCap)
      BY <3>1, <3>2, FewerFit
    <3> QED BY <2>1, <3>3 DEF Bounds
  <2>3. CASE ~(g \in Keys \/ HasRoom(Keys, TrafficCap))
    <3>1. Keys' = Keys
      BY <1>2, <2>3 DEF Count, Keys
    <3> QED BY <2>1, <3>1 DEF Bounds
  <2> QED BY <2>2, <2>3
<1>3. CASE Noted' \subseteq Noted /\ ring' \subseteq ring /\ Keys' \subseteq Keys
  BY <1>3, FewerFit DEF Bounds
<1>4. CASE \E g \in Tgid : Evict(g)
  <2>1. Noted' \subseteq Noted /\ ring' = ring /\ Keys' = Keys
    BY <1>4 DEF Evict, Noted, Keys, Shapes
  <2> QED BY <2>1, <1>3
<1>5. CASE RemoveKey
  <2>1. Noted' = Noted /\ ring' = ring /\ Keys' \subseteq Keys
    BY <1>5 DEF RemoveKey, Noted, Keys, Shapes
  <2> QED BY <2>1, <1>3
<1>6. CASE Restart
  <2>1. Noted' = {} /\ ring' = {} /\ Keys' = {}
    BY <1>6 DEF Restart, Noted, Keys
  <2> QED BY <2>1, <1>3
<1>7. CASE TakeNewPids
  <2>1. Noted' = Noted /\ ring' = {} /\ Keys' = Keys
    BY <1>7 DEF TakeNewPids, Noted, Keys
  <2> QED BY <2>1, <1>3
<1>8. CASE UNCHANGED maps
  <2>1. Noted' = Noted /\ ring' = ring /\ Keys' = Keys
    BY <1>8 DEF maps, Noted, Keys
  <2> QED BY <2>1, <1>3
<1>9. \/ \E g \in Tgid : NotePid(g) \/ \E c \in Chunk : Count(g, c)
      \/ \E g \in Tgid : Evict(g)
      \/ RemoveKey \/ Restart \/ TakeNewPids \/ UNCHANGED maps
  BY DEF Next, Machine, Hook, Tick, TickFails, Fork, Exit, Reap, ScopeFails, ListKeys,
     ResolveNew, ResolveNewFails, ReadKey, RemoveFails, Attribute, AttributeFails, Flush,
     FlushFails, ScanDead, EvictFails, TickDone, maps, vars
<1> QED BY <1>1, <1>2, <1>4, <1>5, <1>6, <1>7, <1>8, <1>9

LEMMA TypeStep == TypeInv /\ [Next]_vars => TypeInv'
BY ShapesStep, BoundsStep DEF TypeInv

(* The kernel's maps and the drain thread's cache keep their types, and    *)
(* TRAFFIC, PID_META and NEW_PIDS their max_entries, under any             *)
(* interleaving of processes, hooks and ticks, and any faults.             *)
THEOREM TypeCorrect == Spec => []TypeOK
BY TypeInit, TypeStep, TypeSuffices, PTL DEF Spec

-----------------------------------------------------------------------------
(* A chunk is in one place. *)

(* From the hook that counts it to the accumulator a chunk is in one       *)
(* counter, and in the value that was read from that counter: it stays in  *)
(* the counter until the removal succeeds, and only then is it added.      *)
Sent(c) == sender[c] # NoProc
OnePlace ==
    \A g \in Tgid : \A c \in traffic[g] :
        /\ Sent(c) /\ attributed[c] = NoIdentity
        /\ \A h \in Tgid \ {g} : c \notin traffic[h]
UnsentIsNowhere == \A c \in Chunk : ~Sent(c) => attributed[c] = NoIdentity
ReadingKept == pc = "remove" => reading \subseteq traffic[key]
UnreadIsNew == pc = "remove" => traffic[key] \subseteq reading \cup unread
ReadingTaken ==
    pc = "attribute" =>
        \A c \in reading : /\ Sent(c) /\ attributed[c] = NoIdentity
                           /\ \A g \in Tgid : c \notin traffic[g]
ReadingDone == pc \notin {"remove", "attribute"} => reading = {}
HooksRun == \A g \in inHook : Alive(g)

OnceInv ==
    /\ OnePlace /\ UnsentIsNowhere
    /\ ReadingKept /\ ReadingTaken /\ ReadingDone
    /\ HooksRun /\ ReadOnce

LEMMA OnceInit == Init => OnceInv
BY DEF Init, OnceInv, OnePlace, UnsentIsNowhere, ReadingKept, ReadingTaken, ReadingDone,
   HooksRun, ReadOnce

(* A step that touches neither counters nor what was read.                 *)
LEMMA OnceKept ==
    ASSUME OnceInv, UNCHANGED <<traffic, reading, attributed, sender, again>>,
           \/ pc' = pc /\ key' = key
           \/ pc' \notin {"remove", "attribute"} /\ reading = {}
    PROVE  OnePlace' /\ UnsentIsNowhere' /\ ReadingKept' /\ ReadingTaken' /\ ReadingDone'
           /\ ReadOnce'
BY DEF OnceInv, OnePlace, UnsentIsNowhere, ReadingKept, ReadingTaken, ReadingDone, ReadOnce,
   Sent

(* A hook runs in the context of its process, which does not end meanwhile. *)
LEMMA HooksRunStep == ASSUME Shapes, HooksRun, [Next]_vars PROVE HooksRun'
<1> USE DEF HooksRun, Alive, Shapes
<1>1. ASSUME NEW g \in Tgid, \/ \E p \in Proc : Fork(g, p)
                             \/ Exit(g) \/ Reap(g)
      PROVE  HooksRun'
  BY <1>1 DEF Fork, Exit, Reap
<1>2. ASSUME NEW g \in Tgid, NotePid(g) PROVE HooksRun'
  BY <1>2 DEF NotePid, processes
<1>3. CASE inHook' \subseteq inHook /\ UNCHANGED processes
  BY <1>3 DEF processes
<1>4. \/ \E g \in Tgid : \/ \E p \in Proc : Fork(g, p)
                         \/ Exit(g) \/ Reap(g) \/ NotePid(g)
      \/ inHook' \subseteq inHook /\ UNCHANGED processes
  BY DEF Next, Machine, Hook, Tick, TickFails, Count, ScopeFails, TakeNewPids, ListKeys,
     RemoveKey, Attribute, Flush, ScanDead, TickDone, ResolveNew, ReadKey, Evict, RemoveFails,
     AttributeFails, FlushFails, ResolveNewFails, EvictFails, Restart, processes, vars
<1> QED BY <1>1, <1>2, <1>3, <1>4

(* A counted chunk was nowhere before.                                     *)
LEMMA OnceCount ==
    ASSUME Shapes, KeyHeld, OnceInv, NEW g \in Tgid, NEW c \in Chunk, Count(g, c)
    PROVE  OnePlace' /\ UnsentIsNowhere' /\ ReadingKept' /\ ReadingTaken' /\ ReadingDone'
           /\ ReadOnce'
<1> USE DEF OnceInv
<1>1. /\ sender[c] = NoProc /\ g \in inHook
      /\ sender' = [sender EXCEPT ![c] = proc[g]]
      /\ UNCHANGED <<pc, key, reading, attributed, again>>
  BY DEF Count, drain
<1>2. proc[g] # NoProc
  BY <1>1 DEF HooksRun, Alive
<1>3. ~Sent(c) /\ Sent(c)' /\ \A k \in Chunk \ {c} : Sent(k)' = Sent(k)
  BY <1>1, <1>2 DEF Sent, Shapes
<1>4. attributed[c] = NoIdentity /\ \A h \in Tgid : c \notin traffic[h]
  BY <1>3 DEF UnsentIsNowhere, OnePlace
<1>5. \A h \in Tgid : /\ traffic[h] \subseteq Chunk
                      /\ traffic[h] \subseteq traffic'[h]
                      /\ traffic'[h] \subseteq IF h = g THEN traffic[h] \cup {c} ELSE traffic[h]
  BY DEF Count, Shapes
<1>6. OnePlace' /\ UnsentIsNowhere'
  <2>1. ASSUME NEW h \in Tgid, NEW k \in traffic'[h]
        PROVE  /\ Sent(k)' /\ attributed[k] = NoIdentity
               /\ \A i \in Tgid \ {h} : k \notin traffic'[i]
    <3>1. CASE k = c
      BY <3>1, <1>3, <1>4, <1>5
    <3>2. CASE k # c
      BY <3>2, <2>1, <1>3, <1>5 DEF OnePlace
    <3> QED BY <3>1, <3>2
  <2> QED BY <2>1, <1>1, <1>3 DEF OnePlace, UnsentIsNowhere
<1>7. ReadingKept' /\ ReadingDone' /\ ReadOnce'
  BY <1>1, <1>5 DEF ReadingKept, ReadingDone, ReadOnce, KeyHeld
<1>8. ReadingTaken'
  <2> SUFFICES ASSUME pc = "attribute", NEW k \in reading
               PROVE  /\ Sent(k)' /\ attributed[k] = NoIdentity
                      /\ \A h \in Tgid : k \notin traffic'[h]
    BY <1>1 DEF ReadingTaken
  <2>1. k # c /\ k \in Chunk
    BY <1>3 DEF ReadingTaken, Shapes
  <2> QED BY <2>1, <1>3, <1>5 DEF ReadingTaken
<1> QED BY <1>6, <1>7, <1>8

LEMMA OnceStep == ASSUME Shapes, KeyHeld, OnceInv, [Next]_vars PROVE OnceInv'
<1> DEFINE Once == /\ OnePlace' /\ UnsentIsNowhere' /\ ReadingKept' /\ ReadingTaken'
                   /\ ReadingDone' /\ ReadOnce'
<1>1. ASSUME NEW g \in Tgid, NEW c \in Chunk, Count(g, c) PROVE Once
  BY <1>1, OnceCount
<1>2. ASSUME NEW g \in Tgid, ReadKey(g) PROVE Once
  <2>1. /\ pc' = "remove" /\ key' = g /\ reading' = traffic[g]
        /\ UNCHANGED <<traffic, attributed, sender, again>>
    BY <1>2 DEF ReadKey, maps, history
  <2> QED BY <2>1 DEF OnceInv, OnePlace, UnsentIsNowhere, ReadingKept, ReadingTaken,
                      ReadingDone, ReadOnce, Sent
<1>3. ASSUME RemoveKey PROVE Once
  <2>1. /\ pc = "remove" /\ pc' = "attribute" /\ key \in Tgid
        /\ UNCHANGED <<key, reading, attributed, sender, again>>
        /\ \A g \in Tgid : traffic'[g] = IF g = key THEN {} ELSE traffic[g]
    BY <1>3 DEF RemoveKey, history, Shapes, KeyHeld
  <2>2. OnePlace' /\ UnsentIsNowhere' /\ ReadOnce'
    BY <2>1 DEF OnceInv, OnePlace, UnsentIsNowhere, ReadOnce, Sent
  <2>3. \A c \in reading : /\ Sent(c) /\ attributed[c] = NoIdentity
                           /\ \A g \in Tgid : c \notin traffic'[g]
    BY <2>1 DEF OnceInv, OnePlace, ReadingKept
  <2>4. ReadingKept' /\ ReadingTaken' /\ ReadingDone'
    BY <2>1, <2>3 DEF ReadingKept, ReadingTaken, ReadingDone, Sent
  <2> QED BY <2>2, <2>4
<1>4. ASSUME Attribute PROVE Once
  <2>1. /\ pc = "attribute" /\ pc' = "read" /\ reading' = {}
        /\ UNCHANGED <<traffic, sender>>
        /\ \A c \in Chunk : c \notin reading => attributed'[c] = attributed[c]
        /\ again' = again \cup {c \in reading : attributed[c] # NoIdentity}
    BY <1>4 DEF Attribute, maps
  <2>2. /\ again' = {}
        /\ \A c \in reading : Sent(c) /\ \A g \in Tgid : c \notin traffic[g]
    BY <2>1 DEF OnceInv, ReadingTaken, ReadOnce
  <2>3. OnePlace' /\ UnsentIsNowhere'
    BY <2>1, <2>2 DEF OnceInv, OnePlace, UnsentIsNowhere, Sent, Shapes
  <2> QED BY <2>1, <2>2, <2>3 DEF ReadingKept, ReadingTaken, ReadingDone, ReadOnce
<1>5. ASSUME RemoveFails \/ AttributeFails PROVE Once
  <2>1. pc' = "read" /\ reading' = {} /\ UNCHANGED <<traffic, attributed, sender, again>>
    BY <1>5 DEF RemoveFails, AttributeFails, maps, history
  <2> QED BY <2>1 DEF OnceInv, OnePlace, UnsentIsNowhere, ReadingKept, ReadingTaken,
                      ReadingDone, ReadOnce, Sent
<1>6. ASSUME Restart PROVE Once
  <2>1. /\ pc' = "asleep" /\ reading' = {} /\ UNCHANGED <<attributed, sender, again>>
        /\ \A g \in Tgid : traffic'[g] = {}
    BY <1>6 DEF Restart
  <2> QED BY <2>1 DEF OnceInv, OnePlace, UnsentIsNowhere, ReadingKept, ReadingTaken,
                      ReadingDone, ReadOnce, Sent
<1>7. ASSUME /\ UNCHANGED <<traffic, reading, attributed, sender, again>>
             /\ \/ pc' = pc /\ key' = key
                \/ pc' \notin {"remove", "attribute"} /\ reading = {}
      PROVE  Once
  BY <1>7, OnceKept
<1>8. \/ \E g \in Tgid : ReadKey(g) \/ \E c \in Chunk : Count(g, c)
      \/ RemoveKey \/ Attribute \/ RemoveFails \/ AttributeFails \/ Restart
      \/ /\ UNCHANGED <<traffic, reading, attributed, sender, again>>
         /\ \/ pc' = pc /\ key' = key
            \/ pc' \notin {"remove", "attribute"} /\ reading = {}
  <2>1. CASE TakeNewPids \/ ListKeys \/ Flush \/ FlushFails \/ ScanDead \/ TickDone
    <3>1. UNCHANGED <<traffic, reading, attributed, sender, again>>
      BY <2>1 DEF TakeNewPids, ListKeys, Flush, FlushFails, ScanDead, TickDone, maps, history
    <3>2. pc \notin {"remove", "attribute"} /\ pc' \notin {"remove", "attribute"}
      BY <2>1 DEF TakeNewPids, ListKeys, Flush, FlushFails, ScanDead, TickDone
    <3> QED BY <3>1, <3>2 DEF OnceInv, ReadingDone
  <2>2. CASE \/ Machine
             \/ \E g \in Tgid : NotePid(g) \/ ScopeFails(g)
             \/ \E g \in Tgid : ResolveNew(g) \/ ResolveNewFails(g) \/ Evict(g) \/ EvictFails(g)
             \/ UNCHANGED vars
    BY <2>2 DEF Machine, Fork, Exit, Reap, NotePid, ScopeFails, ResolveNew, ResolveNewFails,
       Evict, EvictFails, maps, drain, history, vars
  <2> QED BY <2>1, <2>2 DEF Next, Hook, Tick, TickFails
<1>9. Once
  BY <1>1, <1>2, <1>3, <1>4, <1>5, <1>6, <1>7, <1>8
<1>10. HooksRun'
  BY HooksRunStep DEF OnceInv
<1> QED BY <1>9, <1>10 DEF OnceInv

(* No bytes enter the accumulator twice, however hooks, failed map calls   *)
(* and restarts fall between the reading of a counter and its removal      *)
(* (collector.rs drain_traffic).                                           *)
THEOREM CountersReadOnce == Spec => []ReadOnce
<1>1. Init => TypeInv /\ OnceInv
  BY TypeInit, OnceInit
<1>2. TypeInv /\ OnceInv /\ [Next]_vars => TypeInv' /\ OnceInv'
  BY TypeStep, OnceStep DEF TypeInv
<1>3. OnceInv => ReadOnce
  BY DEF OnceInv
<1> QED BY <1>1, <1>2, <1>3, PTL DEF Spec

(* While a key is worked on, its counter holds what was read of it and what *)
(* was added since.                                                        *)
LEMMA UnreadStep == ASSUME Shapes, KeyHeld, UnreadIsNew, [Next]_vars PROVE UnreadIsNew'
<1> SUFFICES ASSUME pc' = "remove" PROVE traffic'[key'] \subseteq reading' \cup unread'
  BY DEF UnreadIsNew
<1>1. ASSUME NEW g \in Tgid, ReadKey(g) PROVE traffic'[key'] \subseteq reading' \cup unread'
  BY <1>1 DEF ReadKey, maps
<1>2. ASSUME NEW g \in Tgid, NEW c \in Chunk, Count(g, c)
      PROVE  traffic'[key'] \subseteq reading' \cup unread'
  <2>1. /\ pc = "remove" /\ key \in Tgid /\ UNCHANGED <<key, reading>>
        /\ unread' = IF g = key THEN unread \cup {c} ELSE unread
        /\ traffic'[key] \subseteq IF g = key THEN traffic[key] \cup {c} ELSE traffic[key]
    BY <1>2 DEF Count, drain, KeyHeld, Shapes
  <2> QED BY <2>1 DEF UnreadIsNew
<1>3. CASE UNCHANGED <<traffic, pc, key, reading, unread>>
  BY <1>3 DEF UnreadIsNew
<1>4. \/ \E g \in Tgid : ReadKey(g) \/ \E c \in Chunk : Count(g, c)
      \/ UNCHANGED <<traffic, pc, key, reading, unread>>
  <2>1. CASE Tick \/ TickFails \/ Restart
    BY <2>1 DEF Tick, TickFails, TakeNewPids, ListKeys, RemoveKey, Attribute, Flush, ScanDead,
       TickDone, ResolveNew, Evict, RemoveFails, AttributeFails, FlushFails, ResolveNewFails,
       EvictFails, Restart, maps, drain, history
  <2>2. CASE Machine \/ Hook \/ UNCHANGED vars
    BY <2>2 DEF Machine, Hook, Fork, Exit, Reap, NotePid, ScopeFails, maps, drain, history, vars
  <2> QED BY <2>1, <2>2 DEF Next
<1> QED BY <1>1, <1>2, <1>3, <1>4

(* What is counted leaves the daemon's hands in three places.              *)
LEMMA HeldIsNotDropped ==
    ASSUME TypeInv, OnceInv, UnreadIsNew, [Next]_vars, NEW c \in Chunk, Held(c)
    PROVE  \/ Held(c)'
           \/ AttributeFails /\ c \in reading
           \/ Restart
           \/ RemoveKey /\ c \in unread
<1> USE DEF Held
<1>1. ASSUME RemoveKey PROVE Held(c)' \/ c \in unread
  <2>1. /\ pc = "remove" /\ key \in Tgid /\ UNCHANGED <<reading, attributed>>
        /\ \A g \in Tgid \ {key} : traffic'[g] = traffic[g]
    BY <1>1 DEF RemoveKey, TypeInv, KeyHeld, Shapes
  <2> QED BY <2>1 DEF UnreadIsNew
<1>2. CASE RemoveFails
  <2>1. pc = "remove" /\ key \in Tgid /\ UNCHANGED <<traffic, attributed>>
    BY <1>2 DEF RemoveFails, maps, TypeInv, KeyHeld
  <2> QED BY <2>1 DEF OnceInv, ReadingKept
<1>3. CASE Attribute
  <2>1. /\ pc = "attribute" /\ key \in Tgid /\ traffic' = traffic
        /\ attributed'[c] = IF c \in reading THEN Resolved(key) ELSE attributed[c]
    BY <1>3 DEF Attribute, maps, TypeInv, KeyHeld
  <2> QED BY <2>1, RecordType DEF TypeInv
<1>4. ASSUME AttributeFails PROVE Held(c)' \/ c \in reading
  BY <1>4 DEF AttributeFails, maps
<1>5. CASE /\ UNCHANGED attributed /\ reading \subseteq reading'
           /\ \A g \in Tgid : traffic[g] \subseteq traffic'[g]
  BY <1>5
<1>6. \/ RemoveKey \/ RemoveFails \/ Attribute \/ AttributeFails \/ Restart
      \/ /\ UNCHANGED attributed /\ reading \subseteq reading'
         /\ \A g \in Tgid : traffic[g] \subseteq traffic'[g]
  <2>1. CASE Tick \/ TickFails
    BY <2>1 DEF Tick, TickFails, TakeNewPids, ListKeys, Flush, ScanDead, TickDone, ResolveNew,
       ReadKey, Evict, EvictFails, FlushFails, ResolveNewFails, maps, OnceInv, ReadingDone
  <2>2. CASE Machine \/ UNCHANGED vars
    BY <2>2 DEF Machine, Fork, Exit, Reap, maps, drain, vars
  <2>3. CASE Hook
    BY <2>3 DEF Hook, NotePid, Count, ScopeFails, maps, drain, TypeInv, Shapes
  <2> QED BY <2>1, <2>2, <2>3 DEF Next
<1> QED BY <1>1, <1>2, <1>3, <1>4, <1>5, <1>6

(* Bytes that were counted stay in a counter or in the drain thread's      *)
(* hands until they enter the accumulator; only a store that fails at that *)
(* moment, a restart of the daemon and the removal of a counter that grew  *)
(* after it was read lose any (collector.rs drain_traffic, enrich.rs).     *)
THEOREM BytesAreNotDropped == Spec => DropsOnlyOnFailure
<1> DEFINE Inv == TypeInv /\ OnceInv /\ UnreadIsNew
<1>1. Init => Inv
  BY TypeInit, OnceInit DEF Init, UnreadIsNew
<1>2. Inv /\ [Next]_vars => Inv'
  BY TypeStep, OnceStep, UnreadStep DEF TypeInv
<1>3. Inv /\ [Next]_vars
        => [\A c \in Chunk :
              Held(c) => \/ Held(c)'
                         \/ AttributeFails /\ c \in reading
                         \/ Restart
                         \/ RemoveKey /\ c \in unread]_vars
  BY HeldIsNotDropped
<1> QED BY <1>1, <1>2, <1>3, PTL DEF Spec, DropsOnlyOnFailure

-----------------------------------------------------------------------------
(* Bytes are charged to their sender. *)

(* All that is known of a tgid: its process, the one whose metadata the    *)
(* kernel holds, the one it is cached under, and the senders of the bytes  *)
(* counted for it and not yet in the accumulator.  Each of them has had    *)
(* the tgid, and of two different ones at least one took it while a trace  *)
(* of an earlier one was left.                                             *)
Known(g) ==
    {p \in Proc \ {NoProc} :
        \/ p \in {proc[g], pidMeta[g], cache[g].of}
        \/ \E c \in traffic[g] : p = sender[c]
        \/ g = key /\ \E c \in reading : p = sender[c]}
Related(g, p, q) ==
    {p, q} \subseteq owners[g] /\ (p = q \/ p \in heirs \/ q \in heirs)
KnownAreRelated == \A g \in Tgid : \A p, q \in Known(g) : Related(g, p, q)

ChargedInv == KnownAreRelated /\ ChargedToSender

LEMMA ChargedInit == Init => ChargedInv
<1> SUFFICES ASSUME Init PROVE ChargedInv
  OBVIOUS
<1>1. \A g \in Tgid : Known(g) = {}
  BY DEF Init, Known, NoIdentity
<1>2. ChargedToSender
  BY DEF Init, ChargedToSender, NoIdentity
<1> QED BY <1>1, <1>2 DEF ChargedInv, KnownAreRelated

(* Nothing new is known of any tgid.                                       *)
LEMMA KnownKept ==
    ASSUME KnownAreRelated, UNCHANGED owners, UNCHANGED heirs,
           \A g \in Tgid : Known(g)' \subseteq Known(g)
    PROVE  KnownAreRelated'
BY DEF KnownAreRelated, Related

(* A new process is an heir, or nothing is known of an earlier one.        *)
LEMMA KnownFork ==
    ASSUME Shapes, KnownAreRelated, NEW g \in Tgid, NEW p \in Proc, Fork(g, p)
    PROVE  KnownAreRelated'
<1>1. /\ proc[g] = NoProc /\ proc' = [proc EXCEPT ![g] = p]
      /\ owners' = [owners EXCEPT ![g] = @ \cup {p}]
      /\ heirs' = IF TraceLeft(g) THEN heirs \cup {p} ELSE heirs
      /\ UNCHANGED <<pidMeta, cache, traffic, key, reading, sender>>
  BY DEF Fork, maps, drain
<1>2. \A h \in Tgid : Known(h)' \subseteq IF h = g THEN Known(g) \cup {p} ELSE Known(h)
  BY <1>1 DEF Known, Shapes
<1>3. TraceLeft(g) \/ Known(g) = {}
  BY <1>1 DEF TraceLeft, Known, Noted, Keys
<1>4. \A h \in Tgid : owners[h] \subseteq owners'[h]
  BY <1>1 DEF Shapes
<1>5. p \in owners'[g] /\ heirs \subseteq heirs' /\ (TraceLeft(g) => p \in heirs')
  BY <1>1 DEF Shapes
<1> SUFFICES ASSUME NEW h \in Tgid, NEW q \in Known(h)', NEW r \in Known(h)'
             PROVE  Related(h, q, r)'
  BY DEF KnownAreRelated
<1>6. CASE q \in Known(h) /\ r \in Known(h)
  BY <1>4, <1>5, <1>6 DEF KnownAreRelated, Related
<1>7. CASE ~(q \in Known(h) /\ r \in Known(h))
  <2>1. h = g /\ {q, r} \subseteq Known(g) \cup {p}
    BY <1>2, <1>7
  <2>2. \A k \in Known(g) : k \in owners[g]
    BY DEF KnownAreRelated, Related
  <2> QED BY <2>1, <2>2, <1>3, <1>4, <1>5, <1>7 DEF Related
<1> QED BY <1>6, <1>7

(* What a tgid resolves to was known of it. *)
LEMMA ResolvedIsKnown ==
    ASSUME Shapes, NEW g \in Tgid
    PROVE  Resolved(g).of = NoProc \/ Resolved(g).of \in Known(g)
<1>1. /\ Nobody.of = NoProc
      /\ \A p : Full(p).of = p /\ Degraded(p).of = p
  BY DEF Nobody, Full, Degraded
<1>2. Record(g).of \in {NoProc, proc[g], pidMeta[g]}
  BY <1>1 DEF Record
<1>3. Resolved(g).of \in {NoProc, proc[g], pidMeta[g], cache[g].of}
  BY <1>2 DEF Resolved
<1>4. Resolved(g).of \in Proc \cup {NoProc}
  BY <1>1, RecordType DEF Identity
<1> QED BY <1>3, <1>4 DEF Known

LEMMA KnownStep ==
    ASSUME Shapes, KeyHeld, OnceInv, KnownAreRelated, [Next]_vars
    PROVE  KnownAreRelated'
<1> USE DEF Shapes
<1>1. ASSUME NEW g \in Tgid, NEW p \in Proc, Fork(g, p) PROVE KnownAreRelated'
  BY <1>1, KnownFork
<1>2. ASSUME NEW g \in Tgid, NEW c \in Chunk, Count(g, c) PROVE KnownAreRelated'
  <2>1. /\ UNCHANGED <<proc, owners, heirs, pidMeta, cache, key, reading>>
        /\ sender[c] = NoProc
        /\ \A k \in Chunk : sender'[k] = IF k = c THEN proc[g] ELSE sender[k]
        /\ \A h \in Tgid : traffic'[h] \subseteq IF h = g THEN traffic[h] \cup {c}
                                                       ELSE traffic[h]
    BY <1>2 DEF Count, processes, drain
  <2>2. \A h \in Tgid : c \notin traffic[h] /\ (h = key /\ reading # {} => c \notin reading)
    BY <2>1 DEF OnceInv, OnePlace, ReadingKept, ReadingTaken, ReadingDone, Sent, KeyHeld
  <2>3. \A h \in Tgid : Known(h)' \subseteq Known(h)
    BY <2>1, <2>2 DEF Known
  <2> QED BY <2>1, <2>3, KnownKept
<1>3. ASSUME NEW g \in Tgid, Remember(g),
             UNCHANGED <<processes, pidMeta, traffic, sender, heirs>>,
             UNCHANGED <<key, reading>> \/ reading' = {}
      PROVE  KnownAreRelated'
  <2>1. /\ \A h \in Tgid : cache'[h].of = IF h = g THEN Resolved(g).of ELSE cache[h].of
        /\ UNCHANGED <<proc, owners>>
    BY <1>3 DEF Remember, processes
  <2>2. \A h \in Tgid : Known(h)' \subseteq Known(h)
    BY <1>3, <2>1, ResolvedIsKnown DEF Known
  <2> QED BY <1>3, <2>1, <2>2, KnownKept
<1>4. CASE /\ UNCHANGED <<owners, heirs, sender>>
           /\ \A g \in Tgid : /\ proc'[g] \in {proc[g], NoProc}
                              /\ pidMeta'[g] \in {pidMeta[g], proc[g], NoProc}
                              /\ cache'[g].of \in {cache[g].of, NoProc}
                              /\ traffic'[g] \subseteq traffic[g]
           /\ \/ UNCHANGED <<key, reading>>
              \/ reading' = {}
              \/ key' \in Tgid /\ reading' = traffic[key']
  <2>1. \A g \in Tgid : Known(g)' \subseteq Known(g)
    BY <1>4 DEF Known
  <2> QED BY <1>4, <2>1, KnownKept
<1>5. ASSUME NEW g \in Tgid, ResolveNew(g) PROVE KnownAreRelated'
  BY <1>5, <1>3 DEF ResolveNew, maps, history
<1>6. CASE Attribute
  BY <1>6, <1>3 DEF Attribute, KeyHeld, maps
<1>7. NoIdentity.of = NoProc
  BY DEF NoIdentity
<1>8. ASSUME NEW g \in Tgid,
             Exit(g) \/ Reap(g) \/ NotePid(g) \/ ScopeFails(g) \/ ResolveNewFails(g)
      PROVE  KnownAreRelated'
  BY <1>8, <1>4 DEF Exit, Reap, NotePid, Captured, ScopeFails, ResolveNewFails, processes,
     maps, drain, history
<1>9. ASSUME NEW g \in Tgid, ReadKey(g) \/ Evict(g) \/ EvictFails(g) PROVE KnownAreRelated'
  BY <1>9, <1>4, <1>7 DEF ReadKey, Evict, EvictFails, processes, maps, history
<1>10. CASE RemoveKey \/ RemoveFails \/ AttributeFails \/ Restart
  BY <1>10, <1>4, <1>7 DEF RemoveKey, RemoveFails, AttributeFails, Restart, processes, maps,
     history
<1>11. CASE \/ TakeNewPids \/ ListKeys \/ Flush \/ FlushFails \/ ScanDead \/ TickDone
            \/ UNCHANGED vars
  BY <1>11, <1>4 DEF TakeNewPids, ListKeys, Flush, FlushFails, ScanDead, TickDone, processes,
     maps, drain, history, vars
<1> QED
  BY <1>1, <1>2, <1>5, <1>6, <1>8, <1>9, <1>10, <1>11 DEF Next, Machine, Hook, Tick, TickFails

LEMMA ChargedStep ==
    ASSUME Shapes, KeyHeld, OnceInv, ChargedInv, [Next]_vars
    PROVE  ChargedInv'
<1>1. owners \in [Tgid -> SUBSET Proc] /\ heirs \subseteq heirs'
      /\ \A g \in Tgid : owners[g] \subseteq owners'[g]
  <2>1. ASSUME NEW g \in Tgid, NEW p \in Proc, Fork(g, p)
        PROVE  heirs \subseteq heirs' /\ \A h \in Tgid : owners[h] \subseteq owners'[h]
    BY <2>1 DEF Fork, Shapes
  <2>2. (\E g \in Tgid : \E p \in Proc : Fork(g, p)) \/ UNCHANGED <<owners, heirs>>
    BY DEF Next, Machine, Hook, Tick, TickFails, Exit, Reap, NotePid, Count, ScopeFails,
       TakeNewPids, ListKeys, RemoveKey, Attribute, Flush, ScanDead, TickDone, ResolveNew,
       ReadKey, Evict, RemoveFails, AttributeFails, FlushFails, ResolveNewFails, EvictFails,
       Restart, processes, history, vars
  <2> QED BY <2>1, <2>2 DEF Shapes
<1>2. ASSUME NEW c \in Chunk,
             attributed'[c].of \notin {NoProc, sender'[c]}
      PROVE  /\ \E g \in Tgid : {attributed'[c].of, sender'[c]} \subseteq owners'[g]
             /\ attributed'[c].of \in heirs' \/ sender'[c] \in heirs'
  <2>1. CASE attributed'[c] = attributed[c] /\ sender'[c] = sender[c]
    BY <1>1, <1>2, <2>1 DEF ChargedInv, ChargedToSender
  <2>2. CASE Attribute /\ c \in reading
    <3>1. /\ pc = "attribute" /\ key \in Tgid /\ attributed'[c] = Resolved(key)
          /\ UNCHANGED <<owners, heirs, sender>>
      BY <2>2 DEF Attribute, KeyHeld, processes
    <3>2. sender[c] \in Known(key)
      BY <2>2, <3>1 DEF OnceInv, ReadingTaken, Sent, Known, Shapes
    <3>3. Resolved(key).of \in Known(key)
      BY <1>2, <3>1, ResolvedIsKnown
    <3>4. Related(key, Resolved(key).of, sender[c])
      BY <3>1, <3>2, <3>3 DEF ChargedInv, KnownAreRelated
    <3> QED BY <1>2, <3>1, <3>4 DEF Related
  <2>3. ASSUME NEW g \in Tgid, NEW k \in Chunk, Count(g, k)
        PROVE  attributed'[c] = attributed[c] /\ sender'[c] = sender[c]
    <3>1. /\ attributed' = attributed /\ sender[k] = NoProc
          /\ sender' = [sender EXCEPT ![k] = proc[g]]
      BY <2>3 DEF Count, drain
    <3>2. attributed[k] = NoIdentity
      BY <3>1 DEF OnceInv, UnsentIsNowhere, Sent
    <3>3. NoIdentity.of = NoProc
      BY DEF NoIdentity
    <3>4. c # k
      BY <1>2, <3>1, <3>2, <3>3
    <3> QED BY <3>1, <3>4 DEF Shapes
  <2>4. \/ attributed'[c] = attributed[c] /\ sender'[c] = sender[c]
        \/ Attribute /\ c \in reading
        \/ \E g \in Tgid : \E k \in Chunk : Count(g, k)
    <3>1. CASE Attribute
      BY <3>1 DEF Attribute
    <3>2. CASE ~Attribute
      BY <3>2 DEF Next, Machine, Hook, Tick, TickFails, Fork, Exit, Reap, NotePid, ScopeFails,
         TakeNewPids, ListKeys, RemoveKey, Flush, ScanDead, TickDone, ResolveNew, ReadKey,
         Evict, RemoveFails, AttributeFails, FlushFails, ResolveNewFails, EvictFails, Restart,
         drain, history, vars
    <3> QED BY <3>1, <3>2
  <2> QED BY <2>1, <2>2, <2>3, <2>4
<1>3. ChargedToSender'
  BY <1>2 DEF ChargedToSender
<1>4. KnownAreRelated'
  BY KnownStep DEF ChargedInv
<1> QED BY <1>3, <1>4 DEF ChargedInv

(* Whatever is captured or cached of one tgid is never taken for           *)
(* another's, and a process is charged with the bytes of another one only  *)
(* where a trace of the earlier process of their tgid was left when the    *)
(* later one took it (main.rs note_pid, collector.rs resolve and           *)
(* gc_dead_tgids): for any reuse of tgids, map sizes and faults.           *)
THEOREM BytesChargedToSender == Spec => []ChargedToSender
<1> DEFINE Inv == TypeInv /\ OnceInv /\ ChargedInv
<1>1. Init => Inv
  BY TypeInit, OnceInit, ChargedInit
<1>2. Inv /\ [Next]_vars => Inv'
  BY TypeStep, OnceStep, ChargedStep DEF TypeInv
<1>3. Inv => ChargedToSender
  BY DEF ChargedInv
<1> QED BY <1>1, <1>2, <1>3, PTL DEF Spec

-----------------------------------------------------------------------------
(* The first process of a tgid is named. *)

(* A tgid no process has had yet has left no trace; so the first process   *)
(* that has it is cached under its own identity or not at all, and once    *)
(* its notice was handled it is cached.                                    *)
Untouched(g) ==
    /\ proc[g] = NoProc /\ pidMeta[g] = NoProc /\ traffic[g] = {} /\ cache[g] = NoIdentity
    /\ g \notin inHook /\ g \notin ring /\ g \notin todo
    /\ pc \in {"remove", "attribute"} => g # key
FreshIsUntouched == \A g \in Tgid : owners[g] = {} => Untouched(g)
First(g) == owners[g] = {proc[g]} /\ Alive(g) /\ proc[g] \notin Opaque
FirstNamed == \A g \in Tgid : First(g) => cache[g] \in {NoIdentity, Full(proc[g])}
Handled(g) ==
    /\ pidMeta[g] = proc[g] /\ g \notin ring /\ ~(pc = "new_pids" /\ g \in todo)
    /\ g \notin missed
HandledNamed == \A g \in Tgid : First(g) /\ Handled(g) => cache[g] = Full(proc[g])

NamedInv == FreshIsUntouched /\ FirstNamed /\ HandledNamed

LEMMA NamedSuffices == NamedInv => EagerlyNamed
BY DEF NamedInv, HandledNamed, First, Handled, EagerlyNamed

LEMMA NamedInit == TypeInv /\ Init => NamedInv
BY DEF Init, TypeInv, NamedInv, FreshIsUntouched, Untouched, FirstNamed, HandledNamed, First,
   Alive

(* What resolving a first process that runs caches. *)
LEMMA FirstResolves ==
    ASSUME FirstNamed, NEW g \in Tgid, First(g)
    PROVE  Resolved(g) = Full(proc[g])
BY DEF FirstNamed, First, Resolved, Cached, Record

(* A tgid is taken by a process it has not had: if it is the first one,    *)
(* nothing is known of it.                                                 *)
LEMMA NamedFork ==
    ASSUME Shapes, NamedInv, NEW g \in Tgid, NEW p \in Proc, Fork(g, p)
    PROVE  NamedInv'
<1>1. /\ owners' = [owners EXCEPT ![g] = @ \cup {p}] /\ proc' = [proc EXCEPT ![g] = p]
      /\ p \notin owners[g]
      /\ UNCHANGED <<zombie, inHook, pidMeta, ring, traffic, cache, pc, todo, key, missed>>
  BY DEF Fork, maps, drain, history
<1>2. FreshIsUntouched'
  BY <1>1 DEF Shapes, NamedInv, FreshIsUntouched, Untouched
<1>3. \A h \in Tgid \ {g} : /\ First(h)' <=> First(h)
                            /\ Handled(h)' <=> Handled(h)
                            /\ proc'[h] = proc[h]
  BY <1>1 DEF First, Handled, Alive, Shapes
<1>4. ASSUME First(g)' PROVE cache[g] = NoIdentity /\ ~Handled(g)'
  <2>1. owners[g] \cup {p} = {p} /\ proc'[g] = p /\ p # NoProc
    BY <1>1, <1>4 DEF First, Alive, Shapes
  <2>2. owners[g] = {}
    BY <2>1, <1>1
  <2>3. cache[g] = NoIdentity /\ pidMeta[g] = NoProc
    BY <2>2 DEF NamedInv, FreshIsUntouched, Untouched
  <2> QED BY <2>1, <2>3, <1>1 DEF Handled
<1>5. FirstNamed' /\ HandledNamed'
  BY <1>1, <1>3, <1>4 DEF NamedInv, FirstNamed, HandledNamed
<1> QED BY <1>2, <1>5 DEF NamedInv

(* An identity is cached for the tgid of a notice or of a counter. *)
LEMMA NamedRemember ==
    ASSUME Shapes, NamedInv, NEW g \in Tgid, Remember(g), owners[g] # {},
           UNCHANGED <<processes, inHook, maps, missed>>,
           todo \ {g} \subseteq todo', todo' \subseteq todo,
           \/ UNCHANGED <<pc, key>>
           \/ pc # "new_pids" /\ pc' \notin {"new_pids", "remove", "attribute"}
    PROVE  NamedInv'
<1>1. \A h \in Tgid : /\ cache'[h] = IF h = g THEN Resolved(g) ELSE cache[h]
                      /\ proc'[h] = proc[h] /\ owners'[h] = owners[h]
                      /\ First(h)' <=> First(h)
  BY DEF Remember, Shapes, processes, First, Alive
<1>2. FreshIsUntouched'
  BY <1>1 DEF NamedInv, FreshIsUntouched, Untouched, processes, maps
<1>3. First(g) => Resolved(g) = Full(proc[g])
  BY FirstResolves DEF NamedInv
<1>4. \A h \in Tgid \ {g} : Handled(h)' => Handled(h)
  BY DEF Handled, processes, maps
<1>5. FirstNamed' /\ HandledNamed'
  BY <1>1, <1>3, <1>4 DEF NamedInv, FirstNamed, HandledNamed
<1> QED BY <1>2, <1>5 DEF NamedInv

(* A notice is sent, or noted as lost. *)
LEMMA NamedNotePid ==
    ASSUME Shapes, NamedInv, NEW g \in Tgid, NotePid(g)
    PROVE  NamedInv'
<1>1. /\ UNCHANGED <<proc, zombie, owners, traffic, cache, pc, todo, key>>
      /\ proc[g] # NoProc
      /\ inHook' = inHook \cup {g}
      /\ \A h \in Tgid \ {g} : /\ pidMeta'[h] = pidMeta[h]
                               /\ h \in ring' <=> h \in ring
                               /\ h \in missed' <=> h \in missed
  BY DEF NotePid, Alive, processes, drain, Shapes
<1>2. /\ ring \subseteq ring' /\ missed \subseteq missed'
      /\ pidMeta'[g] = pidMeta[g] \/ g \in ring' \/ g \in missed'
  BY DEF NotePid
<1>3. owners[g] # {}
  BY <1>1 DEF NamedInv, FreshIsUntouched, Untouched
<1>4. FreshIsUntouched'
  BY <1>1, <1>3 DEF NamedInv, FreshIsUntouched, Untouched
<1>5. \A h \in Tgid : /\ First(h)' <=> First(h)
                      /\ Handled(h)' => Handled(h)
  BY <1>1, <1>2 DEF First, Alive, Handled
<1>6. FirstNamed' /\ HandledNamed'
  BY <1>1, <1>5 DEF NamedInv, FirstNamed, HandledNamed
<1> QED BY <1>4, <1>6 DEF NamedInv

(* A step that caches nothing, learns nothing of a tgid that was not in    *)
(* use, and leaves every first process as far from handled as it was.      *)
LEMMA NamedKept ==
    ASSUME NamedInv, UNCHANGED cache,
           \A g \in Tgid : /\ owners'[g] = owners[g]
                           /\ First(g)' => First(g) /\ proc'[g] = proc[g]
                           /\ First(g)' /\ Handled(g)' => Handled(g)
                           /\ Untouched(g) => Untouched(g)'
    PROVE  NamedInv'
BY DEF NamedInv, FreshIsUntouched, FirstNamed, HandledNamed

(* A tgid that is about to be evicted has no first process any more, also  *)
(* if it has been taken again since the scan.                              *)
DoomedAreLater == pc = "evict" => \A g \in todo : ~First(g)

LEMMA DoomedStep ==
    ASSUME Shapes, NamedInv, DoomedAreLater, [Next]_vars
    PROVE  DoomedAreLater'
<1>1. CASE ScanDead
  BY <1>1 DEF ScanDead, DeadTgids, DoomedAreLater, First, Alive, processes
<1>2. ASSUME NEW g \in Tgid, NEW p \in Proc, Fork(g, p) PROVE DoomedAreLater'
  <2>1. /\ UNCHANGED <<pc, todo, zombie>> /\ p \notin owners[g]
        /\ owners' = [owners EXCEPT ![g] = @ \cup {p}] /\ proc' = [proc EXCEPT ![g] = p]
    BY <1>2 DEF Fork, drain
  <2>2. g \in todo => owners[g] # {}
    BY DEF NamedInv, FreshIsUntouched, Untouched
  <2>3. g \in todo => ~First(g)'
    BY <2>1, <2>2 DEF First, Shapes
  <2>4. \A h \in Tgid \ {g} : First(h)' => First(h)
    BY <2>1 DEF First, Alive, Shapes
  <2>5. todo \subseteq Tgid
    BY DEF Shapes
  <2> QED BY <2>1, <2>3, <2>4, <2>5 DEF DoomedAreLater
<1>3. ASSUME NEW g \in Tgid, Exit(g) \/ Reap(g) PROVE DoomedAreLater'
  <2>1. /\ UNCHANGED <<owners, pc, todo>>
        /\ g \in zombie \/ proc[g] # NoProc
        /\ \/ zombie' = zombie \cup {g} /\ proc' = proc
           \/ zombie' = zombie \ {g} /\ proc' = [proc EXCEPT ![g] = NoProc]
    BY <1>3 DEF Exit, Reap, Alive, drain
  <2>2. \A h \in Tgid : First(h)' => First(h)
    BY <2>1 DEF First, Alive, Shapes
  <2> QED BY <2>1, <2>2 DEF DoomedAreLater, Shapes
<1>4. CASE UNCHANGED processes /\ (pc' = "evict" => pc = "evict" /\ todo' \subseteq todo)
  BY <1>4 DEF DoomedAreLater, First, Alive, processes
<1>5. \/ ScanDead
      \/ \E g \in Tgid : (\E p \in Proc : Fork(g, p)) \/ Exit(g) \/ Reap(g)
      \/ UNCHANGED processes /\ (pc' = "evict" => pc = "evict" /\ todo' \subseteq todo)
  <2>1. CASE Tick \/ TickFails \/ Restart
    BY <2>1 DEF Tick, TickFails, TakeNewPids, ListKeys, RemoveKey, Attribute, Flush, TickDone,
       ResolveNew, ReadKey, Evict, RemoveFails, AttributeFails, FlushFails, ResolveNewFails,
       EvictFails, Restart
  <2>2. CASE Machine \/ Hook \/ UNCHANGED vars
    BY <2>2 DEF Machine, Hook, NotePid, Count, ScopeFails, drain, vars
  <2> QED BY <2>1, <2>2 DEF Next
<1> QED BY <1>1, <1>2, <1>3, <1>4, <1>5

LEMMA NamedStep ==
    ASSUME Shapes, KeyHeld, NamedInv, DoomedAreLater, [Next]_vars
    PROVE  NamedInv'
<1>1. ASSUME NEW g \in Tgid, NEW p \in Proc, Fork(g, p) PROVE NamedInv'
  BY <1>1, NamedFork
<1>2. ASSUME NEW g \in Tgid, NotePid(g) PROVE NamedInv'
  BY <1>2, NamedNotePid
<1>3. ASSUME NEW g \in Tgid, ResolveNew(g) PROVE NamedInv'
  <2>1. /\ pc = "new_pids" /\ g \in todo /\ Remember(g)
        /\ UNCHANGED <<processes, inHook, maps, missed, pc, key>>
        /\ todo' = todo \ {g}
    BY <1>3 DEF ResolveNew, history
  <2>2. owners[g] # {}
    BY <2>1 DEF NamedInv, FreshIsUntouched, Untouched
  <2> QED BY <2>1, <2>2, NamedRemember
<1>4. CASE Attribute
  <2>1. /\ pc = "attribute" /\ pc' = "read" /\ key \in Tgid /\ Remember(key)
        /\ UNCHANGED <<processes, inHook, maps, missed, todo>>
    BY <1>4 DEF Attribute, KeyHeld
  <2>2. owners[key] # {}
    BY <2>1 DEF NamedInv, FreshIsUntouched, Untouched
  <2> QED BY <2>1, <2>2, NamedRemember
<1>5. CASE Restart
  <2>1. /\ UNCHANGED processes /\ inHook' = {} /\ ring' = {} /\ todo' = {}
        /\ pc' = "asleep"
        /\ \A g \in Tgid : /\ pidMeta'[g] = NoProc /\ traffic'[g] = {}
                           /\ cache'[g] = NoIdentity
    BY <1>5 DEF Restart
  <2>2. FreshIsUntouched'
    BY <2>1 DEF NamedInv, FreshIsUntouched, Untouched, processes
  <2>3. FirstNamed' /\ HandledNamed'
    BY <2>1 DEF FirstNamed, HandledNamed, First, Handled, Alive, processes
  <2> QED BY <2>2, <2>3 DEF NamedInv
<1>6. ASSUME NEW g \in Tgid, Evict(g) \/ EvictFails(g) PROVE NamedInv'
  <2>1. /\ UNCHANGED <<processes, inHook, ring, traffic, pc, key, missed>>
        /\ todo' = todo \ {g} /\ pc = "evict" /\ g \in todo
        /\ \A h \in Tgid : /\ pidMeta'[h] \in IF h = g THEN {pidMeta[g], NoProc} ELSE {pidMeta[h]}
                           /\ cache'[h] = IF h = g THEN NoIdentity ELSE cache[h]
    BY <1>6 DEF Evict, EvictFails, maps, history, Shapes
  <2>2. FreshIsUntouched'
    BY <2>1 DEF NamedInv, FreshIsUntouched, Untouched, processes
  <2>3. \A h \in Tgid : proc'[h] = proc[h] /\ (First(h)' <=> First(h))
    BY <2>1 DEF First, Alive, processes
  <2>4. \A h \in Tgid \ {g} : Handled(h)' => Handled(h)
    BY <2>1 DEF Handled, processes
  <2>5. ~First(g)'
    BY <2>1, <2>3 DEF DoomedAreLater
  <2>6. FirstNamed' /\ HandledNamed'
    BY <2>1, <2>3, <2>4, <2>5 DEF NamedInv, FirstNamed, HandledNamed
  <2> QED BY <2>2, <2>6 DEF NamedInv
<1>7. ASSUME NEW g \in Tgid, Exit(g) \/ Reap(g) PROVE NamedInv'
  <2>1. /\ UNCHANGED <<owners, inHook, maps, drain, missed>>
        /\ g \in zombie \/ proc[g] # NoProc
        /\ \/ zombie' = zombie \cup {g} /\ proc' = proc
           \/ zombie' = zombie \ {g} /\ proc' = [proc EXCEPT ![g] = NoProc]
    BY <1>7 DEF Exit, Reap, Alive, history
  <2>2. \A h \in Tgid : First(h)' => First(h) /\ proc'[h] = proc[h]
    BY <2>1 DEF First, Alive, Shapes
  <2>3. \A h \in Tgid : First(h)' /\ Handled(h)' => Handled(h)
    BY <2>1, <2>2 DEF Handled, maps, drain
  <2>4. \A h \in Tgid : Untouched(h) => Untouched(h)'
    BY <2>1 DEF Untouched, maps, drain, Shapes
  <2> QED BY <2>1, <2>2, <2>3, <2>4, NamedKept DEF drain
<1>8. ASSUME UNCHANGED <<processes, pidMeta, cache>>, inHook' \subseteq inHook,
             \A g \in Tgid : /\ owners[g] = {} /\ Untouched(g)
                                  => Untouched(g)'
                             /\ Handled(g)' => Handled(g)
      PROVE  NamedInv'
  <2>1. \A g \in Tgid : (First(g)' <=> First(g)) /\ proc'[g] = proc[g] /\ owners'[g] = owners[g]
    BY <1>8 DEF First, Alive, processes
  <2> QED BY <1>8, <2>1 DEF NamedInv, FreshIsUntouched, FirstNamed, HandledNamed
<1>9. ASSUME NEW g \in Tgid, NEW c \in Chunk, Count(g, c) PROVE NamedInv'
  <2>1. /\ UNCHANGED <<processes, pidMeta, ring, drain, missed>> /\ g \in inHook
        /\ inHook' = inHook \ {g} /\ \A h \in Tgid \ {g} : traffic'[h] = traffic[h]
    BY <1>9 DEF Count, Shapes
  <2>2. \A h \in Tgid : /\ Untouched(h) => Untouched(h)'
                        /\ Handled(h)' => Handled(h)
    BY <2>1 DEF Untouched, Handled, processes, drain
  <2> QED BY <2>1, <2>2, <1>8 DEF drain
<1>10. ASSUME NEW g \in Tgid, ScopeFails(g) \/ ResolveNewFails(g) \/ ReadKey(g)
       PROVE  NamedInv'
  <2>1. /\ UNCHANGED <<processes, maps, cache>> /\ inHook' \subseteq inHook
        /\ todo' \subseteq todo /\ missed \subseteq missed'
        /\ \/ UNCHANGED <<pc, key>>
           \/ pc = "read" /\ pc' = "remove" /\ key' = g /\ g \in todo
        /\ \A h \in todo : h \in todo' \/ h \in missed' \/ pc # "new_pids"
    BY <1>10 DEF ScopeFails, ResolveNewFails, ReadKey, drain, history
  <2>2. \A h \in Tgid : /\ Untouched(h) => Untouched(h)'
                        /\ Handled(h)' => Handled(h)
    BY <2>1 DEF Untouched, Handled, processes, maps
  <2> QED BY <2>1, <2>2, <1>8 DEF maps
<1>11. CASE RemoveKey
  <2>1. /\ UNCHANGED <<processes, inHook, pidMeta, ring, cache, todo, key, missed>>
        /\ pc = "remove" /\ pc' = "attribute"
        /\ \A h \in Tgid : traffic'[h] \subseteq traffic[h]
    BY <1>11 DEF RemoveKey, history, Shapes
  <2>2. \A h \in Tgid : /\ Untouched(h) => Untouched(h)'
                        /\ Handled(h)' => Handled(h)
    BY <2>1 DEF Untouched, Handled, processes
  <2> QED BY <2>1, <2>2, <1>8
<1>12. CASE \/ TakeNewPids \/ ListKeys \/ RemoveFails \/ AttributeFails \/ Flush
            \/ FlushFails \/ ScanDead \/ TickDone \/ UNCHANGED vars
  <2>1. /\ UNCHANGED <<processes, inHook, pidMeta, traffic, cache, missed>>
        /\ \/ ring' = ring
           \/ ring' = {} /\ todo' = ring /\ pc' = "new_pids"
        /\ todo' \in {todo, ring, Keys, DeadTgids}
    BY <1>12 DEF TakeNewPids, ListKeys, RemoveFails, AttributeFails, Flush, FlushFails,
       ScanDead, TickDone, vars, maps, drain, history
  <2>2. /\ pc' \notin {"remove", "attribute"} \/ UNCHANGED <<pc, key>>
        /\ pc = "new_pids" => todo = {} \/ UNCHANGED <<pc, todo>>
    BY <1>12 DEF TakeNewPids, ListKeys, RemoveFails, AttributeFails, Flush, FlushFails,
       ScanDead, TickDone, vars, drain
  <2>3. \A h \in Tgid : Untouched(h) => Untouched(h)'
    BY <2>1, <2>2 DEF Untouched, processes, Keys, Noted, DeadTgids
  <2>4. \A h \in Tgid : Handled(h)' => Handled(h)
    BY <2>1, <2>2 DEF Handled, processes
  <2> QED BY <2>1, <2>3, <2>4, <1>8
<1> QED
  BY <1>1, <1>2, <1>3, <1>4, <1>5, <1>6, <1>7, <1>9, <1>10, <1>11, <1>12
     DEF Next, Machine, Hook, Tick, TickFails

(* Eager enrichment names the first process of a tgid while it still runs, *)
(* once its notice has been handled and whatever else goes on (ADR-0007,   *)
(* collector.rs drain_new_pids, enrich.rs resolve).                        *)
THEOREM FirstSightNames == Spec => []EagerlyNamed
<1>1. Init => TypeInv /\ NamedInv /\ DoomedAreLater
  BY TypeInit, NamedInit DEF Init, DoomedAreLater
<1>2. TypeInv /\ NamedInv /\ DoomedAreLater /\ [Next]_vars
        => TypeInv' /\ NamedInv' /\ DoomedAreLater'
  BY TypeStep, NamedStep, DoomedStep DEF TypeInv
<1>3. NamedInv => EagerlyNamed
  BY NamedSuffices
<1> QED BY <1>1, <1>2, <1>3, PTL DEF Spec

=============================================================================
