----------------------------- MODULE Collector ------------------------------
(***************************************************************************)
(* Who sent these bytes?  The eBPF hooks count bytes per tgid and note     *)
(* each tgid they see for the first time; the drain thread reads and       *)
(* clears the counters, turns tgids into identities, and evicts the tgids  *)
(* of processes that are gone (procflow-ebpf/main.rs, collector.rs,        *)
(* enrich.rs).  Hooks, processes and the drain thread interleave at the    *)
(* map operations, but for those of Count, which are one step.             *)
(*                                                                         *)
(* A Proc is one process from its start to its end; a tgid is the number   *)
(* it runs under, free again once the process is reaped.  A chunk is what  *)
(* one hook call counts.  Direction and scope split a tgid's counter into  *)
(* up to four keys that behave alike: one key per tgid is modelled.        *)
(***************************************************************************)
EXTENDS Integers, FiniteSets

CONSTANTS
    Tgid, Proc, Chunk,
    Opaque,      \* the processes whose /proc files cannot be read (from_proc fails)
    TrafficCap,  \* max_entries of TRAFFIC
    PidCap,      \* max_entries of PID_META
    RingCap,     \* notifications NEW_PIDS holds
    Reuse,       \* when a tgid is given out again: "never", "settled" or "any"
    Faults       \* which of "map", "upsert", "flush" and "restart" may happen

ASSUME CollectorAssumption ==
    /\ Opaque \subseteq Proc
    /\ TrafficCap \in Nat /\ PidCap \in Nat /\ RingCap \in Nat
    /\ Reuse \in {"never", "settled", "any"}
    /\ Faults \subseteq {"map", "upsert", "flush", "restart"}

VARIABLES
    proc,        \* proc[g]: the process that has the tgid g, NoProc if it is free
    zombie,      \* the tgids whose process has ended and is not reaped
    owners,      \* owners[g]: the processes that have had the tgid g
    inHook,      \* tgids with a task between note_pid and the counter update
    pidMeta,     \* PID_META: the process whose metadata was captured for g
    ring,        \* NEW_PIDS: the tgids in it
    traffic,     \* TRAFFIC: the chunks summed in the counter of g, {} for no entry
    cache,       \* Drain.cache
    pc,          \* where the drain thread is
    todo,        \* the tgids its current loop has still to visit
    key,         \* the tgid whose counter it is working on
    reading,     \* the chunks in the value it got for that key
    attributed,  \* the identity each chunk was added to the accumulator under
    sender,      \* history: the process that sent each chunk
    uncounted,   \* history: the chunks the kernel could not count
    again,       \* history: the chunks added to the accumulator twice
    missed,      \* history: tgids whose first-sight resolution did not happen
    unread,      \* history: the chunks its counter took after that value was read
    heirs        \* history: processes that took a tgid of which a trace was left

processes == <<proc, zombie, owners>>
maps == <<pidMeta, ring, traffic>>
drain == <<cache, pc, todo, key, reading, attributed>>
history == <<sender, uncounted, again, missed, unread, heirs>>
vars == <<processes, inHook, maps, drain, history>>

NoProc == "no process"
NoTgid == "no tgid"
NoIdentity == [of |-> NoProc, how |-> "none yet"]
Nobody == [of |-> NoProc, how |-> "unknown"]
Full(p) == [of |-> p, how |-> "full"]
Degraded(p) == [of |-> p, how |-> "degraded"]
Identity == {Nobody} \cup {Full(p) : p \in Proc} \cup {Degraded(p) : p \in Proc}

Alive(g) == proc[g] # NoProc /\ g \notin zombie
Noted == {g \in Tgid : pidMeta[g] # NoProc}
Keys == {g \in Tgid : traffic[g] # {}}

Init ==
    /\ proc = [g \in Tgid |-> NoProc] /\ zombie = {}
    /\ owners = [g \in Tgid |-> {}]
    /\ inHook = {}
    /\ pidMeta = [g \in Tgid |-> NoProc] /\ ring = {}
    /\ traffic = [g \in Tgid |-> {}]
    /\ cache = [g \in Tgid |-> NoIdentity]
    /\ pc = "asleep" /\ todo = {} /\ key = NoTgid /\ reading = {}
    /\ attributed = [c \in Chunk |-> NoIdentity]
    /\ sender = [c \in Chunk |-> NoProc]
    /\ uncounted = {} /\ again = {} /\ missed = {} /\ unread = {} /\ heirs = {}

-----------------------------------------------------------------------------
(* Processes. *)

(* No trace of the tgid's earlier process is left in the kernel's maps and *)
(* the drain thread is between two ticks: every turn the garbage collector *)
(* was to have, it has had.                                                *)
Settled(g) ==
    /\ g \notin Noted /\ g \notin Keys /\ g \notin ring /\ pc = "asleep"

MayUse(g) ==
    CASE Reuse = "never"   -> owners[g] = {}
      [] Reuse = "settled" -> Settled(g)
      [] Reuse = "any"     -> TRUE

(* The daemon or its maps still hold something of the tgid's earlier       *)
(* process: metadata, bytes, or the identity the tgid is cached under.     *)
TraceLeft(g) ==
    \/ g \in Noted \/ g \in Keys \/ (g = key /\ reading # {})
    \/ cache[g].of # NoProc

Fork(g, p) ==
    /\ proc[g] = NoProc /\ MayUse(g)
    /\ \A h \in Tgid : p \notin owners[h]
    /\ proc' = [proc EXCEPT ![g] = p]
    /\ owners' = [owners EXCEPT ![g] = @ \cup {p}]
    /\ heirs' = IF TraceLeft(g) THEN heirs \cup {p} ELSE heirs
    /\ UNCHANGED <<zombie, inHook, maps, drain, sender, uncounted, again, missed, unread>>

Exit(g) ==
    /\ Alive(g) /\ g \notin inHook
    /\ zombie' = zombie \cup {g}
    /\ UNCHANGED <<proc, owners, inHook, maps, drain, history>>

Reap(g) ==
    /\ g \in zombie
    /\ proc' = [proc EXCEPT ![g] = NoProc]
    /\ zombie' = zombie \ {g}
    /\ UNCHANGED <<owners, inHook, maps, drain, history>>

-----------------------------------------------------------------------------
(* The hooks, in the context of the process: record. *)

(* Bug: a map takes one entry more than its max_entries. *)
HasRoomForOneMore(used, cap) == Cardinality(used) <= cap
HasRoom(used, cap) == Cardinality(used) < cap

(* Bug: the metadata is that of whichever task is running. *)
CapturedOfAny(g) == CHOOSE p \in {proc[h] : h \in Tgid} : p # NoProc

(* The metadata is that of the current task, and the hook runs in it.      *)
Captured(g) == proc[g]

(* note_pid: the first sight of a tgid captures its process and notifies   *)
(* the daemon.  A full map captures nothing, a full ring loses the notice. *)
NotePid(g) ==
    /\ Alive(g) /\ g \notin inHook
    /\ inHook' = inHook \cup {g}
    /\ LET inserted == g \notin Noted /\ HasRoom(Noted, PidCap)
           sent     == inserted /\ HasRoom(ring, RingCap)
       IN  /\ pidMeta' = IF inserted THEN [pidMeta EXCEPT ![g] = Captured(g)] ELSE pidMeta
           /\ ring' = IF sent THEN ring \cup {g} ELSE ring
           /\ missed' = IF inserted /\ ~sent THEN missed \cup {g} ELSE missed
    /\ UNCHANGED <<processes, traffic, drain, sender, uncounted, again, unread, heirs>>

(* The counter is added to or inserted; a full map undercounts.  The hook  *)
(* looks the entry up and then adds through the pointer, here in one step: *)
(* an addition to an entry removed in between is read by nobody, and so is *)
(* one between the reading and the removal (unread).  Left out: an element *)
(* that the kernel gives to another key in between, and a hook preempted   *)
(* by another on its CPU (each CPU adds to a slot of its own).             *)
Count(g, c) ==
    /\ g \in inHook
    /\ sender[c] = NoProc
    /\ sender' = [sender EXCEPT ![c] = proc[g]]
    /\ inHook' = inHook \ {g}
    /\ IF g \in Keys \/ HasRoom(Keys, TrafficCap)
       THEN traffic' = [traffic EXCEPT ![g] = @ \cup {c}] /\ UNCHANGED uncounted
       ELSE uncounted' = uncounted \cup {c} /\ UNCHANGED traffic
    /\ unread' = IF pc = "remove" /\ g = key THEN unread \cup {c} ELSE unread
    /\ UNCHANGED <<processes, pidMeta, ring, drain, again, missed, heirs>>

(* scope_of cannot read the socket: record returns before it counts. *)
ScopeFails(g) ==
    /\ g \in inHook
    /\ inHook' = inHook \ {g}
    /\ UNCHANGED <<processes, maps, drain, history>>

-----------------------------------------------------------------------------
(* The drain thread: Drain::tick. *)

(* Bug: what the kernel captured is preferred to /proc. *)
RecordOfMeta(g) ==
    IF g \in Noted THEN Degraded(pidMeta[g])
    ELSE IF Alive(g) /\ proc[g] \notin Opaque THEN Full(proc[g])
    ELSE Nobody

(* from_proc, else from_pid_meta, else fully_unresolved. *)
Record(g) ==
    IF Alive(g) /\ proc[g] \notin Opaque THEN Full(proc[g])
    ELSE IF g \in Noted THEN Degraded(pidMeta[g])
    ELSE Nobody

(* resolve: a cached tgid keeps its identity, another is looked up, stored *)
(* and cached.  Where the store fails nothing is cached.                   *)
Cached(g) == cache[g] # NoIdentity
Resolved(g) == IF Cached(g) THEN cache[g] ELSE Record(g)
Remember(g) == cache' = [cache EXCEPT ![g] = Resolved(g)]

(* drain_new_pids empties the ring before it resolves what it found. *)
TakeNewPids ==
    /\ pc = "asleep"
    /\ pc' = "new_pids"
    /\ todo' = ring
    /\ ring' = {}
    /\ UNCHANGED <<processes, inHook, pidMeta, traffic, cache, key, reading, attributed,
                   history>>

ResolveNew(g) ==
    /\ pc = "new_pids" /\ g \in todo
    /\ todo' = todo \ {g}
    /\ Remember(g)
    /\ UNCHANGED <<processes, inHook, maps, pc, key, reading, attributed, history>>

ResolveNewFails(g) ==
    /\ "upsert" \in Faults
    /\ pc = "new_pids" /\ g \in todo /\ ~Cached(g)
    /\ todo' = todo \ {g}
    /\ missed' = missed \cup {g}
    /\ UNCHANGED <<processes, inHook, maps, cache, pc, key, reading, attributed,
                   sender, uncounted, again, unread, heirs>>

(* drain_traffic first lists the keys that are in the map now. *)
ListKeys ==
    /\ pc = "new_pids" /\ todo = {}
    /\ pc' = "read"
    /\ todo' = Keys
    /\ UNCHANGED <<processes, inHook, maps, cache, key, reading, attributed, history>>

(* The value of one key is read, and only then is the entry removed: what  *)
(* a hook adds in between goes with it unread.                             *)
ReadKey(g) ==
    /\ pc = "read" /\ g \in todo
    /\ pc' = "remove"
    /\ todo' = todo \ {g}
    /\ key' = g
    /\ reading' = traffic[g]
    /\ unread' = {}
    /\ UNCHANGED <<processes, inHook, maps, cache, attributed, sender, uncounted, again,
                   missed, heirs>>

RemoveKey ==
    /\ pc = "remove"
    /\ pc' = "attribute"
    /\ traffic' = [traffic EXCEPT ![key] = {}]
    /\ UNCHANGED <<processes, inHook, pidMeta, ring, cache, todo, key, reading, attributed,
                   history>>

(* Bug: a failed removal does not keep the value from being added. *)
RemoveFailsButAdds ==
    /\ "map" \in Faults
    /\ pc = "remove"
    /\ pc' = "attribute"
    /\ UNCHANGED <<processes, inHook, maps, cache, todo, key, reading, attributed, history>>

(* The entry stays for the next tick and its value is not added. *)
RemoveFails ==
    /\ "map" \in Faults
    /\ pc = "remove"
    /\ pc' = "read" /\ key' = NoTgid /\ reading' = {}
    /\ UNCHANGED <<processes, inHook, maps, cache, todo, attributed, history>>

(* Bug: the bytes of a tgid nothing is known about are skipped. *)
AttributeKnownOnly ==
    /\ pc = "attribute"
    /\ pc' = "read" /\ key' = NoTgid /\ reading' = {}
    /\ Remember(key)
    /\ attributed' = [c \in Chunk |-> IF c \in reading /\ Resolved(key) # Nobody
                                      THEN Resolved(key) ELSE attributed[c]]
    /\ again' = again \cup {c \in reading : attributed[c] # NoIdentity}
    /\ UNCHANGED <<processes, inHook, maps, todo, sender, uncounted, missed, unread, heirs>>

(* The tgid is resolved and the bytes enter the accumulator. *)
Attribute ==
    /\ pc = "attribute"
    /\ pc' = "read" /\ key' = NoTgid /\ reading' = {}
    /\ Remember(key)
    /\ attributed' = [c \in Chunk |-> IF c \in reading THEN Resolved(key)
                                                      ELSE attributed[c]]
    /\ again' = again \cup {c \in reading : attributed[c] # NoIdentity}
    /\ UNCHANGED <<processes, inHook, maps, todo, sender, uncounted, missed, unread, heirs>>

(* The upsert fails: bytes already removed from the map go nowhere. *)
AttributeFails ==
    /\ "upsert" \in Faults
    /\ pc = "attribute" /\ ~Cached(key)
    /\ pc' = "read" /\ key' = NoTgid /\ reading' = {}
    /\ UNCHANGED <<processes, inHook, maps, cache, todo, attributed, history>>

(* flush_closed_minutes (see Rollup); an error there ends the tick. *)
Flush ==
    /\ pc = "read" /\ todo = {}
    /\ pc' = "scan"
    /\ UNCHANGED <<processes, inHook, maps, cache, todo, key, reading, attributed, history>>

FlushFails ==
    /\ "flush" \in Faults
    /\ pc = "read" /\ todo = {}
    /\ pc' = "asleep"
    /\ UNCHANGED <<processes, inHook, maps, cache, todo, key, reading, attributed, history>>

(* Bug: the tgids are taken from the cache instead of PID_META. *)
DeadTgidsOfCache == {g \in Tgid : Cached(g) /\ proc[g] = NoProc}

(* gc_dead_tgids: the noted tgids with no /proc entry. *)
DeadTgids == {g \in Noted : proc[g] = NoProc}

ScanDead ==
    /\ pc = "scan"
    /\ pc' = "evict"
    /\ todo' = DeadTgids
    /\ UNCHANGED <<processes, inHook, maps, cache, key, reading, attributed, history>>

Evict(g) ==
    /\ pc = "evict" /\ g \in todo
    /\ todo' = todo \ {g}
    /\ pidMeta' = [pidMeta EXCEPT ![g] = NoProc]
    /\ cache' = [cache EXCEPT ![g] = NoIdentity]
    /\ UNCHANGED <<processes, inHook, ring, traffic, pc, key, reading, attributed, history>>

(* A removal from PID_META that fails is ignored: the cache entry goes and *)
(* the metadata stays for the next tick to find.                           *)
EvictFails(g) ==
    /\ "map" \in Faults
    /\ pc = "evict" /\ g \in todo
    /\ todo' = todo \ {g}
    /\ cache' = [cache EXCEPT ![g] = NoIdentity]
    /\ UNCHANGED <<processes, inHook, maps, pc, key, reading, attributed, history>>

TickDone ==
    /\ pc = "evict" /\ todo = {}
    /\ pc' = "asleep"
    /\ UNCHANGED <<processes, inHook, maps, cache, todo, key, reading, attributed, history>>

(* The daemon stops and starts: the programs are detached, the maps freed  *)
(* and created anew, and the cache is empty.                               *)
Restart ==
    /\ "restart" \in Faults
    /\ inHook' = {}
    /\ pidMeta' = [g \in Tgid |-> NoProc] /\ ring' = {}
    /\ traffic' = [g \in Tgid |-> {}]
    /\ cache' = [g \in Tgid |-> NoIdentity]
    /\ pc' = "asleep" /\ todo' = {} /\ key' = NoTgid /\ reading' = {}
    /\ missed' = {}
    /\ UNCHANGED <<processes, attributed, sender, uncounted, again, unread, heirs>>

Machine ==
    \E g \in Tgid : \/ \E p \in Proc : Fork(g, p)
                    \/ Exit(g)
                    \/ Reap(g)
Hook ==
    \E g \in Tgid : \/ NotePid(g)
                    \/ \E c \in Chunk : Count(g, c)
                    \/ ScopeFails(g)
Tick ==
    \/ TakeNewPids \/ ListKeys \/ RemoveKey \/ Attribute \/ Flush \/ ScanDead \/ TickDone
    \/ \E g \in Tgid : ResolveNew(g) \/ ReadKey(g) \/ Evict(g)
TickFails ==
    \/ RemoveFails \/ AttributeFails \/ FlushFails
    \/ \E g \in Tgid : ResolveNewFails(g) \/ EvictFails(g)

Next == Machine \/ Hook \/ Tick \/ TickFails \/ Restart

Spec == Init /\ [][Next]_vars

(* The drain thread loops for ever. *)
FairSpec == Spec /\ WF_vars(Tick)

-----------------------------------------------------------------------------
(* Properties. *)

TypeOK ==
    /\ proc \in [Tgid -> Proc \cup {NoProc}] /\ zombie \subseteq Tgid
    /\ owners \in [Tgid -> SUBSET Proc]
    /\ inHook \subseteq Tgid
    /\ pidMeta \in [Tgid -> Proc \cup {NoProc}] /\ Cardinality(Noted) <= PidCap
    /\ ring \subseteq Tgid /\ Cardinality(ring) <= RingCap
    /\ traffic \in [Tgid -> SUBSET Chunk] /\ Cardinality(Keys) <= TrafficCap
    /\ cache \in [Tgid -> Identity \cup {NoIdentity}]
    /\ pc \in {"asleep", "new_pids", "read", "remove", "attribute", "scan", "evict"}
    /\ todo \subseteq Tgid /\ key \in Tgid \cup {NoTgid} /\ reading \subseteq Chunk
    /\ attributed \in [Chunk -> Identity \cup {NoIdentity}]
    /\ sender \in [Chunk -> Proc \cup {NoProc}]
    /\ uncounted \subseteq Chunk /\ again \subseteq Chunk /\ missed \subseteq Tgid
    /\ unread \subseteq Chunk /\ heirs \subseteq Proc

(* "A failed remove means we must not double-count" (collector.rs:162): no *)
(* chunk enters the accumulator twice, however hooks, failed map calls and *)
(* restarts fall between the reading of a counter and its removal.         *)
ReadOnce == again = {}

(* Eager enrichment (ADR-0007): once the notice of a first sight has been  *)
(* taken from the ring, a process that is still running is cached under    *)
(* its own, full identity, so bytes it leaves behind when it ends are not  *)
(* "unresolved" - unless the notice or the upsert was lost, or the tgid    *)
(* had another process before.                                             *)
EagerlyNamed ==
    \A g \in Tgid :
        /\ owners[g] = {proc[g]}
        /\ Alive(g) /\ pidMeta[g] = proc[g] /\ proc[g] \notin Opaque
        /\ g \notin ring /\ ~(pc = "new_pids" /\ g \in todo)
        /\ g \notin missed
        => cache[g] = Full(proc[g])

(* Map GC "bounds map size to live tgids" (ADR-0007): unless the tgid is   *)
(* taken again, its metadata does not outlive the process for ever, given  *)
(* that flushes and removals do not fail for ever.                         *)
DeadAreEvicted ==
    (<>[][~FlushFails /\ \A g \in Tgid : ~EvictFails(g)]_vars) =>
        \A g \in Tgid : (g \in Noted /\ proc[g] = NoProc) ~> (g \notin Noted \/ proc[g] # NoProc)

(* "Never drops bytes" (collector.rs:234): bytes that were counted stay in *)
(* a counter or in the drain thread's hands until they enter the           *)
(* accumulator under some identity, however little is known of the process *)
(* by then; only a store that fails at that moment, a restart of the       *)
(* daemon, and the removal of a counter that grew after it was read        *)
(* (collector.rs:156) lose any.                                            *)
Held(c) ==
    attributed[c] # NoIdentity \/ c \in reading \/ \E g \in Tgid : c \in traffic[g]

DropsOnlyOnFailure ==
    [][\A c \in Chunk :
          Held(c) => \/ Held(c)'
                     \/ AttributeFails /\ c \in reading
                     \/ Restart
                     \/ RemoveKey /\ c \in unread]_vars

(* Whose bytes are these?  A process is charged with the bytes of another  *)
(* one only if both had the same tgid, and one of the two took it while    *)
(* the daemon or its maps still held something of an earlier process       *)
(* (main.rs:146): however hooks, ticks, evictions and restarts fall, what  *)
(* was captured of one tgid is never taken for another's.                  *)
ChargedToSender ==
    \A c \in Chunk :
        LET p == attributed[c].of
        IN  p \notin {NoProc, sender[c]} =>
                /\ \E g \in Tgid : {p, sender[c]} \subseteq owners[g]
                /\ p \in heirs \/ sender[c] \in heirs

(* What a comment or a decision record says, and some run refutes.         *)

(* collector.rs:267: "a tgid that transmits again re-registers itself".    *)
(* A running process whose metadata the kernel holds is not cached under   *)
(* the identity of another one, nor as unknown.                            *)
ReRegisters ==
    \A g \in Tgid :
        Alive(g) /\ pidMeta[g] = proc[g] /\ Cached(g) => cache[g].of = proc[g]

(* collector.rs:266: the eviction "runs after drain, so nothing pending    *)
(* references" the evicted tgid.                                           *)
NothingPending == [][\A g \in Tgid : Evict(g) => traffic[g] = {}]_vars

=============================================================================
