------------------------------- MODULE Rollup -------------------------------
(***************************************************************************)
(* The history of procflowd: the drain thread's accumulator, the four      *)
(* traffic tables, and the rollup thread that moves closed buckets into    *)
(* coarser tables and prunes old rows (collector.rs, store.rs, rollup.rs). *)
(*                                                                         *)
(* Bytes.  A chunk is the content of one accumulator entry: the bytes one  *)
(* record_minute call adds for one (minute, identity, scope).  A row of a  *)
(* table is the set of chunks its byte columns sum; a row with no chunk is *)
(* a row that is not there.  Rows of several identities that share a       *)
(* bucket are one set: every statement groups or matches by identity and   *)
(* scope, so they never mix.  A chunk that some sum adds twice is entered  *)
(* in "doubled", which the set itself could not show.                      *)
(*                                                                         *)
(* Time.  One unit is one minute, GRACE_S is 2 units.  A wall-clock        *)
(* reading is its minute, rounded down; where code compares a reading with *)
(* something that is not a whole minute, the rounding is explicit.         *)
(***************************************************************************)
EXTENDS Integers, FiniteSets

CONSTANTS
    Chunk,          \* the accumulator entries there ever are
    Zone,           \* the time zones the machine is ever in
    DayStart,       \* DayStart[z]: the local midnights of z
    MonthStart,     \* MonthStart[z]: those that begin a month
    HourLen,        \* minutes in an hour bucket
    Grace,          \* GRACE_S
    MinuteRet,      \* Retention::minute_s
    HourRet,        \* Retention::hour_s
    DayRet,         \* Retention::day_s
    Horizon,        \* bound: the wall clock never shows more than this
    ClockSteps,     \* how far the wall clock may move in one step
    PunctualDrain,  \* whether a closed minute is flushed before its grace ends
    Faults          \* which of "error" and "crash" may happen

Time == 0 .. Horizon
Coarse == {"hour", "day", "month"}
Tier == {"minute"} \cup Coarse

Latest(S, t) == CHOOSE s \in S : s <= t /\ \A r \in S : r <= t => r <= s
After(S, t)  == CHOOSE s \in S : s > t  /\ \A r \in S : r > t  => s <= r

(* Local midnights surround every instant: what local_midnight returns for *)
(* the date of t and for the date after it are the nearest ones around t.  *)
ASSUME CalendarAssumption ==
    \A z \in Zone : \A S \in {DayStart[z], MonthStart[z]} : \A t \in Time :
        /\ S \subseteq Nat
        /\ \E s \in S : s <= t /\ \A r \in S : r <= t => r <= s
        /\ \E s \in S : s > t  /\ \A r \in S : r > t  => s <= r

ASSUME MonthsStartOnDays == \A z \in Zone : MonthStart[z] \subseteq DayStart[z]

ASSUME ParameterAssumption ==
    /\ Zone # {}
    /\ HourLen \in Nat \ {0} /\ Grace \in Nat /\ Horizon \in Nat
    /\ MinuteRet \in Nat /\ HourRet \in Nat /\ DayRet \in Nat
    /\ ClockSteps \subseteq Int
    /\ PunctualDrain \in BOOLEAN
    /\ Faults \subseteq {"error", "crash"}

VARIABLES
    clock,      \* now_s()
    zone,       \* Zone::Local, as the machine is set now
    minuteOf,   \* the bucket of each chunk's AccKey, Unused before it has one
    acc,        \* Drain.acc: the chunks in memory
    flushing,   \* the keys flush_closed_minutes still has to record
    mutex,      \* who holds Arc<Mutex<Store>>
    rows,       \* rows[tier][bucket]: the traffic_<tier> tables
    watermark,  \* rollup_watermark, Unrolled for a tier with no row
    job,        \* the rollup thread: its place and its reading of the clock
    recorded,   \* history: the chunks some record_minute call committed
    late,       \* history: those recorded below a watermark
    doubled,    \* history: the chunks some sum has added twice
    misfiled,   \* history: those rolled into a day of a month already rolled up
    overtaken   \* history: those in memory while the clock jumped

store == <<rows, watermark>>
history == <<recorded, late, doubled, misfiled, overtaken>>
vars == <<clock, zone, minuteOf, acc, flushing, mutex, store, job, history>>

Unused == -1
NeverRolled == -1
Asleep == [step |-> "asleep", now |-> 0, upto |-> 0]
Steps == Coarse \cup {"prune_minute", "prune_hour", "prune_day"}

-----------------------------------------------------------------------------
(* Zone::bounds: [Start, End) is the bucket of the tier that holds t. *)

Start(tier, z, t) ==
    CASE tier = "hour" -> t - (t % HourLen)
      [] tier = "day"  -> Latest(DayStart[z], t)
      [] OTHER         -> Latest(MonthStart[z], t)

(* Bug: the hour bucket is empty, its end is its start. *)
EndAtStart(tier, z, t) ==
    CASE tier = "hour" -> t - (t % HourLen)
      [] tier = "day"  -> After(DayStart[z], t)
      [] OTHER         -> After(MonthStart[z], t)

End(tier, z, t) ==
    CASE tier = "hour" -> t - (t % HourLen) + HourLen
      [] tier = "day"  -> After(DayStart[z], t)
      [] OTHER         -> After(MonthStart[z], t)

(* ROLLUPS: the table each tier is built from. *)
Source(tier) == IF tier = "month" THEN "day" ELSE "minute"

(* Store::watermark, an absent one read as the epoch. *)
Mark(tier) == IF watermark[tier] = NeverRolled THEN 0 ELSE watermark[tier]

(* Bug: the watermark is not a lower bound of what is still to roll up. *)
PendingFromEpoch(tier) == {b \in Time : rows[Source(tier)][b] # {}}
(* Bug: the watermark is taken as the last bucket rolled up. *)
PendingAfterMark(tier) == {b \in Time : rows[Source(tier)][b] # {} /\ b > Mark(tier)}

(* The source buckets rollup_next looks at: those past the watermark. *)
Pending(tier) == {b \in Time : rows[Source(tier)][b] # {} /\ b >= Mark(tier)}

(* Bug: the whole bucket is summed, as if it began past the watermark. *)
SummedFromStart(tier, start, end) == {b \in Time : b >= start /\ b < end}

(* The source buckets one transaction sums into the bucket [start, end). *)
Summed(tier, start, end) == {b \in Time : b >= start /\ b >= Mark(tier) /\ b < end}

(* Bugs: no grace, or no check at all. *)
ClosedWithoutGrace(end, now) == end <= now
ClosedUnchecked(end, now) == TRUE

(* The grace check of rollup_next. *)
Closed(end, now) == end + Grace <= now

(* Query stitching: a tier's own table, then what is not yet rolled up.    *)
Table(tier) == UNION {rows[tier][b] : b \in Time}
Tail(tier, lower) == UNION {rows[tier][b] : b \in {t \in Time : t >= lower}}
View(tier) ==
    CASE tier = "minute" -> Table("minute")
      [] tier = "hour"   -> Table("hour") \cup Tail("minute", Mark("hour"))
      [] tier = "day"    -> Table("day") \cup Tail("minute", Mark("day"))
      [] tier = "month"  -> Table("month") \cup Tail("day", Mark("month"))
                                \cup Tail("minute", Mark("day"))

Init ==
    /\ clock \in Time
    /\ zone \in Zone
    /\ minuteOf = [c \in Chunk |-> Unused]
    /\ acc = {}
    /\ flushing = {}
    /\ mutex = "free"
    /\ rows = [tier \in Tier |-> [b \in Time |-> {}]]
    /\ watermark = [tier \in Coarse |-> NeverRolled]
    /\ job = Asleep
    /\ recorded = {} /\ late = {} /\ doubled = {} /\ misfiled = {} /\ overtaken = {}

-----------------------------------------------------------------------------
(* The machine. *)

(* Time passes: one minute, or a jump (suspend, a stepped clock).  The     *)
(* entries a jump overtakes are noted where punctuality is assumed.        *)
Tick ==
    /\ \E d \in ClockSteps :
          /\ clock + d \in Time
          /\ clock' = clock + d
          /\ overtaken' = IF PunctualDrain /\ d # 1 THEN overtaken \cup acc
                                                   ELSE overtaken
    /\ UNCHANGED <<zone, minuteOf, acc, flushing, mutex, store, job,
                   recorded, late, doubled, misfiled>>

ChangeZone ==
    /\ \E z \in Zone \ {zone} : zone' = z
    /\ UNCHANGED <<clock, minuteOf, acc, flushing, mutex, store, job, history>>

(* The daemon dies.  Nothing is flushed first, a transaction not committed *)
(* is gone, and the next start finds the tables as they were.              *)
Crash ==
    /\ "crash" \in Faults
    /\ acc' = {} /\ flushing' = {} /\ mutex' = "free" /\ job' = Asleep
    /\ UNCHANGED <<clock, zone, minuteOf, store, history>>

-----------------------------------------------------------------------------
(* The drain thread: Drain::tick. *)

(* drain_traffic reads the current minute, polls the counters, which may   *)
(* wait for the store, and adds to the entry of that minute.  The entry is *)
(* in acc from the reading on: "polled" and Drain.acc are the drain        *)
(* thread's own memory and no step of another thread tells them apart.     *)
Accumulate(c) ==
    /\ flushing = {}
    /\ minuteOf[c] = Unused
    /\ minuteOf' = [minuteOf EXCEPT ![c] = clock]
    /\ acc' = acc \cup {c}
    /\ UNCHANGED <<clock, zone, flushing, mutex, store, job, history>>

(* Bug: only the minute that has just closed is flushed, so that an entry  *)
(* a failed flush left is not picked again.                                *)
ClosedEntriesOfLastMinute == {c \in acc : minuteOf[c] = clock - 1}

(* flush_closed_minutes picks the closed entries before it takes the lock. *)
ClosedEntries == {c \in acc : minuteOf[c] < clock}

PickClosed ==
    /\ flushing = {}
    /\ ClosedEntries # {}
    /\ flushing' = ClosedEntries
    /\ UNCHANGED <<clock, zone, minuteOf, acc, mutex, store, job, history>>

LockForFlush ==
    /\ flushing # {}
    /\ mutex = "free"
    /\ mutex' = "drain"
    /\ UNCHANGED <<clock, zone, minuteOf, acc, flushing, store, job, history>>

(* record_minute: the entry leaves acc and is added to its minute's row. *)
FlushEntry(c) ==
    /\ mutex = "drain"
    /\ c \in flushing
    /\ acc' = acc \ {c}
    /\ flushing' = flushing \ {c}
    /\ mutex' = IF flushing = {c} THEN "free" ELSE "drain"
    /\ rows' = [rows EXCEPT !["minute"][minuteOf[c]] = @ \cup {c}]
    /\ recorded' = recorded \cup {c}
    /\ late' = IF \E tier \in Coarse : minuteOf[c] < Mark(tier)
               THEN late \cup {c} ELSE late
    /\ UNCHANGED <<clock, zone, minuteOf, watermark, job, doubled, misfiled,
                   overtaken>>

(* Bug: the whole batch is taken out of acc before it is recorded. *)
FlushFailsDropsBatch(c) ==
    /\ "error" \in Faults
    /\ mutex = "drain"
    /\ c \in flushing
    /\ acc' = acc \ flushing
    /\ flushing' = {}
    /\ mutex' = "free"
    /\ UNCHANGED <<clock, zone, minuteOf, store, job, history>>

(* record_minute fails: the entry was removed from acc first, the rest     *)
(* stays there for the next tick.                                          *)
FlushFails(c) ==
    /\ "error" \in Faults
    /\ mutex = "drain"
    /\ c \in flushing
    /\ acc' = acc \ {c}
    /\ flushing' = {}
    /\ mutex' = "free"
    /\ UNCHANGED <<clock, zone, minuteOf, store, job, history>>

-----------------------------------------------------------------------------
(* The rollup thread. *)

(* What "writes a closed minute on its next poll" promises: no rollup      *)
(* starts with a minute in memory that closed a whole grace period before, *)
(* unless the clock jumped over that period.                               *)
DrainIsPunctual == \A c \in acc \ overtaken : clock <= minuteOf[c] + Grace

(* The store is locked, then the clock is read: now_s() is "now" rounded   *)
(* down to its minute and "upto" rounded up.                               *)
BeginRollup ==
    /\ mutex = "free"
    /\ PunctualDrain => DrainIsPunctual
    /\ mutex' = "rollup"
    /\ \E upto \in {clock, clock + 1} :
          job' = [step |-> "hour", now |-> clock, upto |-> upto]
    /\ UNCHANGED <<clock, zone, minuteOf, acc, flushing, store, history>>

(* Bug: ROLLUPS in the order hour, month, day. *)
NextStepMonthFirst(step) ==
    CASE step = "hour"         -> "month"
      [] step = "month"        -> "day"
      [] step = "day"          -> "prune_minute"
      [] step = "prune_minute" -> "prune_hour"
      [] step = "prune_hour"   -> "prune_day"

NextStep(step) ==
    CASE step = "hour"         -> "day"
      [] step = "day"          -> "month"
      [] step = "month"        -> "prune_minute"
      [] step = "prune_minute" -> "prune_hour"
      [] step = "prune_hour"   -> "prune_day"

(* One call of rollup_next that returns true: the oldest bucket with       *)
(* unrolled rows is summed and the watermark moved, in one transaction.    *)
RollBucket(tier) ==
    /\ job.step = tier
    /\ \E oldest \in Pending(tier) :
         LET start == Start(tier, zone, oldest)
             end   == End(tier, zone, oldest)
             from  == rows[Source(tier)]
             sum   == Summed(tier, start, end)
             moved == UNION {from[b] : b \in sum}
         IN  /\ \A b \in Pending(tier) : oldest <= b
             /\ Closed(end, job.now)
             /\ rows' = [rows EXCEPT ![tier][start] = @ \cup moved]
             /\ watermark' = [watermark EXCEPT ![tier] = end]
             /\ doubled' = doubled \cup (moved \cap rows[tier][start]) \cup
                  UNION {from[p[1]] \cap from[p[2]] :
                           p \in {q \in sum \X sum : q[1] # q[2]}}
             /\ misfiled' = IF tier = "day" /\ start < Mark("month")
                            THEN misfiled \cup moved ELSE misfiled
    /\ UNCHANGED <<clock, zone, minuteOf, acc, flushing, mutex, job, recorded, late,
                   overtaken>>

(* A call that returns false: nothing is left, or the oldest is open. *)
TierDone(tier) ==
    /\ job.step = tier
    /\ \A oldest \in Pending(tier) :
         (\A b \in Pending(tier) : oldest <= b)
            => ~Closed(End(tier, zone, oldest), job.now)
    /\ job' = [job EXCEPT !.step = NextStep(tier)]
    /\ UNCHANGED <<clock, zone, minuteOf, acc, flushing, mutex, store, history>>

(* Bugs: one of the watermarks is left out of the cut-off. *)
OldMinutesOfHour ==
    {b \in Time : /\ watermark["hour"] # NeverRolled /\ b < watermark["hour"]
                  /\ b < job.upto - MinuteRet}
OldDaysByAge == {b \in Time : b < job.upto - DayRet}

(* Which rows prune may delete: past retention, and for the minute and day *)
(* tables already rolled into every tier that is built from them.          *)
OldMinutes ==
    {b \in Time : /\ watermark["hour"] # NeverRolled /\ b < watermark["hour"]
                  /\ watermark["day"] # NeverRolled /\ b < watermark["day"]
                  /\ b < job.upto - MinuteRet}
OldHours == {b \in Time : b < job.upto - HourRet}
OldDays ==
    {b \in Time : /\ watermark["month"] # NeverRolled /\ b < watermark["month"]
                  /\ b < job.upto - DayRet}

(* DELETE FROM the tier's table, the rows of these buckets. *)
Delete(tier, old) ==
    rows' = [rows EXCEPT ![tier] = [b \in Time |-> IF b \in old THEN {} ELSE @[b]]]

PruneMinute ==
    /\ job.step = "prune_minute"
    /\ Delete("minute", OldMinutes)
    /\ job' = [job EXCEPT !.step = NextStep(job.step)]
    /\ UNCHANGED <<clock, zone, minuteOf, acc, flushing, mutex, watermark, history>>

PruneHour ==
    /\ job.step = "prune_hour"
    /\ Delete("hour", OldHours)
    /\ job' = [job EXCEPT !.step = NextStep(job.step)]
    /\ UNCHANGED <<clock, zone, minuteOf, acc, flushing, mutex, watermark, history>>

(* The last statement of the pass; the guard of the mutex is dropped. *)
PruneDay ==
    /\ job.step = "prune_day"
    /\ Delete("day", OldDays)
    /\ job' = Asleep /\ mutex' = "free"
    /\ UNCHANGED <<clock, zone, minuteOf, acc, flushing, watermark, history>>

(* Any statement of the pass may fail: the transaction is rolled back and  *)
(* the rest of the pass is skipped until the next one.                     *)
RollupFails ==
    /\ "error" \in Faults
    /\ job.step \in Steps
    /\ job' = Asleep /\ mutex' = "free"
    /\ UNCHANGED <<clock, zone, minuteOf, acc, flushing, store, history>>

Drain ==
    \/ \E c \in Chunk : Accumulate(c) \/ FlushEntry(c)
    \/ PickClosed
    \/ LockForFlush

RollupStep ==
    \/ \E tier \in Coarse : RollBucket(tier) \/ TierDone(tier)
    \/ PruneMinute
    \/ PruneHour
    \/ PruneDay

(* Every step but an error or a crash. *)
Work == Tick \/ ChangeZone \/ Drain \/ BeginRollup \/ RollupStep

Fault == Crash \/ RollupFails \/ \E c \in Chunk : FlushFails(c)

Next == Work \/ Fault

Spec == Init /\ [][Next]_vars

(* Both threads loop for ever and each keeps going while it holds the      *)
(* mutex; a thread that asks for it again and again gets it some time (the *)
(* other one sleeps between its turns), and the clock runs.                *)
Fairness ==
    /\ WF_vars(Tick)
    /\ WF_vars(PickClosed)
    /\ SF_vars(LockForFlush)
    /\ WF_vars(\E c \in Chunk : FlushEntry(c))
    /\ SF_vars(BeginRollup)
    /\ WF_vars(RollupStep)

FairSpec == Spec /\ Fairness

-----------------------------------------------------------------------------
(* Properties. *)

TypeOK ==
    /\ clock \in Time
    /\ zone \in Zone
    /\ minuteOf \in [Chunk -> Time \cup {Unused}]
    /\ acc \subseteq Chunk
    /\ flushing \subseteq acc
    /\ mutex \in {"free", "drain", "rollup"}
    /\ rows \in [Tier -> [Time -> SUBSET Chunk]]
    /\ watermark \in [Coarse -> Time \cup {NeverRolled}]
    /\ job \in [step : Steps \cup {"asleep"}, now : Time, upto : 0 .. Horizon + 1]
    /\ recorded \subseteq Chunk /\ late \subseteq recorded
    /\ doubled \subseteq Chunk /\ overtaken \subseteq Chunk /\ misfiled \subseteq Chunk

(* "A rerun never double-counts" (rollup.rs:127): no sum has ever added a  *)
(* chunk twice, no table holds one in two rows, and in no view does a      *)
(* tier's table overlap the tail read from the finer ones.  It holds       *)
(* whatever the clock, the zone, errors and crashes do.                    *)
CountedOnce ==
    /\ doubled = {}
    /\ \A tier \in Tier : \A b1, b2 \in Time :
          b1 # b2 => rows[tier][b1] \cap rows[tier][b2] = {}
    /\ \A tier \in Coarse : Table(tier) \cap Tail(Source(tier), Mark(tier)) = {}
    /\ Table("month") \cap Tail("minute", Mark("day")) = {}
    /\ Table("day") \cap Tail("minute", Mark("day")) = {}

(* A watermark is the promise that what lies below it is counted: no step, *)
(* under any clock or zone, takes one back, and each bucket that is rolled *)
(* up moves its tier's forward, so the loop over rollup_next comes to an   *)
(* end (rollup.rs:133).                                                    *)
Advances ==
    \A tier \in Coarse : /\ watermark[tier] <= watermark'[tier]
                         /\ RollBucket(tier) => Mark(tier) < watermark'[tier]

WatermarksAdvance == [][Advances]_vars

(* Rolling up and pruning move chunks between tables and never out of the  *)
(* hour and day views, but for the rows past their own tier's retention    *)
(* ("never a row a coarser tier has yet to be built from", rollup.rs:196). *)
ViewsOnlyAge ==
    [][/\ \A c \in View("hour") \ View("hour")' :
             \E b \in Time : c \in rows["hour"][b] /\ b < job.upto - HourRet
       /\ \A c \in View("day") \ View("day")' :
             \E b \in Time : c \in rows["day"][b] /\ b < job.upto - DayRet]_vars

(* What was polled leaves memory by being recorded, or is lost to a fault: *)
(* a crash takes what is in memory, and a failing statement that one       *)
(* entry, whatever was to be flushed with it (store.rs:99 speaks of a      *)
(* re-flush after partial failure; the entry itself is not in it).         *)
FailureLosesOneEntry ==
    [][LET lost == acc \ (acc' \cup recorded')
       IN  lost # {} => Crash \/ \E c \in Chunk : FlushFails(c) /\ lost = {c}]_vars

(* A recorded chunk is missing from the month view for two reasons only,   *)
(* whatever the clock, the zone and the faults do: it was recorded below a *)
(* watermark, or it was filed under a day of a month that is rolled up.    *)
(* No roll-up order, retention or pruning loses it ("never a row a coarser *)
(* tier has yet to be built from", rollup.rs:196).                         *)
MonthViewExplained == recorded \ (late \cup misfiled) \subseteq View("month")

(* While the zone stays the same, the month view holds for ever every      *)
(* chunk that was not recorded below a watermark: the month tier "is kept  *)
(* forever" (rollup.rs:63) and what it is built from outlives the roll-up. *)
MonthViewComplete == recorded \ late \subseteq View("month")

(* A clock that only goes forward may jump (a suspend, a corrected clock): *)
(* with a drain that flushes within the grace period while it does not,    *)
(* all that the month view can lack is what was in memory during a jump.   *)
OnlyOvertakenIsMissed == recorded \ overtaken \subseteq View("month")

(* With a drain that flushes within the grace period and a clock that only *)
(* goes forward, no minute "arrives after its hour had rolled up"          *)
(* (rollup.rs:100), nor after its day or month.                            *)
NeverLate == late = {}

(* All three views read as one: with a punctual drain and a fixed zone the *)
(* tables, the watermarks and the pass in progress are invisible.          *)
Promise == INSTANCE Ledger WITH hour <- View("hour"), day <- View("day"),
                                month <- View("month")
ImplementsLedger == Promise!Spec

(* Every pass ends and lets go of the store, however many buckets closed   *)
(* while the daemon was down: the loop over rollup_next makes progress.    *)
EveryPassEnds == job.step # "asleep" ~> job.step = "asleep"

FaultsStop == <>[][Work]_vars

(* A row of a finer table is due when its bucket is closed at this reading *)
(* of the clock and the coarser tier does not have it yet.                 *)
Due(tier, now) ==
    \E b \in Time : /\ b >= Mark(tier) /\ rows[Source(tier)][b] # {}
                    /\ Closed(End(tier, zone, b), now)

(* Once errors and crashes stop, a row whose bucket is closed by the clock *)
(* does not stay out of the coarser tier: "a run after downtime picks up   *)
(* wherever the last one stopped" (rollup.rs:128).                         *)
DueIsRolledUp ==
    FaultsStop => \A tier \in Coarse : Due(tier, clock) ~> ~Due(tier, clock)

(* A pass that no statement of it stopped has caught up, whatever had      *)
(* piled up while the daemon or the machine was down (rollup.rs:128): when *)
(* it comes to prune, no tier is owed a bucket that its reading of the     *)
(* clock calls closed, the buckets this same pass filled included.         *)
PassCatchesUp ==
    job.step \in Steps \ Coarse => \A tier \in Coarse : ~Due(tier, job.now)

(* A closed minute does not stay in memory. *)
ClosedIsFlushed ==
    \A c \in Chunk : (c \in acc /\ minuteOf[c] < clock) ~> c \notin acc

(* What a comment or a decision record says, and some run refutes.         *)

(* ADR-0003: "A laptop suspend is simply a gap": what was recorded is in   *)
(* the month view, late or not.                                            *)
SuspendIsAGap == recorded \subseteq View("month")

=============================================================================
