# Verification of procflow

procflow attributes the network traffic of a Linux machine to the programs
that cause it.  eBPF hooks count bytes per process, a daemon (`procflowd`)
turns the counters into history in DuckDB, and a command line and an
interactive view read that history and a live stream over a Unix socket.

This directory holds TLA+ modules translated from the source under
`src/crates`, TLC configurations that check them on small instances, and
proofs that TLAPS checks for every value of the constants.

- [The system](#the-system): inventory of its parts
- [The modules](#the-modules): what models what
- [The runs](#the-runs): what each shows, bounds, fairness
- [The proofs](#the-proofs)
- [What the runs refute](#what-the-runs-refute)
- [What is not modelled](#what-is-not-modelled)
- [The plan](#the-plan)

To check: `tlc -config X.cfg M` for the pairs in `PROJECT.json`, and
`tlapm M.tla` for `RollupProofs`, `RollupViewProofs`, `QueryProofs`,
`CollectorProofs`, `WatchProofs`, `TrendsProofs`, `InteractiveProofs` and
`CalendarProofs`.

## The system

| Part | Source | State it keeps | Operations |
|---|---|---|---|
| eBPF hooks | `procflow-ebpf/src/main.rs` | kernel maps `TRAFFIC` (bytes per tgid, direction, scope), `PID_META` (first-sight metadata), ring `NEW_PIDS` | `record`, `note_pid`, `scope_of`, in the context of the sending or receiving process |
| Drain thread | `procflowd/src/collector.rs` | `cache` tgid → identity, `acc` the open minutes' counters | one `tick` a second: resolve new tgids, read and clear counters, publish the tick, flush closed minutes, evict dead tgids |
| Enrichment | `procflowd/src/enrich.rs` | none | `/proc` → identity, else kernel metadata, else unknown |
| Store | `procflowd/src/store.rs`, `migrations/0001_init.sql` | identity table, `traffic_minute/hour/day/month`, `rollup_watermark`, behind one mutex | migrate, `upsert_identity`, `record_minute` |
| Rollup thread | `procflowd/src/rollup.rs`, `main.rs` | none of its own | once a minute: `rollup_next` per tier while it makes progress, `prune` |
| Calendar | `rollup.rs` (`Zone`) | the machine's zone | `bounds` of an hour, day or month |
| Queries | `procflowd/src/query.rs` | none | `stitched`, `top`, `series`, `resolve`, `list_identities`, under the caller's `Visibility` |
| Live hub | `procflowd/src/live.rs` | subscribers' queues | `subscribe`, `publish` |
| Server | `procflowd/src/server.rs` | per stream: identities looked up, identities described | accept, one request per connection, `watch` streams with cancel and hang-up |
| Framing | `procflow-ipc` | none | length-prefixed frames with a limit, timeouts |
| Client | `procflow/src/client.rs` | none | one connection per request, a `Watch` iterator |
| Interactive view | `procflow/src/tui.rs` | `App`: feed, flows and intervals, stored totals, selection, history | `tick`, `on_chunk`, `refresh`, `fetch_history`, `recompute`, keys; a feed thread that reconnects |
| Command line, drawing, formatting | `procflow/src/main.rs`, `ui.rs`, `theme.rs`, `fmt.rs` | none | pure text |

How they interact.  Hooks run in any process at any moment and share the
maps with the drain thread, which has no atomic read-and-clear.  The drain
thread, the rollup thread and every connection share the store's mutex; the
drain takes and drops it several times in one tick, the rollup thread holds it
for a whole pass.  The drain publishes each tick to the hub, which copies it
to the queue of every stream.  The accumulator is memory only: a crash loses
the open minute and no table ever holds one.

What is hard, and what makes each part correct:

- *Rollup*: a bucket and its watermark move in one transaction, but a pass is
  many of them, and between two passes the clock, the zone, an error or a crash
  may change what "closed", "oldest" and "start" mean.  Correct when nothing
  is counted twice, nothing falls out of the coarser tiers, and the views that
  readers see do not show the pass at all.
- *Drain and rollup*: a minute travels from `acc` to the minute table while its
  hour may be rolled up.  Correct when it always arrives first.
- *Collector*: a process may send, end, be reaped, and its number be given to
  another one, between any two map operations.  Correct when each counted byte
  is read once and lands on the process that sent it.
- *Streams*: two threads end one stream.  Correct when what is visible to the
  caller arrives once and in order, and everything is given back.
- *Interactive view*: chunks, failed fetches and key presses interleave.
  Correct when what is drawn belongs to what is selected.

## The modules

| Module | Models | Kind |
|---|---|---|
| `Rollup` | accumulator and flush (`collector.rs`), traffic tables (`store.rs`), rollup pass and prune (`rollup.rs`), stitched reads (`query.rs`), the mutex and the rollup thread (`main.rs`) | component, composed of the two threads |
| `Ledger` | what the history promises a reader | abstract specification |
| `Query` | a snapshot verb: its clock, its wait for the store, the choice of a tier, the stitched read, a series' buckets (`server.rs`, `query.rs`) | component, composed with `Rollup` |
| `Calendar` | day and month buckets and the clients' windows in a zone that changes its offset (`rollup.rs`, `main.rs`) | algorithm |
| `Collector` | hooks and kernel maps (`procflow-ebpf`), drain thread (`collector.rs`), which record a tgid gets (`enrich.rs`) | component |
| `Watch` | live hub, the two threads of a stream, a client (`live.rs`, `server.rs`, `client.rs`) | component |
| `Broadcast` | what a stream promises its client | abstract specification |
| `Trends` | feed thread, channel and live half of the view (`tui.rs`, `client.rs`) | component |
| `Interactive` | the view's loop: choices, fetches, filter, cursor (`tui.rs`) | component |
| `MC...` | small instances of each | for TLC |
| `...Proofs` | theorems about each | proofs |

### Rollup

A *chunk* is one accumulator entry.  A row of a table is the set of chunks its
byte columns sum, so "lost" is a chunk in no set and "counted twice" is either
a chunk in two rows or a sum that adds it to a row that has it (`doubled`,
which the sets alone could not show).

| Code | Model |
|---|---|
| `Drain.acc`, `AccKey` | `acc`, `minuteOf` |
| `flush_closed_minutes`: keys picked, lock, one `record_minute` each, `?` on error | `PickClosed`, `LockForFlush`, `FlushEntry`, `FlushFails` |
| the rollup thread taking the lock and reading the clock | `BeginRollup` |
| `rollup_next` returning true (one transaction) or false | `RollBucket(tier)`, `TierDone(tier)` |
| the three statements of `prune` | `PruneMinute`, `PruneHour`, `PruneDay` |
| `?` in the pass | `RollupFails` |
| `Store::stitched` | `View(tier)` |
| `Zone::bounds` | `Start`, `End`, over the sets `DayStart`, `MonthStart` |
| wall clock, zone of the machine, death of the daemon | `Tick`, `ChangeZone`, `Crash` |

The clock is in whole minutes.  The only comparison that a whole minute cannot
decide is the cut-off of `prune`, `now - retention`: the pass therefore keeps
`now` rounded down and `upto` rounded either way.

The calendar is two sets of instants per zone.  `CalendarAssumption` says that
around every instant there is a nearest midnight on each side, and
`MonthsStartOnDays` that the first of a month is one of the days; hour buckets
are unrelated to midnights, as in a zone with a sub-hour offset.

### Collector

A *Proc* is one process for life, a *tgid* the number it holds.  The hooks are
two steps, `NotePid` and then `Count` or `ScopeFails`, because another process
or the drain can come between them.  The drain thread is one step per map
operation: `TakeNewPids`, `ResolveNew`, `ListKeys`, `ReadKey`, `RemoveKey` or
`RemoveFails`, `Attribute` or `AttributeFails`, `Flush` or `FlushFails`,
`ScanDead`, `Evict` or `EvictFails`, `TickDone`.  The locals of `drain_traffic` are folded into
`attributed`: no code between the loop and the accumulator can fail.  Processes
(`Fork`, `Exit`, `Reap`) are the environment: `/proc/<tgid>` is readable while
the process runs, exists while it is a zombie, and is gone when it is reaped.
`Reuse` says when a number may be given out again; `"settled"` is the
friendliest kernel, which waits until the collector has forgotten the number.

`Count` is one step, although the hook looks a counter up and then adds to it through
the pointer.  The drain's removal can come between the two, and the addition is then
read by nobody; this is the fate of an addition between `ReadKey` and `RemoveKey`,
which the model has.  It leaves out that the kernel may give the element of a removed
counter to another key in that moment, and a hook preempted by another one on its
CPU.  `EvictFails` is the removal from `PID_META` whose result `gc_dead_tgids` ignores:
the cache entry goes and the metadata stays for the next tick.

Three pieces of history carry the properties: `sender` is who sent a chunk,
`unread` what a hook added to a counter after `ReadKey` had its value and before
`RemoveKey` deletes it, and `heirs` the processes that took a number while its
metadata, its cache entry or bytes of it were still there (`TraceLeft`).

### Query

`Query` EXTENDS `Rollup` and adds one query beside the two threads: `Ask` reads
the clock (`respond` calls `now_s()` before it locks the store), `Answer` takes
the store when it is free, and `Background` is every step of `Rollup` in
between.  The answer is not a step but a function of the tables, so that the
invariants compare it with what a reader is owed in every state in which the
store is free: `Sources` and `Reads` are the three SQL statements of `stitched`,
`Filed` the folding of `series`, `FinestCovering` the choice of `top`.

### Calendar

A zone is one change of offset at one instant.  `Instants` is what chrono's
`from_local_datetime` returns: the instants at which clocks show a wall time,
none in a gap and two in a fold.  `Midnight` is `local_midnight`, `BucketStart`
and `BucketEnd` are `calendar_bounds`, and `LocalMs` and `WindowStart` are the
client's own computation of a midnight, in another crate.  Both translate to the same
expression over one zone, since a client runs on the daemon's machine, so that the two
agree is no result of the model.  What it checks of the client is that a window of
today or this month holds the instants, and the daemon's rows of the days, that the
dates say (`WindowHasItsDates`).

`Regular` says for which zones the two are right: a gap that swallows midnight
ends exactly an hour past it, and no fold contains a midnight that had passed.
A clock set forward an hour at midnight, or back an hour at midnight or one, is of
this kind.  Outside
of it (a gap from 23:30 to 00:30, a skipped day as in Samoa in 2011, a fold from
00:01 to 23:01) the bounds of a day do not contain every instant of it; see the
divergences below.

### Watch

| Code | Model |
|---|---|
| `drain_traffic` counting, then `Hub::publish` | `Poll`, `Publish` |
| `Hub.subscribers` and the receiver's queue | `subscribers`, `queue`; the receiver lives while `Listening` |
| `Server::handle`, its read of the first request, its errors | `NoRequest`, `HandleFails` |
| the refusals (another protocol, no hub), `Hub::subscribe` | `Granted`, `Handle` |
| `watch`: the loop over events | `ReceiveTick`, `LookupFails`, `ReceiveStop` |
| `WatchView`: `known`, `sent`, `chunk` | `known`, `sent`, `LookedUp`, `Kept`, `SentAfter` |
| `write_msg`, its limit and its timeout | `Write`, `TooLong`, `WriteFails` |
| `shutdown(Both)` and the end of the thread | `LeaveLoop`, `Finish` |
| the thread that reads further requests | `ReaderStops` |
| `WatchStream` at the other end | `Connect`, `Ask`, `Read`, `Cancel`, `HangUp` |

A delta is an identity and a scope, a row of a chunk the set of deltas it sums;
a limit keeps any subset of its size, since bytes only matter for the ranking.
The receiver and the read of a socket are separate steps of separate threads; a
frame arrives whole or not at all.

### Trends

The feed thread (`Connects`, `Reads`, `Fails`, `Wakes`), the channel, and the
view's loop over `try_recv` (`TakeChunk`, `TakeDown`), with the daemon stopping
and starting at any moment.  What is drawn is a function of the state: `FlowTrend`
is the alignment in `live_measures`, `Add` is `Measure::add`, `Trend` and
`CurrentRate` are what a row shows.  `latest` is history: the chunks themselves,
from which the invariant computes what should be shown.

### Interactive

`App::run` is a loop of a tick, a frame and at most one key.  The tick's parts
are steps (`TakeIn`, `NotDue` or `Refreshed` or `RefreshFails`, `Recompute`,
`NoFetch` or `Fetched` or `FetchFails`), a frame is the state `step = "draw"`, and
each key is a step from there.  What is fetched is known by what it was fetched
for: `storedFor`, `todayFor` and `history.of` say for which choice, and
`history.age` whether before the latest refresh.  The ranking is any order of the
rows.  `REFRESH` passes at any moment (`Elapse`).

## The runs

| Run | Shows | Instance |
|---|---|---|
| `rollup_any_clock` | `CountedOnce`, `MonthViewExplained`, `WatermarksAdvance`, `ViewsOnlyAge` whatever the clock, zone and faults do | 2 chunks, minutes 0..3, 2 zones, clock +1/-2, errors, crashes |
| `rollup_punctual` | `PassCatchesUp`, `ImplementsLedger` and the liveness properties, under `FairSpec` | 2 chunks, minutes 0..6, clock +1, errors, crashes |
| `query` | `MonthViewComplete`, `OnlyOvertakenIsMissed`, `WindowIsRead`, `SeriesIsFiled`, `FinestIsComplete`, `FailureLosesOneEntry` | 2 chunks, minutes 0..5, clock +1/+3, a drain punctual between jumps, errors |
| `calendar` | `DayBeginsFirst`, `BucketsTile`, `WindowHasItsDates` | every regular change by up to 2.5 hours at 18 instants of three days, 51 instants |
| `collector` | `ReadOnce`, `EagerlyNamed`, `ChargedToSender`, `DropsOnlyOnFailure`, `DeadAreEvicted` | 2 tgids, 2 processes, 2 chunks, maps and ring of 1, any reuse, every fault |
| `watch` | `Attended`, `DescribedOnce`, `ImplementsBroadcast`, `EndedIsForgotten`, `StalledIsDropped` | 1 stream used again and again, 2 users, 2 deltas, 5 requests, queue of 2, socket of 1 |
| `trends` | `TrendsAligned`, `EveryFlowNamed`, `FollowsDaemon` | 3 flows of 2 identities, 3 chunks, trends of 3, rates of 2, channel of 2 |
| `interactive` | `ShownIsChosen`, `CursorOnRow`, `CursorFollows`, `ErrorHeals` | 2 identities in 1 group, 2 windows, 3 filters, 4 cursor keys |
| `rollup_suspend`, `rollup_zone_change`, `collector_stale_cache`, `collector_gc` | a counterexample each, see below | |

Why the bounds are enough.

- *Rollup*: an hour is 2 or 3 minutes, days and months are 1 to 4, so midnight
  falls inside an hour bucket, and the second zone's midnights fall inside the
  first one's days.  Within the horizon an hour, two days and a month close and
  are rolled up, and each table is pruned before and after its rows were
  consumed.  Two chunks are what a double count or an overtaking needs.  A
  pass may be put off to the last minute, and then has several buckets of a tier
  and a month with its days to roll up.
- *Query*: the long calendar, in which a window can begin and end inside every
  kind of bucket, with retentions of 1, 3 and 4 so that each of the four tiers is
  the finest for some window.  A clock that steps by 3 ages rows past a retention
  during one wait, and passes an hour or a day with its grace while a minute is in
  memory.
- *Calendar*: days of six units of half an hour each hold every position of a change
  within a day; what does not depend on sizes is proved.
- *Collector*: a map of one counter fills with two tgids, and two processes on one
  number are what every confusion of identities needs.
- *Watch*: streams share nothing but the hub's list, and the slot of a stream is
  used again after it is forgotten, so one stream meets every state of the other
  actors.  A queue of 2 holds a tick and a Stop in either order; a socket of 1
  blocks at once.  The five requests use visibility, scope, grouping, a limit
  that cuts a row, and a protocol that is refused.
- *Trends*: trends of 3 and rates of 2 make both windows overflow, and a channel of
  2 holds messages of two streams.
- *Interactive*: history windows differ by name only, so the live one and one other
  are enough; two rows are what a cursor can confuse.

The names of the bounds are `Horizon`, `ClockSteps`, `Chunk` (Rollup, Query),
`Instant`, `Change`, `Offset` (Calendar), `Tgid`, `Proc`, `Chunk`, `TrafficCap`,
`PidCap`, `RingCap` (Collector), `QueueCap`, `SocketCap` (Watch), `ChannelCap`
(Trends) and `Filters`, `Moves` (Interactive).  The hub's queue is unbounded in
the code; `QueueCap` only stops the drain thread of the model from publishing
further while a queue is full.  Deadlock is checked except in `interactive`, where the user
quits, and `calendar`, which ends at its last instant.

`PunctualDrain` is an assumption, not a mechanism: `rollup.rs:99` explains the
grace period by "the collector writes a closed minute on its next poll", and
where the constant is TRUE a pass starts only if the drain has kept that
promise within the grace period.  Entries that a jump of the clock overtook are
exempt, since no drain could have kept it for them.

Fairness.

- `Rollup!FairSpec`: the clock runs (`WF` on `Tick`), a thread that holds the mutex
  goes on (`WF` on `FlushEntry` and `RollupStep`), and a thread that asks for the
  mutex again and again gets it some time (`SF` on `LockForFlush` and
  `BeginRollup`): both loop for ever and sleep between their turns, so the other
  one finds the mutex free.  Errors and crashes are never forced, and
  `DueIsRolledUp` is stated for behaviours in which they stop.
- `Collector!FairSpec`: the drain thread loops for ever; `DeadAreEvicted` is stated
  for behaviours in which flushes and removals from `PID_META` do not fail for ever.
- `Watch!FairSpec`: the drain publishes, and each thread of a stream takes its next
  step: reads and writes have timeouts, and `shutdown` wakes the other thread.
  Nothing is assumed of a client; `StalledIsDropped` is about one that reads no
  more.
- `Trends!FairSpec`: the feed thread loops, a running daemon sends chunks, a read
  from a closed connection fails, and the view takes in what came.  `FollowsDaemon`
  says of a daemon that stays away only what follows once the feed thread has come to
  the end of the lost connection: `Reads` does not bound what is left in it, as a
  socket does.
- `Interactive!FairSpec`: the loop goes on (a key or the end of a poll always
  comes), a request is answered or fails by its timeout, and time passes.
  `ErrorHeals` assumes that failures stop and that the view is not left.

Refinements.  `ImplementsLedger`: the hour, day and month *views* of the detailed
model, substituted for the ledger's three variables, take only the ledger's
steps; recording enters all three at once, and roll-up, prune and the steps of a
pass are stutters or the forgetting of old hours and days.  `ImplementsBroadcast`:
what is in the queue, held by the writing thread and in the socket, cut down to
the request, is the pipe of the abstract stream; the steps of the threads move
ticks inside the pipe and are stutters, a limit is `Cut`, and every way of ending
is `Close`.

No passing run spends time on two properties that are proved: `NeverLate`, which
`ImplementsLedger` implies where it is checked (a chunk that is late is no step of the
ledger), and `QueryTypeOK`.

## The proofs

All theorems are for every number of chunks, processes, streams, flows and rows,
every length of a list, an hour or a retention, and every horizon.  Assumptions
on constants are those of the modules (`RollupAssumption`, `CalendarAssumption`,
`MonthsStartOnDays`, `WatchAssumption`, ...), which TLC evaluates on every run, and
the ones in the last column.

| Theorem | Property | Assumes besides |
|---|---|---|
| `RollupProofs!TypeCorrect` | `TypeOK` | |
| `RollupProofs!CountedOnceAlways` | `CountedOnce` | |
| `RollupProofs!WatermarksNeverRetreat` | `WatermarksAdvance` | |
| `RollupProofs!FailuresLoseOneEntry` | `FailureLosesOneEntry` | |
| `RollupViewProofs!ViewsAgeOnly` | `ViewsOnlyAge` | |
| `RollupViewProofs!MonthLossesAreExplained` | `MonthViewExplained` | |
| `RollupViewProofs!MonthViewKeepsAll` | `MonthViewComplete` | one zone |
| `RollupViewProofs!JumpsCostWhatIsInMemory` | `OnlyOvertakenIsMissed` | one zone, `ClockSteps \subseteq Nat`, `PunctualDrain` |
| `RollupViewProofs!PassesCatchUp` | `PassCatchesUp` | one zone |
| `RollupViewProofs!PunctualIsNeverLate` | `NeverLate` | `ClockSteps = {1}`, `PunctualDrain` |
| `RollupViewProofs!RollupImplementsLedger` | `ImplementsLedger` | one zone, `ClockSteps = {1}`, `PunctualDrain` |
| `QueryProofs!QueryTypeCorrect` | `TypeOK`, `QueryTypeOK` | |
| `QueryProofs!QueriesOnlyRead` | `QuerySpec => Spec` | |
| `QueryProofs!WindowsAreRead` | `WindowIsRead` | one zone |
| `QueryProofs!SeriesAreFiled` | `SeriesIsFiled` | one zone |
| `QueryProofs!FinestTierIsComplete` | `FinestIsComplete` | one zone, `MinuteRet <= HourRet <= DayRet` |
| `QueryProofs!AnswersAreWhole` | `FinestIsComplete` of all that was recorded and no jump overtook | the same, `ClockSteps \subseteq Nat`, `PunctualDrain` |
| `CollectorProofs!TypeCorrect` | `TypeOK` | |
| `CollectorProofs!CountersReadOnce` | `ReadOnce` | |
| `CollectorProofs!BytesAreNotDropped` | `DropsOnlyOnFailure` | |
| `CollectorProofs!BytesChargedToSender` | `ChargedToSender` | |
| `CollectorProofs!FirstSightNames` | `EagerlyNamed` | |
| `WatchProofs!TypeCorrect` | `TypeOK` | |
| `WatchProofs!StreamsAreAttended` | `Attended` | |
| `WatchProofs!ChunksDescribeOnce` | `DescribedOnce` | |
| `WatchProofs!StreamsKeepThePromise` | `ImplementsBroadcast` | |
| `TrendsProofs!TypeCorrect` | `TypeOK` | |
| `TrendsProofs!FlowsAreNamed` | `EveryFlowNamed` | |
| `TrendsProofs!FlowsAreAligned` | `TrendsAligned` for a single flow | |
| `TrendsProofs!TrendsAreAligned` | `TrendsAligned` | |
| `InteractiveProofs!TypeCorrect` | `TypeOK` | |
| `InteractiveProofs!ShowsTheChoice` | `ShownIsChosen` | |
| `InteractiveProofs!CursorIsOnRow` | `CursorOnRow` | |
| `InteractiveProofs!CursorKeepsRow` | `CursorFollows` | |
| `CalendarProofs!DaysBeginFirst` | `DayBeginsFirst` | |
| `CalendarProofs!BucketsCoverTime` | `BucketsTile` | |
| `CalendarProofs!WindowsHaveTheirDates` | `WindowHasItsDates` | |
| `CalendarProofs!BoundsAreThoseOfRollup` | `CalendarAssumption` and `MonthsStartOnDays` of the bounds that are computed | |

The assumptions of the last column are the code's own.  One zone is a machine
whose zone nobody changes; `rollup_zone_change` shows what happens when somebody
does.  `ClockSteps = {1}` is a clock that is not set and a machine that does not sleep,
`ClockSteps \subseteq Nat` one that may sleep or be set forward, `PunctualDrain` the grace period's premise (see [The runs](#the-runs)).
The retentions of `rollup.rs:72` grow with the tier.

### Rollup

`CountedOnce` is not inductive.  `CountInv` (in `RollupProofs`) adds where each
chunk can be: a chunk in a table is not in memory; the minute table keeps it at
its own minute; it is in the hour, day or month table only if its minute is
below the mark up to which the minutes of that table were read; and a chunk in
the month table is in no day row still to be rolled up.  The delicate step is
`RollBucket`: the rows it sums lie in `[Mark, end)` and the new mark is `end`, so
what was summed is below the mark afterwards and was not in the table before,
whatever zone `start` was computed in.  The same fact, that a bucket with a pending
row ends past the mark, is all that `WatermarksAdvance` needs, also for its second
half: every call of `rollup_next` that returns true moves its tier's mark strictly
forward, so a pass makes at most `Horizon` of them, which is the safety half of
`EveryPassEnds`.

`PunctualInv` is about the entries in memory that no jump of the clock overtook: a
pass reads the clock while none of them is older than the grace period, those opened
later are younger, and a bucket it closes ends a grace period before its reading.
Hence only what was overtaken can be late (`LateWasOvertaken`), for a clock that goes
forward by any steps.  With steps of one minute nothing is overtaken, which is
`NeverLate`; with others `JumpsCostWhatIsInMemory` follows, which bounds what
`rollup_suspend` shows: a suspend costs what was in memory, and never more.

`MonthViewComplete` needs `KeptInv`: the month's watermark is a midnight; a
minute still to be rolled up into its day is past it; while the pass is at the
months, no day that its clock calls closed is pending.  So a day is always filed
at or past the month's watermark, and a month that closes leaves no minute of it
behind.  The last part rests on the pending buckets having a least element,
which is derived from the well-foundedness of strict inclusion on finite sets
(`LeastElement`); the library's own minimum for the naturals passes `<` as an
operator, which the backends do not translate.

`PassCatchesUp` is the other half of the loop: when it ends, nothing is left.
`rollup_next` gives up at the oldest pending bucket, and an older bucket ends no later
than a younger one, hours included (`EndsInOrder`), so then none is closed
(`DoneIsNotDue`).  `LeftIsNotDue` keeps that for the tiers the pass has left: it holds
the store, so no minute arrives, and the tier that adds the days comes before the one
that reads them.

`MonthViewExplained` is inductive beside `TypeOK` and `AccTimed` (an entry in memory
has a bucket): what keeps a chunk out of the month view puts it into `late` or
`misfiled`.  `ViewsOnlyAge` and the refinement share the lemmas on views:
rolling a bucket leaves the finer part of a view for the coarser one
(`ViewsShrink`), and pruning removes what is below the cut-off (`PrunesAge`).

`RollupImplementsLedger` takes every step of the composed threads: `LedgerInv`
joins `PunctualInv` and `KeptInv` and adds that a chunk in memory is not recorded and
that a view has only what was recorded.  `FlushEntry` is then the ledger's record:
the chunk enters the three views at once because nothing is late.  No other step
adds to a view, so each forgets or stutters, and never in the month view, which is
everything recorded (`MonthIsAll`).

### Query

`QueriesOnlyRead` carries everything above over to `QuerySpec`.  `QueryInv` joins
`CountInv`, `MonthViewExplained` and the two parts of `LedgerInv` about views, and
adds `InBucket`, that a row lies at the start of the bucket of its chunks, which
needs the one zone, and `Lasting`: a chunk that was recorded in time is in each
tier's view, or the minute, hour or day it was pruned from was past that tier's
retention.  `FinestIsComplete` follows from `Lasting` because a coarser tier keeps
its rows at least as long as a finer one; with retentions the other way round the
tier that is chosen could have been pruned while a finer one was not.

`AnswersAreWhole` puts the parts together.  A punctual drain makes nothing late, and
`OnlyLateMisfiled` says that in one zone nothing else can be misfiled: a minute in
time is past the month's watermark, which is a midnight, and then so is the start
of its day.  So the exception that `FinestIsComplete` makes is what a jump overtook,
and without jumps it is empty.

### Collector

`TypeInv` adds to `TypeOK` which tgid the drain thread is at between reading a counter
and attributing it, and that what bounds the maps is finite.  `ReadOnce` needs
`OnceInv`: from the hook that counts it to the accumulator a chunk is in one place,
and what was read and not yet removed is still in the counter it was read from, so a
failed removal counts nothing.
`DropsOnlyOnFailure` follows from the same invariant, step by step: a chunk that was
counted is in a counter, in what was read, or attributed (`HeldIsNotDropped`), and
`UnreadStep` says that what a removal takes besides is what came after the reading.

`ChargedToSender` needs to know of every place that holds something of a tgid whose
it can be: `Known(g)` is the process that has the number, and whoever the metadata, the
cache, the counter and what was read of `g` are of.  `KnownAreRelated` says that all of
them had the number, and that of two different ones at least one is an heir.  A process that takes a number with no
trace left finds `Known(g)` empty; one that takes another is an heir by definition;
every step of a hook or of the drain moves members of `Known(g)` between places of
`g`, and never to another number.  `EagerlyNamed` needs `NamedInv`: a tgid with one owner has only that
owner's metadata and cache entry (`FreshIsUntouched`, `FirstNamed`), and once its
notice is handled, the entry is the full one (`HandledNamed`).  An eviction cannot take
that entry away, since a tgid that is about to be evicted has had its first process,
also if the number was taken again after the scan (`DoomedAreLater`).

### Watch

`Attended` is not inductive: a thread that writes a chunk will wait again.
`Served` says of it what `Attended` says of the thread that waits.

`LoopInv` describes the loop in `watch`: what is empty at which point of it
(`Phases`), that an `End` or `Error` is the last frame of a socket, that the identities
of a tick are in the store before it is in a queue (`FromStore`), and that what a
stream remembers of a lookup is so (`Truthful`).  The last two are why remembering
"not visible" for ever is right.

`DescribedOnce` adds `Described`: the identities sent are those described to the
client together with those described in the chunks on their way, so that a chunk
describes what it uses and nobody described before it.

`StreamsKeepThePromise` is proved in three layers.  A stream's pipe is a `Line`: as
many chunks as its frames begin with, then as many ticks as its queue begins with.
Lemmas say what becomes of a line when its two sequences change (`LineSame`,
`LineCut`, `LineTail`, `LineGrows`, `LineTurns`), over sequences of any length.  Every
action of the two threads and of the client is one of these (`PeerPipe`,
`ServePipe`), so the stream stays, opens, delivers, is cut or closes; `PublishPipe`
is the one step that is of all streams.  `OneStream` and `PromisedTick` put the
streams together into a step of `Broadcast`.  A limit may cut a tick only where the
request has one, since otherwise every row is kept (`KeptShows`).

### Trends, Interactive, Calendar

*Trends.*  `Named` follows the descriptions through the channel: what a stream has
described is known to the view or in the channel, and a chunk's rows are known by
what precedes them.  It is lost when the view closes and the channel with it, and
then nothing is taken in.  `Aligned` compares every list with the chunks
themselves; `LastIsPushed` says that dropping the oldest of a full list keeps the
latest.  `TrendsAligned` follows from it in every state, once the sums are dealt
with.  What `SumFunction` computes for a function on any finite set is shown by
induction on the size of its parts (`SumFacts`: any element may be taken first),
and then that the flows of an identity which are not shown add nothing
(`ZerosAddNothing`) and that a flow with fewer samples than the window has the sum
of the window, in which it has zeros first (`PaddingAddsNothing`).  The induction
itself is `NatIsInductive`: a set of naturals with 0 and every successor is all of
them, from the well-foundedness of strict inclusion; the library's induction
theorem takes the statement as an operator.  A row has at most two flows, external
and loopback, so its fold is unfolded as it stands (`RowOfTwo`).

*Interactive.*  `ShownInv` is the reason why `refresh` forgets `history_for` first:
totals that are not asked for again, and a history that is not, are those of the
choices, or an error is shown.

*Calendar.*  Everything follows from `MidnightSplits`: an instant is at or past the
midnight of a date exactly if clocks then show that date or a later one.  It needs
`Regular` twice, for the gap that swallows a midnight and for the fold that would
repeat one.  `BucketSplits` says the same of the buckets.  `WindowsHaveTheirDates`
uses it twice: an instant up to now is in the window exactly if it is in the bucket
the window begins with, and the daemon's row of a day stands at an instant of that
day.  `BoundsAreThoseOfRollup` closes the gap between the two models: `Rollup` is
proved of any calendar in which each instant has a nearest midnight on either side
and months start on days, and the bounds of `Calendar` are such, up to the origin
of time, which `Rollup` puts at 0.

### Only model-checked

Liveness under fairness, which the prover cannot reach: `DueIsRolledUp` and the
other properties of `FairSpec` in each component.  Their safety halves are proved
where they have one: `WatermarksAdvance` and `PassCatchesUp` for the pass,
`Attended` for the threads of a stream.

## What the runs refute

| Run | The repository says | The code does |
|---|---|---|
| `rollup_suspend` | ADR-0003: a suspend "is simply a gap ... No special handling" | the minute that was open when the machine slept is flushed after its hour and day were rolled up by the new clock; no coarser tier ever holds it |
| `rollup_zone_change` | `rollup.rs:157`: rows below the watermark "are already counted elsewhere" | a day is filed under its start in the new zone, below the month's watermark, and is in no month |
| `collector_stale_cache` | `collector.rs:267`: a tgid that transmits again re-registers itself | a tgid resolved after its eviction stays cached for ever, and its next owner is counted under that entry |
| `collector_gc` | `collector.rs:265`: nothing pending references an evicted tgid | a process that sends and ends during the tick is evicted with its bytes in the counter |

Divergences that modelling brought up and no run is spent on:

- `store.rs:99` says a re-flush cannot lose data; `collector.rs:219` removes an entry
  from the accumulator before it is recorded, so the one entry whose statement
  fails is lost.  `FailureLosesOneEntry` shows that it is no more than one.
- `collector.rs:234` says the drain never drops bytes; it does when an identity
  cannot be stored, and `DropsOnlyOnFailure` shows that it does so only then.
- `tui.rs:221`: after a refresh that fails, the totals on screen are those of the
  choice before, under the new choice's title, with the error shown.
- `tui.rs:225`: an error of a history fetch stays on screen until the next refresh,
  also when the next fetch succeeds.
- `tui.rs:149`: the bytes of a session are those of the chunks received; what moves
  while the stream is lost is not in them.
- `query.rs:280` chooses a tier by the clock read before the store was locked
  (`server.rs:84`); a pass during the wait may prune what the choice relied on.
  `FinestIsComplete` shows that nothing else can be missing.
- `rollup.rs:49` for a zone that is not `Regular`: the day's bounds may not contain
  the row they were computed for.  `rollup_next` then sets a watermark that is not
  past that row and returns true again, for ever, with the store locked.
- `main.rs:155` says that a skipped time resolves to the instant an hour later, "the
  first that exists".  It is the first only where the skipped time is the beginning of
  the gap: 02:30, with clocks set from 02:00 to 03:00, becomes 03:30.  Where a window
  begins, at midnight, the two are the same in a `Regular` zone.

## What is not modelled

- `procflow-ebpf/src/bindings.rs`, generated by bindgen, is 74,704 of the 80,786
  lines of Rust.
- Byte values and their widths: a chunk stands for its bytes, and `u64` counters
  do not wrap in the life of a machine.  `Trends` has byte values, where they
  matter.
- Text: parsing `/proc`, normalising command lines, filters by substring,
  formatting, drawing, themes and arguments.  None keeps state that another part
  reads while it changes.
- The address test of `scope_of`, loading and attaching the programs, migrations,
  opening files and the socket, all of which happen before any thread runs; the
  demo daemon; packaging.
- Frames: their byte layout, and how long a frame is.  Any chunk with rows may be
  too long to write (`TooLong`).
- Ranking, limits and visibility of snapshot queries, which choose among rows that
  are there; `Flow::session`, which nothing resets.
- Panics, and the mutex they would poison.

## The plan

Done: the core (`Rollup`, `Ledger`, `Collector`), and after it `Watch` and
`Broadcast`, `Query`, `Trends` and `Interactive` (planned as one module `Feed`),
`Calendar`.  The planned `Daemon`, collector and store composed, was dropped: what
the two share is the accumulator and the mutex, which `Rollup` has, and the order
of storing an identity, counting and publishing, which `Watch` has.

Proved since: every safety property that a run checks, both refinements, that
with a punctual drain answers lack nothing that was recorded but what a jump of the
clock overtook, and that the calendar which is computed is one that `Rollup` assumes.  Chunks on their way
are stated without `SelectSeq`, which is recursive, as the beginning of a sequence
(`Leading`), so that `DescribedOnce` and `ImplementsBroadcast` could be reasoned
about.

What is left is liveness, which stays with TLC, and the hypotheses of the last
column of the table: the runs `rollup_suspend` and `rollup_zone_change` show that
a clock that jumps and a zone that changes break what they protect, and
`OnlyOvertakenIsMissed` and `MonthViewExplained` how much at most.
