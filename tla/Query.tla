------------------------------- MODULE Query --------------------------------
(***************************************************************************)
(* Reading the history: a snapshot verb reads the clock, waits for the     *)
(* store, picks a tier and reads it stitched together with the finer ones  *)
(* (server.rs respond, query.rs stitched, top and series, rollup.rs        *)
(* finest_covering), while the drain and rollup threads of Rollup go on.   *)
(*                                                                         *)
(* A window [from, to) is of whole minutes.  A reading of the clock is     *)
(* rounded up to the minute, as the readings of a pass are: it is only     *)
(* compared with a whole minute plus a retention.  Visibility, filters,    *)
(* grouping and limits choose among rows and are left out.                 *)
(***************************************************************************)
EXTENDS Rollup

VARIABLES
    asked,      \* the reading of a query that waits for the store, or NoQuery
    pruned      \* history: the latest reading by which a pass has pruned

NoQuery == -1
query == <<asked, pruned>>

QueryInit == Init /\ asked = NoQuery /\ pruned = 0

-----------------------------------------------------------------------------
(* respond: now_s() is read before the store is locked. *)
Ask ==
    /\ asked = NoQuery
    /\ asked' \in {clock, clock + 1}
    /\ UNCHANGED <<vars, pruned>>

(* The store is free: the query is answered from the tables as they are. *)
Answer ==
    /\ asked # NoQuery /\ mutex = "free"
    /\ asked' = NoQuery
    /\ UNCHANGED <<vars, pruned>>

(* The other threads.  A pass that has come to its deletes has pruned. *)
Background ==
    /\ Next
    /\ pruned' = IF job.step \in Steps \ Coarse /\ job.upto > pruned THEN job.upto ELSE pruned
    /\ UNCHANGED asked

QueryNext == Ask \/ Answer \/ Background

QuerySpec == QueryInit /\ [][QueryNext]_<<vars, query>>

-----------------------------------------------------------------------------
(* The answer, a function of the tables. *)

(* stitched: the tables a tier is read from, each from a watermark on. *)
Sources(tier) ==
    CASE tier = "minute" -> {<<"minute", 0>>}
      [] tier = "hour"   -> {<<"hour", 0>>, <<"minute", Mark("hour")>>}
      [] tier = "day"    -> {<<"day", 0>>, <<"minute", Mark("day")>>}
      [] tier = "month"  -> {<<"month", 0>>, <<"day", Mark("month")>>,
                             <<"minute", Mark("day")>>}

(* Bug: the watermark takes the place of the window's start. *)
ReadsFromMark(lower, from, to) ==
    {b \in Time : (IF lower = 0 THEN b >= from ELSE b >= lower) /\ b < to}

(* bucket >= from.max(lower) AND bucket < to *)
Reads(lower, from, to) == {b \in Time : b >= from /\ b >= lower /\ b < to}

(* The rows an answer is made of: the table, the bucket and the chunk. *)
Stitched(tier, from, to) ==
    {r \in UNION {{source[1]} \X Reads(source[2], from, to) \X Chunk : source \in Sources(tier)} :
        r[3] \in rows[r[1]][r[2]]}

Answered(tier, from, to) == {r[3] : r \in Stitched(tier, from, to)}

(* The bucket of a tier that begins at or before t. *)
BucketOf(tier, t) == IF tier = "minute" THEN t ELSE Start(tier, zone, t)
BucketEnd(tier, t) == IF tier = "minute" THEN t + 1 ELSE End(tier, zone, t)

(* Bug: rows of a finer tier are listed under their own bucket. *)
FiledAsRead(tier, r) == r[2]

(* series: a row is folded into the bucket of the tier asked for. *)
Filed(tier, r) == BucketOf(tier, r[2])

(* Bug: minutes are thought to be kept as long as hours. *)
FinestByHours(from, now) ==
    IF now - from <= HourRet THEN "minute"
    ELSE IF now - from <= DayRet THEN "day" ELSE "month"

(* Retention::finest_covering. *)
FinestCovering(from, now) ==
    IF now - from <= MinuteRet THEN "minute"
    ELSE IF now - from <= HourRet THEN "hour"
    ELSE IF now - from <= DayRet THEN "day" ELSE "month"

(* top takes that tier, series that one or, for a long window, a coarser.  *)
Rank(tier) ==
    CASE tier = "minute" -> 1 [] tier = "hour" -> 2 [] tier = "day" -> 3 [] tier = "month" -> 4
Chosen(from, now) == {tier \in Tier : Rank(tier) >= Rank(FinestCovering(from, now))}

-----------------------------------------------------------------------------
(* Properties, of the answer a query would get whenever the store is free. *)

QueryTypeOK == asked \in {NoQuery} \cup 0 .. Horizon + 1 /\ pruned \in 0 .. Horizon + 1

Ends == 1 .. Horizon + 1

(* However far rolling up has come, the answer for a window is made of     *)
(* everything the tier still has of the buckets inside it and of nothing   *)
(* from a bucket outside it: only the buckets its ends fall into depend on *)
(* where the watermarks are.  And no chunk is in it twice.                 *)
WindowIsRead ==
    mutex = "free" => \A tier \in Tier, to \in Ends : \A from \in 0 .. to - 1 :
        /\ \A c \in View(tier) :
             /\ BucketOf(tier, minuteOf[c]) >= from /\ BucketEnd(tier, minuteOf[c]) <= to
                  => c \in Answered(tier, from, to)
             /\ BucketEnd(tier, minuteOf[c]) <= from \/ BucketOf(tier, minuteOf[c]) >= to
                  => c \notin Answered(tier, from, to)
        /\ \A r1, r2 \in Stitched(tier, from, to) : r1[3] = r2[3] => r1 = r2

(* A series lists what it reads from three tables under the bucket of the  *)
(* tier asked for: that of the minute in which the bytes moved, whatever   *)
(* table they are in by now, and so the same bucket before and after every *)
(* roll-up.                                                                *)
SeriesIsFiled ==
    mutex = "free" => \A tier \in Tier : \A r \in Stitched(tier, 0, Horizon + 1) :
        Filed(tier, r) = BucketOf(tier, minuteOf[r[3]])

Retention(tier) ==
    CASE tier = "minute" -> MinuteRet [] tier = "hour" -> HourRet [] tier = "day" -> DayRet

(* "The finest tier that still holds rows as old as" the window's start    *)
(* (rollup.rs:84): an answer from it, or a coarser one, has every byte     *)
(* recorded in the window but for those in the bucket that the start falls *)
(* into.  The tier is chosen by the clock of before the wait for the       *)
(* store: what passes since then have pruned may be missing, no more.      *)
FinestIsComplete ==
    asked # NoQuery /\ mutex = "free" =>
        \A to \in Ends : \A from \in 0 .. to - 1 : \A tier \in Chosen(from, asked) :
            \A c \in recorded \ (late \cup misfiled) :
                from <= BucketOf(tier, minuteOf[c]) /\ minuteOf[c] < to =>
                    \/ c \in Answered(tier, from, to)
                    \/ /\ tier # "month" /\ pruned > asked
                       /\ BucketOf(tier, minuteOf[c]) < pruned - Retention(tier)

=============================================================================
