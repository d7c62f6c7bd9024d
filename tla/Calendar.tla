------------------------------ MODULE Calendar ------------------------------
(***************************************************************************)
(* Days and months in a zone that changes its offset once: the bounds of   *)
(* the day and month buckets (rollup.rs Zone::bounds, calendar_bounds and  *)
(* local_midnight) and the midnights a client's window begins at (main.rs  *)
(* local_ms, tui.rs Window::range).  Rollup takes the midnights as given;  *)
(* this module says for which zones they are what it assumes.              *)
(*                                                                         *)
(* Time is counted in units of which Hour make an hour, so that offsets    *)
(* and changes need not be whole hours.                                    *)
(*                                                                         *)
(* A client runs on the daemon's machine and both read its zone: there is  *)
(* one zone here, and one Instants that either side resolves by itself.    *)
(***************************************************************************)
EXTENDS Integers, FiniteSetsExt

CONSTANTS
    Hour,          \* units in an hour
    Day,           \* units in a day without a change
    MonthDays,     \* days in a month
    Offset,        \* the offsets from UTC a zone may have
    Instant,       \* the instants looked at
    Change         \* the instants at which the offset may change

ASSUME CalendarConstants ==
    /\ Hour \in Nat \ {0} /\ Day \in Nat /\ Day > 2 * Hour /\ MonthDays \in Nat \ {0}
    /\ Offset \subseteq Int /\ Instant \subseteq Nat /\ Change \subseteq Nat
    /\ \A o \in Offset, t \in Instant : t + o >= 0

VARIABLES
    zone,          \* the change and the offsets before and after it
    now            \* the instant

vars == <<zone, now>>

-----------------------------------------------------------------------------
(* chrono. *)

LocalTime(t) == t + IF t < zone.change THEN zone.before ELSE zone.after
DateOf(local) == local \div Day

(* from_local_datetime: the instants at which clocks show a local time,    *)
(* none where it is skipped and two where it is repeated.                  *)
Instants(local) ==
    {t \in {local - zone.before, local - zone.after} : LocalTime(t) = local}

(* MappedLocalTime::earliest *)
Earliest(S) == Min(S)

-----------------------------------------------------------------------------
(* The daemon. *)

(* Bug: of two midnights the later one is taken. *)
MidnightLatest(date) ==
    LET midnight == date * Day
    IN  IF Instants(midnight) # {} THEN Max(Instants(midnight))
        ELSE IF Instants(midnight + Hour) # {} THEN Earliest(Instants(midnight + Hour))
        ELSE midnight

(* local_midnight: an hour later where midnight is skipped, and read as if *)
(* in UTC where that is skipped as well.                                   *)
Midnight(date) ==
    LET midnight == date * Day
    IN  IF Instants(midnight) # {} THEN Earliest(Instants(midnight))
        ELSE IF Instants(midnight + Hour) # {} THEN Earliest(Instants(midnight + Hour))
        ELSE midnight

FirstDate(tier, date) == IF tier = "day" THEN date ELSE date - (date % MonthDays)

(* Bug: a bucket ends when a day or month without a change would. *)
NextMidnightByLength(tier, date) ==
    Midnight(FirstDate(tier, date)) + IF tier = "day" THEN Day ELSE MonthDays * Day

NextMidnight(tier, date) ==
    Midnight(FirstDate(tier, date) + IF tier = "day" THEN 1 ELSE MonthDays)

(* calendar_bounds: [BucketStart, BucketEnd) is the bucket of t. *)
BucketStart(tier, t) == Midnight(FirstDate(tier, DateOf(LocalTime(t))))
BucketEnd(tier, t) == NextMidnight(tier, DateOf(LocalTime(t)))

-----------------------------------------------------------------------------
(* The client. *)

(* Bug: of two midnights the later one is taken. *)
LocalMsLatest(local) ==
    IF Instants(local) # {} THEN Max(Instants(local))
    ELSE IF Instants(local + Hour) # {} THEN Earliest(Instants(local + Hour))
    ELSE local

(* local_ms *)
LocalMs(local) ==
    IF Instants(local) # {} THEN Earliest(Instants(local))
    ELSE IF Instants(local + Hour) # {} THEN Earliest(Instants(local + Hour))
    ELSE local

(* Where Today and This month begin. *)
WindowStart(tier, t) == LocalMs(FirstDate(tier, DateOf(LocalTime(t))) * Day)

-----------------------------------------------------------------------------
(* The zones for which it works: a change that skips midnight sets clocks  *)
(* to exactly an hour past it, and none sets them back over a midnight     *)
(* they had passed already.                                                *)
Skipped(z) == (z.change + z.before) .. (z.change + z.after - 1)
Repeated(z) == (z.change + z.after + 1) .. (z.change + z.before - 1)
Regular(z) ==
    /\ \A local \in Skipped(z) : local % Day = 0 => local + Hour = z.change + z.after
    /\ \A local \in Repeated(z) : local % Day # 0

Init ==
    /\ zone \in {z \in [change : Change, before : Offset, after : Offset] : Regular(z)}
    /\ now \in Instant

(* Time passes; at the last instant nothing is looked at any more. *)
Tick ==
    /\ now + 1 \in Instant
    /\ now' = now + 1
    /\ UNCHANGED zone

Next == Tick

Spec == Init /\ [][Next]_vars

-----------------------------------------------------------------------------
(* Properties. *)

(* "A DST jump can skip midnight; the day then begins at the first instant *)
(* that exists" (rollup.rs:49), and where midnight is there twice, at the  *)
(* first of the two: never later than an instant of that date.             *)
DayBeginsFirst ==
    LET date == DateOf(LocalTime(now))
    IN  /\ DateOf(LocalTime(Midnight(date))) = date
        /\ DateOf(LocalTime(Midnight(date) - 1)) < date
        /\ Midnight(date) <= now

(* Every instant lies in its own bucket, all instants of a bucket have     *)
(* that bucket, and a month begins where a day does: what Rollup assumes   *)
(* of midnights.  Else rollup_next would sum a bucket without the row that *)
(* made it pick the bucket, and find that row again for ever.              *)
BucketsTile ==
    \A tier \in {"day", "month"} :
        LET start == BucketStart(tier, now)
            end == BucketEnd(tier, now)
        IN  /\ start <= now /\ now < end
            /\ \A t \in start .. end - 1 : BucketStart(tier, t) = start /\ BucketEnd(tier, t) = end
            /\ BucketStart("day", BucketStart(tier, now)) = BucketStart(tier, now)

(* What a client asks for as today and this month is what the dates say,   *)
(* through every change of offset: of the instants so far, and of the days *)
(* the daemon has filed them under, those whose date is of this day or     *)
(* month lie in the window, and no others.  A midnight resolved the wrong  *)
(* way leaves out the first day's row or counts the day before in.         *)
WindowHasItsDates ==
    \A tier \in {"day", "month"}, t \in Instant :
        LET from == WindowStart(tier, now)
            meant == FirstDate(tier, DateOf(LocalTime(t))) = FirstDate(tier, DateOf(LocalTime(now)))
        IN  t <= now => /\ from <= t <=> meant
                        /\ from <= BucketStart("day", t) <=> meant

=============================================================================
