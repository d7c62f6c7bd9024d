-------------------------- MODULE RollupViewProofs --------------------------
(***************************************************************************)
(* Proofs that rolling up and pruning lose nothing.  With a punctual drain *)
(* and a clock that goes forward, only what a jump overtook in memory is   *)
(* late; while the zone stays the same the month view keeps every chunk    *)
(* that was not late and each pass rolls up all that is due; under any     *)
(* zones what the month lacks is late or misfiled; the hour and day views  *)
(* only age; and the three views implement a plain ledger.                 *)
(***************************************************************************)
EXTENDS RollupProofs, FiniteSetTheorems, WellFoundedInduction

-----------------------------------------------------------------------------
(* Punctual flushes are never late. *)

(* The grace period keeps every mark at or before what is still in memory  *)
(* and no jump of the clock has overtaken: a pass never uses a reading of  *)
(* the clock that is more than Grace past the oldest such entry.           *)
MarksBehindClock == \A t \in Coarse : watermark[t] # NeverRolled => watermark[t] <= clock
PassIsOlder == job.step \in Steps => job.now <= clock
PassInGrace == job.step \in Steps => \A c \in acc \ overtaken : job.now <= minuteOf[c] + Grace
MemoryPastMarks == \A c \in acc \ overtaken : \A t \in Coarse : Mark(t) <= minuteOf[c]
LateIsOvertaken == late \subseteq overtaken

PunctualInv ==
    MarksBehindClock /\ PassIsOlder /\ PassInGrace /\ MemoryPastMarks /\ LateIsOvertaken

LEMMA PunctualInit == Init => PunctualInv
BY DEF Init, PunctualInv, MarksBehindClock, PassIsOlder, PassInGrace, MemoryPastMarks,
   LateIsOvertaken, Asleep, Steps, Coarse

LEMMA PunctualStep ==
    ASSUME ClockSteps \subseteq Nat, PunctualDrain
    PROVE  TypeOK /\ AccTimed /\ PunctualInv /\ [Next]_vars => PunctualInv'
<1> SUFFICES ASSUME TypeOK, AccTimed, PunctualInv, [Next]_vars PROVE PunctualInv'
  OBVIOUS
<1> USE DEF PunctualInv, MarksBehindClock, PassIsOlder, PassInGrace, MemoryPastMarks,
            LateIsOvertaken
<1>0. /\ Horizon \in Nat /\ Grace \in Nat /\ clock \in Nat
      /\ \A c \in acc : minuteOf[c] \in Nat
      /\ \A t \in Coarse : watermark[t] \in Nat \cup {NeverRolled} /\ Mark(t) \in Nat
      /\ job.now \in Nat
  BY ParameterAssumption DEF TypeOK, AccTimed, Time, Mark
<1>1. CASE Tick
  <2>1. clock' \in Nat /\ clock <= clock' /\ overtaken \subseteq overtaken'
    BY <1>0, <1>1 DEF Tick
  <2>2. UNCHANGED <<acc, minuteOf, watermark, job, late>>
    BY <1>1 DEF Tick, store
  <2>3. \A t \in Coarse : Mark(t)' = Mark(t)
    BY <2>2 DEF Mark
  <2> QED BY <1>0, <2>1, <2>2, <2>3
<1>2. CASE ChangeZone \/ PickClosed \/ LockForFlush \/ UNCHANGED vars
  <2>1. UNCHANGED <<clock, acc, minuteOf, watermark, job, late, overtaken>>
    BY <1>2 DEF ChangeZone, PickClosed, LockForFlush, vars, store, history
  <2>2. \A t \in Coarse : Mark(t)' = Mark(t)
    BY <2>1 DEF Mark
  <2> QED BY <2>1, <2>2
<1>3. CASE Crash \/ RollupFails
  <2>1. /\ UNCHANGED <<clock, minuteOf, watermark, late, overtaken>>
        /\ acc' \subseteq acc /\ job' = Asleep
    BY <1>3 DEF Crash, RollupFails, store, history
  <2>2. \A t \in Coarse : Mark(t)' = Mark(t)
    BY <2>1 DEF Mark
  <2> QED BY <2>1, <2>2 DEF Asleep, Steps, Coarse
<1>4. ASSUME NEW c \in Chunk, Accumulate(c) PROVE PunctualInv'
  <2>1. /\ UNCHANGED <<clock, watermark, job, late, overtaken>>
        /\ acc' = acc \cup {c} /\ minuteOf'[c] = clock
        /\ \A k \in acc \ {c} : minuteOf'[k] = minuteOf[k]
    BY <1>4 DEF Accumulate, TypeOK, store, history
  <2>2. \A t \in Coarse : Mark(t)' = Mark(t) /\ Mark(t) <= clock
    BY <2>1, <1>0 DEF Mark
  <2> QED BY <1>0, <2>1, <2>2
<1>5. ASSUME NEW c \in Chunk, FlushEntry(c) PROVE PunctualInv'
  <2>1. /\ UNCHANGED <<clock, minuteOf, watermark, job, overtaken>>
        /\ acc' = acc \ {c} /\ c \in acc
        /\ late' = IF \E t \in Coarse : minuteOf[c] < Mark(t) THEN late \cup {c} ELSE late
    BY <1>5 DEF FlushEntry, TypeOK
  <2>2. late' \subseteq overtaken
    <3>1. CASE c \in overtaken
      BY <2>1, <3>1
    <3>2. CASE c \notin overtaken
      BY <2>1, <3>2, <1>0
    <3> QED BY <3>1, <3>2
  <2>3. \A t \in Coarse : Mark(t)' = Mark(t)
    BY <2>1 DEF Mark
  <2> QED BY <2>1, <2>2, <2>3
<1>6. ASSUME NEW c \in Chunk, FlushFails(c) PROVE PunctualInv'
  <2>1. /\ UNCHANGED <<clock, minuteOf, watermark, job, late, overtaken>>
        /\ acc' \subseteq acc
    BY <1>6 DEF FlushFails, store, history
  <2>2. \A t \in Coarse : Mark(t)' = Mark(t)
    BY <2>1 DEF Mark
  <2> QED BY <2>1, <2>2
<1>7. CASE BeginRollup
  <2>1. /\ UNCHANGED <<clock, minuteOf, acc, watermark, late, overtaken>>
        /\ job'.now = clock
        /\ \A c \in acc \ overtaken : clock <= minuteOf[c] + Grace
    BY <1>7 DEF BeginRollup, DrainIsPunctual, store, history
  <2>2. \A t \in Coarse : Mark(t)' = Mark(t)
    BY <2>1 DEF Mark
  <2> QED BY <1>0, <2>1, <2>2
<1>8. ASSUME NEW tier \in Coarse, RollBucket(tier) PROVE PunctualInv'
  <2>1. PICK end \in Time : /\ end + Grace <= job.now
                            /\ watermark' = [watermark EXCEPT ![tier] = end]
    BY <1>8, RollBucketFacts
  <2>2. /\ UNCHANGED <<clock, minuteOf, acc, job, late, overtaken>>
        /\ job.step \in Steps /\ end \in Nat
    BY <1>8 DEF RollBucket, Steps, Time
  <2>3. Mark(tier)' = end /\ \A t \in Coarse \ {tier} : Mark(t)' = Mark(t)
    BY <2>1, MarkMoves
  <2>4. \A c \in acc \ overtaken : end <= minuteOf[c]
    BY <2>1, <2>2, <1>0
  <2>5. MemoryPastMarks'
    BY <2>2, <2>3, <2>4
  <2>6. \A t \in Coarse : watermark'[t] = IF t = tier THEN end ELSE watermark[t]
    BY <2>1 DEF TypeOK
  <2>7. MarksBehindClock'
    BY <1>0, <2>1, <2>2, <2>6
  <2> QED BY <2>2, <2>5, <2>7
<1>9. CASE \/ \E tier \in Coarse : TierDone(tier)
           \/ PruneMinute \/ PruneHour \/ PruneDay
  <2>1. UNCHANGED <<clock, minuteOf, acc, watermark, late, overtaken>>
    BY <1>9 DEF TierDone, PruneMinute, PruneHour, PruneDay, store, history
  <2>2. (job'.now = job.now /\ job.step \in Steps) \/ job'.step \notin Steps
    BY <1>9 DEF TierDone, PruneMinute, PruneHour, PruneDay, TypeOK, Steps, Coarse, Asleep
  <2>3. \A t \in Coarse : Mark(t)' = Mark(t)
    BY <2>1 DEF Mark
  <2> QED BY <2>1, <2>2, <2>3
<1> QED
  BY <1>1, <1>2, <1>3, <1>4, <1>5, <1>6, <1>7, <1>8, <1>9 DEF Next, Work, Fault, Drain, RollupStep

(* A clock that runs by minutes overtakes nothing.                         *)
NoneOvertaken == overtaken = {}

LEMMA NoneOvertakenStep ==
    ASSUME ClockSteps = {1}
    PROVE  NoneOvertaken /\ [Next]_vars => NoneOvertaken'
BY DEF NoneOvertaken, Next, Work, Fault, Drain, RollupStep, Tick, ChangeZone, Crash,
   Accumulate, PickClosed, LockForFlush, FlushEntry, FlushFails, BeginRollup, RollBucket,
   TierDone, PruneMinute, PruneHour, PruneDay, RollupFails, history, vars

(* However far the clock jumps ahead, only what is in memory meanwhile can *)
(* be recorded below a watermark: GRACE_S is enough for all the rest.      *)
LEMMA LateWasOvertaken ==
    ASSUME ClockSteps \subseteq Nat, PunctualDrain
    PROVE  Spec => []LateIsOvertaken
<1>1. Init => TypeOK /\ AccTimed /\ PunctualInv
  BY TypeInit, PunctualInit
<1>2. TypeOK /\ AccTimed /\ PunctualInv /\ [Next]_vars
        => TypeOK' /\ AccTimed' /\ PunctualInv'
  BY TypeStep, PunctualStep
<1>3. PunctualInv => LateIsOvertaken
  BY DEF PunctualInv
<1> QED BY <1>1, <1>2, <1>3, PTL DEF Spec

(* Where the drain flushes within the grace period and the clock runs, no  *)
(* minute is recorded below a watermark: the two minutes of GRACE_S are    *)
(* enough, for any calendar and any retention.                             *)
THEOREM PunctualIsNeverLate ==
    ASSUME ClockSteps = {1}, PunctualDrain
    PROVE  Spec => []NeverLate
<1>1. Init => NoneOvertaken
  BY DEF Init, NoneOvertaken
<1>2. NoneOvertaken /\ [Next]_vars => NoneOvertaken'
  BY NoneOvertakenStep
<1>3. NoneOvertaken /\ LateIsOvertaken => NeverLate
  BY DEF NoneOvertaken, LateIsOvertaken, NeverLate
<1>4. Spec => []LateIsOvertaken
  BY LateWasOvertaken
<1> QED BY <1>1, <1>2, <1>3, <1>4, PTL DEF Spec

-----------------------------------------------------------------------------
(* The month view loses nothing. *)

(* A set of instants has a least one. *)
LEMMA LeastElement ==
    ASSUME NEW S, S \subseteq Time, S # {}
    PROVE  \E m \in S : \A n \in S : m <= n
<1> DEFINE Below(m) == {n \in Time : n <= m}
           T == {Below(m) : m \in S}
           R == StrictSubsetOrdering(Time)
<1>1. IsFiniteSet(Time)
  BY FS_Interval, ParameterAssumption DEF Time
<1>2. IsWellFoundedOn(R, SUBSET Time)
  BY <1>1, FS_StrictSubsetOrderingWellFounded, FS_FiniteSubsetsOfFinite
<1>3. T \subseteq SUBSET Time /\ T # {}
  OBVIOUS
<1>4. PICK X \in T : \A Y \in T : <<Y, X>> \notin R
  <2> HIDE DEF T, R
  <2> QED BY <1>2, <1>3, WFMin
<1>5. PICK m \in S : X = Below(m)
  OBVIOUS
<1>6. ASSUME NEW n \in S, ~(m <= n) PROVE FALSE
  <2>1. m \in Nat /\ n \in Nat /\ n < m
    BY <1>6, ParameterAssumption DEF Time
  <2>2. Below(n) \subseteq Below(m) /\ m \in Below(m) /\ m \notin Below(n)
    BY <2>1, ParameterAssumption DEF Time
  <2>3. <<Below(n), Below(m)>> \in R
    <3>1. Below(n) # Below(m)
      BY <2>2
    <3>2. Below(n) \in SUBSET Time /\ Below(m) \in SUBSET Time
      OBVIOUS
    <3> HIDE DEF Below
    <3> QED BY <3>1, <3>2, <2>2 DEF StrictSubsetOrdering
  <2> QED BY <2>3, <1>4, <1>5
<1> QED BY <1>6

(* The month view, chunk by chunk. *)
InMonth(c) == \E b \in Time : c \in rows["month"][b]
InDays(c) == \E d \in Time : d >= Mark("month") /\ c \in rows["day"][d]
InMinutes(c) == \E b \in Time : b >= Mark("day") /\ c \in rows["minute"][b]

(* A month's watermark is a local midnight; a chunk still to be rolled up  *)
(* into its day is past it; and when a pass comes to the months it has     *)
(* rolled up every day that is closed by its clock, for nothing is         *)
(* recorded while it holds the store.                                      *)
StoreHeld == job.step \in Steps => mutex = "rollup"
MarkIsMidnight == Mark("month") \in DayStart[zone]
DaysDone ==
    job.step = "month" =>
        \A b \in Pending("day") : ~Closed(End("day", zone, b), job.now)
PendingPastMonth ==
    \A b \in Time : b >= Mark("day") =>
        \A c \in rows["minute"][b] \ late : Mark("month") <= b
Kept == \A c \in recorded \ late : InMonth(c) \/ InDays(c) \/ InMinutes(c)

KeptInv == StoreHeld /\ MarkIsMidnight /\ DaysDone /\ PendingPastMonth /\ Kept

LEMMA KeptSuffices == Kept => MonthViewComplete
BY DEF Kept, MonthViewComplete, View, Table, Tail, InMonth, InDays, InMinutes

(* The epoch begins a day in every zone. *)
LEMMA EpochIsMidnight == \A z \in Zone : 0 \in DayStart[z]
<1> SUFFICES ASSUME NEW z \in Zone PROVE 0 \in DayStart[z]
  OBVIOUS
<1>1. 0 \in Time
  BY ParameterAssumption DEF Time
<1> QED BY <1>1, CalendarAssumption

LEMMA KeptInit == Init => KeptInv
BY EpochIsMidnight
   DEF Init, KeptInv, StoreHeld, MarkIsMidnight, DaysDone, PendingPastMonth, Kept, Asleep,
       Steps, Coarse, Mark, NeverRolled, Tier

(* The day bucket of t ends at the first midnight past t. *)
LEMMA DayBounds ==
    ASSUME NEW z \in Zone, NEW t \in Time
    PROVE  /\ Start("day", z, t) \in DayStart[z] /\ Start("day", z, t) <= t
           /\ End("day", z, t) \in DayStart[z] /\ t < End("day", z, t)
           /\ \A r \in DayStart[z] : r <= t => r <= Start("day", z, t)
           /\ \A r \in DayStart[z] : r > t => End("day", z, t) <= r
<1>1. \E s \in DayStart[z] : s <= t /\ \A r \in DayStart[z] : r <= t => r <= s
  BY CalendarAssumption
<1>2. \E s \in DayStart[z] : s > t /\ \A r \in DayStart[z] : r > t => s <= r
  BY CalendarAssumption
<1>3. Start("day", z, t) = Latest(DayStart[z], t) /\ End("day", z, t) = After(DayStart[z], t)
  BY DEF Start, End
<1>4. /\ Latest(DayStart[z], t) \in DayStart[z] /\ Latest(DayStart[z], t) <= t
      /\ \A r \in DayStart[z] : r <= t => r <= Latest(DayStart[z], t)
  BY <1>1 DEF Latest
<1>5. /\ After(DayStart[z], t) \in DayStart[z] /\ After(DayStart[z], t) > t
      /\ \A r \in DayStart[z] : r > t => After(DayStart[z], t) <= r
  BY <1>2 DEF After
<1> QED BY <1>3, <1>4, <1>5, CalendarAssumption

(* A month ends at a midnight. *)
LEMMA MonthEndsAtMidnight ==
    ASSUME NEW z \in Zone, NEW t \in Time
    PROVE  End("month", z, t) \in DayStart[z]
<1>1. \E s \in MonthStart[z] : s > t /\ \A r \in MonthStart[z] : r > t => s <= r
  BY CalendarAssumption
<1>2. After(MonthStart[z], t) \in MonthStart[z]
  BY <1>1 DEF After
<1> QED BY <1>2, MonthsStartOnDays DEF End

LEMMA Multiples ==
    ASSUME NEW p \in Int, NEW q \in Int, NEW n \in Nat, p <= q
    PROVE  p * n <= q * n
<1>1. (q - p) * n >= 0
  BY SMTT(30)
<1>2. (q - p) * n = q * n - p * n
  BY SMTT(30)
<1> QED BY <1>1, <1>2

LEMMA HourOf ==
    ASSUME NEW x \in Int, NEW n \in Nat \ {0}
    PROVE  /\ x \div n \in Int /\ x % n \in 0 .. n - 1
           /\ x = (x \div n) * n + (x % n)
BY SMTT(30)

(* Two minutes of one hour have the same quotient. *)
LEMMA SameHour ==
    ASSUME NEW x \in Int, NEW y \in Int, NEW n \in Nat \ {0},
           x - (x % n) <= y, y < x - (x % n) + n
    PROVE  y - (y % n) = x - (x % n)
<1> DEFINE p == x \div n
           q == y \div n
<1>1. /\ p \in Int /\ q \in Int /\ n \in Nat /\ n > 0
      /\ x % n \in 0 .. n - 1 /\ y % n \in 0 .. n - 1
      /\ x = p * n + (x % n) /\ y = q * n + (y % n)
  BY HourOf
<1> HIDE DEF p, q
<1>2. p * n \in Int /\ q * n \in Int
  BY <1>1
<1>3. (p + 1) * n = p * n + n /\ (q + 1) * n = q * n + n
  BY <1>1, SMTT(30)
<1>4. p * n <= y /\ y < p * n + n
  BY <1>1, <1>2
<1>5. p = q
  <2>1. CASE p < q
    <3>1. (p + 1) * n <= q * n
      BY <1>1, <2>1, Multiples
    <3> QED BY <1>1, <1>2, <1>3, <1>4, <3>1
  <2>2. CASE q < p
    <3>1. (q + 1) * n <= p * n
      BY <1>1, <2>2, Multiples
    <3> QED BY <1>1, <1>2, <1>3, <1>4, <3>1
  <2> QED BY <1>1, <2>1, <2>2
<1> QED BY <1>1, <1>2, <1>5

(* A bucket that begins no later ends no later. *)
LEMMA EndsInOrder ==
    ASSUME NEW tier \in Coarse, NEW z \in Zone, NEW m \in Time, NEW b \in Time, m <= b
    PROVE  End(tier, z, m) <= End(tier, z, b)
<1>1. /\ m \in Int /\ b \in Int /\ HourLen \in Nat \ {0}
      /\ End(tier, z, m) \in Nat /\ End(tier, z, b) \in Nat /\ b < End(tier, z, b)
  BY BoundsContain, ParameterAssumption DEF Time
<1>2. CASE tier = "hour"
  <2>1. /\ End(tier, z, m) = m - (m % HourLen) + HourLen
        /\ End(tier, z, b) = b - (b % HourLen) + HourLen
    BY <1>2 DEF End
  <2>2. m % HourLen \in 0 .. HourLen - 1
    BY <1>1, HourOf
  <2>3. CASE b < m - (m % HourLen) + HourLen
    <3>1. m - (m % HourLen) <= b
      BY <1>1, <2>2
    <3>2. b - (b % HourLen) = m - (m % HourLen)
      BY <1>1, <2>3, <3>1, SameHour, ZenonT(30)
    <3> QED BY <1>1, <2>1, <3>2
  <2>4. CASE ~(b < m - (m % HourLen) + HourLen)
    <3>1. End(tier, z, m) <= b
      BY <1>1, <2>1, <2>2, <2>4
    <3> QED BY <1>1, <3>1
  <2> QED BY <2>3, <2>4
<1>3. ASSUME NEW S \in {DayStart[z], MonthStart[z]} PROVE After(S, m) <= After(S, b)
  <2>1. /\ S \subseteq Nat
        /\ \E s \in S : s > m /\ \A r \in S : r > m => s <= r
        /\ \E s \in S : s > b /\ \A r \in S : r > b => s <= r
    BY CalendarAssumption
  <2>2. \A r \in S : r > m => After(S, m) <= r
    BY <2>1 DEF After
  <2>3. After(S, b) \in S /\ After(S, b) > b
    BY <2>1 DEF After
  <2>4. PICK e \in S : e = After(S, b) /\ e > b
    BY <2>3
  <2>5. e \in Nat /\ e > m
    BY <1>1, <2>1, <2>4
  <2> QED BY <2>2, <2>4, <2>5
<1> QED BY <1>2, <1>3 DEF End, Coarse

(* The call that returns false looks at the oldest bucket only; if that    *)
(* one is open, all of them are.                                           *)
LEMMA DoneIsNotDue ==
    ASSUME TypeOK, NEW tier \in Coarse, TierDone(tier)
    PROVE  ~Due(tier, job.now)
<1> SUFFICES ASSUME NEW b \in Pending(tier), Closed(End(tier, zone, b), job.now)
             PROVE  FALSE
  BY DEF Due, Pending
<1>1. PICK m \in Pending(tier) : \A n \in Pending(tier) : m <= n
  <2>1. Pending(tier) \subseteq Time /\ Pending(tier) # {}
    BY DEF Pending
  <2> QED BY <2>1, LeastElement
<1>2. /\ m \in Time /\ b \in Time /\ m <= b
      /\ zone \in Zone /\ Grace \in Nat /\ job.now \in Nat
  BY <1>1, ParameterAssumption DEF Pending, TypeOK, Time
<1>3. End(tier, zone, m) \in Nat /\ End(tier, zone, b) \in Nat
  BY <1>2, BoundsContain
<1>4. End(tier, zone, m) <= End(tier, zone, b)
  BY <1>2, EndsInOrder
<1>5. ~Closed(End(tier, zone, m), job.now)
  BY <1>1 DEF TierDone
<1> QED BY <1>2, <1>3, <1>4, <1>5 DEF Closed

(* What a flush that is not late adds is past every mark. *)
LEMMA KeptFlush ==
    ASSUME TypeOK, AccTimed, KeptInv, NEW c \in Chunk, FlushEntry(c)
    PROVE  KeptInv'
<1> USE DEF KeptInv
<1>1. /\ mutex = "drain" /\ c \in acc /\ minuteOf[c] \in Time
      /\ UNCHANGED <<zone, watermark, job>>
      /\ late \subseteq late' /\ recorded' = recorded \cup {c}
      /\ c \notin late' => \A t \in Coarse : ~(minuteOf[c] < Mark(t))
  BY DEF FlushEntry, TypeOK, AccTimed
<1>2. job.step \notin Steps
  BY <1>1 DEF StoreHeld
<1>3. /\ \A t \in Coarse : Mark(t)' = Mark(t)
      /\ \A t \in Coarse : Mark(t) \in Nat
      /\ minuteOf[c] \in Nat
  BY <1>1, ParameterAssumption DEF Mark, TypeOK, Time, NeverRolled
<1>4. \A t \in Tier : \A b \in Time :
        rows'[t][b] = IF t = "minute" /\ b = minuteOf[c] THEN rows[t][b] \cup {c}
                                                        ELSE rows[t][b]
  BY <1>1 DEF FlushEntry, TypeOK
<1>5. {"minute", "day", "month"} \subseteq Tier /\ {"day", "month"} \subseteq Coarse
  BY DEF Tier, Coarse
<1>6. StoreHeld' /\ MarkIsMidnight' /\ DaysDone'
  BY <1>1, <1>2, <1>3, <1>5 DEF StoreHeld, MarkIsMidnight, DaysDone, Steps, Coarse
<1>7. PendingPastMonth'
  <2> SUFFICES ASSUME NEW b \in Time, b >= Mark("day"), NEW k \in rows'["minute"][b],
                      k \notin late'
               PROVE  Mark("month") <= b
    BY <1>3, <1>5 DEF PendingPastMonth
  <2>1. CASE k \in rows["minute"][b]
    BY <2>1, <1>1 DEF PendingPastMonth
  <2>2. CASE k = c /\ b = minuteOf[c]
    BY <2>2, <1>1, <1>3, <1>5
  <2> QED BY <2>1, <2>2, <1>4, <1>5
<1>8. Kept'
  <2> SUFFICES ASSUME NEW k \in recorded' \ late'
               PROVE  InMonth(k)' \/ InDays(k)' \/ InMinutes(k)'
    BY DEF Kept
  <2>1. CASE k \in recorded
    <3>1. InMonth(k) \/ InDays(k) \/ InMinutes(k)
      BY <2>1, <1>1 DEF Kept
    <3> QED BY <3>1, <1>3, <1>4, <1>5 DEF InMonth, InDays, InMinutes
  <2>2. CASE k = c
    <3>1. minuteOf[c] >= Mark("day")'
      BY <2>2, <1>1, <1>3, <1>5
    <3>2. c \in rows'["minute"][minuteOf[c]]
      BY <1>1, <1>4, <1>5
    <3> QED BY <3>1, <3>2, <2>2, <1>1 DEF InMinutes
  <2> QED BY <2>1, <2>2, <1>1
<1> QED BY <1>6, <1>7, <1>8

(* Rolling a day up: its minutes are past the month's mark, which is a     *)
(* midnight, so the day itself begins at or past it.                       *)
LEMMA KeptRollDay ==
    ASSUME TypeOK, KeptInv, RollBucket("day")
    PROVE  KeptInv'
<1> USE DEF KeptInv
<1>1. "day" \in Coarse /\ "month" \in Coarse /\ {"minute", "day", "month"} \subseteq Tier
  BY DEF Coarse, Tier
<1>2. PICK oldest, start, end \in Time :
        /\ oldest \in Pending("day") /\ \A b \in Pending("day") : oldest <= b
        /\ start = Start("day", zone, oldest) /\ end = End("day", zone, oldest)
        /\ start <= oldest /\ oldest < end
        /\ Mark("day") <= oldest
        /\ rows' = [rows EXCEPT !["day"][start] = @ \cup Moved("day", start, end)]
        /\ watermark' = [watermark EXCEPT !["day"] = end]
  BY <1>1, RollBucketFacts
<1>3. /\ job.step = "day"
      /\ UNCHANGED <<zone, mutex, job, recorded, late>>
  BY DEF RollBucket
<1>4. /\ Mark("day")' = end /\ Mark("month")' = Mark("month")
      /\ Mark("day") \in Time /\ Mark("month") \in Time
  BY <1>1, <1>2, MarkMoves
<1>5. \A t \in Tier : \A b \in Time :
        rows'[t][b] = IF t = "day" /\ b = start THEN rows[t][b] \cup Moved("day", start, end)
                                               ELSE rows[t][b]
  BY <1>2 DEF TypeOK
<1>6. Time \subseteq Nat
  BY ParameterAssumption DEF Time
<1>7. StoreHeld' /\ MarkIsMidnight' /\ DaysDone'
  BY <1>3, <1>4 DEF StoreHeld, MarkIsMidnight, DaysDone
<1>8. PendingPastMonth'
  <2> SUFFICES ASSUME NEW b \in Time, b >= end, NEW k \in rows["minute"][b] \ late
               PROVE  Mark("month") <= b
    BY <1>1, <1>3, <1>4, <1>5 DEF PendingPastMonth
  <2>1. b >= Mark("day")
    BY <1>2, <1>4, <1>6
  <2> QED BY <2>1 DEF PendingPastMonth
<1>9. ASSUME NEW k \in recorded \ late, NEW b \in Time, b >= Mark("day"), b < end,
             k \in rows["minute"][b]
      PROVE  InDays(k)'
  <2>1. b \in Pending("day") /\ oldest <= b /\ start <= b
    BY <1>2, <1>6, <1>9 DEF Pending, Source
  <2>2. k \in Moved("day", start, end)
    BY <2>1, <1>9 DEF Moved, Summed, Source
  <2>3. Mark("month") <= b
    BY <1>9 DEF PendingPastMonth
  <2>4. zone \in Zone /\ Mark("month") \in DayStart[zone]
    BY DEF TypeOK, MarkIsMidnight
  <2>5. Mark("month") <= oldest
    <3>1. ~(Mark("month") > oldest)
      BY <2>3, <2>4, <1>2, <1>4, <1>6, <1>9, DayBounds
    <3> QED BY <3>1, <1>2, <1>4, <1>6
  <2>6. Mark("month") <= start
    BY <2>4, <2>5, <1>2, DayBounds
  <2> QED BY <2>2, <2>6, <1>1, <1>2, <1>4, <1>5, <1>6 DEF InDays
<1>10. Kept'
  <2> SUFFICES ASSUME NEW k \in recorded \ late
               PROVE  InMonth(k)' \/ InDays(k)' \/ InMinutes(k)'
    BY <1>3 DEF Kept
  <2>1. CASE InMonth(k)
    BY <2>1, <1>1, <1>5 DEF InMonth
  <2>2. CASE InDays(k)
    BY <2>2, <1>1, <1>4, <1>5 DEF InDays
  <2>3. CASE InMinutes(k)
    <3>1. PICK b \in Time : b >= Mark("day") /\ k \in rows["minute"][b]
      BY <2>3 DEF InMinutes
    <3>2. CASE b < end
      BY <3>1, <3>2, <1>9
    <3>3. CASE b >= end
      BY <3>1, <3>3, <1>1, <1>4, <1>5 DEF InMinutes
    <3> QED BY <3>2, <3>3, <1>2, <1>6
  <2> QED BY <2>1, <2>2, <2>3 DEF Kept
<1> QED BY <1>7, <1>8, <1>10

(* Rolling a month up: every day closed by the pass's clock is rolled up,  *)
(* so no minute of the month is left, and its days all go into it.         *)
LEMMA KeptRollMonth ==
    ASSUME TypeOK, KeptInv, RollBucket("month")
    PROVE  KeptInv'
<1> USE DEF KeptInv
<1>1. "day" \in Coarse /\ "month" \in Coarse /\ {"minute", "day", "month"} \subseteq Tier
  BY DEF Coarse, Tier
<1>2. PICK oldest, start, end \in Time :
        /\ oldest \in Pending("month") /\ \A b \in Pending("month") : oldest <= b
        /\ start = Start("month", zone, oldest) /\ end = End("month", zone, oldest)
        /\ start <= oldest /\ oldest < end /\ end + Grace <= job.now
        /\ Mark("month") <= oldest
        /\ rows' = [rows EXCEPT !["month"][start] = @ \cup Moved("month", start, end)]
        /\ watermark' = [watermark EXCEPT !["month"] = end]
  BY <1>1, RollBucketFacts
<1>3. /\ job.step = "month"
      /\ UNCHANGED <<zone, mutex, job, recorded, late>>
  BY DEF RollBucket
<1>4. /\ Mark("month")' = end /\ Mark("day")' = Mark("day")
      /\ Mark("day") \in Time /\ Mark("month") \in Time
  BY <1>1, <1>2, MarkMoves
<1>5. \A t \in Tier : \A b \in Time :
        rows'[t][b] = IF t = "month" /\ b = start
                      THEN rows[t][b] \cup Moved("month", start, end) ELSE rows[t][b]
  BY <1>2 DEF TypeOK
<1>6. /\ Time \subseteq Nat /\ Grace \in Nat
      /\ zone \in Zone /\ job.now \in Nat
  BY ParameterAssumption DEF Time, TypeOK
<1>7. StoreHeld'
  BY <1>3 DEF StoreHeld
<1>8. MarkIsMidnight'
  BY <1>2, <1>3, <1>4, <1>6, MonthEndsAtMidnight DEF MarkIsMidnight
<1>9. DaysDone'
  <2>1. Pending("day")' = Pending("day")
    BY <1>1, <1>4, <1>5 DEF Pending, Source
  <2> QED BY <2>1, <1>3 DEF DaysDone, Closed
<1>10. PendingPastMonth'
  <2> SUFFICES ASSUME NEW b \in Time, b >= Mark("day"), NEW k \in rows["minute"][b]
               PROVE  end <= b
    BY <1>1, <1>3, <1>4, <1>5 DEF PendingPastMonth
  <2>1. b \in Pending("day")
    BY DEF Pending, Source
  <2>2. ~(End("day", zone, b) + Grace <= job.now)
    BY <2>1, <1>3 DEF DaysDone, Closed
  <2>3. End("day", zone, b) \in Nat
    BY <1>1, <1>6, BoundsContain
  <2>4. end \in DayStart[zone]
    BY <1>2, <1>6, MonthEndsAtMidnight
  <2>5. ~(end > b)
    BY <2>2, <2>3, <2>4, <1>2, <1>6, DayBounds
  <2> QED BY <2>5, <1>6
<1>11. Kept'
  <2> SUFFICES ASSUME NEW k \in recorded \ late
               PROVE  InMonth(k)' \/ InDays(k)' \/ InMinutes(k)'
    BY <1>3 DEF Kept
  <2>1. CASE InMonth(k)
    BY <2>1, <1>1, <1>5 DEF InMonth
  <2>2. CASE InDays(k)
    <3>1. PICK d \in Time : d >= Mark("month") /\ k \in rows["day"][d]
      BY <2>2 DEF InDays
    <3>2. CASE d < end
      <4>1. d \in Pending("month") /\ start <= d
        BY <3>1, <1>2, <1>6 DEF Pending, Source
      <4>2. k \in Moved("month", start, end)
        BY <4>1, <3>1, <3>2 DEF Moved, Summed, Source
      <4> QED BY <4>2, <1>1, <1>5 DEF InMonth
    <3>3. CASE d >= end
      BY <3>1, <3>3, <1>1, <1>4, <1>5 DEF InDays
    <3> QED BY <3>2, <3>3, <1>2, <1>6
  <2>3. CASE InMinutes(k)
    BY <2>3, <1>1, <1>4, <1>5 DEF InMinutes
  <2> QED BY <2>1, <2>2, <2>3 DEF Kept
<1> QED BY <1>7, <1>8, <1>9, <1>10, <1>11

LEMMA KeptStep ==
    ASSUME NEW z, Zone = {z}
    PROVE  TypeOK /\ AccTimed /\ KeptInv /\ [Next]_vars => KeptInv'
<1> SUFFICES ASSUME TypeOK, AccTimed, KeptInv, [Next]_vars PROVE KeptInv'
  OBVIOUS
<1>1. {"minute", "day", "month"} \subseteq Tier /\ {"day", "month"} \subseteq Coarse
  BY DEF Tier, Coarse
<1>2. CASE \/ Tick \/ PickClosed \/ LockForFlush \/ Crash \/ RollupFails \/ BeginRollup
           \/ UNCHANGED vars
           \/ \E c \in Chunk : Accumulate(c) \/ FlushFails(c)
  <2>1. UNCHANGED <<zone, rows, watermark, recorded, late>>
    BY <1>2 DEF Tick, PickClosed, LockForFlush, Crash, RollupFails, BeginRollup,
                Accumulate, FlushFails, vars, store, history
  <2>2. StoreHeld'
    BY <1>2 DEF KeptInv, StoreHeld, Tick, PickClosed, LockForFlush, Crash, RollupFails,
                BeginRollup, Accumulate, FlushFails, vars, Asleep, Steps, Coarse
  <2>3. job' = job \/ job'.step # "month"
    BY <1>2 DEF Tick, PickClosed, LockForFlush, Crash, RollupFails, BeginRollup,
                Accumulate, FlushFails, vars, Asleep
  <2>4. Mark("day")' = Mark("day") /\ Mark("month")' = Mark("month")
    BY <2>1 DEF Mark
  <2>5. Pending("day")' = Pending("day")
    BY <2>1, <2>4 DEF Pending
  <2>6. MarkIsMidnight' /\ DaysDone' /\ PendingPastMonth'
    BY <2>1, <2>3, <2>4, <2>5
       DEF KeptInv, MarkIsMidnight, DaysDone, PendingPastMonth, Closed
  <2>7. Kept'
    BY <2>1, <2>4 DEF KeptInv, Kept, InMonth, InDays, InMinutes
  <2> QED BY <2>2, <2>6, <2>7 DEF KeptInv
<1>3. CASE ChangeZone
  BY <1>3 DEF ChangeZone, TypeOK
<1>4. ASSUME NEW c \in Chunk, FlushEntry(c) PROVE KeptInv'
  BY <1>4, KeptFlush
<1>5. CASE RollBucket("hour")
  <2>1. /\ UNCHANGED <<zone, mutex, job, recorded, late>> /\ job.step = "hour"
    BY <1>5 DEF RollBucket
  <2>2. PICK start, end \in Time :
          /\ rows' = [rows EXCEPT !["hour"][start] = @ \cup Moved("hour", start, end)]
          /\ watermark' = [watermark EXCEPT !["hour"] = end]
    BY <1>5, RollBucketFacts DEF Coarse
  <2>3. rows'["minute"] = rows["minute"] /\ rows'["day"] = rows["day"]
        /\ rows'["month"] = rows["month"]
    BY <2>2, <1>1 DEF TypeOK
  <2>4. Mark("day")' = Mark("day") /\ Mark("month")' = Mark("month")
    BY <2>2, MarkMoves DEF Coarse
  <2>5. StoreHeld' /\ MarkIsMidnight' /\ DaysDone' /\ PendingPastMonth'
    BY <2>1, <2>3, <2>4
       DEF KeptInv, StoreHeld, MarkIsMidnight, DaysDone, PendingPastMonth
  <2>6. Kept'
    BY <2>1, <2>3, <2>4 DEF KeptInv, Kept, InMonth, InDays, InMinutes
  <2> QED BY <2>5, <2>6 DEF KeptInv
<1>6. CASE RollBucket("day")
  BY <1>6, KeptRollDay
<1>7. CASE RollBucket("month")
  BY <1>7, KeptRollMonth
<1>8. ASSUME NEW tier \in Coarse, TierDone(tier) PROVE KeptInv'
  <2>1. /\ UNCHANGED <<zone, mutex, rows, watermark, recorded, late>>
        /\ job.step = tier /\ job'.now = job.now /\ job'.step = NextStep(tier)
    BY <1>8 DEF TierDone, TypeOK, store, history
  <2>2. Mark("day")' = Mark("day") /\ Mark("month")' = Mark("month")
    BY <2>1 DEF Mark
  <2>3. Pending("day")' = Pending("day")
    BY <2>1, <2>2 DEF Pending
  <2>4. DaysDone'
    <3>1. CASE tier = "day"
      <4>1. \A b \in Pending("day") : ~Closed(End("day", zone, b), job.now)
        BY <1>8, <3>1, DoneIsNotDue DEF Due, Pending
      <4> QED BY <4>1, <2>1, <2>3 DEF DaysDone, Closed
    <3>2. CASE tier # "day"
      BY <3>2, <2>1 DEF DaysDone, NextStep, Coarse
    <3> QED BY <3>1, <3>2
  <2>5. StoreHeld' /\ MarkIsMidnight' /\ PendingPastMonth'
    BY <2>1, <2>2 DEF KeptInv, StoreHeld, MarkIsMidnight, PendingPastMonth, Steps
  <2>6. Kept'
    BY <2>1, <2>2 DEF KeptInv, Kept, InMonth, InDays, InMinutes
  <2> QED BY <2>4, <2>5, <2>6 DEF KeptInv
<1>9. CASE PruneMinute \/ PruneHour \/ PruneDay
  <2>1. /\ UNCHANGED <<zone, watermark, recorded, late>>
        /\ job'.step # "month" /\ job.step \in Steps
        /\ (mutex' = mutex \/ job'.step = "asleep")
    BY <1>9 DEF PruneMinute, PruneHour, PruneDay, NextStep, TypeOK, history, Asleep, Steps
  <2>2. /\ Mark("day")' = Mark("day") /\ Mark("month")' = Mark("month")
    BY <2>1 DEF Mark
  <2>3. \A b \in Time : /\ rows'["month"][b] = rows["month"][b]
                        /\ rows'["minute"][b] \subseteq rows["minute"][b]
                        /\ b >= Mark("day") => rows'["minute"][b] = rows["minute"][b]
                        /\ b >= Mark("month") => rows'["day"][b] = rows["day"][b]
    <3>1. CASE PruneMinute
      <4>1. \A t \in Tier : \A b \in Time :
              rows'[t][b] = IF t = "minute" /\ b \in OldMinutes THEN {} ELSE rows[t][b]
        BY <3>1, <1>1, DeleteFacts DEF PruneMinute
      <4>2. \A b \in OldMinutes : ~(b >= Mark("day"))
        BY ParameterAssumption DEF OldMinutes, Mark, TypeOK, Time, Coarse
      <4> QED BY <4>1, <4>2, <1>1
    <3>2. CASE PruneHour
      <4>1. \A t \in Tier : \A b \in Time :
              rows'[t][b] = IF t = "hour" /\ b \in OldHours THEN {} ELSE rows[t][b]
        BY <3>2, DeleteFacts DEF PruneHour, Tier, Coarse
      <4> QED BY <4>1, <1>1
    <3>3. CASE PruneDay
      <4>1. \A t \in Tier : \A b \in Time :
              rows'[t][b] = IF t = "day" /\ b \in OldDays THEN {} ELSE rows[t][b]
        BY <3>3, <1>1, DeleteFacts DEF PruneDay
      <4>2. \A b \in OldDays : ~(b >= Mark("month"))
        BY ParameterAssumption DEF OldDays, Mark, TypeOK, Time, Coarse
      <4> QED BY <4>1, <4>2, <1>1
    <3> QED BY <1>9, <3>1, <3>2, <3>3
  <2>4. StoreHeld' /\ MarkIsMidnight' /\ DaysDone'
    BY <2>1, <2>2 DEF KeptInv, StoreHeld, MarkIsMidnight, DaysDone, Steps, Coarse
  <2>5. PendingPastMonth'
    BY <2>1, <2>2, <2>3 DEF KeptInv, PendingPastMonth
  <2>6. Kept'
    BY <2>1, <2>2, <2>3 DEF KeptInv, Kept, InMonth, InDays, InMinutes
  <2> QED BY <2>4, <2>5, <2>6 DEF KeptInv
<1> QED
  BY <1>2, <1>3, <1>4, <1>5, <1>6, <1>7, <1>8, <1>9 DEF Next, Work, Fault, Drain, RollupStep, Coarse

(* In one time zone the month view never loses a chunk that was in time,   *)
(* under any clock, any errors and crashes and any retention.              *)
THEOREM MonthViewKeepsAll ==
    ASSUME NEW z, Zone = {z}
    PROVE  Spec => []MonthViewComplete
<1>1. Init => TypeOK /\ AccTimed /\ KeptInv
  BY TypeInit, KeptInit
<1>2. TypeOK /\ AccTimed /\ KeptInv /\ [Next]_vars => TypeOK' /\ AccTimed' /\ KeptInv'
  BY TypeStep, KeptStep
<1>3. KeptInv => MonthViewComplete
  BY KeptSuffices DEF KeptInv
<1> QED BY <1>1, <1>2, <1>3, PTL DEF Spec

(* In one zone, however far the clock jumps ahead, all that the month view *)
(* can lack is what was in memory during a jump (rollup.rs GRACE_S).       *)
THEOREM JumpsCostWhatIsInMemory ==
    ASSUME NEW z, Zone = {z}, ClockSteps \subseteq Nat, PunctualDrain
    PROVE  Spec => []OnlyOvertakenIsMissed
<1>1. MonthViewComplete /\ LateIsOvertaken => OnlyOvertakenIsMissed
  BY DEF MonthViewComplete, LateIsOvertaken, OnlyOvertakenIsMissed
<1> QED BY <1>1, MonthViewKeepsAll, LateWasOvertaken, PTL

-----------------------------------------------------------------------------
(* A pass that nothing stops has caught up. *)

(* Nothing is recorded while the pass holds the store, so a tier it has    *)
(* left owes nothing until the pass ends.                                  *)
StepsAfter(tier) ==
    CASE tier = "hour"  -> Steps \ {"hour"}
      [] tier = "day"   -> Steps \ {"hour", "day"}
      [] tier = "month" -> Steps \ Coarse

LeftIsNotDue == \A tier \in Coarse : job.step \in StepsAfter(tier) => ~Due(tier, job.now)

LEMMA StepsAfterFacts ==
    ASSUME NEW tier \in Coarse
    PROVE  /\ StepsAfter(tier) \subseteq Steps \ {tier, "hour"}
           /\ Steps \ Coarse \subseteq StepsAfter(tier)
           /\ "asleep" \notin StepsAfter(tier)
           /\ \A step \in Steps \ {"prune_day"} :
                 NextStep(step) \in StepsAfter(tier) => step = tier \/ step \in StepsAfter(tier)
BY DEF StepsAfter, Steps, Coarse, NextStep

(* A step that leaves the zone and the marks, and adds no row to the table *)
(* a tier is built from, makes nothing due.                                *)
LEMMA NotDueStays ==
    ASSUME NEW tier \in Coarse, zone' = zone, job'.now = job.now, Mark(tier)' = Mark(tier),
           \A b \in Time : rows'[Source(tier)][b] \subseteq rows[Source(tier)][b]
    PROVE  ~Due(tier, job.now) => ~Due(tier, job.now)'
BY DEF Due, Closed

LEMMA LeftIsNotDueStep ==
    ASSUME NEW z, Zone = {z}
    PROVE  TypeOK /\ StoreHeld /\ LeftIsNotDue /\ [Next]_vars => LeftIsNotDue'
<1> SUFFICES ASSUME TypeOK, StoreHeld, LeftIsNotDue, [Next]_vars,
                    NEW tier \in Coarse, job'.step \in StepsAfter(tier)
             PROVE  ~Due(tier, job.now)'
  BY DEF LeftIsNotDue
<1> DEFINE Idle == job' = job /\ UNCHANGED <<zone, rows, watermark>>
<1>1. ASSUME Idle PROVE ~Due(tier, job.now)'
  <2>1. Mark(tier)' = Mark(tier)
    BY <1>1 DEF Mark
  <2> QED BY <1>1, <2>1, NotDueStays DEF LeftIsNotDue
<1>2. CASE \/ Tick \/ PickClosed \/ LockForFlush \/ UNCHANGED vars
           \/ \E c \in Chunk : Accumulate(c) \/ FlushFails(c)
  <2>1. Idle
    BY <1>2 DEF Tick, PickClosed, LockForFlush, Accumulate, FlushFails, vars, store
  <2> QED BY <1>1, <2>1
<1>3. CASE Crash \/ RollupFails \/ BeginRollup
  <2>1. job'.step \in {"asleep", "hour"}
    BY <1>3 DEF Crash, RollupFails, BeginRollup, Asleep
  <2> QED BY <2>1, StepsAfterFacts
<1>4. CASE ChangeZone
  BY <1>4 DEF ChangeZone, TypeOK
<1>5. ASSUME NEW c \in Chunk, FlushEntry(c) PROVE FALSE
  <2>1. job'.step = job.step /\ mutex = "drain"
    BY <1>5 DEF FlushEntry
  <2> QED BY <2>1, StepsAfterFacts DEF StoreHeld
<1>6. ASSUME NEW rolled \in Coarse, RollBucket(rolled) PROVE ~Due(tier, job.now)'
  <2>1. /\ UNCHANGED <<zone, job>> /\ job.step = rolled
    BY <1>6 DEF RollBucket
  <2>2. PICK start, end \in Time :
          /\ rows' = [rows EXCEPT ![rolled][start] = @ \cup Moved(rolled, start, end)]
          /\ watermark' = [watermark EXCEPT ![rolled] = end]
    BY <1>6, RollBucketFacts
  <2>3. rolled # tier /\ rolled # Source(tier) /\ Source(tier) \in Tier
    BY <2>1 DEF StepsAfter, Source, Tier, Coarse, Steps
  <2>4. rows'[Source(tier)] = rows[Source(tier)]
    BY <2>2, <2>3 DEF TypeOK, Tier
  <2>5. Mark(tier)' = Mark(tier)
    BY <2>2, <2>3, MarkMoves
  <2> QED BY <2>1, <2>4, <2>5, NotDueStays DEF LeftIsNotDue
<1>7. ASSUME NEW done \in Coarse, TierDone(done) PROVE ~Due(tier, job.now)'
  <2>1. /\ UNCHANGED <<zone, rows, watermark>>
        /\ job.step = done /\ job'.now = job.now /\ job'.step = NextStep(done)
    BY <1>7 DEF TierDone, TypeOK, store
  <2>2. Mark(tier)' = Mark(tier)
    BY <2>1 DEF Mark
  <2>3. done \in Steps \ {"prune_day"}
    BY DEF Steps, Coarse
  <2>4. tier = done \/ job.step \in StepsAfter(tier)
    BY <2>1, <2>3, StepsAfterFacts
  <2>5. ~Due(tier, job.now)
    BY <1>7, <2>4, DoneIsNotDue DEF LeftIsNotDue
  <2> QED BY <2>1, <2>2, <2>5, NotDueStays
<1>8. ASSUME NEW t \in Tier, NEW old \in SUBSET Time, Delete(t, old),
             UNCHANGED <<zone, watermark>>, job.step \in Steps \ Coarse, job'.now = job.now
      PROVE  ~Due(tier, job.now)'
  <2>1. Mark(tier)' = Mark(tier)
    BY <1>8 DEF Mark
  <2>2. \A s \in Tier : \A b \in Time : rows'[s][b] \subseteq rows[s][b]
    BY <1>8, DeleteFacts
  <2>3. Source(tier) \in Tier /\ job.step \in StepsAfter(tier)
    BY <1>8, StepsAfterFacts DEF Source, Tier, Coarse
  <2> QED BY <1>8, <2>1, <2>2, <2>3, NotDueStays DEF LeftIsNotDue
<1>9. CASE PruneMinute \/ PruneHour
  <2>1. /\ UNCHANGED <<zone, watermark>> /\ job.step \in Steps \ Coarse /\ job'.now = job.now
    BY <1>9 DEF PruneMinute, PruneHour, Steps, Coarse, TypeOK
  <2>2. /\ OldMinutes \subseteq Time /\ OldHours \subseteq Time
        /\ Delete("minute", OldMinutes) \/ Delete("hour", OldHours)
    BY <1>9 DEF PruneMinute, PruneHour, OldMinutes, OldHours
  <2> QED BY <1>8, <2>1, <2>2 DEF Tier, Coarse
<1>10. CASE PruneDay
  <2>1. job'.step = "asleep"
    BY <1>10 DEF PruneDay, Asleep
  <2> QED BY <2>1, StepsAfterFacts
<1> QED
  BY <1>2, <1>3, <1>4, <1>5, <1>6, <1>7, <1>9, <1>10
     DEF Next, Work, Fault, Drain, RollupStep

(* In one zone, under any clock and any faults, a pass that comes to prune *)
(* has caught up (rollup.rs:128).                                          *)
THEOREM PassesCatchUp ==
    ASSUME NEW z, Zone = {z}
    PROVE  Spec => []PassCatchesUp
<1>1. Init => TypeOK /\ AccTimed /\ KeptInv /\ LeftIsNotDue
  <2>1. Init => job.step = "asleep"
    BY DEF Init, Asleep
  <2> QED BY <2>1, TypeInit, KeptInit, StepsAfterFacts DEF LeftIsNotDue
<1>2. TypeOK /\ AccTimed /\ KeptInv /\ [Next]_vars => TypeOK' /\ AccTimed' /\ KeptInv'
  BY TypeStep, KeptStep
<1>3. TypeOK /\ KeptInv /\ LeftIsNotDue /\ [Next]_vars => LeftIsNotDue'
  BY LeftIsNotDueStep DEF KeptInv
<1>4. LeftIsNotDue => PassCatchesUp
  BY StepsAfterFacts DEF LeftIsNotDue, PassCatchesUp
<1> QED BY <1>1, <1>2, <1>3, <1>4, PTL DEF Spec

-----------------------------------------------------------------------------
(* What each step does to the three views. *)

(* The hour and the day view, chunk by chunk. *)
InView(tier, c) ==
    \E b \in Time : c \in rows[tier][b] \/ (b >= Mark(tier) /\ c \in rows["minute"][b])

LEMMA ViewMembers ==
    /\ \A tier \in {"hour", "day"} : \A c : /\ c \in View(tier) <=> InView(tier, c)
                                            /\ c \in View(tier)' <=> InView(tier, c)'
    /\ \A c : /\ c \in View("month") <=> InMonth(c) \/ InDays(c) \/ InMinutes(c)
              /\ c \in View("month")' <=> InMonth(c)' \/ InDays(c)' \/ InMinutes(c)'
BY DEF View, Table, Tail, InView, InMonth, InDays, InMinutes

LEMMA SameView ==
    /\ \A tier \in {"hour", "day"} :
          (\A c : InView(tier, c)' <=> InView(tier, c)) => View(tier)' = View(tier)
    /\ (\A c : /\ InMonth(c)' <=> InMonth(c)
               /\ InDays(c)' <=> InDays(c)
               /\ InMinutes(c)' <=> InMinutes(c)) => View("month")' = View("month")
<1>1. ASSUME NEW tier \in {"hour", "day"}, \A c : InView(tier, c)' <=> InView(tier, c)
      PROVE  View(tier)' = View(tier)
  <2>1. \A c : c \in View(tier)' <=> c \in View(tier)
    BY <1>1, ViewMembers, Zenon
  <2> QED BY <2>1
<1>2. ASSUME \A c : /\ InMonth(c)' <=> InMonth(c)
                    /\ InDays(c)' <=> InDays(c)
                    /\ InMinutes(c)' <=> InMinutes(c)
      PROVE  View("month")' = View("month")
  <2>1. \A c : c \in View("month")' <=> c \in View("month")
    BY <1>2, ViewMembers, Zenon
  <2> QED BY <2>1
<1> QED BY <1>1, <1>2

LEMMA TierFacts ==
    /\ {"minute", "hour", "day", "month"} = Tier /\ {"hour", "day", "month"} = Coarse
    /\ Source("hour") = "minute" /\ Source("day") = "minute" /\ Source("month") = "day"
BY DEF Tier, Coarse, Source

LEMMA MarksAreTimes == TypeOK => \A t \in Coarse : Mark(t) \in Time
BY ParameterAssumption DEF TypeOK, Mark, NeverRolled, Time

(* Where tables and marks stay, so do the views. *)
LEMMA ViewsKept ==
    ASSUME UNCHANGED <<rows, watermark>>
    PROVE  \A tier \in Coarse : View(tier)' = View(tier)
BY DEF View, Table, Tail, Mark, Coarse

(* A chunk that is flushed past every mark enters all three views.         *)
LEMMA ViewsGain ==
    ASSUME TypeOK, AccTimed, NEW c \in Chunk, FlushEntry(c)
    PROVE  /\ \A tier \in Coarse : View(tier) \subseteq View(tier)'
           /\ \A tier \in Coarse : View(tier)' \subseteq View(tier) \cup {c}
           /\ \A tier \in {"hour", "day"} : minuteOf[c] >= Mark(tier) => c \in View(tier)'
           /\ minuteOf[c] >= Mark("day") => c \in View("month")'
<1>1. minuteOf[c] \in Time /\ UNCHANGED watermark
  BY DEF FlushEntry, TypeOK, AccTimed
<1>2. \A t \in Tier : \A b \in Time :
        rows'[t][b] = IF t = "minute" /\ b = minuteOf[c] THEN rows[t][b] \cup {c}
                                                        ELSE rows[t][b]
  BY <1>1 DEF FlushEntry, TypeOK
<1>3. \A t \in Coarse : Mark(t)' = Mark(t)
  BY <1>1 DEF Mark
<1>4. ASSUME NEW tier \in {"hour", "day"}
      PROVE  /\ View(tier) \subseteq View(tier)' /\ View(tier)' \subseteq View(tier) \cup {c}
             /\ minuteOf[c] >= Mark(tier) => c \in View(tier)'
  <2>1. /\ tier \in Tier /\ "minute" \in Tier /\ tier # "minute"
        /\ Mark(tier)' = Mark(tier)
    BY <1>3, TierFacts
  <2>2. ASSUME NEW k, InView(tier, k) PROVE InView(tier, k)'
    <3>1. PICK b \in Time : k \in rows[tier][b] \/ (b >= Mark(tier) /\ k \in rows["minute"][b])
      BY <2>2 DEF InView
    <3>2. rows[tier][b] \subseteq rows'[tier][b] /\ rows["minute"][b] \subseteq rows'["minute"][b]
      BY <2>1, <1>2
    <3> QED BY <2>1, <3>1, <3>2 DEF InView
  <2>3. ASSUME NEW k, InView(tier, k)', k # c PROVE InView(tier, k)
    <3>1. PICK b \in Time : \/ k \in rows'[tier][b]
                            \/ b >= Mark(tier) /\ k \in rows'["minute"][b]
      BY <2>1, <2>3 DEF InView
    <3>2. rows'[tier][b] = rows[tier][b] /\ rows'["minute"][b] \subseteq rows["minute"][b] \cup {c}
      BY <2>1, <1>2
    <3> QED BY <2>3, <3>1, <3>2 DEF InView
  <2>4. minuteOf[c] >= Mark(tier) => InView(tier, c)'
    BY <2>1, <1>1, <1>2 DEF InView
  <2> QED BY <2>2, <2>3, <2>4, ViewMembers, Zenon
<1>5. /\ View("month") \subseteq View("month")'
      /\ View("month")' \subseteq View("month") \cup {c}
      /\ minuteOf[c] >= Mark("day") => c \in View("month")'
  <2>1. /\ {"minute", "day", "month"} \subseteq Tier
        /\ Mark("day")' = Mark("day") /\ Mark("month")' = Mark("month")
    BY <1>3, TierFacts
  <2>2. \A k : /\ InMonth(k)' <=> InMonth(k)
               /\ InDays(k)' <=> InDays(k)
    BY <2>1, <1>2 DEF InMonth, InDays
  <2>3. ASSUME NEW k, InMinutes(k) PROVE InMinutes(k)'
    <3>1. PICK b \in Time : b >= Mark("day") /\ k \in rows["minute"][b]
      BY <2>3 DEF InMinutes
    <3>2. k \in rows'["minute"][b]
      BY <2>1, <3>1, <1>2
    <3> QED BY <2>1, <3>1, <3>2 DEF InMinutes
  <2>4. ASSUME NEW k, InMinutes(k)', k # c PROVE InMinutes(k)
    <3>1. PICK b \in Time : b >= Mark("day") /\ k \in rows'["minute"][b]
      BY <2>1, <2>4 DEF InMinutes
    <3>2. k \in rows["minute"][b]
      BY <2>1, <2>4, <3>1, <1>2
    <3> QED BY <3>1, <3>2 DEF InMinutes
  <2>5. minuteOf[c] >= Mark("day") => InMinutes(c)'
    BY <2>1, <1>1, <1>2 DEF InMinutes
  <2> QED BY <2>2, <2>3, <2>4, <2>5, ViewMembers, Zenon
<1> QED BY <1>4, <1>5, TierFacts

(* Rolling minutes up into hours or days does not show in that view: what  *)
(* leaves the tail is in the bucket, for the oldest pending minute is at   *)
(* or past its start.                                                      *)
LEMMA RollUpIsInvisible ==
    ASSUME TypeOK, NEW tier \in {"hour", "day"}, RollBucket(tier)
    PROVE  View(tier)' = View(tier)
<1>1. PICK oldest, start, end \in Time :
        /\ \A b \in Pending(tier) : oldest <= b
        /\ start <= oldest /\ oldest < end /\ Mark(tier) <= oldest
        /\ rows' = [rows EXCEPT ![tier][start] = @ \cup Moved(tier, start, end)]
        /\ watermark' = [watermark EXCEPT ![tier] = end]
  BY RollBucketFacts, TierFacts
<1>2. Mark(tier)' = end /\ Mark(tier) \in Time
  BY <1>1, MarkMoves, TierFacts
<1>3. /\ tier \in Tier /\ tier \in Coarse /\ "minute" \in Tier /\ tier # "minute"
      /\ Source(tier) = "minute" /\ Time \subseteq Int
  BY TierFacts DEF Time
<1>4. \A t \in Tier : \A b \in Time :
        rows'[t][b] = IF t = tier /\ b = start THEN rows[t][b] \cup Moved(tier, start, end)
                                               ELSE rows[t][b]
  BY <1>1, <1>3 DEF TypeOK
<1>5. ASSUME NEW c, InView(tier, c) PROVE InView(tier, c)'
  <2>1. PICK b \in Time : c \in rows[tier][b] \/ (b >= Mark(tier) /\ c \in rows["minute"][b])
    BY <1>5 DEF InView
  <2>2. CASE c \in rows[tier][b]
    BY <2>2, <1>3, <1>4 DEF InView
  <2>3. CASE b >= Mark(tier) /\ c \in rows["minute"][b] /\ b >= end
    <3>1. c \in rows'["minute"][b] /\ b >= Mark(tier)'
      BY <2>3, <1>2, <1>3, <1>4
    <3> QED BY <3>1 DEF InView
  <2>4. CASE b >= Mark(tier) /\ c \in rows["minute"][b] /\ b < end
    <3>1. oldest <= b
      BY <2>4, <1>1, <1>3 DEF Pending
    <3>2. b \in Summed(tier, start, end)
      BY <2>4, <3>1, <1>1, <1>3 DEF Summed
    <3>3. c \in Moved(tier, start, end)
      BY <2>4, <3>2, <1>3 DEF Moved
    <3> QED BY <3>3, <1>3, <1>4 DEF InView
  <2> QED BY <2>1, <2>2, <2>3, <2>4, <1>1, <1>3
<1>6. ASSUME NEW c, InView(tier, c)' PROVE InView(tier, c)
  <2>1. PICK b \in Time : \/ c \in rows'[tier][b]
                          \/ b >= end /\ c \in rows'["minute"][b]
    BY <1>2, <1>6 DEF InView
  <2>2. CASE c \in rows[tier][b]
    BY <2>2 DEF InView
  <2>3. CASE c \in Moved(tier, start, end)
    BY <2>3, <1>3, MovedFrom DEF InView
  <2>4. CASE b >= end /\ c \in rows["minute"][b]
    <3>1. b >= Mark(tier)
      BY <2>4, <1>1, <1>2, <1>3
    <3> QED BY <2>4, <3>1 DEF InView
  <2> QED BY <2>1, <2>2, <2>3, <2>4, <1>3, <1>4
<1> QED BY <1>5, <1>6, SameView

(* Nor do the tables of other tiers.                                       *)
LEMMA RollUpElsewhere ==
    ASSUME TypeOK, NEW tier \in Coarse, RollBucket(tier)
    PROVE  /\ \A t \in {"hour", "day"} \ {tier} : View(t)' = View(t)
           /\ tier = "hour" => View("month")' = View("month")
<1>1. PICK start, end \in Time :
        /\ rows' = [rows EXCEPT ![tier][start] = @ \cup Moved(tier, start, end)]
        /\ watermark' = [watermark EXCEPT ![tier] = end]
  BY RollBucketFacts
<1>2. \A t \in Tier \ {tier} : rows'[t] = rows[t]
  BY <1>1 DEF TypeOK
<1>3. \A t \in Coarse \ {tier} : Mark(t)' = Mark(t)
  BY <1>1, MarkMoves
<1>4. \A t \in {"hour", "day"} \ {tier} : View(t)' = View(t)
  <2>1. ASSUME NEW t \in {"hour", "day"} \ {tier} PROVE View(t)' = View(t)
    <3>1. /\ rows'[t] = rows[t] /\ rows'["minute"] = rows["minute"]
          /\ Mark(t)' = Mark(t)
      BY <1>2, <1>3, TierFacts
    <3>2. \A c : InView(t, c)' <=> InView(t, c)
      BY <3>1 DEF InView
    <3> QED BY <3>2, SameView
  <2> QED BY <2>1
<1>5. tier = "hour" => View("month")' = View("month")
  BY <1>2, <1>3, TierFacts DEF View, Table, Tail
<1> QED BY <1>4, <1>5

(* Rolling days up into a month does not show in the month view.           *)
LEMMA MonthRollUpIsInvisible ==
    ASSUME TypeOK, RollBucket("month")
    PROVE  View("month")' = View("month")
<1>1. PICK oldest, start, end \in Time :
        /\ \A d \in Pending("month") : oldest <= d
        /\ start <= oldest /\ oldest < end /\ Mark("month") <= oldest
        /\ rows' = [rows EXCEPT !["month"][start] = @ \cup Moved("month", start, end)]
        /\ watermark' = [watermark EXCEPT !["month"] = end]
  BY RollBucketFacts, TierFacts
<1>2. Mark("month")' = end /\ Mark("month") \in Time /\ Mark("day")' = Mark("day")
  BY <1>1, MarkMoves, TierFacts
<1>3. Time \subseteq Int
  BY DEF Time
<1>4. \A t \in Tier : \A b \in Time :
        rows'[t][b] = IF t = "month" /\ b = start
                      THEN rows[t][b] \cup Moved("month", start, end) ELSE rows[t][b]
  BY <1>1, TierFacts DEF TypeOK
<1>5. \A c : InMinutes(c)' <=> InMinutes(c)
  BY <1>2, <1>4, TierFacts DEF InMinutes
<1>6. ASSUME NEW c, InMonth(c) \/ InDays(c) PROVE InMonth(c)' \/ InDays(c)'
  <2>1. CASE InMonth(c)
    BY <2>1, <1>4, TierFacts DEF InMonth
  <2>2. CASE InDays(c)
    <3>1. PICK d \in Time : d >= Mark("month") /\ c \in rows["day"][d]
      BY <2>2 DEF InDays
    <3>2. CASE d >= end
      BY <3>1, <3>2, <1>2, <1>4, TierFacts DEF InDays
    <3>3. CASE d < end
      <4>1. oldest <= d
        BY <3>1, <1>1, TierFacts DEF Pending
      <4>2. d \in Summed("month", start, end)
        BY <3>1, <3>3, <4>1, <1>1, <1>3 DEF Summed
      <4>3. c \in Moved("month", start, end)
        BY <3>1, <4>2, TierFacts DEF Moved
      <4> QED BY <4>3, <1>4, TierFacts DEF InMonth
    <3> QED BY <3>2, <3>3, <1>3
  <2> QED BY <1>6, <2>1, <2>2
<1>7. ASSUME NEW c, InMonth(c)' \/ InDays(c)' PROVE InMonth(c) \/ InDays(c)
  <2>1. CASE InMonth(c)'
    <3>1. InMonth(c) \/ c \in Moved("month", start, end)
      BY <2>1, <1>4, TierFacts DEF InMonth
    <3>2. CASE c \in Moved("month", start, end)
      BY <3>2, MovedFrom, TierFacts DEF InDays
    <3> QED BY <3>1, <3>2
  <2>2. CASE InDays(c)'
    BY <2>2, <1>1, <1>2, <1>3, <1>4, TierFacts DEF InDays
  <2> QED BY <1>7, <2>1, <2>2
<1> QED BY <1>5, <1>6, <1>7, ViewMembers

(* Rolling a day up takes from the month view only what is filed below the *)
(* month's watermark.                                                      *)
LEMMA DayRollUpInMonth ==
    ASSUME TypeOK, RollBucket("day")
    PROVE  /\ View("month")' \subseteq View("month")
           /\ View("month") \ View("month")' \subseteq misfiled'
           /\ misfiled \subseteq misfiled'
<1>1. PICK oldest \in Pending("day") :
        LET start == Start("day", zone, oldest)
            end   == End("day", zone, oldest)
        IN  /\ \A b \in Pending("day") : oldest <= b
            /\ rows' = [rows EXCEPT !["day"][start] = @ \cup Moved("day", start, end)]
            /\ watermark' = [watermark EXCEPT !["day"] = end]
            /\ Closed(end, job.now)
            /\ misfiled' = IF start < Mark("month")
                           THEN misfiled \cup Moved("day", start, end) ELSE misfiled
  BY Zenon DEF RollBucket, Moved
<1> DEFINE start == Start("day", zone, oldest)
           end   == End("day", zone, oldest)
<1>2. oldest \in Time /\ Mark("day") <= oldest
  BY DEF Pending
<1>3. /\ start \in Time /\ start <= oldest /\ end \in Nat /\ oldest < end
  BY <1>2, BoundsContain, TierFacts DEF TypeOK
<1>4. end \in Time
  BY <1>1, <1>3, ParameterAssumption DEF Closed, TypeOK, Time
<1>5. /\ \A b \in Pending("day") : oldest <= b
      /\ rows' = [rows EXCEPT !["day"][start] = @ \cup Moved("day", start, end)]
      /\ watermark' = [watermark EXCEPT !["day"] = end]
      /\ misfiled' = IF start < Mark("month")
                     THEN misfiled \cup Moved("day", start, end) ELSE misfiled
  BY <1>1
<1> HIDE DEF start, end
<1>6. /\ Mark("day")' = end /\ Mark("month")' = Mark("month")
      /\ Mark("day") \in Time /\ Mark("month") \in Time
  <2>1. "day" \in Coarse /\ "month" \in Coarse
    BY TierFacts
  <2> QED BY <1>4, <1>5, <2>1, MarkMoves
<1>7. Time \subseteq Int
  BY DEF Time
<1>8. \A t \in Tier : \A b \in Time :
        rows'[t][b] = IF t = "day" /\ b = start
                      THEN rows[t][b] \cup Moved("day", start, end) ELSE rows[t][b]
  BY <1>3, <1>5, TierFacts DEF TypeOK
<1>9. ASSUME NEW c, c \in View("month")' PROVE c \in View("month")
  <2>1. CASE InMonth(c)'
    <3>1. InMonth(c)
      BY <2>1, <1>8, TierFacts DEF InMonth
    <3> QED BY <3>1, ViewMembers
  <2>2. CASE InDays(c)'
    <3>1. InDays(c) \/ c \in Moved("day", start, end)
      BY <2>2, <1>6, <1>8, TierFacts DEF InDays
    <3>2. CASE c \in Moved("day", start, end)
      <4>1. InMinutes(c)
        <5>1. "day" \in Coarse /\ Source("day") = "minute"
          BY TierFacts
        <5>2. \E b \in Time : /\ c \in rows[Source("day")][b]
                              /\ b >= start /\ b >= Mark("day") /\ b < end
          BY <3>2, <5>1, <1>3, <1>4, MovedFrom
        <5> QED BY <5>1, <5>2 DEF InMinutes
      <4> QED BY <4>1, ViewMembers
    <3> QED BY <3>1, <3>2, ViewMembers
  <2>3. CASE InMinutes(c)'
    <3>1. PICK b \in Time : b >= end /\ c \in rows'["minute"][b]
      BY <2>3, <1>6 DEF InMinutes
    <3>2. c \in rows["minute"][b]
      BY <3>1, <1>8, TierFacts
    <3>3. b >= Mark("day")
      <4>1. b \in Int
        BY <1>7
      <4>3. oldest \in Int
        BY <1>2, <1>7
      <4>4. end \in Int
        BY <1>4, <1>7
      <4>5. Mark("day") \in Int
        BY <1>6, <1>7
      <4>2. Mark("day") <= oldest /\ oldest < end /\ b >= end
        BY <1>2, <1>3, <3>1
      <4> QED BY <4>1, <4>2, <4>3, <4>4, <4>5
    <3>4. InMinutes(c)
      BY <3>2, <3>3 DEF InMinutes
    <3> QED BY <3>4, ViewMembers
  <2> QED BY <1>9, <2>1, <2>2, <2>3, ViewMembers
<1>10. ASSUME NEW c, c \in View("month"), c \notin misfiled' PROVE c \in View("month")'
  <2>1. CASE InMonth(c)
    <3>1. InMonth(c)'
      BY <2>1, <1>8, TierFacts DEF InMonth
    <3> QED BY <3>1, ViewMembers
  <2>2. CASE InDays(c)
    <3>1. InDays(c)'
      BY <2>2, <1>6, <1>8, TierFacts DEF InDays
    <3> QED BY <3>1, ViewMembers
  <2>3. CASE InMinutes(c)
    <3>1. PICK b \in Time : b >= Mark("day") /\ c \in rows["minute"][b]
      BY <2>3 DEF InMinutes
    <3>2. CASE b >= end
      <4>1. InMinutes(c)'
        BY <3>1, <3>2, <1>6, <1>8, TierFacts DEF InMinutes
      <4> QED BY <4>1, ViewMembers
    <3>3. CASE b < end
      <4>1. oldest <= b
        BY <3>1, <1>5, TierFacts DEF Pending
      <4>2. b \in Summed("day", start, end)
        BY <3>1, <3>3, <4>1, <1>2, <1>3, <1>7 DEF Summed
      <4>3. c \in Moved("day", start, end)
        BY <3>1, <4>2, TierFacts DEF Moved
      <4>4. start >= Mark("month")
        BY <4>3, <1>3, <1>5, <1>6, <1>7, <1>10
      <4>5. InDays(c)'
        BY <4>3, <4>4, <1>3, <1>6, <1>8, TierFacts DEF InDays
      <4> QED BY <4>5, ViewMembers
    <3> QED BY <3>2, <3>3, <1>3, <1>7
  <2> QED BY <1>10, <2>1, <2>2, <2>3, ViewMembers
<1>11. misfiled \subseteq misfiled'
  BY <1>5
<1> QED BY <1>9, <1>10, <1>11

(* Pruning shows in the view of the pruned table only, and there only what *)
(* is past its retention: a finer row is deleted below the watermarks of   *)
(* the tiers that are built from it.                                       *)
LEMMA PrunesAge ==
    ASSUME TypeOK
    PROVE  /\ PruneMinute => \A t \in Coarse : View(t)' = View(t)
           /\ PruneHour => /\ \A t \in {"day", "month"} : View(t)' = View(t)
                           /\ View("hour")' \subseteq View("hour")
                           /\ \A c \in View("hour") \ View("hour")' :
                                 \E b \in OldHours : c \in rows["hour"][b]
           /\ PruneDay => /\ \A t \in {"hour", "month"} : View(t)' = View(t)
                          /\ View("day")' \subseteq View("day")
                          /\ \A c \in View("day") \ View("day")' :
                                \E b \in OldDays : c \in rows["day"][b]
<1>0. /\ \A b \in OldMinutes : ~(b >= Mark("hour")) /\ ~(b >= Mark("day"))
      /\ \A b \in OldDays : ~(b >= Mark("month"))
  BY ParameterAssumption, TierFacts DEF OldMinutes, OldDays, Mark, TypeOK, Time
<1>1. ASSUME PruneMinute PROVE \A t \in Coarse : View(t)' = View(t)
  <2>1. \A t \in Tier : \A b \in Time :
          rows'[t][b] = IF t = "minute" /\ b \in OldMinutes THEN {} ELSE rows[t][b]
    BY <1>1, TierFacts, DeleteFacts DEF PruneMinute
  <2>2. \A t \in Coarse : Mark(t)' = Mark(t)
    BY <1>1 DEF PruneMinute, Mark
  <2>3. \A t \in {"hour", "day"} : \A c : InView(t, c)' <=> InView(t, c)
    BY <2>1, <2>2, <1>0, TierFacts DEF InView
  <2>4. \A c : /\ InMonth(c)' <=> InMonth(c)
               /\ InDays(c)' <=> InDays(c)
               /\ InMinutes(c)' <=> InMinutes(c)
    BY <2>1, <2>2, <1>0, TierFacts DEF InMonth, InDays, InMinutes
  <2> QED BY <2>3, <2>4, SameView, TierFacts
<1>2. ASSUME PruneHour
      PROVE  /\ \A t \in {"day", "month"} : View(t)' = View(t)
             /\ View("hour")' \subseteq View("hour")
             /\ \A c \in View("hour") \ View("hour")' : \E b \in OldHours : c \in rows["hour"][b]
  <2>1. \A t \in Tier : \A b \in Time :
          rows'[t][b] = IF t = "hour" /\ b \in OldHours THEN {} ELSE rows[t][b]
    BY <1>2, TierFacts, DeleteFacts DEF PruneHour
  <2>2. \A t \in Coarse : Mark(t)' = Mark(t)
    BY <1>2 DEF PruneHour, Mark
  <2>3. \A c : InView("day", c)' <=> InView("day", c)
    BY <2>1, <2>2, TierFacts DEF InView
  <2>5. ASSUME NEW c, InView("hour", c)' PROVE InView("hour", c)
    BY <2>1, <2>2, <2>5, TierFacts DEF InView
  <2>6. ASSUME NEW c, InView("hour", c), ~InView("hour", c)'
        PROVE  \E b \in OldHours : c \in rows["hour"][b]
    BY <2>1, <2>2, <2>6, TierFacts DEF InView
  <2>4. \A c : /\ InMonth(c)' <=> InMonth(c)
               /\ InDays(c)' <=> InDays(c)
               /\ InMinutes(c)' <=> InMinutes(c)
    BY <2>1, <2>2, TierFacts DEF InMonth, InDays, InMinutes
  <2>7. View("day")' = View("day") /\ View("month")' = View("month")
    BY <2>3, <2>4, SameView
  <2>8. \A c : /\ c \in View("hour")' => c \in View("hour")
               /\ c \in View("hour") /\ c \notin View("hour")'
                     => \E b \in OldHours : c \in rows["hour"][b]
    BY <2>5, <2>6, ViewMembers, Zenon
  <2> QED BY <2>7, <2>8
<1>3. ASSUME PruneDay
      PROVE  /\ \A t \in {"hour", "month"} : View(t)' = View(t)
             /\ View("day")' \subseteq View("day")
             /\ \A c \in View("day") \ View("day")' : \E b \in OldDays : c \in rows["day"][b]
  <2>1. \A t \in Tier : \A b \in Time :
          rows'[t][b] = IF t = "day" /\ b \in OldDays THEN {} ELSE rows[t][b]
    BY <1>3, TierFacts, DeleteFacts DEF PruneDay
  <2>2. \A t \in Coarse : Mark(t)' = Mark(t)
    BY <1>3 DEF PruneDay, Mark
  <2>3. \A c : InView("hour", c)' <=> InView("hour", c)
    BY <2>1, <2>2, TierFacts DEF InView
  <2>5. ASSUME NEW c, InView("day", c)' PROVE InView("day", c)
    BY <2>1, <2>2, <2>5, TierFacts DEF InView
  <2>6. ASSUME NEW c, InView("day", c), ~InView("day", c)'
        PROVE  \E b \in OldDays : c \in rows["day"][b]
    BY <2>1, <2>2, <2>6, TierFacts DEF InView
  <2>4. \A c : /\ InMonth(c)' <=> InMonth(c)
               /\ InDays(c)' <=> InDays(c)
               /\ InMinutes(c)' <=> InMinutes(c)
    BY <2>1, <2>2, <1>0, TierFacts DEF InMonth, InDays, InMinutes
  <2>7. View("hour")' = View("hour") /\ View("month")' = View("month")
    BY <2>3, <2>4, SameView
  <2>8. \A c : /\ c \in View("day")' => c \in View("day")
               /\ c \in View("day") /\ c \notin View("day")'
                     => \E b \in OldDays : c \in rows["day"][b]
    BY <2>5, <2>6, ViewMembers, Zenon
  <2> QED BY <2>7, <2>8
<1> QED BY <1>1, <1>2, <1>3

(* Three kinds of step change what the store holds.                        *)
LEMMA StoreSteps ==
    ASSUME [Next]_vars
    PROVE  \/ \E c \in Chunk : FlushEntry(c)
           \/ \E tier \in Coarse : RollBucket(tier)
           \/ PruneMinute \/ PruneHour \/ PruneDay
           \/ UNCHANGED <<rows, watermark, recorded, late, misfiled>>
BY DEF Next, Work, Fault, Drain, RollupStep, Tick, ChangeZone, Crash, Accumulate, PickClosed,
   LockForFlush, FlushFails, BeginRollup, TierDone, RollupFails, store, history, vars

(* No step but a flush adds to a view.                                     *)
LEMMA ViewsShrink ==
    ASSUME TypeOK, [Next]_vars, ~\E c \in Chunk : FlushEntry(c)
    PROVE  /\ \A tier \in Coarse : View(tier)' \subseteq View(tier)
           /\ UNCHANGED <<recorded, late>>
<1>1. CASE UNCHANGED <<rows, watermark, recorded, late, misfiled>>
  BY <1>1, ViewsKept
<1>2. ASSUME NEW tier \in Coarse, RollBucket(tier)
      PROVE  /\ \A t \in Coarse : View(t)' \subseteq View(t)
             /\ UNCHANGED <<recorded, late>>
  <2>1. UNCHANGED <<recorded, late>>
    BY <1>2 DEF RollBucket
  <2>2. CASE tier = "hour"
    <3>1. View("hour")' = View("hour")
      BY <1>2, <2>2, RollUpIsInvisible
    <3>2. View("day")' = View("day") /\ View("month")' = View("month")
      BY <1>2, <2>2, RollUpElsewhere
    <3> QED BY <2>1, <3>1, <3>2, TierFacts
  <2>3. CASE tier = "day"
    <3>1. View("day")' = View("day")
      BY <1>2, <2>3, RollUpIsInvisible
    <3>2. View("hour")' = View("hour")
      BY <1>2, <2>3, RollUpElsewhere
    <3>3. View("month")' \subseteq View("month")
      BY <1>2, <2>3, DayRollUpInMonth
    <3> QED BY <2>1, <3>1, <3>2, <3>3, TierFacts
  <2>4. CASE tier = "month"
    <3>1. View("month")' = View("month")
      BY <1>2, <2>4, MonthRollUpIsInvisible
    <3>2. View("hour")' = View("hour") /\ View("day")' = View("day")
      BY <1>2, <2>4, RollUpElsewhere
    <3> QED BY <2>1, <3>1, <3>2, TierFacts
  <2> QED BY <2>2, <2>3, <2>4, TierFacts
<1>3. CASE PruneMinute
  <2>1. UNCHANGED <<recorded, late>>
    BY <1>3 DEF PruneMinute, history
  <2> QED BY <1>3, <2>1, PrunesAge
<1>4. CASE PruneHour
  <2>1. UNCHANGED <<recorded, late>>
    BY <1>4 DEF PruneHour, history
  <2> QED BY <1>4, <2>1, PrunesAge, TierFacts
<1>5. CASE PruneDay
  <2>1. UNCHANGED <<recorded, late>>
    BY <1>5 DEF PruneDay, history
  <2> QED BY <1>5, <2>1, PrunesAge, TierFacts
<1> QED BY <1>1, <1>2, <1>3, <1>4, <1>5, StoreSteps

(* What leaves the hour or the day view is pruned past its retention.      *)
LEMMA LeavesByAge ==
    ASSUME TypeOK, AccTimed, [Next]_vars
    PROVE  /\ \A c \in View("hour") \ View("hour")' :
                 \E b \in Time : c \in rows["hour"][b] /\ b < job.upto - HourRet
           /\ \A c \in View("day") \ View("day")' :
                 \E b \in Time : c \in rows["day"][b] /\ b < job.upto - DayRet
<1>1. CASE UNCHANGED <<rows, watermark, recorded, late, misfiled>>
  BY <1>1, ViewsKept, TierFacts
<1>2. ASSUME NEW c \in Chunk, FlushEntry(c)
      PROVE  View("hour") \subseteq View("hour")' /\ View("day") \subseteq View("day")'
  BY <1>2, ViewsGain, TierFacts
<1>3. ASSUME NEW tier \in Coarse, RollBucket(tier)
      PROVE  View("hour")' = View("hour") /\ View("day")' = View("day")
  <2>1. CASE tier = "hour"
    BY <1>3, <2>1, RollUpIsInvisible, RollUpElsewhere
  <2>2. CASE tier = "day"
    BY <1>3, <2>2, RollUpIsInvisible, RollUpElsewhere
  <2>3. CASE tier = "month"
    BY <1>3, <2>3, RollUpElsewhere
  <2> QED BY <2>1, <2>2, <2>3, TierFacts
<1>4. CASE PruneMinute
  BY <1>4, PrunesAge, TierFacts
<1>5. CASE PruneHour
  BY <1>5, PrunesAge DEF OldHours
<1>6. CASE PruneDay
  BY <1>6, PrunesAge DEF OldDays
<1> QED BY <1>1, <1>2, <1>3, <1>4, <1>5, <1>6, StoreSteps

(* Rolling up and pruning take from the hour and day views only what is    *)
(* past its own tier's retention, under any clock, zone and faults         *)
(* (rollup.rs rollup and prune).                                           *)
THEOREM ViewsAgeOnly == Spec => ViewsOnlyAge
<1>1. TypeOK /\ AccTimed /\ [Next]_vars =>
        [/\ \A c \in View("hour") \ View("hour")' :
               \E b \in Time : c \in rows["hour"][b] /\ b < job.upto - HourRet
         /\ \A c \in View("day") \ View("day")' :
               \E b \in Time : c \in rows["day"][b] /\ b < job.upto - DayRet]_vars
  BY LeavesByAge
<1> QED BY <1>1, TypeCorrect, PTL DEF Spec, ViewsOnlyAge

(* Each step explains what it takes from the month view.                   *)
LEMMA ExplainedStep ==
    TypeOK /\ AccTimed /\ MonthViewExplained /\ [Next]_vars => MonthViewExplained'
<1> SUFFICES ASSUME TypeOK, AccTimed, MonthViewExplained, [Next]_vars
             PROVE  MonthViewExplained'
  OBVIOUS
<1> USE DEF MonthViewExplained
<1>1. CASE UNCHANGED <<rows, watermark, recorded, late, misfiled>>
  BY <1>1, ViewsKept, TierFacts
<1>2. ASSUME NEW c \in Chunk, FlushEntry(c) PROVE MonthViewExplained'
  <2>1. /\ recorded' = recorded \cup {c} /\ misfiled' = misfiled /\ late \subseteq late'
        /\ c \notin late' => ~(minuteOf[c] < Mark("day"))
    BY <1>2, TierFacts DEF FlushEntry
  <2>2. minuteOf[c] \in Int /\ Mark("day") \in Int
    BY <1>2, MarksAreTimes, TierFacts DEF FlushEntry, TypeOK, AccTimed, Time
  <2>3. c \notin late' => minuteOf[c] >= Mark("day")
    BY <2>1, <2>2
  <2>4. /\ View("month") \subseteq View("month")'
        /\ minuteOf[c] >= Mark("day") => c \in View("month")'
    BY <1>2, ViewsGain, TierFacts
  <2> QED BY <2>1, <2>3, <2>4
<1>3. ASSUME NEW tier \in Coarse, RollBucket(tier) PROVE MonthViewExplained'
  <2>1. UNCHANGED <<recorded, late>> /\ misfiled \subseteq misfiled'
    BY <1>3 DEF RollBucket
  <2>2. View("month") \ View("month")' \subseteq misfiled'
    BY <1>3, TierFacts, RollUpElsewhere, DayRollUpInMonth, MonthRollUpIsInvisible
  <2> QED BY <2>1, <2>2
<1>4. CASE PruneMinute \/ PruneHour \/ PruneDay
  <2>1. UNCHANGED <<recorded, late, misfiled>>
    BY <1>4 DEF PruneMinute, PruneHour, PruneDay, history
  <2>2. View("month")' = View("month")
    BY <1>4, PrunesAge, TierFacts
  <2> QED BY <2>1, <2>2
<1> QED BY <1>1, <1>2, <1>3, <1>4, StoreSteps

(* A recorded chunk is missing from the month view only when it was        *)
(* recorded below a watermark or filed under a day of a month that is      *)
(* already rolled up: under any clock, any change of zone, errors and      *)
(* crashes (rollup.rs rollup_next, prune; store.rs record_minute).         *)
THEOREM MonthLossesAreExplained == Spec => []MonthViewExplained
<1>1. Init => MonthViewExplained
  BY DEF Init, MonthViewExplained
<1> QED BY <1>1, ExplainedStep, TypeCorrect, PTL DEF Spec

-----------------------------------------------------------------------------
(* The three views implement the ledger. *)

(* An entry in memory is not recorded yet, nor is one still to come; and   *)
(* no view shows what was never recorded.                                  *)
Unrecorded == acc \cap recorded = {} /\ \A c \in recorded : minuteOf[c] \in Time
ViewsRecorded == \A tier \in Coarse : View(tier) \subseteq recorded

LEMMA LedgerInit == Init => Unrecorded /\ ViewsRecorded
<1> SUFFICES ASSUME Init PROVE Unrecorded /\ ViewsRecorded
  OBVIOUS
<1>1. \A t \in Tier : \A b \in Time : rows[t][b] = {}
  BY DEF Init
<1>2. \A tier \in Coarse : View(tier) = {}
  BY <1>1, TierFacts DEF View, Table, Tail
<1> QED BY <1>2 DEF Init, Unrecorded, ViewsRecorded

LEMMA LedgerStep ==
    ASSUME TypeOK, AccTimed, Unrecorded, ViewsRecorded, [Next]_vars
    PROVE  Unrecorded' /\ ViewsRecorded'
<1>1. CASE \E c \in Chunk : FlushEntry(c)
  <2>1. PICK c \in Chunk : FlushEntry(c)
    BY <1>1
  <2>2. /\ acc' = acc \ {c} /\ recorded' = recorded \cup {c} /\ minuteOf' = minuteOf
        /\ minuteOf[c] \in Time
    BY <2>1 DEF FlushEntry, TypeOK, AccTimed
  <2>3. \A tier \in Coarse : View(tier)' \subseteq View(tier) \cup {c}
    BY <2>1, ViewsGain
  <2> QED BY <2>2, <2>3 DEF Unrecorded, ViewsRecorded
<1>2. CASE ~\E c \in Chunk : FlushEntry(c)
  <2>1. recorded' = recorded /\ \A tier \in Coarse : View(tier)' \subseteq View(tier)
    BY <1>2, ViewsShrink
  <2>2. CASE \E c \in Chunk : Accumulate(c)
    <3>1. PICK c \in Chunk : Accumulate(c)
      BY <2>2
    <3>2. /\ acc' = acc \cup {c} /\ minuteOf[c] = Unused
          /\ \A k \in Chunk \ {c} : minuteOf'[k] = minuteOf[k]
      BY <3>1 DEF Accumulate, TypeOK
    <3>3. c \notin recorded
      BY <3>2, ParameterAssumption DEF Unrecorded, Unused, Time
    <3> QED BY <2>1, <3>2, <3>3 DEF Unrecorded, ViewsRecorded, TypeOK
  <2>3. CASE ~\E c \in Chunk : Accumulate(c)
    <3>1. acc' \subseteq acc /\ minuteOf' = minuteOf
      BY <1>2, <2>3
         DEF Next, Work, Fault, Drain, RollupStep, Tick, ChangeZone, Crash, PickClosed,
             LockForFlush, FlushFails, BeginRollup, RollBucket, TierDone, PruneMinute,
             PruneHour, PruneDay, RollupFails, vars
    <3> QED BY <2>1, <3>1 DEF Unrecorded, ViewsRecorded
  <2> QED BY <2>2, <2>3
<1> QED BY <1>1, <1>2

LedgerInv ==
    /\ TypeOK /\ AccTimed /\ PunctualInv /\ NoneOvertaken /\ KeptInv
    /\ Unrecorded /\ ViewsRecorded

(* With nothing late, the month view is what was recorded.                 *)
MonthIsAll == View("month") = recorded

LEMMA MonthIsRecorded == LedgerInv => MonthIsAll
BY KeptSuffices, TierFacts
   DEF MonthIsAll, LedgerInv, KeptInv, PunctualInv, NoneOvertaken, LateIsOvertaken,
       MonthViewComplete, ViewsRecorded

(* A flush enters the three views at once; every other step forgets.       *)
LEMMA LedgerRefines ==
    ASSUME LedgerInv, MonthIsAll, MonthIsAll', [Next]_vars
    PROVE  Promise!Next \/ UNCHANGED <<View("hour"), View("day"), View("month")>>
<1>0. View("month") = recorded /\ View("month")' = recorded'
  BY DEF MonthIsAll
<1>1. CASE \E c \in Chunk : FlushEntry(c)
  <2>1. PICK c \in Chunk : FlushEntry(c)
    BY <1>1
  <2>2. c \in acc /\ recorded' = recorded \cup {c} /\ minuteOf[c] \in Time
    BY <2>1 DEF FlushEntry, LedgerInv, TypeOK, AccTimed
  <2>3. c \notin View("month")
    BY <1>0, <2>2 DEF LedgerInv, Unrecorded
  <2>4. \A t \in Coarse : Mark(t) \in Time /\ Mark(t) <= minuteOf[c]
    BY <2>2, MarksAreTimes DEF LedgerInv, PunctualInv, NoneOvertaken, MemoryPastMarks
  <2>5. \A t \in {"hour", "day"} : minuteOf[c] >= Mark(t)
    <3>1. minuteOf[c] \in Int /\ \A t \in Coarse : Mark(t) \in Int
      BY <2>2, <2>4 DEF Time
    <3>2. Mark("hour") <= minuteOf[c] /\ Mark("day") <= minuteOf[c]
      BY <2>4, TierFacts
    <3> QED BY <3>1, <3>2, TierFacts
  <2>6. \A t \in {"hour", "day"} : View(t)' = View(t) \cup {c}
    BY <2>1, <2>5, ViewsGain, TierFacts DEF LedgerInv
  <2>7. View("month")' = View("month") \cup {c}
    BY <1>0, <2>2
  <2>8. Promise!Record(c)
    BY <2>3, <2>6, <2>7 DEF Promise!Record
  <2> QED BY <2>8 DEF Promise!Next
<1>2. CASE ~\E c \in Chunk : FlushEntry(c)
  <2>1. recorded' = recorded /\ \A tier \in Coarse : View(tier)' \subseteq View(tier)
    BY <1>2, ViewsShrink DEF LedgerInv
  <2>2. Promise!Forget
    BY <1>0, <2>1, TierFacts DEF Promise!Forget
  <2> QED BY <2>2 DEF Promise!Next
<1> QED BY <1>1, <1>2

(* The tables, the watermarks, the passes and the pruning implement three  *)
(* ledgers that a recorded chunk enters once and together, of which the    *)
(* month's never forgets: for any calendar, retention and faults, in one   *)
(* zone, with a clock that runs and a drain within its grace period.       *)
THEOREM RollupImplementsLedger ==
    ASSUME NEW z, Zone = {z}, ClockSteps = {1}, PunctualDrain
    PROVE  Spec => ImplementsLedger
<1>1. Init => LedgerInv
  BY TypeInit, PunctualInit, KeptInit, LedgerInit DEF LedgerInv, Init, NoneOvertaken
<1>2. LedgerInv /\ [Next]_vars => LedgerInv'
  BY TypeStep, PunctualStep, NoneOvertakenStep, KeptStep, LedgerStep DEF LedgerInv
<1>3. Init => Promise!Init
  <2> SUFFICES ASSUME Init PROVE Promise!Init
    OBVIOUS
  <2>1. \A tier \in Coarse : View(tier) \subseteq {}
    BY LedgerInit DEF Init, ViewsRecorded
  <2> QED BY <2>1, TierFacts DEF Promise!Init
<1>4. LedgerInv => MonthIsAll
  BY MonthIsRecorded
<1>5. LedgerInv /\ MonthIsAll /\ MonthIsAll' /\ [Next]_vars
        => [Promise!Next]_<<View("hour"), View("day"), View("month")>>
  BY LedgerRefines
<1> QED BY <1>1, <1>2, <1>3, <1>4, <1>5, PTL DEF Spec, ImplementsLedger, Promise!Spec

=============================================================================
