----------------------------- MODULE QueryProofs -----------------------------
(***************************************************************************)
(* Proofs about the answers of Query while the zone stays the same: a      *)
(* window is read whole and once, a series files every row under the       *)
(* bucket of the minute the bytes moved in, and the tier that is chosen    *)
(* for a window still has what was recorded in it.                         *)
(***************************************************************************)
EXTENDS Query, RollupViewProofs

-----------------------------------------------------------------------------
(* Buckets. *)

(* The instants of a bucket are in no other.                               *)
LEMMA SameBucket ==
    ASSUME NEW tier \in Coarse, NEW z \in Zone, NEW t \in Time, NEW b \in Time,
           Start(tier, z, t) <= b, b < End(tier, z, t)
    PROVE  Start(tier, z, b) = Start(tier, z, t)
<1>1. CASE tier = "hour"
  <2>1. HourLen \in Nat \ {0} /\ t \in Int /\ b \in Int
    BY ParameterAssumption DEF Time
  <2>2. /\ Start(tier, z, t) = t - (t % HourLen) /\ Start(tier, z, b) = b - (b % HourLen)
        /\ End(tier, z, t) = t - (t % HourLen) + HourLen
    BY <1>1 DEF Start, End
  <2> QED BY <2>1, <2>2, SameHour
<1>2. ASSUME NEW S \in {DayStart[z], MonthStart[z]}, Latest(S, t) <= b, b < After(S, t)
      PROVE  Latest(S, b) = Latest(S, t)
  <2>1. /\ \E s \in S : s <= t /\ \A r \in S : r <= t => r <= s
        /\ \E s \in S : s > t /\ \A r \in S : r > t => s <= r
        /\ \E s \in S : s <= b /\ \A r \in S : r <= b => r <= s
        /\ S \subseteq Nat
    BY CalendarAssumption
  <2>2. /\ Latest(S, t) \in S /\ Latest(S, t) <= t
        /\ \A r \in S : r <= t => r <= Latest(S, t)
    BY <2>1 DEF Latest
  <2>3. After(S, t) \in S /\ \A r \in S : r > t => After(S, t) <= r
    BY <2>1 DEF After
  <2>4. /\ Latest(S, b) \in S /\ Latest(S, b) <= b
        /\ \A r \in S : r <= b => r <= Latest(S, b)
    BY <2>1 DEF Latest
  <2>5. t \in Int /\ b \in Int /\ S \subseteq Int
    BY <2>1 DEF Time
  <2>6. Latest(S, t) <= Latest(S, b)
    BY <1>2, <2>2, <2>4
  <2>7. Latest(S, b) <= t
    <3>1. Latest(S, b) \in Int /\ After(S, t) \in Int /\ t \in Int /\ b \in Int
      BY <2>3, <2>4, <2>5
    <3>2. ASSUME Latest(S, b) > t PROVE FALSE
      <4>1. After(S, t) <= Latest(S, b)
        BY <2>3, <2>4, <3>2
      <4> QED BY <1>2, <2>4, <3>1, <4>1
    <3> QED BY <3>1, <3>2
  <2>8. Latest(S, b) <= Latest(S, t)
    BY <2>2, <2>4, <2>7
  <2> QED BY <2>2, <2>4, <2>5, <2>6, <2>8
<1>3. CASE tier = "day"
  BY <1>2, <1>3 DEF Start, End
<1>4. CASE tier = "month"
  BY <1>2, <1>4 DEF Start, End
<1> QED BY <1>1, <1>3, <1>4, TierFacts

(* A day lies in one month: its month's start and end are midnights.       *)
LEMMA DayInMonth ==
    ASSUME NEW z \in Zone, NEW t \in Time
    PROVE  /\ Start("month", z, t) <= Start("day", z, t)
           /\ End("day", z, t) <= End("month", z, t)
<1>1. /\ Start("month", z, t) \in Time /\ Start("month", z, t) <= t
      /\ End("month", z, t) \in Nat /\ t < End("month", z, t)
  BY BoundsContain, TierFacts
<1>2. Start("month", z, t) \in DayStart[z]
  <2>1. \E s \in MonthStart[z] : s <= t /\ \A r \in MonthStart[z] : r <= t => r <= s
    BY CalendarAssumption
  <2>2. Latest(MonthStart[z], t) \in MonthStart[z]
    BY <2>1 DEF Latest
  <2> QED BY <2>2, MonthsStartOnDays DEF Start
<1>3. End("month", z, t) \in DayStart[z]
  BY MonthEndsAtMidnight
<1>4. End("month", z, t) > t
  BY <1>1 DEF Time
<1> QED BY <1>1, <1>2, <1>3, <1>4, DayBounds

-----------------------------------------------------------------------------
(* Where a chunk's row lies. *)

(* A row of the hour, day and month tables is the bucket of the minute in  *)
(* which its bytes moved.                                                  *)
InBucket ==
    \A tier \in Coarse : \A b \in Time : \A c \in rows[tier][b] :
        b = Start(tier, zone, minuteOf[c])

LEMMA ZoneStays ==
    ASSUME NEW z, Zone = {z}, TypeOK, AccTimed, [Next]_vars
    PROVE  zone' = zone
<1>1. TypeOK'
  BY TypeStep
<1> QED BY <1>1 DEF TypeOK

(* What a roll-up moves is in the bucket it is moved to.                   *)
LEMMA MovedInBucket ==
    ASSUME TypeOK, CountInv, InBucket, NEW tier \in Coarse, NEW oldest \in Time,
           NEW start \in Time, NEW end \in Time,
           start = Start(tier, zone, oldest), end = End(tier, zone, oldest),
           NEW c \in Moved(tier, start, end)
    PROVE  start = Start(tier, zone, minuteOf[c])
<1>1. PICK b \in Time : /\ c \in rows[Source(tier)][b]
                        /\ b >= start /\ b < end
  BY MovedFrom
<1>2. zone \in Zone /\ Time \subseteq Int /\ minuteOf[c] \in Time
  BY <1>1, MovedFrom DEF TypeOK, Time, CountInv, Placed
<1>3. CASE tier \in {"hour", "day"}
  <2>1. minuteOf[c] = b
    BY <1>1, <1>3, TierFacts DEF CountInv, MinutePlaced
  <2> QED BY <1>1, <1>2, <2>1, SameBucket
<1>4. CASE tier = "month"
  <2>1. b = Start("day", zone, minuteOf[c])
    BY <1>1, <1>4, TierFacts DEF InBucket
  <2>2. /\ b <= minuteOf[c]
        /\ \A r \in DayStart[zone] : r <= minuteOf[c] => r <= b
    BY <2>1, <1>2, DayBounds
  <2>3. end \in DayStart[zone]
    BY <1>2, <1>4, MonthEndsAtMidnight
  <2>4. ~(end <= minuteOf[c])
    <3>1. end <= minuteOf[c] => end <= b
      BY <2>2, <2>3
    <3>2. /\ b \in Int /\ end \in Int
          /\ ~(b >= end)
      BY <1>1, <1>2
    <3> QED BY <1>1, <3>1, <3>2
  <2>5. start <= minuteOf[c] /\ minuteOf[c] < end
    <3>1. /\ b \in Int /\ end \in Int /\ start \in Int /\ minuteOf[c] \in Int
          /\ b >= start /\ b <= minuteOf[c]
      BY <1>1, <1>2, <2>2
    <3> QED BY <2>4, <3>1
  <2> QED BY <1>2, <2>5, SameBucket
<1> QED BY <1>3, <1>4, TierFacts

LEMMA InBucketStep ==
    ASSUME NEW z, Zone = {z}, TypeOK, AccTimed, CountInv, InBucket, [Next]_vars
    PROVE  InBucket'
<1>0. zone' = zone
  BY ZoneStays
<1>1. \A t \in Tier : \A b \in Time : \A c \in rows[t][b] : minuteOf'[c] = minuteOf[c]
  <2>1. CASE \E k \in Chunk : Accumulate(k)
    <3>1. PICK k \in Chunk : Accumulate(k)
      BY <2>1
    <3>2. minuteOf[k] \notin Time
      BY <3>1, ParameterAssumption DEF Accumulate, Unused, Time
    <3>3. \A c \in Chunk \ {k} : minuteOf'[c] = minuteOf[c]
      BY <3>1 DEF Accumulate, TypeOK
    <3> QED BY <3>2, <3>3 DEF CountInv, Placed, TypeOK
  <2>2. CASE ~\E k \in Chunk : Accumulate(k)
    <3>1. minuteOf' = minuteOf
      BY <2>2 DEF Next, Work, Fault, Drain, RollupStep, Tick, ChangeZone, Crash, PickClosed,
         LockForFlush, FlushEntry, FlushFails, BeginRollup, RollBucket, TierDone,
         PruneMinute, PruneHour, PruneDay, RollupFails, vars
    <3> QED BY <3>1
  <2> QED BY <2>1, <2>2
<1>2. CASE \A tier \in Coarse : \A b \in Time : rows'[tier][b] \subseteq rows[tier][b]
  BY <1>0, <1>1, <1>2, TierFacts DEF InBucket
<1>3. CASE UNCHANGED <<rows, watermark, recorded, late, misfiled>>
  BY <1>2, <1>3
<1>4. ASSUME NEW c \in Chunk, FlushEntry(c) PROVE InBucket'
  <2>1. \A tier \in Coarse : rows'[tier] = rows[tier]
    BY <1>4, TierFacts DEF FlushEntry, TypeOK
  <2> QED BY <2>1, <1>2
<1>5. ASSUME NEW tier \in Coarse, RollBucket(tier) PROVE InBucket'
  <2>1. PICK oldest, start, end \in Time :
          /\ start = Start(tier, zone, oldest) /\ end = End(tier, zone, oldest)
          /\ rows' = [rows EXCEPT ![tier][start] = @ \cup Moved(tier, start, end)]
    BY <1>5, RollBucketFacts
  <2>2. UNCHANGED minuteOf
    BY <1>5 DEF RollBucket
  <2>3. \A t \in Coarse : \A b \in Time :
          rows'[t][b] = IF t = tier /\ b = start THEN rows[t][b] \cup Moved(tier, start, end)
                                                 ELSE rows[t][b]
    BY <2>1, TierFacts DEF TypeOK
  <2>4. \A c \in Moved(tier, start, end) : start = Start(tier, zone, minuteOf[c])
    BY <2>1, MovedInBucket
  <2>5. ASSUME NEW t \in Coarse, NEW b \in Time, NEW c \in rows'[t][b]
        PROVE  b = Start(t, zone, minuteOf[c])
    <3>1. CASE c \in rows[t][b]
      BY <3>1 DEF InBucket
    <3>2. CASE t = tier /\ b = start /\ c \in Moved(tier, start, end)
      BY <3>2, <2>4
    <3> QED BY <2>3, <2>5, <3>1, <3>2
  <2> QED BY <1>0, <2>2, <2>5 DEF InBucket
<1>6. CASE PruneMinute \/ PruneHour \/ PruneDay
  <2>1. PICK tier \in Tier : \E old : Delete(tier, old)
    BY <1>6, TierFacts DEF PruneMinute, PruneHour, PruneDay
  <2>2. \A t \in Tier : \A b \in Time : rows'[t][b] \subseteq rows[t][b]
    BY <2>1, DeleteFacts
  <2> QED BY <2>2, <1>2, TierFacts
<1> QED BY <1>3, <1>4, <1>5, <1>6, StoreSteps

(* What an answer is made of, row by row.                                  *)
LEMMA SourceFacts ==
    ASSUME TypeOK, NEW tier \in Tier, NEW source \in Sources(tier)
    PROVE  /\ source = <<source[1], source[2]>>
           /\ source[1] \in Tier /\ source[2] \in Time
           /\ \/ source[1] = tier
              \/ source[1] = "minute"
              \/ tier = "month" /\ source[1] = "day"
<1>1. \A t \in Coarse : Mark(t) \in Time
  BY MarksAreTimes
<1>2. 0 \in Time
  BY ParameterAssumption DEF Time
<1> QED BY <1>1, <1>2, TierFacts DEF Sources

LEMMA StitchedRows ==
    ASSUME TypeOK, NEW tier \in Tier, NEW from, NEW to, NEW r
    PROVE  r \in Stitched(tier, from, to) <=>
             \E source \in Sources(tier), b \in Time, c \in Chunk :
                /\ r = <<source[1], b, c>> /\ c \in rows[source[1]][b]
                /\ b >= source[2] /\ b >= from /\ b < to
BY DEF Stitched, Reads

(* A table, read from a bucket on, holds the chunk. *)
ReadFrom(table, lower, c) == \E b \in Time : b >= lower /\ c \in rows[table][b]

LEMMA ViewRows ==
    ASSUME NEW tier \in Tier, NEW c
    PROVE  c \in View(tier) <=>
             \E source \in Sources(tier) : ReadFrom(source[1], source[2], c)
<1>0. \A table : ReadFrom(table, 0, c) <=> \E b \in Time : c \in rows[table][b]
  BY ParameterAssumption DEF Time, ReadFrom
<1>1. CASE tier = "minute"
  <2>1. Sources(tier) = {<<"minute", 0>>}
    BY <1>1 DEF Sources
  <2>2. c \in View(tier) <=> ReadFrom("minute", 0, c)
    BY <1>0, <1>1 DEF View, Table
  <2> QED BY <2>1, <2>2
<1>2. CASE tier \in {"hour", "day"}
  <2>1. Sources(tier) = {<<tier, 0>>, <<"minute", Mark(tier)>>}
    BY <1>2 DEF Sources
  <2>2. c \in View(tier) <=> ReadFrom(tier, 0, c) \/ ReadFrom("minute", Mark(tier), c)
    <3>1. c \in View(tier) <=> InView(tier, c)
      BY <1>2, ViewMembers
    <3>2. InView(tier, c) <=> \/ \E b \in Time : c \in rows[tier][b]
                              \/ ReadFrom("minute", Mark(tier), c)
      BY DEF InView, ReadFrom
    <3> QED BY <1>0, <3>1, <3>2, Zenon
  <2> QED BY <2>1, <2>2
<1>3. CASE tier = "month"
  <2>1. Sources(tier) = {<<"month", 0>>, <<"day", Mark("month")>>, <<"minute", Mark("day")>>}
    BY <1>3 DEF Sources
  <2>2. c \in View(tier) <=> \/ ReadFrom("month", 0, c)
                             \/ ReadFrom("day", Mark("month"), c)
                             \/ ReadFrom("minute", Mark("day"), c)
    <3>1. c \in View(tier) <=> InMonth(c) \/ InDays(c) \/ InMinutes(c)
      BY <1>3, ViewMembers
    <3> QED BY <1>0, <3>1 DEF InMonth, InDays, InMinutes, ReadFrom
  <2> QED BY <2>1, <2>2
<1> QED BY <1>1, <1>2, <1>3, TierFacts

(* A row lies in one bucket of the tier that asks: that of its minute.     *)
LEMMA RowInBucket ==
    ASSUME TypeOK, CountInv, InBucket, NEW tier \in Tier, NEW source \in Sources(tier),
           NEW b \in Time, NEW c \in rows[source[1]][b]
    PROVE  /\ minuteOf[c] \in Time /\ b <= minuteOf[c]
           /\ BucketOf(tier, minuteOf[c]) <= b /\ b < BucketEnd(tier, minuteOf[c])
           /\ BucketOf(tier, b) = BucketOf(tier, minuteOf[c])
<1>1. /\ source[1] \in Tier
      /\ \/ source[1] = tier
         \/ source[1] = "minute"
         \/ tier = "month" /\ source[1] = "day"
  BY SourceFacts
<1>2. /\ minuteOf[c] \in Time /\ zone \in Zone
      /\ minuteOf[c] \in Int /\ b \in Int
  BY <1>1 DEF CountInv, Placed, TypeOK, Time
<1>0. \A t \in Coarse : /\ Start(t, zone, minuteOf[c]) <= minuteOf[c]
                        /\ minuteOf[c] < End(t, zone, minuteOf[c])
                        /\ End(t, zone, minuteOf[c]) \in Int
  <2>1. ASSUME NEW t \in Coarse
        PROVE  /\ Start(t, zone, minuteOf[c]) <= minuteOf[c]
               /\ End(t, zone, minuteOf[c]) \in Nat /\ minuteOf[c] < End(t, zone, minuteOf[c])
    BY <1>2, BoundsContain
  <2> QED BY <2>1
<1>3. CASE source[1] = "minute"
  <2>1. minuteOf[c] = b
    BY <1>3 DEF CountInv, MinutePlaced
  <2>2. CASE tier = "minute"
    BY <1>2, <2>1, <2>2 DEF BucketOf, BucketEnd
  <2>3. CASE tier \in Coarse
    <3>1. tier # "minute"
      BY <2>3 DEF Coarse
    <3> QED BY <1>2, <2>1, <2>3, <3>1, BoundsContain DEF BucketOf, BucketEnd
  <2> QED BY <2>2, <2>3 DEF Tier
<1>4. CASE source[1] = tier /\ tier \in Coarse
  <2>1. tier # "minute"
    BY <1>4 DEF Coarse
  <2>2. b = Start(tier, zone, minuteOf[c])
    BY <1>4 DEF InBucket
  <2>3. b <= minuteOf[c] /\ b < End(tier, zone, minuteOf[c])
    BY <1>0, <1>2, <1>4, <2>2
  <2>4. Start(tier, zone, b) = Start(tier, zone, minuteOf[c])
    BY <1>2, <1>4, <2>2, <2>3, SameBucket
  <2> QED BY <1>2, <2>1, <2>2, <2>3, <2>4 DEF BucketOf, BucketEnd
<1>5. CASE tier = "month" /\ source[1] = "day"
  <2>1. b = Start("day", zone, minuteOf[c])
    BY <1>5, TierFacts DEF InBucket
  <2>2. /\ Start("month", zone, minuteOf[c]) <= b
        /\ b <= minuteOf[c]
    BY <1>2, <2>1, DayInMonth, DayBounds
  <2>4. b < End("month", zone, minuteOf[c])
    BY <1>0, <1>2, <2>2, TierFacts
  <2>5. Start("month", zone, b) = Start("month", zone, minuteOf[c])
    BY <1>2, <2>2, <2>4, SameBucket, TierFacts
  <2> QED BY <1>2, <1>5, <2>2, <2>4, <2>5 DEF BucketOf, BucketEnd
<1> QED BY <1>1, <1>3, <1>4, <1>5 DEF Tier

(* A row is the one that holds its chunk in an answer.                     *)
LEMMA OneRead ==
    ASSUME TypeOK, CountInv, NEW tier \in Tier,
           NEW s1 \in Sources(tier), NEW b1 \in Time, b1 >= s1[2],
           NEW s2 \in Sources(tier), NEW b2 \in Time, b2 >= s2[2],
           NEW c, c \in rows[s1[1]][b1], c \in rows[s2[1]][b2]
    PROVE  s1[1] = s2[1] /\ b1 = b2
<1>1. ASSUME s1[1] = s2[1] PROVE b1 = b2
  BY <1>1, SourceFacts DEF CountInv, OneRow
<1>2. ASSUME NEW x \in Sources(tier), NEW y \in Sources(tier), x[1] = "minute", y[1] \in Coarse,
             NEW p \in Time, p >= x[2], c \in rows["minute"][p],
             NEW q \in Time, q >= y[2], c \in rows[y[1]][q]
      PROVE  FALSE
  <2>1. minuteOf[c] = p
    BY <1>2 DEF CountInv, MinutePlaced
  <2>2. x[2] = IF tier = "hour" THEN Mark("hour") ELSE Mark("day")
    <3>1. CASE tier = "minute"
      BY <1>2, <3>1 DEF Sources, Coarse
    <3>2. CASE tier = "hour"
      <4>1. Sources(tier) = {<<"hour", 0>>, <<"minute", Mark("hour")>>}
        BY <3>2 DEF Sources
      <4> QED BY <1>2, <3>2, <4>1
    <3>3. CASE tier = "day"
      <4>1. Sources(tier) = {<<"day", 0>>, <<"minute", Mark("day")>>}
        BY <3>3 DEF Sources
      <4> QED BY <1>2, <3>3, <4>1
    <3>4. CASE tier = "month"
      <4>1. Sources(tier) = {<<"month", 0>>, <<"day", Mark("month")>>, <<"minute", Mark("day")>>}
        BY <3>4 DEF Sources
      <4> QED BY <1>2, <3>4, <4>1
    <3> QED BY <3>1, <3>2, <3>3, <3>4, TierFacts
  <2>3. IF tier = "hour" THEN y[1] = "hour" ELSE y[1] \in {"day", "month"}
    BY <1>2, SourceFacts, TierFacts
  <2>4. minuteOf[c] < x[2]
    BY <1>2, <2>2, <2>3 DEF CountInv, HourBelowMark, DayBelowMark, MonthBelowMark
  <2> QED BY <1>2, <2>1, <2>4, SourceFacts DEF Time
<1>3. ASSUME NEW x \in Sources(tier), NEW y \in Sources(tier), x[1] = "month", y[1] = "day",
             NEW p \in Time, c \in rows["month"][p],
             NEW q \in Time, q >= y[2], c \in rows["day"][q]
      PROVE  FALSE
  <2>1. tier = "month"
    BY <1>3, SourceFacts
  <2>2. Sources(tier) = {<<"month", 0>>, <<"day", Mark("month")>>, <<"minute", Mark("day")>>}
    BY <2>1 DEF Sources
  <2>3. y[2] = Mark("month")
    BY <1>3, <2>2
  <2> QED BY <1>3, <2>3 DEF CountInv, MonthBehind
<1>4. CASE s1[1] # s2[1]
  <2>1. \/ s1[1] = "minute" /\ s2[1] \in Coarse
        \/ s2[1] = "minute" /\ s1[1] \in Coarse
        \/ s1[1] = "month" /\ s2[1] = "day"
        \/ s2[1] = "month" /\ s1[1] = "day"
    BY <1>4, SourceFacts, TierFacts
  <2> QED BY <1>2, <1>3, <2>1
<1> QED BY <1>1, <1>4

-----------------------------------------------------------------------------
(* The answers. *)

(* An answer has a chunk if some table it reads has it in the window. *)
LEMMA AnsweredRows ==
    ASSUME TypeOK, NEW tier \in Tier, NEW from, NEW to, NEW source \in Sources(tier),
           NEW b \in Time, b >= source[2], b >= from, b < to,
           NEW c \in rows[source[1]][b]
    PROVE  c \in Answered(tier, from, to)
<1>1. source[1] \in Tier
  BY SourceFacts
<1>2. c \in Chunk
  BY <1>1 DEF TypeOK
<1>3. <<source[1], b, c>> \in Stitched(tier, from, to)
  BY <1>2, StitchedRows
<1> DEFINE r == <<source[1], b, c>>
<1>4. r \in Stitched(tier, from, to) /\ r[3] = c
  BY <1>3
<1> HIDE DEF r
<1> QED BY <1>4 DEF Answered

LEMMA BucketInts ==
    ASSUME NEW tier \in Tier, NEW t \in Time, zone \in Zone
    PROVE  BucketOf(tier, t) \in Int /\ BucketEnd(tier, t) \in Int
<1>1. CASE tier = "minute"
  BY <1>1 DEF BucketOf, BucketEnd, Time
<1>2. CASE tier \in Coarse
  <2>1. tier # "minute"
    BY <1>2 DEF Coarse
  <2>2. Start(tier, zone, t) \in Time /\ End(tier, zone, t) \in Nat
    BY <1>2, BoundsContain
  <2> QED BY <2>1, <2>2 DEF BucketOf, BucketEnd, Time
<1> QED BY <1>1, <1>2 DEF Tier

LEMMA EndsAreInts ==
    ASSUME NEW to \in Ends, NEW from \in 0 .. to - 1
    PROVE  from \in Int /\ to \in Int /\ from >= 0
BY ParameterAssumption DEF Ends

RowsInv == TypeOK /\ AccTimed /\ CountInv /\ InBucket

LEMMA WindowHolds == RowsInv => WindowIsRead
<1> SUFFICES ASSUME RowsInv, NEW tier \in Tier, NEW to \in Ends, NEW from \in 0 .. to - 1
             PROVE  /\ \A c \in View(tier) :
                         /\ (/\ BucketOf(tier, minuteOf[c]) >= from
                             /\ BucketEnd(tier, minuteOf[c]) <= to)
                               => c \in Answered(tier, from, to)
                         /\ (\/ BucketEnd(tier, minuteOf[c]) <= from
                             \/ BucketOf(tier, minuteOf[c]) >= to)
                               => c \notin Answered(tier, from, to)
                    /\ \A r1, r2 \in Stitched(tier, from, to) : r1[3] = r2[3] => r1 = r2
  BY DEF WindowIsRead
<1> USE DEF RowsInv
<1>1. from \in Int /\ to \in Int
  BY EndsAreInts
<1>2. ASSUME NEW c \in View(tier), BucketOf(tier, minuteOf[c]) >= from,
             BucketEnd(tier, minuteOf[c]) <= to
      PROVE  c \in Answered(tier, from, to)
  <2>1. PICK source \in Sources(tier) : ReadFrom(source[1], source[2], c)
    BY <1>2, ViewRows
  <2>2. PICK b \in Time : b >= source[2] /\ c \in rows[source[1]][b]
    BY <2>1 DEF ReadFrom
  <2>3. /\ minuteOf[c] \in Time
        /\ BucketOf(tier, minuteOf[c]) <= b /\ b < BucketEnd(tier, minuteOf[c])
    BY <2>2, RowInBucket
  <2>4. BucketOf(tier, minuteOf[c]) \in Int /\ BucketEnd(tier, minuteOf[c]) \in Int /\ b \in Int
    BY <2>3, BucketInts DEF TypeOK, Time
  <2>5. b >= from /\ b < to
    BY <1>1, <1>2, <2>3, <2>4
  <2> QED BY <2>2, <2>5, AnsweredRows
<1>3. ASSUME NEW r \in Stitched(tier, from, to)
      PROVE  \E source \in Sources(tier) : \E b \in Time :
               /\ r = <<source[1], b, r[3]>> /\ r[3] \in rows[source[1]][b]
               /\ b >= source[2] /\ b >= from /\ b < to
  <2>1. PICK source \in Sources(tier), b \in Time, c \in Chunk :
          /\ r = <<source[1], b, c>> /\ c \in rows[source[1]][b]
          /\ b >= source[2] /\ b >= from /\ b < to
    BY <1>3, StitchedRows
  <2>2. r[3] = c
    BY <2>1
  <2> QED BY <2>1, <2>2
<1>4. ASSUME NEW c \in Answered(tier, from, to)
      PROVE  ~(BucketEnd(tier, minuteOf[c]) <= from) /\ ~(BucketOf(tier, minuteOf[c]) >= to)
  <2>1. PICK r \in Stitched(tier, from, to) : c = r[3]
    BY <1>4 DEF Answered
  <2>2. PICK source \in Sources(tier), b \in Time :
          c \in rows[source[1]][b] /\ b >= from /\ b < to
    BY <1>3, <2>1
  <2>3. /\ minuteOf[c] \in Time
        /\ BucketOf(tier, minuteOf[c]) <= b /\ b < BucketEnd(tier, minuteOf[c])
    BY <2>2, RowInBucket
  <2>4. BucketOf(tier, minuteOf[c]) \in Int /\ BucketEnd(tier, minuteOf[c]) \in Int /\ b \in Int
    BY <2>3, BucketInts DEF TypeOK, Time
  <2> QED BY <1>1, <2>2, <2>3, <2>4
<1>5. ASSUME NEW r1 \in Stitched(tier, from, to), NEW r2 \in Stitched(tier, from, to),
             r1[3] = r2[3]
      PROVE  r1 = r2
  <2>1. PICK s1 \in Sources(tier), b1 \in Time :
          r1 = <<s1[1], b1, r1[3]>> /\ r1[3] \in rows[s1[1]][b1] /\ b1 >= s1[2]
    BY <1>3
  <2>2. PICK s2 \in Sources(tier), b2 \in Time :
          r2 = <<s2[1], b2, r2[3]>> /\ r2[3] \in rows[s2[1]][b2] /\ b2 >= s2[2]
    BY <1>3
  <2>3. s1[1] = s2[1] /\ b1 = b2
    BY <1>5, <2>1, <2>2, OneRead
  <2> QED BY <1>5, <2>1, <2>2, <2>3
<1> QED BY <1>2, <1>4, <1>5

LEMMA SeriesHolds == RowsInv => SeriesIsFiled
<1> SUFFICES ASSUME RowsInv, NEW tier \in Tier, NEW r \in Stitched(tier, 0, Horizon + 1)
             PROVE  Filed(tier, r) = BucketOf(tier, minuteOf[r[3]])
  BY DEF SeriesIsFiled
<1>1. PICK source \in Sources(tier), b \in Time, c \in Chunk :
        r = <<source[1], b, c>> /\ c \in rows[source[1]][b]
  BY StitchedRows DEF RowsInv
<1>2. r[2] = b /\ r[3] = c
  BY <1>1
<1>3. BucketOf(tier, b) = BucketOf(tier, minuteOf[c])
  BY <1>1, <1>2, RowInBucket DEF RowsInv
<1> QED BY <1>2, <1>3 DEF Filed


-----------------------------------------------------------------------------
(* What the finer tiers still have. *)

(* What was recorded in time is in every finer view but for what a pass    *)
(* has pruned by its age.                                                  *)
Remembered(tier, c) ==
    c \in View(tier) \/ BucketOf(tier, minuteOf[c]) < pruned - Retention(tier)
Lasting ==
    \A c \in recorded \ (late \cup misfiled) : \A tier \in {"minute", "hour", "day"} :
        Remembered(tier, c)

QueryInv ==
    /\ RowsInv /\ MonthViewExplained
    /\ Unrecorded /\ ViewsRecorded
    /\ QueryTypeOK /\ Lasting

LEMMA RetentionsAreInts == \A tier \in {"minute", "hour", "day"} : Retention(tier) \in Nat
BY ParameterAssumption DEF Retention

LEMMA Kinds ==
    [QueryNext]_<<vars, query>> =>
        \/ UNCHANGED <<vars, pruned>>
        \/ Background
BY DEF QueryNext, Ask, Answer, query

LEMMA QuerySteps ==
    ASSUME TypeOK, QueryTypeOK, [QueryNext]_<<vars, query>>
    PROVE  [Next]_vars /\ QueryTypeOK' /\ pruned <= pruned'
<1>1. /\ pruned \in 0 .. Horizon + 1 /\ asked \in {NoQuery} \cup 0 .. Horizon + 1
      /\ job.upto \in 0 .. Horizon + 1 /\ clock \in 0 .. Horizon /\ Horizon \in Nat
  BY ParameterAssumption DEF QueryTypeOK, TypeOK, Time
<1>2. CASE Ask
  BY <1>1, <1>2 DEF Ask, QueryTypeOK
<1>3. CASE Answer
  BY <1>1, <1>3 DEF Answer, QueryTypeOK
<1>4. CASE Background
  <2>1. Next /\ asked' = asked
    BY <1>4 DEF Background
  <2>2. (pruned' = job.upto /\ job.upto > pruned) \/ pruned' = pruned
    BY <1>4 DEF Background
  <2>3. pruned' \in 0 .. Horizon + 1 /\ pruned <= pruned'
    BY <1>1, <2>2
  <2> QED BY <1>1, <2>1, <2>3 DEF QueryTypeOK
<1>5. CASE UNCHANGED <<vars, query>>
  BY <1>1, <1>5 DEF query, QueryTypeOK
<1> QED BY <1>2, <1>3, <1>4, <1>5 DEF QueryNext

(* What a pass has come to delete, it has pruned by its reading.           *)
LEMMA PassPrunes ==
    ASSUME TypeOK, QueryTypeOK, Background, PruneMinute \/ PruneHour \/ PruneDay
    PROVE  job.upto <= pruned'
<1>1. job.step \in Steps \ Coarse
  BY DEF PruneMinute, PruneHour, PruneDay, Steps, Coarse
<1>2. job.upto \in Int /\ pruned \in Int
  BY ParameterAssumption DEF TypeOK, QueryTypeOK
<1>3. pruned' = IF job.upto > pruned THEN job.upto ELSE pruned
  BY <1>1 DEF Background
<1> QED BY <1>2, <1>3

(* The minute table, read as a view, chunk by chunk. *)
LEMMA MinuteView ==
    \A c : /\ c \in View("minute") <=> \E b \in Time : c \in rows["minute"][b]
           /\ c \in View("minute")' <=> \E b \in Time : c \in rows'["minute"][b]
BY DEF View, Table

(* Prunes: what leaves a view is past the retention by the pass's reading. *)
LEMMA PrunedByAge ==
    ASSUME TypeOK, CountInv, InBucket, PruneMinute \/ PruneHour \/ PruneDay,
           NEW tier \in {"minute", "hour", "day"}, NEW c \in View(tier), c \notin View(tier)'
    PROVE  BucketOf(tier, minuteOf[c]) < job.upto - Retention(tier)
<1>1. CASE tier = "minute"
  <2>1. PICK b \in Time : c \in rows["minute"][b]
    BY <1>1, MinuteView
  <2>2. c \notin rows'["minute"][b]
    BY <1>1, MinuteView
  <2>3. minuteOf[c] = b
    BY <2>1 DEF CountInv, MinutePlaced
  <2>4. CASE PruneMinute
    <3>1. rows' = [rows EXCEPT !["minute"] =
                     [t \in Time |-> IF t \in OldMinutes THEN {} ELSE @[t]]]
      BY <2>4 DEF PruneMinute, Delete
    <3>2. b \in OldMinutes
      BY <2>1, <2>2, <3>1, TierFacts DEF TypeOK
    <3>3. b < job.upto - MinuteRet
      BY <3>2 DEF OldMinutes
    <3> QED BY <1>1, <2>3, <3>3 DEF BucketOf, Retention
  <2>5. CASE PruneHour \/ PruneDay
    <3>1. rows'["minute"] = rows["minute"]
      BY <2>5, TierFacts DEF PruneHour, PruneDay, Delete, TypeOK
    <3> QED BY <2>1, <2>2, <3>1
  <2> QED BY <2>4, <2>5
<1>2. CASE tier = "hour"
  <2>1. PruneHour
    BY <1>2, PrunesAge, TierFacts
  <2>2. PICK b \in OldHours : c \in rows["hour"][b]
    BY <1>2, <2>1, PrunesAge
  <2>3. b \in Time /\ b < job.upto - HourRet
    BY DEF OldHours
  <2>4. b = Start("hour", zone, minuteOf[c])
    BY <2>2, <2>3, TierFacts DEF InBucket
  <2> QED BY <1>2, <2>3, <2>4 DEF BucketOf, Retention
<1>3. CASE tier = "day"
  <2>1. PruneDay
    BY <1>3, PrunesAge, TierFacts
  <2>2. PICK b \in OldDays : c \in rows["day"][b]
    BY <1>3, <2>1, PrunesAge
  <2>3. b \in Time /\ b < job.upto - DayRet
    BY DEF OldDays
  <2>4. b = Start("day", zone, minuteOf[c])
    BY <2>2, <2>3, TierFacts DEF InBucket
  <2> QED BY <1>3, <2>3, <2>4 DEF BucketOf, Retention
<1> QED BY <1>1, <1>2, <1>3

(* The minutes of what was recorded do not change. *)
LEMMA MinutesStay ==
    ASSUME TypeOK, Unrecorded, [Next]_vars, NEW c \in recorded
    PROVE  minuteOf'[c] = minuteOf[c] /\ minuteOf[c] \in Time
<1>1. CASE \E k \in Chunk : Accumulate(k)
  <2>1. PICK k \in Chunk : Accumulate(k)
    BY <1>1
  <2>2. minuteOf[k] = Unused /\ minuteOf[c] \in Time
    BY <2>1 DEF Accumulate, Unrecorded
  <2>3. c # k
    BY <2>2, ParameterAssumption DEF Unused, Time
  <2> QED BY <2>1, <2>2, <2>3 DEF Accumulate, TypeOK
<1>2. CASE ~\E k \in Chunk : Accumulate(k)
  <2>1. minuteOf' = minuteOf
    BY <1>2 DEF Next, Work, Fault, Drain, RollupStep, Tick, ChangeZone, Crash, PickClosed,
       LockForFlush, FlushEntry, FlushFails, BeginRollup, RollBucket, TierDone,
       PruneMinute, PruneHour, PruneDay, RollupFails, vars
  <2> QED BY <2>1 DEF Unrecorded
<1> QED BY <1>1, <1>2

LEMMA LastingStep ==
    ASSUME NEW z, Zone = {z}, QueryInv, [QueryNext]_<<vars, query>>
    PROVE  Lasting'
<1> USE DEF QueryInv, RowsInv
<1>0. /\ [Next]_vars /\ pruned <= pruned' /\ pruned \in Int /\ pruned' \in Int
      /\ zone' = zone /\ zone \in Zone
  <2>1. [Next]_vars /\ pruned <= pruned' /\ QueryTypeOK'
    BY QuerySteps
  <2>2. zone' = zone /\ zone \in Zone
    BY <2>1, ZoneStays DEF TypeOK
  <2>3. pruned \in Int /\ pruned' \in Int
    BY <2>1, ParameterAssumption DEF QueryTypeOK
  <2> QED BY <2>1, <2>2, <2>3
<1> DEFINE Fine == {"minute", "hour", "day"}
(* What was remembered of a chunk, and is still in view or too old, is. *)
<1>1. ASSUME NEW c \in recorded, NEW tier \in Fine, Remembered(tier, c),
             \/ c \in View(tier) => c \in View(tier)'
             \/ c \in View(tier) => BucketOf(tier, minuteOf[c]) < pruned' - Retention(tier)
      PROVE  Remembered(tier, c)'
  <2>1. minuteOf'[c] = minuteOf[c] /\ minuteOf[c] \in Time
    BY <1>0, MinutesStay
  <2>2. BucketOf(tier, minuteOf[c])' = BucketOf(tier, minuteOf[c])
    BY <1>0, <2>1 DEF BucketOf
  <2>3. BucketOf(tier, minuteOf[c]) \in Int /\ Retention(tier) \in Int
    BY <1>0, <2>1, BucketInts, RetentionsAreInts, TierFacts
  <2>4. BucketOf(tier, minuteOf[c]) < pruned - Retention(tier)
           => BucketOf(tier, minuteOf[c]) < pruned' - Retention(tier)
    BY <1>0, <2>3
  <2>5. Retention(tier)' = Retention(tier)
    BY DEF Retention
  <2>6. c \in View(tier)' \/ BucketOf(tier, minuteOf[c]) < pruned' - Retention(tier)
    BY <1>1, <2>4 DEF Remembered
  <2> QED BY <2>2, <2>5, <2>6 DEF Remembered
<1>2. ASSUME UNCHANGED recorded, late \subseteq late', misfiled \subseteq misfiled',
             \A tier \in Fine : View(tier) \subseteq View(tier)'
      PROVE  Lasting'
  BY <1>1, <1>2 DEF Lasting
<1>3. ASSUME NEW k \in Chunk, FlushEntry(k) PROVE Lasting'
  <2>1. /\ recorded' = recorded \cup {k} /\ misfiled' = misfiled /\ minuteOf' = minuteOf
        /\ late \subseteq late'
        /\ k \notin late' => \A t \in Coarse : ~(minuteOf[k] < Mark(t))
    BY <1>3 DEF FlushEntry
  <2>2. /\ minuteOf[k] \in Time /\ minuteOf[k] \in Int
        /\ \A t \in Coarse : Mark(t) \in Int
    BY <1>3, MarksAreTimes DEF FlushEntry, TypeOK, AccTimed, Time
  <2>3. \A b \in Time : rows'["minute"][b] = IF b = minuteOf[k] THEN rows["minute"][b] \cup {k}
                                                              ELSE rows["minute"][b]
    BY <1>3, <2>2, TierFacts DEF FlushEntry, TypeOK
  <2>4. View("minute") \subseteq View("minute")' /\ k \in View("minute")'
    <3>1. \A c : c \in View("minute") => c \in View("minute")'
      BY <2>3, MinuteView
    <3>2. k \in View("minute")'
      BY <2>2, <2>3, MinuteView
    <3> QED BY <3>1, <3>2
  <2>5. \A tier \in Fine : View(tier) \subseteq View(tier)'
    BY <1>3, <2>4, ViewsGain, TierFacts
  <2>6. k \notin late' => \A tier \in Fine : k \in View(tier)'
    BY <1>3, <2>1, <2>2, <2>4, ViewsGain, TierFacts
  <2>7. ASSUME NEW c \in recorded' \ (late' \cup misfiled'), NEW tier \in Fine
        PROVE  Remembered(tier, c)'
    <3>1. CASE c = k
      BY <2>6, <2>7, <3>1 DEF Remembered
    <3>2. CASE c # k
      BY <1>1, <2>1, <2>5, <2>7, <3>2 DEF Lasting
    <3> QED BY <3>1, <3>2
  <2> QED BY <2>7 DEF Lasting
<1>4. ASSUME NEW t \in Coarse, RollBucket(t) PROVE Lasting'
  <2>1. UNCHANGED <<recorded, late>> /\ misfiled \subseteq misfiled'
    BY <1>4 DEF RollBucket
  <2>2. rows'["minute"] = rows["minute"]
    BY <1>4, TierFacts, RollBucketFacts DEF TypeOK
  <2>3. View("minute") \subseteq View("minute")'
    BY <2>2, MinuteView
  <2>4. View("hour")' = View("hour") /\ View("day")' = View("day")
    <3>1. CASE t = "month"
      BY <1>4, <3>1, RollUpElsewhere
    <3>2. CASE t = "hour"
      BY <1>4, <3>2, RollUpElsewhere, RollUpIsInvisible
    <3>3. CASE t = "day"
      BY <1>4, <3>3, RollUpElsewhere, RollUpIsInvisible
    <3> QED BY <3>1, <3>2, <3>3, TierFacts
  <2> QED BY <1>2, <2>1, <2>3, <2>4
<1>5. ASSUME Background, PruneMinute \/ PruneHour \/ PruneDay PROVE Lasting'
  <2>1. job.upto <= pruned' /\ job.upto \in Int
    BY <1>5, PassPrunes, ParameterAssumption DEF TypeOK
  <2>2. UNCHANGED <<recorded, late, misfiled>>
    BY <1>5 DEF PruneMinute, PruneHour, PruneDay, history
  <2>3. ASSUME NEW c \in recorded \ (late \cup misfiled), NEW tier \in Fine
        PROVE  Remembered(tier, c)'
    <3>1. Remembered(tier, c)
      BY <2>3 DEF Lasting
    <3>2. CASE c \in View(tier) /\ c \notin View(tier)'
      <4>1. BucketOf(tier, minuteOf[c]) < job.upto - Retention(tier)
        BY <1>5, <3>2, PrunedByAge
      <4>2. BucketOf(tier, minuteOf[c]) \in Int /\ Retention(tier) \in Int
        BY <1>0, MinutesStay, BucketInts, RetentionsAreInts, TierFacts
      <4>3. BucketOf(tier, minuteOf[c]) < pruned' - Retention(tier)
        BY <1>0, <2>1, <4>1, <4>2
      <4> QED BY <1>1, <3>1, <4>3
    <3>3. CASE c \in View(tier) => c \in View(tier)'
      BY <1>1, <3>1, <3>3
    <3> QED BY <3>2, <3>3
  <2> QED BY <2>2, <2>3 DEF Lasting
<1>6. CASE UNCHANGED <<rows, watermark, recorded, late, misfiled>>
  <2>1. \A tier \in Coarse : View(tier)' = View(tier)
    BY <1>6, ViewsKept
  <2>2. View("minute")' = View("minute")
    BY <1>6, MinuteView
  <2> QED BY <1>2, <1>6, <2>1, <2>2, TierFacts
<1>7. CASE UNCHANGED vars
  BY <1>6, <1>7 DEF vars, store, history
<1> QED BY <1>0, <1>3, <1>4, <1>5, <1>6, <1>7, StoreSteps, Kinds

LEMMA QueryInvInit == QueryInit => QueryInv
<1> SUFFICES ASSUME QueryInit PROVE QueryInv
  OBVIOUS
<1>1. Init
  BY DEF QueryInit
<1>2. \A t \in Tier : \A b \in Time : rows[t][b] = {}
  BY <1>1 DEF Init
<1>3. InBucket
  BY <1>2, TierFacts DEF InBucket
<1>4. recorded = {}
  BY <1>1 DEF Init
<1>5. MonthViewExplained /\ Lasting
  BY <1>4 DEF MonthViewExplained, Lasting
<1>6. QueryTypeOK
  BY ParameterAssumption DEF QueryInit, QueryTypeOK
<1> QED BY <1>1, <1>3, <1>5, <1>6, TypeInit, CountInit, LedgerInit DEF QueryInv, RowsInv


LEMMA QueryInvStep ==
    ASSUME NEW z, Zone = {z}, QueryInv, [QueryNext]_<<vars, query>>
    PROVE  QueryInv'
<1>1. [Next]_vars /\ QueryTypeOK'
  BY QuerySteps DEF QueryInv, RowsInv
<1>2. RowsInv'
  BY <1>1, TypeStep, CountStep, InBucketStep DEF QueryInv, RowsInv
<1>3. MonthViewExplained'
  BY <1>1, ExplainedStep DEF QueryInv, RowsInv
<1>4. Unrecorded' /\ ViewsRecorded'
  BY <1>1, LedgerStep DEF QueryInv, RowsInv
<1>5. Lasting'
  BY LastingStep
<1> QED BY <1>1, <1>2, <1>3, <1>4, <1>5 DEF QueryInv

(* The tier that is asked is no finer than the retention the window needs. *)
LEMMA ChosenKeeps ==
    ASSUME MinuteRet <= HourRet, HourRet <= DayRet, NEW from \in Int, NEW now \in Int,
           NEW tier \in Chosen(from, now)
    PROVE  /\ tier \in Tier
           /\ tier # "month" => now - from <= Retention(tier)
<1>1. MinuteRet \in Int /\ HourRet \in Int /\ DayRet \in Int
  BY ParameterAssumption
<1>2. /\ Rank("minute") = 1 /\ Rank("hour") = 2 /\ Rank("day") = 3 /\ Rank("month") = 4
      /\ Retention("minute") = MinuteRet /\ Retention("hour") = HourRet
      /\ Retention("day") = DayRet
  BY DEF Rank, Retention
<1>3. tier \in Tier /\ Rank(tier) >= Rank(FinestCovering(from, now))
  BY DEF Chosen
<1> DEFINE finest == FinestCovering(from, now)
<1>4. \/ finest = "minute" /\ now - from <= MinuteRet
      \/ finest = "hour" /\ now - from <= HourRet
      \/ finest = "day" /\ now - from <= DayRet
      \/ finest = "month"
  BY DEF FinestCovering
<1>5. Rank(tier) >= Rank(finest)
  BY <1>3
<1> HIDE DEF finest
<1>6. tier # "month" => now - from <= Retention(tier)
  <2>1. CASE tier = "minute"
    BY <1>1, <1>2, <1>4, <1>5, <2>1
  <2>2. CASE tier = "hour"
    BY <1>1, <1>2, <1>4, <1>5, <2>2
  <2>3. CASE tier = "day"
    BY <1>1, <1>2, <1>4, <1>5, <2>3
  <2> QED BY <1>3, <2>1, <2>2, <2>3, TierFacts
<1> QED BY <1>3, <1>6

LEMMA FinestHolds ==
    ASSUME MinuteRet <= HourRet, HourRet <= DayRet, QueryInv
    PROVE  FinestIsComplete
<1> USE DEF QueryInv, RowsInv
<1> SUFFICES ASSUME asked # NoQuery, NEW to \in Ends, NEW from \in 0 .. to - 1,
                    NEW tier \in Chosen(from, asked),
                    NEW c \in recorded \ (late \cup misfiled),
                    from <= BucketOf(tier, minuteOf[c]), minuteOf[c] < to
             PROVE  \/ c \in Answered(tier, from, to)
                    \/ /\ tier # "month" /\ pruned > asked
                       /\ BucketOf(tier, minuteOf[c]) < pruned - Retention(tier)
  BY DEF FinestIsComplete
<1>1. /\ from \in Int /\ to \in Int /\ asked \in Int /\ pruned \in Int
      /\ minuteOf[c] \in Time
  BY EndsAreInts, ParameterAssumption DEF QueryTypeOK, NoQuery, Unrecorded
<1>2. tier \in Tier /\ (tier # "month" => asked - from <= Retention(tier))
  BY <1>1, ChosenKeeps
<1>3. BucketOf(tier, minuteOf[c]) \in Int /\ minuteOf[c] \in Int
  BY <1>1, <1>2, BucketInts DEF TypeOK, Time
<1>4. CASE c \in View(tier)
  <2>1. PICK source \in Sources(tier) : ReadFrom(source[1], source[2], c)
    BY <1>2, <1>4, ViewRows
  <2>2. PICK b \in Time : b >= source[2] /\ c \in rows[source[1]][b]
    BY <2>1 DEF ReadFrom
  <2>3. b <= minuteOf[c] /\ BucketOf(tier, minuteOf[c]) <= b
    BY <1>2, <2>2, RowInBucket
  <2>4. b \in Int
    BY DEF Time
  <2>5. b >= from /\ b < to
    BY <1>1, <1>3, <2>3, <2>4
  <2> QED BY <1>2, <2>2, <2>5, AnsweredRows
<1>5. CASE c \notin View(tier)
  <2>1. tier # "month"
    BY <1>5 DEF MonthViewExplained
  <2>2. tier \in {"minute", "hour", "day"}
    BY <1>2, <2>1, TierFacts
  <2>3. BucketOf(tier, minuteOf[c]) < pruned - Retention(tier)
    BY <1>5, <2>2 DEF Lasting, Remembered
  <2>4. Retention(tier) \in Int
    BY <2>2, RetentionsAreInts
  <2>5. pruned > asked
    BY <1>1, <1>2, <1>3, <2>1, <2>3, <2>4
  <2> QED BY <2>1, <2>3, <2>5
<1> QED BY <1>4, <1>5

(* A query waits with a reading of its own, whatever the other threads do  *)
(* (server.rs respond).                                                    *)
THEOREM QueryTypeCorrect == QuerySpec => [](TypeOK /\ QueryTypeOK)
<1> DEFINE Inv == TypeOK /\ AccTimed /\ QueryTypeOK
<1>1. QueryInit => Inv
  <2> SUFFICES ASSUME QueryInit PROVE Inv
    OBVIOUS
  <2>1. Init /\ asked = NoQuery /\ pruned = 0
    BY DEF QueryInit
  <2> QED BY <2>1, TypeInit, ParameterAssumption DEF QueryTypeOK
<1>2. Inv /\ [QueryNext]_<<vars, query>> => Inv'
  BY QuerySteps, TypeStep
<1>3. Inv => TypeOK /\ QueryTypeOK
  OBVIOUS
<1> QED BY <1>1, <1>2, <1>3, PTL DEF QuerySpec

(* In one zone, an answer has all the tier still has of the buckets inside *)
(* its window, nothing of those outside, and no chunk twice, however far   *)
(* rolling up has come (query.rs stitched, top).                           *)
THEOREM WindowsAreRead ==
    ASSUME NEW z, Zone = {z}
    PROVE  QuerySpec => []WindowIsRead
<1>1. QueryInv => WindowIsRead
  BY WindowHolds DEF QueryInv
<1> QED BY <1>1, QueryInvInit, QueryInvStep, PTL DEF QuerySpec

(* In one zone, a series lists every row under the bucket of the minute in *)
(* which its bytes moved (query.rs series).                                *)
THEOREM SeriesAreFiled ==
    ASSUME NEW z, Zone = {z}
    PROVE  QuerySpec => []SeriesIsFiled
<1>1. QueryInv => SeriesIsFiled
  BY SeriesHolds DEF QueryInv
<1> QED BY <1>1, QueryInvInit, QueryInvStep, PTL DEF QuerySpec

(* In one zone, and with retentions that grow with the tiers as those of   *)
(* the daemon do (rollup.rs:72), the tier that is chosen for a window has  *)
(* what was recorded in it, but for what passes have pruned since the      *)
(* query read the clock (rollup.rs finest_covering).                       *)
THEOREM FinestTierIsComplete ==
    ASSUME NEW z, Zone = {z}, MinuteRet <= HourRet, HourRet <= DayRet
    PROVE  QuerySpec => []FinestIsComplete
<1>1. QueryInv => FinestIsComplete
  BY FinestHolds
<1> QED BY <1>1, QueryInvInit, QueryInvStep, PTL DEF QuerySpec


(* A query only reads: every step it takes leaves the daemon as it was, so *)
(* all that is proved of Rollup holds beside it (server.rs respond).       *)
THEOREM QueriesOnlyRead == QuerySpec => Spec
<1>1. QueryInit => Init
  BY DEF QueryInit
<1>2. [QueryNext]_<<vars, query>> => [Next]_vars
  BY Kinds DEF Background, query
<1> QED BY <1>1, <1>2, PTL DEF QuerySpec, Spec

-----------------------------------------------------------------------------
(* With a punctual drain nothing that was recorded is missing.             *)

(* In one zone a day is filed below the month's watermark only for minutes *)
(* that were recorded late: a minute in time is past that watermark, which *)
(* is a midnight, and then so is the beginning of its day.                 *)
OnlyLateMisfiled == misfiled \subseteq late

LEMMA MisfiledStep ==
    ASSUME TypeOK, AccTimed, KeptInv, OnlyLateMisfiled, [Next]_vars
    PROVE  OnlyLateMisfiled'
<1>0. "day" \in Coarse /\ "month" \in Coarse /\ {"minute", "day", "month"} \subseteq Tier
  BY DEF Coarse, Tier
<1>1. CASE UNCHANGED <<rows, watermark, recorded, late, misfiled>>
  BY <1>1 DEF OnlyLateMisfiled
<1>2. CASE PruneMinute \/ PruneHour \/ PruneDay
  BY <1>2 DEF PruneMinute, PruneHour, PruneDay, history, OnlyLateMisfiled
<1>3. ASSUME NEW c \in Chunk, FlushEntry(c) PROVE OnlyLateMisfiled'
  <2>1. misfiled' = misfiled /\ late \subseteq late'
    BY <1>3 DEF FlushEntry
  <2> QED BY <2>1 DEF OnlyLateMisfiled
<1>4. ASSUME NEW tier \in Coarse, RollBucket(tier), tier # "day" PROVE OnlyLateMisfiled'
  <2>1. misfiled' = misfiled /\ late' = late
    BY <1>4 DEF RollBucket
  <2> QED BY <2>1 DEF OnlyLateMisfiled
<1>5. CASE RollBucket("day")
  <2>1. PICK oldest \in Pending("day") :
          LET start == Start("day", zone, oldest)
              end   == End("day", zone, oldest)
          IN  /\ \A b \in Pending("day") : oldest <= b
              /\ Closed(end, job.now)
              /\ misfiled' = IF start < Mark("month")
                             THEN misfiled \cup Moved("day", start, end) ELSE misfiled
    BY <1>5, Zenon DEF RollBucket, Moved
  <2> DEFINE start == Start("day", zone, oldest)
             end   == End("day", zone, oldest)
  <2>2. late' = late
    BY <1>5 DEF RollBucket
  <2>3. /\ oldest \in Time /\ zone \in Zone /\ Time \subseteq Nat
        /\ Mark("month") \in DayStart[zone] /\ Mark("month") \in Time
    BY <1>0, MarksAreTimes, ParameterAssumption
       DEF Pending, TypeOK, Time, KeptInv, MarkIsMidnight
  <2>4. ASSUME NEW k \in Moved("day", start, end), k \notin late
        PROVE  ~(start < Mark("month"))
    <3>1. PICK b \in Time : k \in rows["minute"][b] /\ b >= Mark("day") /\ b < end
      BY DEF Moved, Summed, Source
    <3>2. Mark("month") <= b
      BY <2>4, <3>1 DEF KeptInv, PendingPastMonth
    <3>3. /\ start \in Int /\ end \in Int /\ b \in Int
          /\ oldest \in Int /\ Mark("month") \in Int
      <4>1. start \in Time /\ end \in Nat
        BY <1>0, <2>3, BoundsContain
      <4>2. \A t \in Time : t \in Int
        BY DEF Time
      <4>3. \A t \in Nat : t \in Int
        OBVIOUS
      <4> HIDE DEF start, end
      <4>4. start \in Int
        BY <4>1, <4>2
      <4>5. end \in Int
        BY <4>1, <4>3
      <4>6. b \in Int /\ oldest \in Int /\ Mark("month") \in Int
        BY <2>3, <3>1, <4>2
      <4> QED BY <4>4, <4>5, <4>6
    <3>4. ~(Mark("month") > oldest)
      <4>1. Mark("month") > oldest => end <= Mark("month")
        BY <2>3, DayBounds
      <4> HIDE DEF end
      <4> QED BY <3>1, <3>2, <3>3, <4>1
    <3>5. Mark("month") <= oldest
      BY <3>3, <3>4
    <3>6. Mark("month") <= start
      BY <2>3, <3>5, DayBounds
    <3> HIDE DEF start
    <3> QED BY <3>3, <3>6
  <2> HIDE DEF start, end
  <2>5. misfiled' = IF start < Mark("month")
                    THEN misfiled \cup Moved("day", start, end) ELSE misfiled
    BY <2>1 DEF start, end
  <2> QED BY <2>2, <2>4, <2>5 DEF OnlyLateMisfiled
<1> QED BY <1>1, <1>2, <1>3, <1>4, <1>5, StoreSteps

(* FinestIsComplete of all that was recorded and that no jump overtook.    *)
NothingIsMissing ==
    asked # NoQuery /\ mutex = "free" =>
        \A to \in Ends : \A from \in 0 .. to - 1 : \A tier \in Chosen(from, asked) :
            \A c \in recorded \ overtaken :
                from <= BucketOf(tier, minuteOf[c]) /\ minuteOf[c] < to =>
                    \/ c \in Answered(tier, from, to)
                    \/ /\ tier # "month" /\ pruned > asked
                       /\ BucketOf(tier, minuteOf[c]) < pruned - Retention(tier)

(* In one zone, with a clock that only goes forward and a drain that       *)
(* flushes within the grace period, an answer lacks nothing that was ever  *)
(* recorded in its window but what was in memory while the clock jumped    *)
(* and what passes have pruned since the query read the clock (server.rs   *)
(* respond, rollup.rs finest_covering).                                    *)
THEOREM AnswersAreWhole ==
    ASSUME NEW z, Zone = {z}, MinuteRet <= HourRet, HourRet <= DayRet,
           ClockSteps \subseteq Nat, PunctualDrain
    PROVE  QuerySpec => []NothingIsMissing
<1>1. Spec => []LateIsOvertaken
  BY LateWasOvertaken
<1>2. Spec => []OnlyLateMisfiled
  <2>1. Init => TypeOK /\ AccTimed /\ KeptInv /\ OnlyLateMisfiled
    BY TypeInit, KeptInit DEF Init, OnlyLateMisfiled
  <2>2. TypeOK /\ AccTimed /\ KeptInv /\ OnlyLateMisfiled /\ [Next]_vars
          => TypeOK' /\ AccTimed' /\ KeptInv' /\ OnlyLateMisfiled'
    BY TypeStep, KeptStep, MisfiledStep
  <2> QED BY <2>1, <2>2, PTL DEF Spec
<1>3. LateIsOvertaken /\ OnlyLateMisfiled /\ FinestIsComplete => NothingIsMissing
  <2> SUFFICES ASSUME LateIsOvertaken, OnlyLateMisfiled, FinestIsComplete
               PROVE  NothingIsMissing
    OBVIOUS
  <2>1. recorded \ overtaken \subseteq recorded \ (late \cup misfiled)
    BY DEF LateIsOvertaken, OnlyLateMisfiled
  <2> QED BY <2>1, Zenon DEF FinestIsComplete, NothingIsMissing
<1>4. QuerySpec => []FinestIsComplete
  BY FinestTierIsComplete
<1> QED BY <1>1, <1>2, <1>3, <1>4, QueriesOnlyRead, PTL

=============================================================================
