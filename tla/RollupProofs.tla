---------------------------- MODULE RollupProofs ----------------------------
(***************************************************************************)
(* Proofs about Rollup for every value of its constants: any calendars     *)
(* that satisfy CalendarAssumption, any retention, any number of chunks.   *)
(***************************************************************************)
EXTENDS Rollup, TLAPS

-----------------------------------------------------------------------------
(* The calendar. *)

(* The bucket of t holds t, and begins at an instant of the model. *)
LEMMA BoundsContain ==
    ASSUME NEW tier \in Coarse, NEW z \in Zone, NEW t \in Time
    PROVE  /\ Start(tier, z, t) \in Time /\ Start(tier, z, t) <= t
           /\ End(tier, z, t) \in Nat /\ t < End(tier, z, t)
<1>1. CASE tier = "hour"
  <2>1. HourLen \in Nat \ {0} /\ Horizon \in Nat /\ t \in Nat /\ t <= Horizon
    BY ParameterAssumption DEF Time
  <2>2. t % HourLen \in 0 .. HourLen - 1 /\ t % HourLen <= t
    BY <2>1, SMTT(30)
  <2>3. Start(tier, z, t) = t - (t % HourLen)
        /\ End(tier, z, t) = t - (t % HourLen) + HourLen
    BY <1>1 DEF Start, End
  <2> QED BY <2>1, <2>2, <2>3 DEF Time
<1>2. ASSUME NEW S \in {DayStart[z], MonthStart[z]}
      PROVE  /\ Latest(S, t) \in Nat /\ Latest(S, t) <= t
             /\ After(S, t) \in Nat /\ t < After(S, t)
  <2>1. PICK s \in S : s <= t /\ \A r \in S : r <= t => r <= s
    BY CalendarAssumption
  <2>2. PICK n \in S : n > t /\ \A r \in S : r > t => n <= r
    BY CalendarAssumption
  <2>3. /\ Latest(S, t) \in S /\ Latest(S, t) <= t
        /\ \A r \in S : r <= t => r <= Latest(S, t)
    BY <2>1 DEF Latest
  <2>4. /\ After(S, t) \in S /\ After(S, t) > t
        /\ \A r \in S : r > t => After(S, t) <= r
    BY <2>2 DEF After
  <2> QED BY <2>3, <2>4, CalendarAssumption
<1> QED BY <1>1, <1>2, ParameterAssumption DEF Start, End, Time, Coarse

-----------------------------------------------------------------------------
(* Type correctness. *)

(* An entry in memory has a bucket: what TypeOK needs to be inductive. *)
AccTimed == \A c \in acc : minuteOf[c] \in Time

(* What one transaction does: the rows of [start, end) past the mark go    *)
(* into the bucket, and the mark moves from below them to end.             *)
Moved(tier, start, end) ==
    UNION {rows[Source(tier)][b] : b \in Summed(tier, start, end)}
Overlap(tier, start, end) ==
    UNION {rows[Source(tier)][p[1]] \cap rows[Source(tier)][p[2]] :
             p \in {q \in Summed(tier, start, end) \X Summed(tier, start, end) :
                      q[1] # q[2]}}

LEMMA RollBucketFacts ==
    ASSUME TypeOK, NEW tier \in Coarse, RollBucket(tier)
    PROVE  \E oldest, start, end \in Time :
             /\ oldest \in Pending(tier) /\ \A b \in Pending(tier) : oldest <= b
             /\ start = Start(tier, zone, oldest) /\ end = End(tier, zone, oldest)
             /\ start <= oldest /\ oldest < end /\ end + Grace <= job.now
             /\ Mark(tier) <= oldest
             /\ rows' = [rows EXCEPT ![tier][start] = @ \cup Moved(tier, start, end)]
             /\ watermark' = [watermark EXCEPT ![tier] = end]
             /\ doubled' = doubled \cup (Moved(tier, start, end) \cap rows[tier][start])
                             \cup Overlap(tier, start, end)
<1>1. PICK oldest \in Pending(tier) :
         LET start == Start(tier, zone, oldest)
             end   == End(tier, zone, oldest)
         IN  /\ \A b \in Pending(tier) : oldest <= b
             /\ Closed(end, job.now)
             /\ rows' = [rows EXCEPT ![tier][start] = @ \cup Moved(tier, start, end)]
             /\ watermark' = [watermark EXCEPT ![tier] = end]
             /\ doubled' = doubled \cup (Moved(tier, start, end) \cap rows[tier][start])
                             \cup Overlap(tier, start, end)
  BY Zenon DEF RollBucket, Moved, Overlap
<1>2. oldest \in Time /\ Mark(tier) <= oldest
  BY DEF Pending
<1>3. /\ Start(tier, zone, oldest) \in Time /\ Start(tier, zone, oldest) <= oldest
      /\ End(tier, zone, oldest) \in Nat /\ oldest < End(tier, zone, oldest)
  BY <1>2, BoundsContain DEF TypeOK
<1>4. End(tier, zone, oldest) + Grace <= job.now /\ job.now \in Time
  BY <1>1 DEF Closed, TypeOK
<1>5. End(tier, zone, oldest) \in Time
  BY <1>3, <1>4, ParameterAssumption DEF Time
<1> QED BY <1>1, <1>2, <1>3, <1>4, <1>5, Zenon

(* Summing rows makes no chunk up. *)
LEMMA MovedType ==
    ASSUME TypeOK, NEW tier \in Coarse, NEW start \in Time, NEW end \in Time
    PROVE  Moved(tier, start, end) \subseteq Chunk /\ Overlap(tier, start, end) \subseteq Chunk
<1>1. Source(tier) \in Tier /\ Summed(tier, start, end) \subseteq Time
  BY DEF Source, Tier, Coarse, Summed
<1>2. \A b \in Time : rows[Source(tier)][b] \subseteq Chunk
  BY <1>1 DEF TypeOK
<1> QED BY <1>1, <1>2 DEF Moved, Overlap

(* A prune statement empties some rows of one table. *)
LEMMA DeleteFacts ==
    ASSUME TypeOK, NEW tier \in Tier, NEW old, Delete(tier, old)
    PROVE  /\ rows' \in [Tier -> [Time -> SUBSET Chunk]]
           /\ \A t \in Tier : \A b \in Time :
                rows'[t][b] = IF t = tier /\ b \in old THEN {} ELSE rows[t][b]
BY DEF Delete, TypeOK

LEMMA TypeInit == Init => TypeOK /\ AccTimed
BY ParameterAssumption DEF Init, TypeOK, AccTimed, Time, Tier, Coarse, Unused, NeverRolled,
   Asleep, Steps

LEMMA TypeStep == TypeOK /\ AccTimed /\ [Next]_vars => TypeOK' /\ AccTimed'
<1> SUFFICES ASSUME TypeOK, AccTimed, [Next]_vars PROVE TypeOK' /\ AccTimed'
  OBVIOUS
<1> USE DEF TypeOK, AccTimed
<1>1. CASE Tick
  BY <1>1 DEF Tick, store
<1>2. CASE ChangeZone
  BY <1>2 DEF ChangeZone, store, history
<1>3. CASE Crash
  BY <1>3, ParameterAssumption DEF Crash, store, history, Asleep, Time
<1>4. ASSUME NEW c \in Chunk, Accumulate(c) PROVE TypeOK' /\ AccTimed'
  BY <1>4 DEF Accumulate, store, history
<1>5. CASE PickClosed
  BY <1>5 DEF PickClosed, ClosedEntries, store, history
<1>6. CASE LockForFlush
  BY <1>6 DEF LockForFlush, store, history
<1>7. ASSUME NEW c \in Chunk, FlushEntry(c) PROVE TypeOK' /\ AccTimed'
  <2>1. rows' \in [Tier -> [Time -> SUBSET Chunk]]
    BY <1>7 DEF FlushEntry, Tier
  <2>2. late' \subseteq recorded' /\ recorded' \subseteq Chunk
    BY <1>7 DEF FlushEntry
  <2> QED BY <1>7, <2>1, <2>2 DEF FlushEntry
<1>8. ASSUME NEW c \in Chunk, FlushFails(c) PROVE TypeOK' /\ AccTimed'
  BY <1>8 DEF FlushFails, store, history
<1>9. CASE BeginRollup
  BY <1>9, ParameterAssumption DEF BeginRollup, store, history, Steps, Coarse, Time
<1>10. ASSUME NEW tier \in Coarse, RollBucket(tier) PROVE TypeOK' /\ AccTimed'
  <2>1. PICK oldest, start, end \in Time :
          /\ rows' = [rows EXCEPT ![tier][start] = @ \cup Moved(tier, start, end)]
          /\ watermark' = [watermark EXCEPT ![tier] = end]
          /\ doubled' = doubled \cup (Moved(tier, start, end) \cap rows[tier][start])
                          \cup Overlap(tier, start, end)
    BY <1>10, RollBucketFacts
  <2>2. Moved(tier, start, end) \subseteq Chunk /\ Overlap(tier, start, end) \subseteq Chunk
    BY MovedType
  <2>3. rows' \in [Tier -> [Time -> SUBSET Chunk]]
    BY <2>1, <2>2 DEF Tier
  <2>4. watermark' \in [Coarse -> Time \cup {NeverRolled}]
    BY <2>1
  <2> QED BY <1>10, <2>1, <2>2, <2>3, <2>4 DEF RollBucket
<1>11. ASSUME NEW tier \in Coarse, TierDone(tier) PROVE TypeOK' /\ AccTimed'
  BY <1>11 DEF TierDone, NextStep, store, history, Steps, Coarse
<1>12. CASE PruneMinute
  <2>1. rows' \in [Tier -> [Time -> SUBSET Chunk]]
    BY <1>12, DeleteFacts DEF PruneMinute, Tier
  <2> QED BY <1>12, <2>1 DEF PruneMinute, NextStep, history, Steps
<1>13. CASE PruneHour
  <2>1. rows' \in [Tier -> [Time -> SUBSET Chunk]]
    BY <1>13, DeleteFacts DEF PruneHour, Tier, Coarse
  <2> QED BY <1>13, <2>1 DEF PruneHour, NextStep, history, Steps
<1>14. CASE PruneDay
  <2>1. rows' \in [Tier -> [Time -> SUBSET Chunk]]
    BY <1>14, DeleteFacts DEF PruneDay, Tier, Coarse
  <2>2. job' \in [step : Steps \cup {"asleep"}, now : Time, upto : 0 .. Horizon + 1]
    BY <1>14, ParameterAssumption DEF PruneDay, Asleep, Time
  <2> QED BY <1>14, <2>1, <2>2 DEF PruneDay, history
<1>15. CASE RollupFails
  BY <1>15, ParameterAssumption DEF RollupFails, Asleep, store, history, Time
<1>16. CASE UNCHANGED vars
  BY <1>16 DEF vars, store, history
<1> QED
  BY <1>1, <1>2, <1>3, <1>4, <1>5, <1>6, <1>7, <1>8, <1>9, <1>10, <1>11, <1>12, <1>13,
     <1>14, <1>15, <1>16 DEF Next, Work, Fault, Drain, RollupStep

(* Every variable keeps its type, and every entry in memory its bucket. *)
THEOREM TypeCorrect == Spec => [](TypeOK /\ AccTimed)
BY TypeInit, TypeStep, PTL DEF Spec

-----------------------------------------------------------------------------
(* Nothing is counted twice. *)

(* Where a chunk can be.  A chunk in a table has left memory; the minute   *)
(* table keeps it at its own minute; it is in a coarser table only if its  *)
(* minute is below the mark that table's source is read from; and what the *)
(* month table holds is in no day row still to be rolled up.               *)
Placed ==
    \A tier \in Tier : \A b \in Time : \A c \in rows[tier][b] :
        c \notin acc /\ minuteOf[c] \in Time
MinutePlaced == \A b \in Time : \A c \in rows["minute"][b] : minuteOf[c] = b
HourBelowMark == \A b \in Time : \A c \in rows["hour"][b] : minuteOf[c] < Mark("hour")
DayBelowMark == \A b \in Time : \A c \in rows["day"][b] : minuteOf[c] < Mark("day")
MonthBelowMark == \A b \in Time : \A c \in rows["month"][b] : minuteOf[c] < Mark("day")
MonthBehind ==
    \A d \in Time : d >= Mark("month") =>
        \A b \in Time : rows["month"][b] \cap rows["day"][d] = {}
OneRow ==
    \A tier \in Tier : \A b1, b2 \in Time :
        b1 # b2 => rows[tier][b1] \cap rows[tier][b2] = {}

CountInv ==
    /\ Placed /\ MinutePlaced
    /\ HourBelowMark /\ DayBelowMark /\ MonthBelowMark
    /\ MonthBehind /\ OneRow
    /\ doubled = {}

LEMMA CountInit == Init => CountInv
BY DEF Init, CountInv, Placed, MinutePlaced, HourBelowMark, DayBelowMark, MonthBelowMark,
   MonthBehind, OneRow, Tier, Coarse

(* A step that only takes chunks away from rows and memory keeps it. *)
LEMMA CountShrinks ==
    ASSUME TypeOK, CountInv, UNCHANGED <<minuteOf, watermark, doubled>>, acc' \subseteq acc,
           \A t \in Tier : \A b \in Time : rows'[t][b] \subseteq rows[t][b]
    PROVE  CountInv'
<1>1. "minute" \in Tier /\ "hour" \in Tier /\ "day" \in Tier /\ "month" \in Tier
  BY DEF Tier, Coarse
<1>2. \A tier \in Coarse : Mark(tier)' = Mark(tier)
  BY DEF Mark
<1>3. Placed' /\ MinutePlaced' /\ OneRow' /\ doubled' = {}
  BY <1>1 DEF CountInv, Placed, MinutePlaced, OneRow
<1>4. HourBelowMark' /\ DayBelowMark' /\ MonthBelowMark'
  BY <1>1, <1>2 DEF CountInv, HourBelowMark, DayBelowMark, MonthBelowMark, Coarse
<1>5. MonthBehind'
  BY <1>1, <1>2 DEF CountInv, MonthBehind, Coarse
<1> QED BY <1>3, <1>4, <1>5 DEF CountInv

(* The marks a transaction leaves behind. *)
LEMMA MarkMoves ==
    ASSUME TypeOK, NEW tier \in Coarse, NEW end \in Time,
           watermark' = [watermark EXCEPT ![tier] = end]
    PROVE  /\ Mark(tier)' = end
           /\ \A t \in Coarse \ {tier} : Mark(t)' = Mark(t)
           /\ \A t \in Coarse : Mark(t) \in Time
BY ParameterAssumption DEF TypeOK, Mark, NeverRolled, Time

(* What is about to be rolled up comes from one source row each, at or     *)
(* past the mark and before end.                                           *)
LEMMA MovedFrom ==
    ASSUME TypeOK, NEW tier \in Coarse, NEW start \in Time, NEW end \in Time
    PROVE  /\ Source(tier) \in Tier
           /\ \A c \in Moved(tier, start, end) :
                \E b \in Time : /\ c \in rows[Source(tier)][b]
                               /\ b >= start /\ b >= Mark(tier) /\ b < end
BY DEF Moved, Summed, Source, Tier, Coarse

LEMMA NoOverlap ==
    ASSUME TypeOK, OneRow, NEW tier \in Coarse, NEW start \in Time, NEW end \in Time
    PROVE  Overlap(tier, start, end) = {}
<1>1. Source(tier) \in Tier /\ Summed(tier, start, end) \subseteq Time
  BY DEF Source, Tier, Coarse, Summed
<1>2. \A p \in {q \in Summed(tier, start, end) \X Summed(tier, start, end) : q[1] # q[2]} :
         rows[Source(tier)][p[1]] \cap rows[Source(tier)][p[2]] = {}
  BY <1>1 DEF OneRow
<1> QED BY <1>2 DEF Overlap

(* A row of a table gains chunks that no row of it held, from outside of    *)
(* memory.                                                                 *)
Adds(tier, start, moved) ==
    /\ \A t \in Tier : \A b \in Time :
          rows'[t][b] = IF t = tier /\ b = start THEN rows[t][b] \cup moved ELSE rows[t][b]
    /\ \A b \in Time : rows[tier][b] \cap moved = {}
    /\ \A c \in moved : c \notin acc' /\ minuteOf[c] \in Time

LEMMA RowAdded ==
    ASSUME Placed, OneRow, NEW tier \in Tier, NEW start \in Time, NEW moved,
           Adds(tier, start, moved), acc' \subseteq acc, minuteOf' = minuteOf
    PROVE  Placed' /\ OneRow'
<1> USE DEF Adds
<1>1. ASSUME NEW t \in Tier, NEW b \in Time, NEW c \in rows'[t][b]
      PROVE  c \notin acc' /\ minuteOf'[c] \in Time
  <2>1. CASE c \in moved
    BY <2>1
  <2>2. CASE c \in rows[t][b]
    BY <2>2 DEF Placed
  <2> QED BY <1>1, <2>1, <2>2
<1>2. ASSUME NEW t \in Tier, NEW b1 \in Time, NEW b2 \in Time, b1 # b2,
             NEW c \in rows'[t][b1], c \in rows'[t][b2]
      PROVE  FALSE
  <2>1. c \notin rows[t][b1] \/ c \notin rows[t][b2]
    BY <1>2 DEF OneRow
  <2>2. t = tier /\ c \in moved
    BY <1>2, <2>1
  <2>3. c \in rows[tier][b1] \/ c \in rows[tier][b2]
    BY <1>2, <2>2
  <2> QED BY <2>2, <2>3
<1> QED BY <1>1, <1>2 DEF Placed, OneRow

(* Rolling minutes up into the hour or the day table. *)
LEMMA CountRollHour ==
    ASSUME TypeOK, CountInv, NEW tier \in {"hour", "day"}, RollBucket(tier)
    PROVE  CountInv'
<1>1. PICK oldest, start, end \in Time :
        /\ oldest < end /\ Mark(tier) <= oldest
        /\ rows' = [rows EXCEPT ![tier][start] = @ \cup Moved(tier, start, end)]
        /\ watermark' = [watermark EXCEPT ![tier] = end]
        /\ doubled' = doubled \cup (Moved(tier, start, end) \cap rows[tier][start])
                        \cup Overlap(tier, start, end)
  BY RollBucketFacts DEF Coarse
<1> DEFINE moved == Moved(tier, start, end)
<1>2. /\ tier \in Coarse /\ tier \in Tier /\ Source(tier) = "minute"
      /\ "minute" \in Tier /\ "hour" \in Tier /\ "day" \in Tier /\ "month" \in Tier
  BY DEF Tier, Coarse, Source
<1>3. UNCHANGED <<minuteOf, acc>>
  BY DEF RollBucket
<1>4. \A c \in moved : \E b \in Time :
        c \in rows["minute"][b] /\ minuteOf[c] = b /\ b >= Mark(tier) /\ b < end
  BY <1>2, MovedFrom DEF CountInv, MinutePlaced
<1>5. \A t \in Tier : \A b \in Time :
        rows'[t][b] = IF t = tier /\ b = start THEN rows[t][b] \cup moved ELSE rows[t][b]
  BY <1>1, <1>2 DEF TypeOK
<1>5a. /\ Mark(tier)' = end /\ \A t \in Coarse \ {tier} : Mark(t)' = Mark(t)
       /\ \A t \in Coarse : Mark(t) \in Time
  BY <1>1, <1>2, MarkMoves
<1>6. ASSUME NEW t \in Coarse
      PROVE  Mark(t) \in Time /\ Mark(t)' \in Time /\ Mark(t) <= Mark(t)'
  <2>1. CASE t = tier
    BY <2>1, <1>1, <1>5a DEF Time
  <2>2. CASE t # tier
    BY <2>2, <1>5a DEF Time
  <2> QED BY <2>1, <2>2
<1>7. \A c \in moved : minuteOf[c] \in Time /\ Mark(tier) <= minuteOf[c] /\ minuteOf[c] < end
  BY <1>4
<1>8. \A b \in Time : rows[tier][b] \cap moved = {}
  BY <1>2, <1>6, <1>7 DEF CountInv, HourBelowMark, DayBelowMark, Time
<1>9. doubled' = {}
  BY <1>1, <1>2, <1>8, NoOverlap DEF CountInv
<1>10. Placed' /\ OneRow'
  <2>1. \A c \in moved : c \notin acc' /\ minuteOf[c] \in Time
    BY <1>2, <1>3, <1>4 DEF CountInv, Placed
  <2>2. Placed /\ OneRow /\ acc' \subseteq acc /\ minuteOf' = minuteOf
    BY <1>3 DEF CountInv
  <2>3. Adds(tier, start, moved)
    BY <2>1, <1>5, <1>8, Zenon DEF Adds
  <2> QED BY <2>2, <2>3, <1>2, RowAdded
<1>11. MinutePlaced'
  BY <1>2, <1>3, <1>5 DEF CountInv, MinutePlaced
<1>13. ASSUME NEW t \in {"hour", "day"}, NEW b \in Time, NEW c \in rows'[t][b]
       PROVE  minuteOf'[c] < Mark(t)'
  <2>1. t \in Coarse /\ t \in Tier
    BY DEF Coarse, Tier
  <2>2. CASE t = tier /\ c \in moved
    BY <2>2, <1>3, <1>5a, <1>7
  <2>3. CASE c \in rows[t][b]
    <3>1. minuteOf[c] < Mark(t) /\ minuteOf[c] \in Time
      BY <2>1, <2>3 DEF CountInv, HourBelowMark, DayBelowMark, Placed
    <3> QED BY <2>1, <3>1, <1>3, <1>6 DEF Time
  <2> QED BY <2>1, <2>2, <2>3, <1>5
<1>14. HourBelowMark' /\ DayBelowMark'
  BY <1>13 DEF HourBelowMark, DayBelowMark
<1>15. MonthBelowMark'
  <2> SUFFICES ASSUME NEW b \in Time, NEW c \in rows'["month"][b]
               PROVE  minuteOf'[c] < Mark("day")'
    BY DEF MonthBelowMark
  <2>1. c \in rows["month"][b]
    BY <1>2, <1>5
  <2>2. minuteOf[c] < Mark("day") /\ minuteOf[c] \in Time
    BY <2>1, <1>2 DEF CountInv, MonthBelowMark, Placed
  <2> QED BY <2>2, <1>3, <1>6 DEF Time, Coarse
<1>16. MonthBehind'
  <2> SUFFICES ASSUME NEW d \in Time, d >= Mark("month")', NEW b \in Time,
                      NEW c \in rows'["month"][b], c \in rows'["day"][d]
               PROVE  FALSE
    BY DEF MonthBehind
  <2>1. c \in rows["month"][b] /\ Mark("month")' = Mark("month")
    BY <1>2, <1>5, <1>5a DEF Coarse
  <2>2. c \notin rows["day"][d]
    BY <2>1 DEF CountInv, MonthBehind
  <2>3. tier = "day" /\ c \in moved
    BY <2>2, <1>2, <1>5
  <2>4. minuteOf[c] < Mark("day")
    BY <2>1 DEF CountInv, MonthBelowMark
  <2> QED BY <2>3, <2>4, <1>6, <1>7, <1>2 DEF Time
<1> QED BY <1>9, <1>10, <1>11, <1>14, <1>15, <1>16 DEF CountInv

(* Rolling days up into the month table. *)
LEMMA CountRollMonth ==
    ASSUME TypeOK, CountInv, RollBucket("month")
    PROVE  CountInv'
<1>1. PICK oldest, start, end \in Time :
        /\ oldest < end /\ Mark("month") <= oldest
        /\ rows' = [rows EXCEPT !["month"][start] = @ \cup Moved("month", start, end)]
        /\ watermark' = [watermark EXCEPT !["month"] = end]
        /\ doubled' = doubled \cup (Moved("month", start, end) \cap rows["month"][start])
                        \cup Overlap("month", start, end)
  BY RollBucketFacts DEF Coarse
<1> DEFINE moved == Moved("month", start, end)
<1>2. /\ "month" \in Coarse /\ "day" \in Coarse /\ "hour" \in Coarse
      /\ "minute" \in Tier /\ "hour" \in Tier /\ "day" \in Tier /\ "month" \in Tier
      /\ Source("month") = "day"
  BY DEF Tier, Coarse, Source
<1>3. UNCHANGED <<minuteOf, acc>>
  BY DEF RollBucket
<1>4. \A c \in moved : \E d \in Time : c \in rows["day"][d] /\ d >= Mark("month") /\ d < end
  BY <1>2, MovedFrom
<1>5. /\ \A t \in Tier \ {"month"} : \A b \in Time : rows'[t][b] = rows[t][b]
      /\ \A b \in Time : rows'["month"][b] =
           IF b = start THEN rows["month"][b] \cup moved ELSE rows["month"][b]
  BY <1>1, <1>2 DEF TypeOK
<1>6. /\ Mark("month")' = end /\ Mark("month") \in Time
      /\ Mark("hour")' = Mark("hour") /\ Mark("day")' = Mark("day")
  BY <1>1, <1>2, MarkMoves
<1>7. \A b \in Time : rows["month"][b] \cap moved = {}
  BY <1>4 DEF CountInv, MonthBehind
<1>8. doubled' = {}
  BY <1>1, <1>2, <1>7, NoOverlap DEF CountInv
<1>9. Placed' /\ MinutePlaced' /\ OneRow'
  <2>1. /\ \A c \in moved : c \notin acc' /\ minuteOf[c] \in Time
        /\ \A t \in Tier : \A b \in Time :
             rows'[t][b] = IF t = "month" /\ b = start THEN rows[t][b] \cup moved
                                                       ELSE rows[t][b]
    BY <1>2, <1>3, <1>4, <1>5 DEF CountInv, Placed
  <2>2. MinutePlaced'
    BY <1>2, <1>3, <1>5 DEF CountInv, MinutePlaced
  <2>3. Placed' /\ OneRow'
    <3>1. Placed /\ OneRow /\ acc' \subseteq acc /\ minuteOf' = minuteOf
      BY <1>3 DEF CountInv
    <3>2. Adds("month", start, moved)
      BY <2>1, <1>7, Zenon DEF Adds
    <3> QED BY <3>1, <3>2, <1>2, RowAdded
  <2> QED BY <2>2, <2>3
<1>10. HourBelowMark' /\ DayBelowMark'
  BY <1>2, <1>3, <1>5, <1>6 DEF CountInv, HourBelowMark, DayBelowMark
<1>11. MonthBelowMark'
  <2> SUFFICES ASSUME NEW b \in Time, NEW c \in rows'["month"][b]
               PROVE  minuteOf[c] < Mark("day")
    BY <1>3, <1>6 DEF MonthBelowMark
  <2>1. CASE c \in rows["month"][b]
    BY <2>1 DEF CountInv, MonthBelowMark
  <2>2. CASE c \in moved
    <3>1. PICK d \in Time : c \in rows["day"][d]
      BY <2>2, <1>4
    <3> QED BY <3>1 DEF CountInv, DayBelowMark
  <2> QED BY <2>1, <2>2, <1>5
<1>12. MonthBehind'
  <2> SUFFICES ASSUME NEW d \in Time, d >= end, NEW b \in Time,
                      NEW c \in rows'["month"][b], c \in rows["day"][d]
               PROVE  FALSE
    BY <1>2, <1>5, <1>6 DEF MonthBehind
  <2>1. d >= Mark("month")
    BY <1>1, <1>6 DEF Time
  <2>2. c \in moved
    BY <2>1, <1>5 DEF CountInv, MonthBehind
  <2>3. PICK e \in Time : c \in rows["day"][e] /\ e < end
    BY <2>2, <1>4
  <2> QED BY <2>3, <1>2 DEF CountInv, OneRow, Time
<1> QED BY <1>8, <1>9, <1>10, <1>11, <1>12 DEF CountInv

(* A minute entry is added to the row of its minute. *)
LEMMA CountFlush ==
    ASSUME TypeOK, AccTimed, CountInv, NEW c \in Chunk, FlushEntry(c)
    PROVE  CountInv'
<1> DEFINE m == minuteOf[c]
<1>1. /\ c \in acc /\ m \in Time /\ "minute" \in Tier
      /\ "hour" \in Tier /\ "day" \in Tier /\ "month" \in Tier
  BY DEF FlushEntry, TypeOK, AccTimed, Tier, Coarse
<1>2. /\ UNCHANGED <<minuteOf, watermark, doubled>> /\ acc' = acc \ {c}
      /\ rows' = [rows EXCEPT !["minute"][m] = @ \cup {c}]
  BY DEF FlushEntry
<1>3. \A t \in Tier : \A b \in Time : c \notin rows[t][b]
  BY <1>1 DEF CountInv, Placed
<1>4. \A t \in Tier : \A b \in Time :
        rows'[t][b] = IF t = "minute" /\ b = m THEN rows[t][b] \cup {c} ELSE rows[t][b]
  BY <1>1, <1>2 DEF TypeOK
<1>5. \A t \in Coarse : Mark(t)' = Mark(t)
  BY <1>2 DEF Mark
<1>6. Placed' /\ OneRow'
  <2> HIDE DEF m
  <2>1. \A b \in Time : rows["minute"][b] \cap {c} = {}
    BY <1>1, <1>3
  <2>2. \A k \in {c} : k \notin acc' /\ minuteOf[k] \in Time
    BY <1>1, <1>2 DEF m
  <2>3. Adds("minute", m, {c})
    BY <2>1, <2>2, <1>4, Zenon DEF Adds
  <2>4. Placed /\ OneRow /\ acc' \subseteq acc /\ minuteOf' = minuteOf
    BY <1>2 DEF CountInv
  <2> QED BY <2>3, <2>4, <1>1, RowAdded
<1>7. MinutePlaced'
  BY <1>1, <1>2, <1>4 DEF CountInv, MinutePlaced
<1>8. HourBelowMark' /\ DayBelowMark' /\ MonthBelowMark' /\ MonthBehind'
  BY <1>1, <1>2, <1>4, <1>5
     DEF CountInv, HourBelowMark, DayBelowMark, MonthBelowMark, MonthBehind, Coarse
<1> QED BY <1>2, <1>6, <1>7, <1>8 DEF CountInv

LEMMA CountStep == TypeOK /\ AccTimed /\ CountInv /\ [Next]_vars => CountInv'
<1> SUFFICES ASSUME TypeOK, AccTimed, CountInv, [Next]_vars PROVE CountInv'
  OBVIOUS
<1>1. CASE Tick \/ ChangeZone \/ Crash \/ PickClosed \/ LockForFlush \/ BeginRollup
           \/ RollupFails \/ UNCHANGED vars
  BY <1>1, CountShrinks
     DEF Tick, ChangeZone, Crash, PickClosed, LockForFlush, BeginRollup, RollupFails, vars,
         store, history
<1>2. ASSUME NEW c \in Chunk, Accumulate(c) PROVE CountInv'
  <2>1. /\ UNCHANGED <<rows, watermark, doubled>> /\ acc' = acc \cup {c}
        /\ minuteOf[c] = Unused /\ \A k \in Chunk \ {c} : minuteOf'[k] = minuteOf[k]
    BY <1>2 DEF Accumulate, TypeOK, store, history
  <2>2. \A t \in Tier : \A b \in Time : c \notin rows[t][b] /\ rows[t][b] \subseteq Chunk
    <3>1. minuteOf[c] \notin Time
      BY <2>1, ParameterAssumption DEF Unused, Time
    <3> QED BY <3>1 DEF CountInv, Placed, TypeOK
  <2>3. "minute" \in Tier /\ "hour" \in Tier /\ "day" \in Tier /\ "month" \in Tier
    BY DEF Tier, Coarse
  <2>4. \A t \in Coarse : Mark(t)' = Mark(t)
    BY <2>1 DEF Mark
  <2>5. Placed' /\ MinutePlaced' /\ OneRow'
    BY <2>1, <2>2, <2>3 DEF CountInv, Placed, MinutePlaced, OneRow
  <2>6. HourBelowMark' /\ DayBelowMark' /\ MonthBelowMark' /\ MonthBehind'
    BY <2>1, <2>2, <2>3, <2>4
       DEF CountInv, HourBelowMark, DayBelowMark, MonthBelowMark, MonthBehind, Coarse
  <2> QED BY <2>1, <2>5, <2>6 DEF CountInv
<1>3. ASSUME NEW c \in Chunk, FlushEntry(c) PROVE CountInv'
  BY <1>3, CountFlush
<1>4. ASSUME NEW c \in Chunk, FlushFails(c) PROVE CountInv'
  BY <1>4, CountShrinks DEF FlushFails, store, history
<1>5. ASSUME NEW tier \in Coarse, RollBucket(tier) PROVE CountInv'
  BY <1>5, CountRollHour, CountRollMonth DEF Coarse
<1>6. ASSUME NEW tier \in Coarse, TierDone(tier) PROVE CountInv'
  BY <1>6, CountShrinks DEF TierDone, store, history
<1>7. CASE PruneMinute \/ PruneHour \/ PruneDay
  <2>1. PICK tier \in {"minute", "hour", "day"}, old \in SUBSET Time : Delete(tier, old)
    BY <1>7 DEF PruneMinute, PruneHour, PruneDay, OldMinutes, OldHours, OldDays
  <2>2. \A t \in Tier : \A b \in Time : rows'[t][b] \subseteq rows[t][b]
    BY <2>1, DeleteFacts DEF Tier, Coarse
  <2> QED BY <1>7, <2>2, CountShrinks DEF PruneMinute, PruneHour, PruneDay, history
<1> QED
  BY <1>1, <1>2, <1>3, <1>4, <1>5, <1>6, <1>7 DEF Next, Work, Fault, Drain, RollupStep

LEMMA CountInvSuffices == TypeOK /\ CountInv => CountedOnce
<1> SUFFICES ASSUME TypeOK, CountInv PROVE CountedOnce
  OBVIOUS
<1>1. \A t \in Coarse : Mark(t) \in Nat
  BY ParameterAssumption DEF TypeOK, Mark, Time, NeverRolled
<1>2. ASSUME NEW t \in {"hour", "day"}
      PROVE  Table(t) \cap Tail("minute", Mark(t)) = {}
  BY <1>1 DEF CountInv, HourBelowMark, DayBelowMark, MinutePlaced, Table, Tail, Coarse, Time
<1>3. Table("month") \cap Tail("day", Mark("month")) = {}
  BY DEF CountInv, MonthBehind, Table, Tail
<1>4. Table("month") \cap Tail("minute", Mark("day")) = {}
  BY <1>1 DEF CountInv, MonthBelowMark, MinutePlaced, Table, Tail, Coarse, Time
<1>5. \A tier \in Coarse : Table(tier) \cap Tail(Source(tier), Mark(tier)) = {}
  BY <1>2, <1>3 DEF Coarse, Source
<1> QED BY <1>2, <1>4, <1>5 DEF CountedOnce, CountInv, OneRow

(* No view counts a byte twice, whatever the clock, the zone, errors and   *)
(* crashes do, and however often a pass is cut short and run again.        *)
THEOREM CountedOnceAlways == Spec => []CountedOnce
<1>1. Init => TypeOK /\ AccTimed /\ CountInv
  BY TypeInit, CountInit
<1>2. TypeOK /\ AccTimed /\ CountInv /\ [Next]_vars
        => TypeOK' /\ AccTimed' /\ CountInv'
  BY TypeStep, CountStep
<1>3. TypeOK /\ AccTimed /\ CountInv => CountedOnce
  BY CountInvSuffices
<1> QED BY <1>1, <1>2, <1>3, PTL DEF Spec

-----------------------------------------------------------------------------
(* What a step may never do. *)

(* A watermark moves by RollBucket only, to an end past what is pending.   *)
LEMMA MarksOnlyGrow ==
    ASSUME TypeOK, [Next]_vars, NEW t \in Coarse
    PROVE  /\ watermark[t] <= watermark'[t]
           /\ RollBucket(t) => Mark(t) < watermark'[t]
<1>0. watermark[t] \in Int
  BY ParameterAssumption DEF TypeOK, Time, NeverRolled
<1>1. ASSUME NEW tier \in Coarse, RollBucket(tier)
      PROVE  watermark[t] <= watermark'[t] /\ (tier = t => Mark(t) < watermark'[t])
  <2>1. PICK oldest, end \in Time : /\ Mark(tier) <= oldest /\ oldest < end
                                    /\ watermark' = [watermark EXCEPT ![tier] = end]
    BY <1>1, RollBucketFacts
  <2>2. watermark'[t] = IF t = tier THEN end ELSE watermark[t]
    BY <2>1 DEF TypeOK
  <2>3. Mark(tier) \in Int /\ watermark[tier] \in Int /\ watermark[tier] <= Mark(tier)
    BY ParameterAssumption DEF TypeOK, Mark, Time, NeverRolled
  <2>4. oldest \in Int /\ end \in Int
    BY DEF Time
  <2> QED BY <1>0, <2>1, <2>2, <2>3, <2>4
<1>2. CASE ~\E tier \in Coarse : RollBucket(tier)
  <2>1. watermark' = watermark
    BY <1>2 DEF Next, Work, Fault, Drain, RollupStep, Tick, ChangeZone, Crash, Accumulate,
       PickClosed, LockForFlush, FlushEntry, FlushFails, BeginRollup, TierDone, PruneMinute,
       PruneHour, PruneDay, RollupFails, store, vars
  <2> QED BY <1>0, <1>2, <2>1
<1> QED BY <1>1, <1>2

(* No step takes a watermark back, under any clock, zone change, error or  *)
(* crash: what lies below one stays counted (rollup.rs rollup_next).  Each *)
(* bucket rolled up moves one forward, so a pass rolls up finitely many.   *)
THEOREM WatermarksNeverRetreat == Spec => WatermarksAdvance
<1>1. TypeOK /\ [Next]_vars => [Advances]_vars
  BY MarksOnlyGrow DEF Advances
<1> QED BY <1>1, TypeCorrect, PTL DEF Spec, WatermarksAdvance

(* A failing statement takes its own entry and no other of the batch       *)
(* (collector.rs flush_closed_minutes).                                    *)
LEMMA LossIsOneEntry ==
    ASSUME TypeOK, [Next]_vars, acc \ (acc' \cup recorded') # {}, ~Crash
    PROVE  \E c \in Chunk : FlushFails(c) /\ acc \ (acc' \cup recorded') = {c}
<1>1. CASE \E c \in Chunk : FlushFails(c)
  <2>1. PICK c \in Chunk : FlushFails(c)
    BY <1>1
  <2>2. acc' = acc \ {c}
    BY <2>1 DEF FlushFails
  <2>3. acc \ (acc' \cup recorded') = {c}
    BY <2>2
  <2> QED BY <2>1, <2>3
<1>2. CASE \E c \in Chunk : FlushEntry(c)
  <2>1. PICK c \in Chunk : acc' = acc \ {c} /\ recorded' = recorded \cup {c}
    BY <1>2 DEF FlushEntry
  <2> QED BY <2>1
<1>3. CASE ~(\E c \in Chunk : FlushFails(c)) /\ ~(\E c \in Chunk : FlushEntry(c))
  <2>1. acc \subseteq acc'
    BY <1>3 DEF Next, Work, Fault, Drain, RollupStep, Tick, ChangeZone, Accumulate,
       PickClosed, LockForFlush, BeginRollup, RollBucket, TierDone, PruneMinute, PruneHour,
       PruneDay, RollupFails, vars
  <2> QED BY <2>1
<1> QED BY <1>1, <1>2, <1>3

(* What was polled leaves memory by being recorded, by a crash, or alone   *)
(* with the statement that failed for it.                                  *)
THEOREM FailuresLoseOneEntry == Spec => FailureLosesOneEntry
<1> DEFINE A == LET lost == acc \ (acc' \cup recorded')
                IN  lost # {} => Crash \/ \E c \in Chunk : FlushFails(c) /\ lost = {c}
<1>1. TypeOK /\ [Next]_vars => [A]_vars
  BY LossIsOneEntry
<1>2. TypeOK /\ [Next]_vars =>
        [LET lost == acc \ (acc' \cup recorded')
         IN  lost # {} => Crash \/ \E c \in Chunk : FlushFails(c) /\ lost = {c}]_vars
  BY <1>1
<1> QED BY <1>2, TypeCorrect, PTL DEF Spec, FailureLosesOneEntry

=============================================================================
