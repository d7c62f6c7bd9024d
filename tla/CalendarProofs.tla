--------------------------- MODULE CalendarProofs ---------------------------
(***************************************************************************)
(* Proofs about Calendar for every length of an hour and a day, every      *)
(* change of offset that is Regular, and every instant.                    *)
(***************************************************************************)
EXTENDS Calendar, TLAPS

-----------------------------------------------------------------------------
(* Arithmetic. *)

LEMMA Monotone ==
    ASSUME NEW a \in Int, NEW b \in Int, NEW n \in Nat, a <= b
    PROVE  a * n <= b * n
<1>1. b - a \in Nat
  OBVIOUS
<1>2. (b - a) * n >= 0
  BY <1>1, SMT
<1>3. (b - a) * n = b * n - a * n
  OBVIOUS
<1> QED BY <1>2, <1>3

LEMMA Quotient ==
    ASSUME NEW x \in Int, NEW n \in Nat \ {0}
    PROVE  /\ x \div n \in Int /\ x % n \in 0 .. n - 1
           /\ x = (x \div n) * n + (x % n)
BY SMTT(30)

LEMMA QuotientIs ==
    ASSUME NEW x \in Int, NEW n \in Nat \ {0}, NEW q \in Int
    PROVE  x \div n = q <=> q * n <= x /\ x < (q + 1) * n
<1>1. /\ x \div n \in Int /\ x % n \in 0 .. n - 1
      /\ x = (x \div n) * n + (x % n)
  BY Quotient
<1> DEFINE p == x \div n
<1>2. p \in Int /\ p * n <= x /\ x < (p + 1) * n
  BY <1>1, SMT
<1> HIDE DEF p
<1>3. ASSUME q * n <= x, x < (q + 1) * n PROVE p = q
  <2>1. CASE p < q
    <3>1. (p + 1) * n <= q * n
      BY <2>1, <1>2, Monotone
    <3> QED BY <1>2, <1>3, <3>1
  <2>2. CASE q < p
    <3>1. (q + 1) * n <= p * n
      BY <2>2, <1>2, Monotone
    <3> QED BY <1>2, <1>3, <3>1
  <2> QED BY <1>2, <2>1, <2>2
<1> QED BY <1>2, <1>3 DEF p

LEMMA MultipleLeavesNothing ==
    ASSUME NEW q \in Int, NEW n \in Nat \ {0}
    PROVE  (q * n) % n = 0
<1> DEFINE x == q * n
<1>1. x \in Int /\ x < (q + 1) * n
  OBVIOUS
<1>2. x \div n = q
  BY <1>1, QuotientIs
<1>3. x % n \in 0 .. n - 1 /\ x = q * n + (x % n)
  BY <1>1, <1>2, Quotient
<1> QED BY <1>3

-----------------------------------------------------------------------------
(* One change of offset. *)

ZoneOK ==
    /\ zone.change \in Int /\ zone.before \in Int /\ zone.after \in Int
    /\ Regular(zone)

LEMMA DayFacts == Day \in Nat \ {0} /\ Hour \in Nat \ {0} /\ 2 * Hour < Day
BY CalendarConstants

LEMMA LocalType == \A t \in Int : ZoneOK => LocalTime(t) \in Int
BY DEF ZoneOK, LocalTime

(* The earliest of the instants that show a local time. *)
LEMMA EarliestFacts ==
    ASSUME ZoneOK, NEW local \in Int, Instants(local) # {}
    PROVE  /\ Earliest(Instants(local)) \in Instants(local)
           /\ \A t \in Instants(local) : Earliest(Instants(local)) <= t
<1> DEFINE S == Instants(local)
           a == local - zone.before
           b == local - zone.after
<1>1. S \subseteq {a, b} /\ a \in Int /\ b \in Int
  BY DEF Instants, ZoneOK
<1> HIDE DEF S, a, b
<1>2. \E x \in S : \A y \in S : x <= y
  <2>1. CASE a \in S /\ (b \notin S \/ a <= b)
    BY <1>1, <2>1
  <2>2. CASE ~(a \in S /\ (b \notin S \/ a <= b))
    <3>1. b \in S
      BY <1>1, <2>2 DEF S
    <3> QED BY <1>1, <2>2, <3>1
  <2> QED BY <2>1, <2>2
<1> QED BY <1>2 DEF Earliest, Min, S

(* Where a date begins splits time: everything from there on, and nothing  *)
(* before, shows that date or a later one.                                 *)
LEMMA MidnightSplits ==
    ASSUME ZoneOK, NEW date \in Int
    PROVE  /\ Midnight(date) \in Int
           /\ DateOf(LocalTime(Midnight(date))) = date
           /\ \A t \in Int : Midnight(date) <= t <=> LocalTime(t) >= date * Day
<1> DEFINE m == date * Day
           M == Midnight(date)
<1>1. m \in Int /\ m % Day = 0 /\ (date + 1) * Day = m + Day
  BY DayFacts, MultipleLeavesNothing
<1>2. m \in Skipped(zone) => m + Hour = zone.change + zone.after
  BY <1>1 DEF ZoneOK, Regular
<1>3. m \notin Repeated(zone)
  BY <1>1 DEF ZoneOK, Regular
<1> HIDE DEF m
<1>4. /\ zone.change \in Int /\ zone.before \in Int /\ zone.after \in Int
      /\ \A t \in Int : LocalTime(t) = t + IF t < zone.change THEN zone.before ELSE zone.after
  BY DEF ZoneOK, LocalTime
<1>5. CASE Instants(m) # {}
  <2>1. M \in Instants(m) /\ \A t \in Instants(m) : M <= t
    BY <1>1, <1>5, EarliestFacts DEF Midnight, m
  <2> HIDE DEF M
  <2>2. M \in Int /\ LocalTime(M) = m
    BY <1>1, <1>4, <2>1 DEF Instants
  <2>3. ASSUME NEW t \in Int PROVE M <= t <=> LocalTime(t) >= m
    <3>1. m - zone.before < zone.change => M <= m - zone.before
      BY <1>1, <1>4, <2>1 DEF Instants
    <3>2. m - zone.after >= zone.change => M <= m - zone.after
      BY <1>1, <1>4, <2>1 DEF Instants
    <3>3. m > zone.change + zone.after => m >= zone.change + zone.before
      BY <1>1, <1>3, <1>4 DEF Repeated
    <3>4. LocalTime(t) = t + IF t < zone.change THEN zone.before ELSE zone.after
      BY <1>4
    <3>5. m = M + IF M < zone.change THEN zone.before ELSE zone.after
      BY <1>4, <2>2
    <3> QED BY <1>1, <1>4, <2>2, <3>1, <3>2, <3>3, <3>4, <3>5
  <2>4. DateOf(LocalTime(M)) = date
    BY <1>1, <2>2, DayFacts, QuotientIs DEF DateOf, m
  <2> QED BY <2>2, <2>3, <2>4 DEF M, m
<1>6. CASE Instants(m) = {}
  <2>1. m \in Skipped(zone)
    <3>1. m - zone.before >= zone.change /\ m - zone.after < zone.change
      BY <1>1, <1>4, <1>6 DEF Instants
    <3> QED BY <1>1, <1>4, <3>1 DEF Skipped
  <2>2. m + Hour = zone.change + zone.after /\ zone.change + zone.before <= m
    BY <1>1, <1>2, <1>4, <2>1 DEF Skipped
  <2>3. Instants(m + Hour) = {zone.change}
    BY <1>1, <1>4, <2>2, DayFacts DEF Instants
  <2>4. M = zone.change
    BY <1>1, <1>6, <2>3, DayFacts, EarliestFacts DEF Midnight, m
  <2> HIDE DEF M
  <2>5. LocalTime(M) = m + Hour
    BY <1>1, <1>4, <2>2, <2>4
  <2>6. DateOf(LocalTime(M)) = date
    BY <1>1, <2>5, DayFacts, QuotientIs DEF DateOf, m
  <2>7. \A t \in Int : M <= t <=> LocalTime(t) >= m
    BY <1>1, <1>4, <2>2, <2>4, DayFacts
  <2> QED BY <1>4, <2>4, <2>6, <2>7 DEF M, m
<1> QED BY <1>5, <1>6

(* The instants from where a date begins to where another does are those   *)
(* that show a date between the two.                                       *)
LEMMA BetweenMidnights ==
    ASSUME ZoneOK, NEW first \in Int, NEW last \in Int, NEW t \in Int
    PROVE  /\ DateOf(LocalTime(t)) \in Int
           /\ Midnight(first) <= t /\ t < Midnight(last)
                <=> first <= DateOf(LocalTime(t)) /\ DateOf(LocalTime(t)) < last
<1> DEFINE local == LocalTime(t)
           date == DateOf(local)
<1>1. local \in Int /\ Midnight(first) \in Int /\ Midnight(last) \in Int
  BY LocalType, MidnightSplits
<1>2. date \in Int
  BY <1>1, DayFacts, Quotient DEF DateOf
<1>3. date * Day <= local /\ local < (date + 1) * Day
  BY <1>1, <1>2, DayFacts, QuotientIs DEF DateOf
<1>4. /\ Midnight(first) <= t <=> local >= first * Day
      /\ Midnight(last) <= t <=> local >= last * Day
  BY MidnightSplits
<1> HIDE DEF local, date
<1>5. ASSUME NEW d \in Int PROVE d <= date <=> local >= d * Day
  <2>1. d <= date => d * Day <= date * Day
    BY <1>2, DayFacts, Monotone
  <2>2. ~(d <= date) => (date + 1) * Day <= d * Day
    BY <1>2, DayFacts, Monotone
  <2>3. d * Day \in Int /\ date * Day \in Int /\ (date + 1) * Day \in Int
    BY <1>2, DayFacts
  <2> QED BY <1>1, <1>2, <1>3, <2>1, <2>2, <2>3
<1>6. (first <= date <=> local >= first * Day) /\ (last <= date <=> local >= last * Day)
  BY <1>5
<1>7. Midnight(first) <= t /\ t < Midnight(last) <=> first <= date /\ date < last
  BY <1>1, <1>2, <1>4, <1>6
<1> QED BY <1>2, <1>7 DEF date, local

(* The dates of a month are those that have its first date.                *)
LEMMA MonthOfDate ==
    ASSUME NEW date \in Int
    PROVE  /\ FirstDate("month", date) \in Int
           /\ FirstDate("month", date) <= date
           /\ date < FirstDate("month", date) + MonthDays
           /\ \A d \in Int : FirstDate("month", date) <= d /\ d < FirstDate("month", date) + MonthDays
                  => FirstDate("month", d) = FirstDate("month", date)
<1>0. MonthDays \in Nat \ {0}
  BY CalendarConstants
<1> DEFINE q == date \div MonthDays
<1>1. \A d \in Int : /\ d \div MonthDays \in Int /\ d % MonthDays \in 0 .. MonthDays - 1
                     /\ d = (d \div MonthDays) * MonthDays + (d % MonthDays)
  BY <1>0, Quotient
<1>2. \A d \in Int : FirstDate("month", d) = (d \div MonthDays) * MonthDays
  <2> SUFFICES ASSUME NEW d \in Int PROVE FirstDate("month", d) = (d \div MonthDays) * MonthDays
    OBVIOUS
  <2>1. (d \div MonthDays) * MonthDays \in Int
    BY <1>0, <1>1
  <2> QED BY <1>0, <1>1, <2>1 DEF FirstDate
<1>3. q \in Int /\ q * MonthDays \in Int /\ (q + 1) * MonthDays = q * MonthDays + MonthDays
  BY <1>0, <1>1
<1>4. q * MonthDays <= date /\ date < q * MonthDays + MonthDays
  BY <1>0, <1>1, <1>3
<1>5. ASSUME NEW d \in Int, q * MonthDays <= d, d < q * MonthDays + MonthDays
      PROVE  d \div MonthDays = q
  BY <1>0, <1>3, <1>5, QuotientIs
<1> QED BY <1>2, <1>3, <1>4, <1>5

(* A bucket is the time of its dates.                                      *)
LEMMA BucketSplits ==
    ASSUME ZoneOK, NEW tier \in {"day", "month"}, NEW t \in Int
    PROVE  LET date == DateOf(LocalTime(t))
               first == FirstDate(tier, date)
           IN  /\ date \in Int /\ first \in Int
               /\ first <= date
               /\ BucketStart(tier, t) <= t /\ t < BucketEnd(tier, t)
               /\ \A u \in BucketStart(tier, t) .. BucketEnd(tier, t) - 1 :
                      FirstDate(tier, DateOf(LocalTime(u))) = first
<1> DEFINE date == DateOf(LocalTime(t))
           first == FirstDate(tier, date)
           days == IF tier = "day" THEN 1 ELSE MonthDays
<1>1. date \in Int /\ days \in Nat
  BY BetweenMidnights, CalendarConstants
<1>2. BucketStart(tier, t) = Midnight(first) /\ BucketEnd(tier, t) = Midnight(first + days)
  BY DEF BucketStart, BucketEnd, NextMidnight
<1>3. /\ first \in Int /\ first <= date /\ date < first + days
      /\ \A d \in Int : first <= d /\ d < first + days => FirstDate(tier, d) = first
  <2>1. CASE tier = "day"
    <3>1. \A d \in Int : FirstDate(tier, d) = d
      BY <2>1 DEF FirstDate
    <3>2. days = 1 /\ first = date
      BY <1>1, <2>1, <3>1
    <3> HIDE DEF days, first
    <3> QED BY <1>1, <3>1, <3>2
  <2>2. CASE tier = "month"
    BY <1>1, <2>2, MonthOfDate
  <2> QED BY <2>1, <2>2
<1> HIDE DEF first, days
<1>4. Midnight(first) \in Int /\ Midnight(first + days) \in Int
  BY <1>1, <1>3, MidnightSplits
<1>5. Midnight(first) <= t /\ t < Midnight(first + days)
  BY <1>1, <1>3, BetweenMidnights
<1>6. ASSUME NEW u \in Midnight(first) .. Midnight(first + days) - 1
      PROVE  FirstDate(tier, DateOf(LocalTime(u))) = first
  <2>1. u \in Int /\ Midnight(first) <= u /\ u < Midnight(first + days)
    BY <1>4
  <2>2. /\ DateOf(LocalTime(u)) \in Int
        /\ first <= DateOf(LocalTime(u)) /\ DateOf(LocalTime(u)) < first + days
    BY <1>1, <1>3, <2>1, BetweenMidnights
  <2> QED BY <1>3, <2>2
<1> QED BY <1>1, <1>2, <1>3, <1>5, <1>6 DEF first

-----------------------------------------------------------------------------
(* The theorems. *)

IInv == ZoneOK /\ now \in Int

LEMMA Invariant == Spec => []IInv
<1>1. Init => IInv
  <2> SUFFICES ASSUME Init PROVE IInv
    OBVIOUS
  <2>0. (\A c \in Change : c \in Int) /\ (\A o \in Offset : o \in Int)
    BY CalendarConstants
  <2>1. PICK z \in [change : Change, before : Offset, after : Offset] : zone = z /\ Regular(z)
    BY DEF Init
  <2>2. zone.change \in Int /\ zone.before \in Int /\ zone.after \in Int
    <3>1. z.change \in Change /\ z.before \in Offset /\ z.after \in Offset
      OBVIOUS
    <3>2. zone.change \in Change /\ zone.before \in Offset /\ zone.after \in Offset
      BY <2>1, <3>1, Zenon
    <3> QED BY <2>0, <3>2, Zenon
  <2>3. now \in Int
    BY CalendarConstants DEF Init
  <2>4. Regular(zone)
    BY <2>1
  <2> QED BY <2>2, <2>3, <2>4 DEF IInv, ZoneOK
<1>2. IInv /\ [Next]_vars => IInv'
  BY CalendarConstants DEF IInv, ZoneOK, Regular, Skipped, Repeated, Next, Tick, vars
<1> QED BY <1>1, <1>2, PTL DEF Spec

(* Through every change of offset that is Regular, the midnight that       *)
(* local_midnight computes is the first instant of its date                *)
(* (rollup.rs:49).                                                         *)
THEOREM DaysBeginFirst == Spec => []DayBeginsFirst
<1>1. IInv => DayBeginsFirst
  <2> SUFFICES ASSUME IInv PROVE DayBeginsFirst
    OBVIOUS
  <2> DEFINE date == DateOf(LocalTime(now))
             M == Midnight(date)
  <2>1. ZoneOK /\ now \in Int
    BY DEF IInv
  <2>2. date \in Int
    BY <2>1, BetweenMidnights
  <2>3. M \in Int /\ M - 1 \in Int /\ DateOf(LocalTime(M)) = date
    BY <2>1, <2>2, MidnightSplits
  <2>4. M <= now
    <3>1. date + 1 \in Int
      BY <2>2
    <3>2. Midnight(date) <= now /\ now < Midnight(date + 1) <=> date <= date /\ date < date + 1
      BY <2>1, <2>2, <3>1, BetweenMidnights
    <3> QED BY <2>2, <3>2
  <2>5. ~(date <= DateOf(LocalTime(M - 1)))
    <3>1. ~(M <= M - 1)
      BY <2>3
    <3>2. LocalTime(M - 1) \in Int /\ ~(LocalTime(M - 1) >= date * Day)
      BY <2>1, <2>2, <2>3, <3>1, LocalType, MidnightSplits
    <3>3. DateOf(LocalTime(M - 1)) \in Int
      BY <2>1, <2>3, BetweenMidnights
    <3>4. DateOf(LocalTime(M - 1)) * Day <= LocalTime(M - 1)
      BY <3>2, <3>3, DayFacts, QuotientIs DEF DateOf
    <3>5. date <= DateOf(LocalTime(M - 1)) => date * Day <= DateOf(LocalTime(M - 1)) * Day
      BY <2>2, <3>3, DayFacts, Monotone
    <3>6. date * Day \in Int /\ DateOf(LocalTime(M - 1)) * Day \in Int
      BY <2>2, <3>3, DayFacts
    <3> QED BY <3>2, <3>4, <3>5, <3>6
  <2>6. DateOf(LocalTime(M - 1)) < date
    <3>1. DateOf(LocalTime(M - 1)) \in Int
      BY <2>1, <2>3, BetweenMidnights
    <3> QED BY <2>2, <2>5, <3>1
  <2> QED BY <2>3, <2>4, <2>6 DEF DayBeginsFirst
<1> QED BY <1>1, Invariant, PTL

(* Days and months, as Zone::bounds computes them, cover time without gap  *)
(* or overlap, and months begin where days do: what Rollup takes as given  *)
(* of its midnights.                                                       *)
THEOREM BucketsCoverTime == Spec => []BucketsTile
<1>1. IInv => BucketsTile
  <2> SUFFICES ASSUME IInv, NEW tier \in {"day", "month"}
               PROVE  LET start == BucketStart(tier, now)
                          end == BucketEnd(tier, now)
                      IN  /\ start <= now /\ now < end
                          /\ \A t \in start .. end - 1 : BucketStart(tier, t) = start
                                                        /\ BucketEnd(tier, t) = end
                          /\ BucketStart("day", BucketStart(tier, now)) = BucketStart(tier, now)
    BY DEF BucketsTile
  <2> DEFINE first == FirstDate(tier, DateOf(LocalTime(now)))
             days == IF tier = "day" THEN 1 ELSE MonthDays
  <2>1. ZoneOK /\ now \in Int
    BY DEF IInv
  <2>2. \A t : /\ BucketStart(tier, t) = Midnight(FirstDate(tier, DateOf(LocalTime(t))))
               /\ BucketEnd(tier, t) = Midnight(FirstDate(tier, DateOf(LocalTime(t))) + days)
    BY DEF BucketStart, BucketEnd, NextMidnight
  <2>3. /\ first \in Int
        /\ BucketStart(tier, now) <= now /\ now < BucketEnd(tier, now)
        /\ \A t \in BucketStart(tier, now) .. BucketEnd(tier, now) - 1 :
               FirstDate(tier, DateOf(LocalTime(t))) = first
    BY <2>1, BucketSplits
  <2>4. \A t \in BucketStart(tier, now) .. BucketEnd(tier, now) - 1 :
             BucketStart(tier, t) = BucketStart(tier, now) /\ BucketEnd(tier, t) = BucketEnd(tier, now)
    BY <2>2, <2>3
  <2>5. BucketStart("day", BucketStart(tier, now)) = BucketStart(tier, now)
    <3>1. BucketStart(tier, now) = Midnight(first) /\ DateOf(LocalTime(Midnight(first))) = first
      BY <2>1, <2>2, <2>3, MidnightSplits
    <3> QED BY <3>1 DEF BucketStart, FirstDate
  <2> QED BY <2>3, <2>4, <2>5
<1> QED BY <1>1, Invariant, PTL

(* The window a client asks for as today or this month is made of the      *)
(* instants and of the daemon's days that its dates mean (main.rs:156),    *)
(* through every change of offset that is Regular.                         *)
THEOREM WindowsHaveTheirDates == Spec => []WindowHasItsDates
<1> DEFINE First(tier, t) == FirstDate(tier, DateOf(LocalTime(t)))
<1>1. ASSUME ZoneOK, now \in Int, NEW tier \in {"day", "month"}, NEW t \in Int, t <= now
      PROVE  WindowStart(tier, now) <= t <=> First(tier, t) = First(tier, now)
  <2> DEFINE first == First(tier, now)
             start == BucketStart(tier, now)
  <2>1. WindowStart(tier, now) = start
    BY DEF WindowStart, LocalMs, BucketStart, Midnight
  <2>2. /\ first \in Int /\ start <= now /\ now < BucketEnd(tier, now)
        /\ \A u \in start .. BucketEnd(tier, now) - 1 : First(tier, u) = first
    BY <1>1, BucketSplits
  <2>3. start = Midnight(first) /\ start \in Int
    BY <1>1, <2>2, MidnightSplits DEF BucketStart
  <2>4. BucketEnd(tier, now) \in Int
    <3> DEFINE days == IF tier = "day" THEN 1 ELSE MonthDays
    <3>1. first + days \in Int /\ BucketEnd(tier, now) = Midnight(first + days)
      BY <2>2, CalendarConstants DEF BucketEnd, NextMidnight
    <3> QED BY <1>1, <3>1, MidnightSplits
  <2>5. start <= t => First(tier, t) = first
    BY <1>1, <2>2, <2>3, <2>4
  <2>6. First(tier, t) = first => start <= t
    <3>1. /\ DateOf(LocalTime(t)) \in Int /\ First(tier, t) \in Int
          /\ BucketStart(tier, t) <= t
      BY <1>1, BucketSplits
    <3> QED BY <2>3, <3>1 DEF BucketStart
  <2> QED BY <2>1, <2>5, <2>6
<1>2. IInv => WindowHasItsDates
  <2> SUFFICES ASSUME IInv, NEW tier \in {"day", "month"}, NEW t \in Instant, t <= now
               PROVE  /\ WindowStart(tier, now) <= t <=> First(tier, t) = First(tier, now)
                      /\ WindowStart(tier, now) <= BucketStart("day", t)
                            <=> First(tier, t) = First(tier, now)
    BY DEF WindowHasItsDates
  <2> DEFINE date == DateOf(LocalTime(t))
  <2>1. ZoneOK /\ now \in Int /\ t \in Int
    BY CalendarConstants DEF IInv
  <2>2. date \in Int
    BY <2>1, BetweenMidnights
  <2>3. BucketStart("day", t) = Midnight(date)
    BY DEF BucketStart, FirstDate
  <2>4. /\ Midnight(date) \in Int /\ Midnight(date) <= t
        /\ DateOf(LocalTime(Midnight(date))) = date
    BY <2>1, <2>2, <2>3, BucketSplits, MidnightSplits
  <2>5. First(tier, Midnight(date)) = First(tier, t)
    BY <2>4
  <2>6. Midnight(date) <= now
    BY <2>1, <2>4
  <2> HIDE DEF date, First
  <2>7. /\ WindowStart(tier, now) <= t <=> First(tier, t) = First(tier, now)
        /\ WindowStart(tier, now) <= Midnight(date)
              <=> First(tier, Midnight(date)) = First(tier, now)
    BY <1>1, <2>1, <2>4, <2>6
  <2> QED BY <2>3, <2>5, <2>7
<1> QED BY <1>2, Invariant, PTL

-----------------------------------------------------------------------------
(* What Rollup assumes. *)

(* The first dates of days and of months: between a first date and the     *)
(* next one, days later, there is none.                                    *)
Length(tier) == IF tier = "day" THEN 1 ELSE MonthDays

LEMMA FirstDates ==
    ASSUME NEW tier \in {"day", "month"}, NEW date \in Int
    PROVE  LET first == FirstDate(tier, date)
               next == first + Length(tier)
           IN  /\ first \in Int /\ next \in Int /\ first <= date /\ date < next
               /\ FirstDate(tier, first) = first /\ FirstDate(tier, next) = next
               /\ \A d \in Int : first < d /\ d < next => FirstDate(tier, d) # d
<1> DEFINE F(d) == FirstDate(tier, d)
           first == F(date)
           next == first + Length(tier)
<1>0. Length(tier) \in Nat \ {0}
  BY CalendarConstants DEF Length
<1>1. CASE tier = "day"
  <2>1. \A d : F(d) = d
    BY <1>1 DEF FirstDate
  <2>2. first = date /\ next = date + 1
    BY <1>1, <2>1 DEF Length
  <2> HIDE DEF F, first, next
  <2>3. \A d \in Int : ~(first < d /\ d < next)
    BY <2>2
  <2> QED BY <2>1, <2>2, <2>3 DEF F, first, next
<1>2. CASE tier = "month"
  <2>1. ASSUME NEW d \in Int
        PROVE  /\ F(d) \in Int /\ F(d) <= d /\ d < F(d) + Length(tier)
               /\ \A e \in Int : F(d) <= e /\ e < F(d) + Length(tier) => F(e) = F(d)
    BY <1>2, MonthOfDate DEF Length
  <2> HIDE DEF F
  <2>2. /\ first \in Int /\ next \in Int /\ first <= date /\ date < next
        /\ \A e \in Int : first <= e /\ e < next => F(e) = first
    BY <1>0, <2>1
  <2> HIDE DEF first
  <2>3. F(first) = first
    BY <1>0, <2>2
  <2>4. F(next) = next
    <3> DEFINE f == F(next)
    <3>1. /\ f \in Int /\ f <= next /\ next < f + Length(tier) /\ F(f) = f
      BY <1>0, <2>1, <2>2
    <3> HIDE DEF f
    <3>2. first < f /\ f < next => FALSE
      BY <2>2, <3>1
    <3>3. f = next
      BY <1>0, <2>2, <3>1, <3>2
    <3> QED BY <3>3 DEF f
  <2>5. \A d \in Int : first < d /\ d < next => F(d) # d
    BY <2>2
  <2> QED BY <2>2, <2>3, <2>4, <2>5 DEF first, F
<1> QED BY <1>1, <1>2

(* Where days and months begin.                                            *)
Midnights(tier) == {Midnight(FirstDate(tier, date)) : date \in Int}

(* What CalendarAssumption and MonthsStartOnDays of Rollup say of DayStart *)
(* and MonthStart, and that Start and End of Rollup, the latest midnight   *)
(* at an instant and the first one after it, are what Zone::bounds         *)
(* computes.                                                               *)
BoundsAreNearest ==
    /\ Midnights("month") \subseteq Midnights("day")
    /\ \A tier \in {"day", "month"} :
         LET start == BucketStart(tier, now)
             end == BucketEnd(tier, now)
         IN  /\ start \in Midnights(tier) /\ start <= now
             /\ \A m \in Midnights(tier) : m <= now => m <= start
             /\ end \in Midnights(tier) /\ end > now
             /\ \A m \in Midnights(tier) : m > now => end <= m

(* The midnights that local_midnight computes around any instant, through  *)
(* every change of offset that is Regular, are as Rollup assumes, so what  *)
(* is proved of Rollup for any calendar holds in these zones.              *)
THEOREM BoundsAreThoseOfRollup == Spec => []BoundsAreNearest
<1>1. ASSUME IInv, NEW tier \in {"day", "month"}
      PROVE  LET start == BucketStart(tier, now)
                 end == BucketEnd(tier, now)
             IN  /\ start \in Midnights(tier) /\ start <= now
                 /\ \A m \in Midnights(tier) : m <= now => m <= start
                 /\ end \in Midnights(tier) /\ end > now
                 /\ \A m \in Midnights(tier) : m > now => end <= m
  <2> DEFINE date == DateOf(LocalTime(now))
             first == FirstDate(tier, date)
             next == first + Length(tier)
             start == BucketStart(tier, now)
             end == BucketEnd(tier, now)
  <2>1. ZoneOK /\ now \in Int /\ date \in Int
    BY <1>1, BetweenMidnights DEF IInv
  <2>2. start = Midnight(first) /\ end = Midnight(next)
    BY DEF BucketStart, BucketEnd, NextMidnight, Length
  <2> HIDE DEF date, start, end
  <2>3. /\ first \in Int /\ next \in Int /\ first <= date /\ date < next
        /\ FirstDate(tier, first) = first /\ FirstDate(tier, next) = next
        /\ \A d \in Int : first < d /\ d < next => FirstDate(tier, d) # d
    BY <2>1, FirstDates
  <2> HIDE DEF first, next
  <2>4. ASSUME NEW d \in Int, NEW e \in Int
        PROVE  /\ Midnight(d) \in Int
               /\ Midnight(d) <= now <=> d <= date
               /\ d <= e => Midnight(d) <= Midnight(e)
    <3>1. Midnight(d) \in Int /\ Midnight(e) \in Int /\ DateOf(LocalTime(Midnight(e))) = e
      BY <2>1, MidnightSplits
    <3>2. /\ Midnight(d) <= now /\ now < Midnight(date + 1) <=> d <= date /\ date < date + 1
          /\ Midnight(date) <= now /\ now < Midnight(date + 1)
               <=> date <= date /\ date < date + 1
      <4>1. \A f, l \in Int : Midnight(f) <= now /\ now < Midnight(l) <=> f <= date /\ date < l
        BY <2>1, BetweenMidnights DEF date
      <4>2. date + 1 \in Int
        BY <2>1
      <4> QED BY <2>1, <4>1, <4>2
    <3>3. Midnight(d) <= Midnight(e) /\ Midnight(e) < Midnight(e + 1) <=> d <= e /\ e < e + 1
      BY <2>1, <3>1, BetweenMidnights
    <3> QED BY <2>1, <3>1, <3>2, <3>3
  <2>5. start \in Midnights(tier) /\ end \in Midnights(tier)
    BY <2>2, <2>3 DEF Midnights
  <2>6. start \in Int /\ end \in Int /\ start <= now /\ end > now
    BY <2>1, <2>2, <2>3, <2>4
  <2>7. ASSUME NEW m \in Midnights(tier)
        PROVE  (m <= now => m <= start) /\ (m > now => end <= m)
    <3>1. PICK d \in Int : m = Midnight(d) /\ FirstDate(tier, d) = d
      <4>1. PICK c \in Int : m = Midnight(FirstDate(tier, c))
        BY <2>7 DEF Midnights
      <4>2. FirstDate(tier, c) \in Int /\ FirstDate(tier, FirstDate(tier, c)) = FirstDate(tier, c)
        BY <4>1, FirstDates
      <4> QED BY <4>1, <4>2
    <3>2. ~(first < d /\ d < next)
      BY <2>3, <3>1
    <3>3. m \in Int /\ (m <= now <=> d <= date)
      BY <2>4, <3>1
    <3>4. d <= first => m <= start
      BY <2>2, <2>3, <2>4, <3>1
    <3>5. next <= d => end <= m
      BY <2>2, <2>3, <2>4, <3>1
    <3> QED BY <2>1, <2>3, <3>1, <3>2, <3>3, <3>4, <3>5
  <2> QED BY <2>5, <2>6, <2>7 DEF start, end
<1>2. Midnights("month") \subseteq Midnights("day")
  <2>1. \A d : FirstDate("day", d) = d
    BY DEF FirstDate
  <2>2. \A d \in Int : FirstDate("month", d) \in Int
    BY MonthOfDate
  <2> QED BY <2>1, <2>2 DEF Midnights
<1>3. IInv => BoundsAreNearest
  BY <1>1, <1>2, Zenon DEF BoundsAreNearest
<1> QED BY <1>3, Invariant, PTL


=============================================================================
