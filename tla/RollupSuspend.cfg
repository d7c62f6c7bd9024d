CONSTANTS
    Chunk = {c1, c2}
    home = home
    east = east
    Zone = {home}
    DayStart <- LongDayStart
    MonthStart <- LongMonthStart
    HourLen = 3
    Grace = 1
    MinuteRet = 1
    HourRet = 2
    DayRet = 3
    Horizon = 9
    ClockSteps <- Suspends
    PunctualDrain = TRUE
    Faults = {}
SPECIFICATION Spec
INVARIANTS SuspendIsAGap
