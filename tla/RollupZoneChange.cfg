CONSTANTS
    Chunk = {c1, c2}
    home = home
    east = east
    Zone = {home, east}
    DayStart <- LongDayStart
    MonthStart <- LongMonthStart
    HourLen = 3
    Grace = 1
    MinuteRet = 1
    HourRet = 2
    DayRet = 3
    Horizon = 9
    ClockSteps <- Forward
    PunctualDrain = TRUE
    Faults = {}
SPECIFICATION Spec
INVARIANTS MonthViewComplete
