CONSTANTS
    Chunk = {c1, c2}
    home = home
    east = east
    Zone = {home, east}
    DayStart <- ShortDayStart
    MonthStart <- ShortMonthStart
    HourLen = 2
    Grace = 0
    MinuteRet = 1
    HourRet = 1
    DayRet = 2
    Horizon = 3
    ClockSteps <- AnyClock
    PunctualDrain = FALSE
    Faults = {"error", "crash"}
SPECIFICATION Spec
SYMMETRY ChunkSymmetry
INVARIANTS TypeOK CountedOnce MonthViewExplained
PROPERTIES WatermarksAdvance ViewsOnlyAge
