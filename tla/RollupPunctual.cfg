CONSTANTS
    Chunk = {c1, c2}
    home = home
    east = east
    Zone = {home}
    DayStart <- LongDayStart
    MonthStart <- LongMonthStart
    HourLen = 3
    Grace = 1
    MinuteRet = 1
    HourRet = 2
    DayRet = 3
    Horizon = 6
    ClockSteps <- Forward
    PunctualDrain = TRUE
    Faults = {"error", "crash"}
SPECIFICATION FairSpec
INVARIANTS PassCatchesUp
PROPERTIES ImplementsLedger EveryPassEnds DueIsRolledUp ClosedIsFlushed
