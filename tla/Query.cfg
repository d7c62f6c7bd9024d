CONSTANTS
    Chunk = {c1, c2}
    home = home
    Zone = {home}
    DayStart <- MCDayStart
    MonthStart <- MCMonthStart
    HourLen = 3
    Grace = 1
    MinuteRet = 1
    HourRet = 3
    DayRet = 4
    Horizon = 5
    ClockSteps <- ForwardAndJump
    PunctualDrain = TRUE
    Faults = {"error"}
SPECIFICATION QuerySpec
SYMMETRY ChunkSymmetry
INVARIANTS MonthViewComplete OnlyOvertakenIsMissed WindowIsRead SeriesIsFiled FinestIsComplete
PROPERTIES FailureLosesOneEntry
