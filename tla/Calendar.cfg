CONSTANTS
    Hour = 2
    Day = 6
    MonthDays = 3
    Offset <- MCOffset
    Instant <- MCInstant
    Change <- MCChange
SPECIFICATION Spec
INVARIANTS DayBeginsFirst BucketsTile WindowHasItsDates
CHECK_DEADLOCK FALSE
