SPECIFICATION FairSpec
CONSTANTS
    Day = 3
    Lag = 1
    FirstDate <- MCFirstDate
    LastDate <- MCLastDate
    Late = 4
    MaxNow = 9
    None = None
INVARIANTS
    TypeOK
    EveryFoodHasAlarm
    AlarmAtMostADayEarly
    AWeekOfNotice
PROPERTY
    DetailAgreesWithAlarm
    AlarmArrives
