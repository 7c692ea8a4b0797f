SPECIFICATION FairSpec
CONSTANTS
    Users = {u1, u2}
    NoUser = NoUser
    FoodCodes = {c1}
    None = None
    MaxRegs = 2
    MaxSubs = 2
    MaxCalls = 2
    MaxGets = 1
INVARIANTS
    TypeOK
    SettledListIsAFridge
    NoAlarmForDeletedFood
    FoodKeepsItsAlarm
PROPERTIES
    ListCatchesUp
    NoLostFood
    ListConverges
