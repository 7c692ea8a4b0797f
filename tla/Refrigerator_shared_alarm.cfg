SPECIFICATION Spec
CONSTANTS
    Users = {u1}
    NoUser = NoUser
    FoodCodes = {c1}
    None = None
    MaxRegs = 2
    MaxSubs = 3
    MaxCalls = 3
    MaxGets = 1
PROPERTY PendingAlarmSurvives
