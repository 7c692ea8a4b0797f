SPECIFICATION Spec
CONSTANTS
    Users = {u1, u2}
    NoUser = NoUser
    FoodCodes = {c1}
    None = None
    MaxRegs = 1
    MaxSubs = 2
    MaxCalls = 2
    MaxGets = 1
INVARIANT ListIsOwnFoods
