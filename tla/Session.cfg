SPECIFICATION FairSpec
CONSTANTS
    Accounts = {g1}
    Guests = {a1}
    NoUser = NoUser
    MaxRoutes = 6
    Budgets <- MCBudgets
INVARIANTS
    TypeOK
    AccountHasDoc
    SettledProfile
    DeletedPageGoes
PROPERTIES
    BelowLostOnlyInHurry
    ProfileArrives
