SPECIFICATION FairSpec
CONSTANTS
    u1 = u1
    u2 = u2
    Users <- MCUsers
    NoUser = NoUser
    Recipes = {1, 2}
    Owner <- MCOwner
    Absent = Absent
    Likes = {0, 1}
    MaxChanges = 1
    MaxSubs = 2
    MaxCalls = 2
    MaxDue = 2
INVARIANTS
    SettledLists
    PopularIsSorted
    ListsAgree
PROPERTIES
    ListsCatchUp
    ListsConverge
    PopularAfterReload
