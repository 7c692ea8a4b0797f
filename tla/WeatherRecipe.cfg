SPECIFICATION FairSpec
CONSTANTS
    Recipes = {r1}
    Labels <- MCLabels
    NoWeather = NoWeather
    Weathers = {"rain", "mild"}
    StartHours = {6, 11, 15, 20}
    MaxTaps = 2
    MaxChanges = 1
    MaxUsers = 1
    MaxTicks = 1
INVARIANTS
    TypeOK
    ErrorOnlyWithoutWeather
    TextFitsList
PROPERTIES
    ListCatchesUp
    ListArrives
CHECK_DEADLOCK FALSE
