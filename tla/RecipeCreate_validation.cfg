SPECIFICATION Spec
CONSTANTS
    Users = {u1, u2}
    NoUser = NoUser
    Texts = {text, empty, long}
    Empty = empty
    Default = default
    TooLong = long
    Images = {f1, f2}
    NoImage = NoImage
    Blank = blank
    Logo = logo
    Ingredients = {other}
    Kategorie = {meal}
    Other = other
    Meal = meal
    LastStep = 1
    MaxEdits = 4
    MaxSaves = 2
    NoRecipe = NoRecipe
INVARIANT PublishedIsValid
