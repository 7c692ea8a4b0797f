SPECIFICATION Spec
CONSTANTS
    Users = {u1}
    MaxTaps = 2
    MaxQueue = 1
PROPERTY OneTapOneLike
