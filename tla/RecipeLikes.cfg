SPECIFICATION FairSpec
CONSTANTS
    Users = {u1, u2}
    MaxTaps = 3
    MaxQueue = 2
INVARIANTS
    LikersFollowLastTap
    LikeCountsLikers
PROPERTY
    LikesArrive
