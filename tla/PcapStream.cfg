SPECIFICATION FairSpec
CONSTANTS
    Client = {c1, c2}
    Null = Null
    MaxFrames = 4
    Parts = 3
    BufSize = 2
INVARIANTS
    OnlyPrefixes
PROPERTY FeedSpec
CHECK_DEADLOCK FALSE
