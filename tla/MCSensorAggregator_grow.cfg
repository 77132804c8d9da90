SPECIFICATION Spec
CONSTANTS
    scalar = scalar
    list = list
    odd = odd
    lost = lost
    mute = mute
    shared = shared
    foreign = foreign
    t1 = t1
    t2 = t2
    Threads = {t1}
    Keys = {list}
    Reporters <- OneThread
    Shapes <- MCShapes
    Parents <- MCParents
    Matches <- MCMatches
    NoURI = {}
    Scalar = Scalar
    Blank = Blank
    Nan = Nan
    Capacity = 9
    MaxLen = 3
    MaxCalls = 3
CHECK_DEADLOCK FALSE
INVARIANTS
    ListPublished
