SPECIFICATION Spec
CONSTANTS
    scalar = scalar
    list = list
    odd = odd
    lost = lost
    mute = mute
    shared = shared
    foreign = foreign
    t1 = t1
    t2 = t2
    Threads = {t1, t2}
    Keys = {scalar, list, odd, lost, mute, shared, foreign}
    Reporters <- Owners
    Shapes <- MCShapes
    Parents <- MCParents
    Matches <- MCMatches
    NoURI = {mute}
    Scalar = Scalar
    Blank = Blank
    Nan = Nan
    Capacity = 2
    MaxLen = 2
    MaxCalls = 4
CHECK_DEADLOCK FALSE
INVARIANTS
    TypeOK
    VisibleIsReachable
    AckedIsVisible
    VisibleWithinSize
    NanHidesValues
