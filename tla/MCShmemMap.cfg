SPECIFICATION Spec
CONSTANTS
    p = p
    Creators = {p}
    Writers = {w1, w2}
    Home <- MCHome
    Readers = {r2}
    CachedReaders = {r2}
    Keys = {k1}
    Vals = {v1, v2}
    MaxGen = 2
    NoOne = NoOne
    Absent = Absent
    Garbage = Garbage
    Unread = Unread
SYMMETRY MCSymmetry
CHECK_DEADLOCK FALSE
INVARIANTS
    TypeOK
    LockExclusion
    SnapshotConsistent
    NoPhantomHolder
    OverlapOnlyInRestartWindow
PROPERTIES
    ImplementsAtomicMap
