SPECIFICATION Spec
CONSTANTS
    p = p
    Creators = {p}
    Writers = {w1}
    Home <- MCHome
    Readers = {r1}
    CachedReaders = {}
    Keys = {k1}
    Vals = {v1}
    MaxGen = 2
    NoOne = NoOne
    Absent = Absent
    Garbage = Garbage
    Unread = Unread
SYMMETRY MCSymmetry
CHECK_DEADLOCK FALSE
INVARIANTS
    NoOverlap
