SPECIFICATION Spec
CONSTANTS
    producer = producer
    tool = tool
    w1 = w1
    wt = wt
    Creators = {producer, tool}
    Writers = {w1, wt}
    Home <- MCHome
    Readers = {r1}
    CachedReaders = {}
    Keys = {k1}
    Vals = {v1}
    MaxGen = 2
    NoOne = NoOne
    Absent = Absent
    Garbage = Garbage
    Unread = Unread
CHECK_DEADLOCK FALSE
INVARIANTS
    IInv
    LockExclusion
