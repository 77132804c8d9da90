SPECIFICATION LiveSpec
CONSTANTS
    p = p
    Creators = {p}
    Writers = {w1}
    Home <- MCHome
    Readers = {r1, r2}
    CachedReaders = {r2}
    Keys = {k1}
    Vals = {v1}
    MaxGen = 2
    NoOne = NoOne
    Absent = Absent
    Garbage = Garbage
    Unread = Unread
CHECK_DEADLOCK FALSE
PROPERTIES
    ReadTerminates
    WriteTerminates
