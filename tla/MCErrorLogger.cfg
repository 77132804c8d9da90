SPECIFICATION Spec
CONSTANTS
    Threads = {t1, t2, t3}
    Messages = {m1, m2, m3, m4}
    MaxEntries = 1
    Interval = 2
    MaxTime = 3
    Never = Never
SYMMETRY MCSymmetry
INVARIANTS
    IInv
    TableBounded
