SPECIFICATION Spec
CONSTANTS
    Threads = {t1, t2}
    Messages = {m1, m2, m3}
    MaxEntries = 2
    Interval = 2
    MaxTime = 3
    Never = Never
SYMMETRY MCSymmetry
PROPERTIES
    Spacing
