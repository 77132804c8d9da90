SPECIFICATION Spec
CONSTANTS
    a = a
    b = b
    common = common
    own = own
    vague = vague
    unknown = unknown
    Procs = {a, b}
    Clients = {c1}
    MRDs = {common, own, vague, unknown}
    Mapping <- MCMapping
    Unsized = {vague}
    Objects = {o1}
    Absent = Absent
    Shell = Shell
    MaxStarts = 3
    MaxFailures = 1
CHECK_DEADLOCK FALSE
INVARIANTS
    TypeOK
    IInv
    UpHasAll
    RetrySucceeds
    NothingLost
PROPERTIES
    ImplementsDirectory
