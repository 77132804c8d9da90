SPECIFICATION Spec
CONSTANTS
    IntMax = 1048575
    TicksPerSecond = 1000
    Rests <- Moments
    Anchors <- KnownDates
    Span = 147000
    Garbled = Garbled
    Amounts <- MCAmounts
INVARIANTS
    CivilAgrees
    LaterIsLater
    TooLargeIsMaximum
    MillisRoundTrip
    NanosTruncate
