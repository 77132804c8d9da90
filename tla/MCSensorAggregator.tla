------------------------- MODULE MCSensorAggregator -------------------------
(* One producer's keys and threads, for TLC.                               *)
EXTENDS SensorAggregator, TLC

CONSTANTS
    scalar,     \* a property with a plain value, listed by its second candidate
    list,       \* a property with a list value, which needs the parent path
    odd,        \* a property whose readings are now a list and now a value
    lost,       \* a property of a path that no keyword matches
    mute,       \* a property that has no metric property
    shared,     \* a property that two threads report
    foreign,    \* a property in the namespace of another producer
    t1, t2

Listed   == [listed |-> TRUE, needsParent |-> FALSE, mapped |-> TRUE]
Sensor   == [listed |-> TRUE, needsParent |-> TRUE, mapped |-> TRUE]
Foreign  == [listed |-> TRUE, needsParent |-> FALSE, mapped |-> FALSE]
Unlisted == [listed |-> FALSE, needsParent |-> FALSE, mapped |-> TRUE]

OneThread == [k \in Keys |-> {t1}]
Owners    == [k \in Keys |-> CASE k = shared -> {t1, t2} [] k = list -> {t1} [] OTHER -> {t2}]

MCShapes ==
    [k \in Keys |-> CASE k = list -> 0 .. MaxLen
                      [] k = odd  -> {1, Scalar}
                      [] OTHER    -> {Scalar}]

\* The path of the parent is looked at for the list only.
MCParents == [k \in Keys |-> IF k = list THEN BOOLEAN ELSE {FALSE}]

MCMatches ==
    [k \in Keys |-> CASE k = scalar -> <<Unlisted, Listed>>
                      [] k = list   -> <<Sensor>>
                      [] k = lost   -> <<>>
                      [] k = foreign -> <<Foreign>>
                      [] OTHER      -> <<Listed>>]

=============================================================================
