-------------------------- MODULE SensorAggregator --------------------------
(***************************************************************************)
(* SHMSensorAggregator: what a producer's threads do with the readings     *)
(* they report through AggregationService::updateTelemetry.  The first     *)
(* reading of a property registers it in nameSpaceMap, or marks it in      *)
(* notApplicableKeys, and inserts it in the shared memory map; later ones  *)
(* update it there, a failed one (rc) writes "nan".  A list is published   *)
(* as one element per index.                                               *)
(*                                                                         *)
(* src/lib/shm_sensor_aggregator.cpp, src/lib/telemetry_mrd_producer.cpp,  *)
(* src/lib/impl/shm_sensormap_intf.hpp.                                    *)
(*                                                                         *)
(* A step is one critical section: of nameSpaceMapLock, of                 *)
(* notApplicableKeysLock, or of the mutex of the shared memory map (its    *)
(* own protocol is ShmemMap).  The number of a call stands for the value   *)
(* and the timestamp that it carries.                                      *)
(***************************************************************************)
EXTENDS Integers, Sequences, FiniteSets

CONSTANTS
    Threads,        \* threads of the producer
    Keys,           \* sensor keys: device path, interface and property
    Reporters,      \* the threads that report each key
    Shapes,         \* the shapes its readings have: Scalar, or a list length
    Parents,        \* whether its readings come with the path of the parent
    Matches,        \* what parseDevicePath finds for its path, in order
    NoURI,          \* keys for which generateURI has no metric property
    Scalar,         \* a reading that is no list, and its only element
    Blank,          \* the value "" getMetricValue makes of a list
    Nan,            \* the value "nan"
    Capacity,       \* elements that fit in the segment
    MaxLen,         \* bound: the longest list
    MaxCalls        \* bound: calls in a behaviour

\* One candidate of parseDevicePath: the configuration lists the property,
\* the device name must come from the caller, the namespace is one of ours.
Match == [listed : BOOLEAN, needsParent : BOOLEAN, mapped : BOOLEAN]

ASSUME SensorAggregatorAssumption ==
    /\ Reporters \in [Keys -> SUBSET Threads]
    /\ MaxLen \in Nat /\ MaxCalls \in Nat /\ Capacity \in Nat
    /\ {Scalar, Blank, Nan} \cap (0 .. MaxLen) = {}
    /\ Scalar # Blank /\ Scalar # Nan /\ Blank # Nan
    /\ Shapes \in [Keys -> SUBSET ((0 .. MaxLen) \cup {Scalar})]
    /\ Parents \in [Keys -> SUBSET BOOLEAN]
    /\ Matches \in [Keys -> Seq(Match)]
    /\ NoURI \subseteq Keys

VARIABLES
    nameSpaceMap,       \* NameSpaceFields of the registered keys
    notApplicableKeys,  \* keys that are not to be published
    shm,                \* the elements in shared memory, by key and index
    pc,                 \* per thread: where it is in updateTelemetry
    call,               \* per thread: the arguments of its call
    fields,             \* per thread: its copy of the key's NameSpaceFields
    todo,               \* per thread: the map operations still to do
    newSize,            \* per thread: arraySize to write back, or -1
    status,             \* per thread: the value the call returns
    ncalls,             \* calls begun so far
    acked               \* auxiliary: per key, the last call that did its
                        \* operations on the map and was answered true

maps   == <<nameSpaceMap, notApplicableKeys>>
locals == <<fields, todo, newSize>>
vars   == <<maps, shm, pc, call, locals, status, ncalls, acked>>

Items    == (0 .. MaxLen - 1) \cup {Scalar}
Elements == Keys \X Items
Reading  == [call : 1 .. MaxCalls, item : Items \cup {Blank, Nan}]
Fields   == [mapped : BOOLEAN, arraySize : 0 .. MaxLen]
Calls    == [key : Keys, shape : (0 .. MaxLen) \cup {Scalar}, rc : BOOLEAN,
             parent : BOOLEAN, no : 0 .. MaxCalls]
MapOps   == [kind : {"insert", "update", "erase"}, elem : Elements,
             item : Items \cup {Blank, Nan}, checked : BOOLEAN]

TypeOK ==
    /\ DOMAIN nameSpaceMap \subseteq Keys
    /\ nameSpaceMap \in [DOMAIN nameSpaceMap -> Fields]
    /\ notApplicableKeys \subseteq Keys
    /\ DOMAIN shm \subseteq Elements
    /\ shm \in [DOMAIN shm -> Reading]
    /\ pc \in [Threads -> {"idle", "lookup", "applicable", "match", "emplace",
                           "resize", "mapOps", "nan", "nanLookup", "nanKnown"}]
    /\ call \in [Threads -> Calls]
    /\ fields \in [Threads -> Fields]
    /\ todo \in [Threads -> Seq(MapOps)]
    /\ newSize \in [Threads -> -1 .. MaxLen]
    /\ status \in [Threads -> BOOLEAN]
    /\ ncalls \in 0 .. MaxCalls
    /\ acked \in [Keys -> Calls]

NoFields  == [mapped |-> FALSE, arraySize |-> 0]
NoCall(k) == [key |-> k, shape |-> Scalar, rc |-> FALSE, parent |-> FALSE, no |-> 0]

Init ==
    /\ nameSpaceMap = [k \in {} |-> NoFields]
    /\ notApplicableKeys = {}
    /\ shm = [e \in {} |-> 0]
    /\ pc = [t \in Threads |-> "idle"]
    /\ call \in [Threads -> {NoCall(k) : k \in Keys}]
    /\ fields = [t \in Threads |-> NoFields]
    /\ todo = [t \in Threads |-> <<>>]
    /\ newSize = [t \in Threads |-> -1]
    /\ status = [t \in Threads |-> TRUE]
    /\ ncalls = 0
    /\ acked = [k \in Keys |-> NoCall(k)]

-----------------------------------------------------------------------------
Key(t) == call[t].key

Goto(t, l) == pc' = [pc EXCEPT ![t] = l]

\* The call returns b.
Answer(t, b) ==
    /\ Goto(t, "idle")
    /\ status' = [status EXCEPT ![t] = b]

\* map[k] = f, as operator[] and emplace of a new key do.
Put(map, k, f) == [j \in DOMAIN map \cup {k} |-> IF j = k THEN f ELSE map[j]]

\* updateTelemetry: a reading that failed (rc, and a timestamp) takes the nan path.
UpdateTelemetry(t) ==
    /\ pc[t] = "idle"
    /\ ncalls < MaxCalls
    /\ ncalls' = ncalls + 1
    /\ \E k \in Keys : \E s \in Shapes[k], rc \in BOOLEAN, parent \in Parents[k] :
          /\ t \in Reporters[k]
          /\ call' = [call EXCEPT ![t] = [key |-> k, shape |-> s, rc |-> rc,
                                          parent |-> parent, no |-> ncalls + 1]]
          /\ Goto(t, IF rc THEN "nan" ELSE "lookup")
    /\ fields' = [fields EXCEPT ![t] = NoFields]
    /\ todo' = [todo EXCEPT ![t] = <<>>]
    /\ newSize' = [newSize EXCEPT ![t] = -1]
    /\ status' = [status EXCEPT ![t] = TRUE]
    /\ UNCHANGED <<maps, shm, acked>>

-----------------------------------------------------------------------------
(* Operations on the map, and the order they are done in.                  *)

\* Slip: a failed insert does not count.
InsertUnchecked(k, i) ==
    [kind |-> "insert", elem |-> <<k, i>>, item |-> i, checked |-> FALSE]

Insert(k, i)        == [kind |-> "insert", elem |-> <<k, i>>, item |-> i, checked |-> TRUE]
Update(k, i, x, ch) == [kind |-> "update", elem |-> <<k, i>>, item |-> x, checked |-> ch]
Erase(k, i)         == [kind |-> "erase", elem |-> <<k, i>>, item |-> Nan, checked |-> TRUE]

\* getMetricValues returns an unordered_map: its elements come in any order.
Orders(n) == {f \in [1 .. n -> 0 .. n - 1] : \A i, j \in 1 .. n : f[i] = f[j] => i = j}

\* Slip: indices that start at one.
ArrayOpsFromOne(k, a, n, order) ==
    IF a > n THEN <<>>
    ELSE [i \in 1 .. n - a |-> Erase(k, a - 2 + i)]
         \o [i \in 1 .. n |-> Update(k, i, order[i], FALSE)]

\* What handleArrayUpdates does for a list of n when the registered size is a.
\* The order decides which value goes to which index.  For a shorter list no
\* branch is taken; the branch for a longer one is behind the one before it.
ArrayOps(k, a, n, order) ==
    IF a > n THEN <<>>
    ELSE [i \in 1 .. n - a |-> Erase(k, a - 2 + i)]
         \o [i \in 1 .. n |-> Update(k, i - 1, order[i], FALSE)]

\* Slip: the last element of a list is not erased.
NanOpsShort(k, a) ==
    IF a > 1
    THEN [i \in 1 .. a - 2 |-> Erase(k, i)] \o <<Update(k, 0, Nan, TRUE)>>
    ELSE <<Update(k, Scalar, Nan, TRUE)>>

\* What updateNanValue does: only index 0 of a list stays.
NanOps(k, a) ==
    IF a > 1
    THEN [i \in 1 .. a - 1 |-> Erase(k, i)] \o <<Update(k, 0, Nan, TRUE)>>
    ELSE <<Update(k, Scalar, Nan, TRUE)>>

-----------------------------------------------------------------------------
(* updateSHMObject.                                                        *)

\* The fields of a registered key are copied under the lock, and what to do is
\* decided from the copy.
Lookup(t) ==
    /\ pc[t] = "lookup"
    /\ LET k == Key(t)
           s == call[t].shape
       IN  \/ /\ k \notin DOMAIN nameSpaceMap
              /\ Goto(t, "applicable")
              /\ UNCHANGED locals
           \/ /\ k \in DOMAIN nameSpaceMap
              /\ fields' = [fields EXCEPT ![t] = nameSpaceMap[k]]
              /\ LET a == nameSpaceMap[k].arraySize
                 IN  \/ /\ a = 0
                        /\ todo' = [todo EXCEPT ![t] =
                               <<Update(k, Scalar, IF s = Scalar THEN Scalar ELSE Blank, TRUE)>>]
                        /\ UNCHANGED newSize
                     \/ /\ a > 0 /\ s = Scalar
                        /\ todo' = [todo EXCEPT ![t] =
                               IF k \in NoURI THEN <<>> ELSE <<Update(k, Scalar, Scalar, TRUE)>>]
                        /\ UNCHANGED newSize
                     \/ /\ a > 0 /\ s # Scalar
                        /\ \E order \in Orders(s) :
                               todo' = [todo EXCEPT ![t] = ArrayOps(k, a, s, order)]
                        /\ newSize' = [newSize EXCEPT ![t] = IF a > s THEN -1 ELSE s]
              /\ Goto(t, "mapOps")
    /\ UNCHANGED <<maps, shm, call, status, ncalls, acked>>

CheckApplicable(t) ==
    /\ pc[t] = "applicable"
    /\ IF Key(t) \in notApplicableKeys
       THEN Answer(t, TRUE)
       ELSE Goto(t, "match") /\ UNCHANGED status
    /\ UNCHANGED <<maps, shm, call, locals, ncalls, acked>>

\* The candidates that end the loop of handleObjectInsertion: the caller owes a
\* parent path, or the property is listed.
Decisive(t) ==
    {i \in DOMAIN Matches[Key(t)] :
        \/ Matches[Key(t)][i].needsParent /\ ~call[t].parent
        \/ Matches[Key(t)][i].listed}

\* parseDevicePath and handleObjectInsertion.  A candidate that does not list
\* the property marks the key, also when a later one lists it.
HandleObjectInsertion(t) ==
    /\ pc[t] = "match"
    /\ LET ms   == Matches[Key(t)]
           Mark == notApplicableKeys' = notApplicableKeys \cup {Key(t)}
       IN  \/ /\ Decisive(t) = {}
              /\ Mark
              /\ Answer(t, ms # <<>>)
              /\ UNCHANGED fields
           \/ \E i \in Decisive(t) :
                 /\ \A j \in Decisive(t) : i <= j
                 /\ IF ms[i].needsParent /\ ~call[t].parent
                    THEN Mark /\ Answer(t, FALSE) /\ UNCHANGED fields
                    ELSE /\ IF i > 1 THEN Mark ELSE UNCHANGED notApplicableKeys
                         /\ fields' = [fields EXCEPT ![t] =
                                [mapped |-> ms[i].mapped, arraySize |-> 0]]
                         /\ Goto(t, "emplace")
                         /\ UNCHANGED status
    /\ UNCHANGED <<nameSpaceMap, shm, call, todo, newSize, ncalls, acked>>

\* Slip: the key is published without being registered.
EmplaceNothing(t) ==
    /\ pc[t] = "emplace"
    /\ Goto(t, "resize")
    /\ UNCHANGED <<maps, shm, call, locals, status, ncalls, acked>>

\* insertShmemObject registers the key before it has anything to publish;
\* emplace keeps the entry of a thread that came first.
Emplace(t) ==
    /\ pc[t] = "emplace"
    /\ nameSpaceMap' = IF Key(t) \in DOMAIN nameSpaceMap THEN nameSpaceMap
                       ELSE Put(nameSpaceMap, Key(t), fields[t])
    /\ Goto(t, "resize")
    /\ UNCHANGED <<notApplicableKeys, shm, call, locals, status, ncalls, acked>>

\* The size of a list is registered, and its elements are inserted one by one.
Resize(t) ==
    /\ pc[t] = "resize"
    /\ LET k == Key(t)
           s == call[t].shape
       IN  /\ nameSpaceMap' = IF s = Scalar THEN nameSpaceMap
                              ELSE [nameSpaceMap EXCEPT ![k].arraySize = s]
           /\ IF s = 0 \/ (s = Scalar /\ k \in NoURI)
              THEN Answer(t, FALSE) /\ UNCHANGED todo
              ELSE /\ IF s = Scalar
                      THEN todo' = [todo EXCEPT ![t] = <<Insert(k, Scalar)>>]
                      ELSE \E order \in Orders(s) :
                              todo' = [todo EXCEPT ![t] = [i \in 1 .. s |-> Insert(k, order[i])]]
                   /\ Goto(t, "mapOps")
                   /\ UNCHANGED status
    /\ UNCHANGED <<notApplicableKeys, shm, call, fields, newSize, ncalls, acked>>

-----------------------------------------------------------------------------
(* updateNanValue.                                                         *)

NanApplicable(t) ==
    /\ pc[t] = "nan"
    /\ Goto(t, IF Key(t) \in notApplicableKeys THEN "nanKnown" ELSE "nanLookup")
    /\ UNCHANGED <<maps, shm, call, locals, status, ncalls, acked>>

\* A key nobody has seen is ignored; operator[] registers one that is only
\* marked, under the empty namespace.
NanLookup(t) ==
    /\ pc[t] \in {"nanLookup", "nanKnown"}
    /\ LET k == Key(t)
           f == IF k \in DOMAIN nameSpaceMap THEN nameSpaceMap[k] ELSE NoFields
       IN  IF k \notin DOMAIN nameSpaceMap /\ pc[t] = "nanLookup"
           THEN /\ Answer(t, TRUE)
                /\ UNCHANGED <<nameSpaceMap, fields, todo>>
           ELSE /\ nameSpaceMap' = Put(nameSpaceMap, k, f)
                /\ fields' = [fields EXCEPT ![t] = f]
                /\ todo' = [todo EXCEPT ![t] = NanOps(k, f.arraySize)]
                /\ Goto(t, "mapOps")
                /\ UNCHANGED status
    /\ UNCHANGED <<notApplicableKeys, shm, call, newSize, ncalls, acked>>

-----------------------------------------------------------------------------
(* ShmSensorMapIntf: one operation on the map, and the end of the call.    *)

Full == Cardinality(DOMAIN shm) >= Capacity

\* insert keeps an element that is there, update needs one, erase does not.
\* The namespace may not be ours, and in a full segment whatever allocates may
\* throw: the operation then fails and changes nothing.
MapOp(t) ==
    /\ pc[t] = "mapOps"
    /\ todo[t] # <<>>
    /\ LET o   == Head(todo[t])
           new == [call |-> call[t].no, item |-> o.item]
           Done == status' = status
           Fail == /\ status' = [status EXCEPT ![t] = @ /\ ~o.checked]
                   /\ UNCHANGED shm
       IN  \/ /\ ~fields[t].mapped \/ Full
              /\ Fail
           \/ /\ fields[t].mapped
              /\ \/ /\ o.kind = "insert" /\ o.elem \in DOMAIN shm
                    /\ Done /\ UNCHANGED shm
                 \/ /\ o.kind = "insert" /\ o.elem \notin DOMAIN shm /\ ~Full
                    /\ Done /\ shm' = Put(shm, o.elem, new)
                 \/ /\ o.kind = "update" /\ o.elem \in DOMAIN shm
                    /\ Done /\ shm' = [shm EXCEPT ![o.elem] = new]
                 \/ /\ o.kind = "update" /\ o.elem \notin DOMAIN shm
                    /\ Fail
                 \/ /\ o.kind = "erase"
                    /\ Done /\ shm' = [e \in DOMAIN shm \ {o.elem} |-> shm[e]]
    /\ todo' = [todo EXCEPT ![t] = Tail(@)]
    /\ UNCHANGED <<maps, pc, call, fields, newSize, ncalls, acked>>

\* Slip: a shorter list is written back too, though its rest was not erased.
ReturnLength(t) ==
    /\ pc[t] = "mapOps"
    /\ todo[t] = <<>>
    /\ nameSpaceMap' = IF fields[t].arraySize = 0 \/ call[t].rc \/ call[t].shape = Scalar
                       THEN nameSpaceMap
                       ELSE [nameSpaceMap EXCEPT ![Key(t)].arraySize = call[t].shape]
    /\ acked' = IF status[t] /\ fields[t].mapped
                THEN [acked EXCEPT ![Key(t)] = call[t]] ELSE acked
    /\ Goto(t, "idle")
    /\ UNCHANGED <<notApplicableKeys, shm, call, locals, status, ncalls>>

\* The new length of a list is written back after its elements, from what the
\* thread knew; the call returns.
Return(t) ==
    /\ pc[t] = "mapOps"
    /\ todo[t] = <<>>
    /\ nameSpaceMap' = IF newSize[t] = -1 THEN nameSpaceMap
                       ELSE [nameSpaceMap EXCEPT ![Key(t)].arraySize = newSize[t]]
    /\ acked' = IF status[t] /\ fields[t].mapped
                THEN [acked EXCEPT ![Key(t)] = call[t]] ELSE acked
    /\ Goto(t, "idle")
    /\ UNCHANGED <<notApplicableKeys, shm, call, locals, status, ncalls>>

ThreadStep(t) ==
    \/ UpdateTelemetry(t) \/ Lookup(t) \/ CheckApplicable(t)
    \/ HandleObjectInsertion(t) \/ Emplace(t) \/ Resize(t)
    \/ NanApplicable(t) \/ NanLookup(t) \/ MapOp(t) \/ Return(t)

Next == \E t \in Threads : ThreadStep(t)

Spec == Init /\ [][Next]_vars

-----------------------------------------------------------------------------
(* Properties.                                                             *)

\* No call on the key is under way.
Quiet(k) == \A t \in Threads : Key(t) = k => pc[t] = "idle"

\* One thread reports the key.  What a thread copied of the key's fields is then
\* still so when it acts on the copy, which another reporter of the key would break.
Owned(k) == \A t, u \in Reporters[k] : t = u

\* The elements a client sees of a key.
Visible(k) == {i \in Items : <<k, i>> \in DOMAIN shm}

\* "If it's an existing object then value and timestamp will be updated"
\* (shm_sensor_aggregator.hpp:81-83): what a client sees of an owned key, whatever
\* is done with other keys, is registered under a namespace of the producer, so
\* that the next update finds it.
VisibleIsReachable ==
    \A k \in Keys : Owned(k) /\ Visible(k) # {} =>
        k \in DOMAIN nameSpaceMap /\ nameSpaceMap[k].mapped

\* A client that asks after updateTelemetry answered true sees the reading of
\* that call, or its nan, and no older one: of owned keys that are no lists.
AckedIsVisible ==
    \A k \in Keys :
        Owned(k) /\ Shapes[k] = {Scalar} /\ Quiet(k) /\ acked[k].no # 0 =>
            /\ <<k, Scalar>> \in DOMAIN shm
            /\ shm[<<k, Scalar>>] =
                   [call |-> acked[k].no, item |-> IF acked[k].rc THEN Nan ELSE Scalar]

\* The registered size of an owned list covers all its elements, whatever grew,
\* shrank or became nan: the next nan leaves none behind.
VisibleWithinSize ==
    \A k \in Keys : \A i \in Visible(k) \ {Scalar} : Owned(k) =>
        k \in DOMAIN nameSpaceMap /\ i < nameSpaceMap[k].arraySize

\* After a failed reading that was answered true a client sees its nan and no
\* value of an owned key besides: none of the elements that a list had before, however
\* long it was and whatever was reported of it last, and no plain value of a key
\* whose readings were lists at times.
NanHidesValues ==
    \A t \in Threads :
        LET k == Key(t)
        IN  Owned(k) /\ pc[t] = "idle" /\ call[t].no # 0 /\ call[t].rc /\ acked[k] = call[t] =>
                /\ Visible(k) # {}
                /\ \A i \in Visible(k) : shm[<<k, i>>] = [call |-> call[t].no, item |-> Nan]

-----------------------------------------------------------------------------
(* What the documents promise and this code does not keep.                 *)

\* "Array values are indexed and for value update it can be New elements
\* insertion, Removal of elements and updates" (shm_sensor_aggregator.hpp:83-86):
\* after a list was accepted a client sees as many elements as it has.
ListPublished ==
    \A k \in Keys :
        Quiet(k) /\ acked[k].no # 0 /\ ~acked[k].rc /\ acked[k].shape # Scalar =>
            Visible(k) \ {Scalar} = 0 .. acked[k].shape - 1

\* "This method inserts shared memory object if entry is not present in map"
\* (shm_sensor_aggregator.hpp:81-82): a listed property that was reported with a
\* value, with the parent path it needs and room in the segment, is published.
AbsentIsInserted ==
    \A t \in Threads :
        LET m == Matches[Key(t)][1]
        IN  /\ Quiet(Key(t)) /\ call[t].no # 0 /\ ~call[t].rc /\ call[t].shape # 0
            /\ m.listed /\ m.mapped /\ (m.needsParent => call[t].parent)
            /\ ~Full
            => Visible(Key(t)) # {}

=============================================================================
