----------------------------- MODULE MrdService -----------------------------
(***************************************************************************)
(* The namespaces of a metric report (an MRD): producers read the          *)
(* configuration and create a segment for each MRD that is mapped to them  *)
(* (AggregationService::namespaceInit), and a client reads the segments of *)
(* all producers of an MRD, one after the other (getAllMRDValues).         *)
(*                                                                         *)
(* src/lib/config_json_reader.cpp, src/lib/telemetry_mrd_producer.cpp,     *)
(* src/lib/shm_sensor_aggregator.cpp, src/lib/impl/shm_sensormap_intf.hpp, *)
(* src/lib/telemetry_mrd_client.cpp.                                       *)
(*                                                                         *)
(* A step is one file loaded, one segment created or one segment read; how *)
(* a segment is locked is ShmemMap, what goes into it SensorAggregator.    *)
(***************************************************************************)
EXTENDS Naturals, Sequences, Functions

CONSTANTS
    Procs,          \* producers, by their process names
    Clients,
    MRDs,           \* the names that clients ask for
    Mapping,        \* shm_mapping.json: the producers of each mapped MRD
    Unsized,        \* MRDs whose SizeInBytes is not a number
    Objects,        \* objects that a producer publishes
    Absent,         \* no segment has the name
    Shell,          \* a segment without a map in it
    MaxStarts,      \* bound: starts of producers
    MaxFailures     \* bound: segments that cannot be created

Mapped == DOMAIN Mapping

ASSUME MrdServiceAssumption ==
    /\ Mapped \subseteq MRDs /\ Unsized \subseteq MRDs
    /\ Mapping \in [Mapped -> Seq(Procs)]
    /\ Absent # Shell /\ \A s \in SUBSET Objects : s # Absent /\ s # Shell
    /\ MaxStarts \in Nat /\ MaxFailures \in Nat

VARIABLES
    mapFile,        \* shm_mapping.json as it is on disk
    nsFile,         \* shm_namespace_config.json; one that parses may have an entry
                    \* with values of the wrong type
    shmMappingJson, \* per process: the mapping it has loaded
    nsJson,         \* per producer: the namespaces it has loaded
    pc,             \* per producer: where it is in namespaceInit
    answer,         \* per producer: what its last namespaceInit answered
    sensorMap,      \* per producer: the namespaces its aggregator has open
    todo,           \* per producer: namespaces it has still to create
    shm,            \* the segments, by producer and MRD
    lookup,         \* per client: the static lookup of getAllMRDValues
    listing,        \* per client: the static lookup of getMrdNamespacesValues
    asked,          \* per client: the MRD of its call
    left,           \* per client: producers it has still to read
    got,            \* per client: what its call has read
    result,         \* per client: what its last call answered
    starts,
    failures,
    clean,          \* auxiliary: nothing stands in the way of the call
    due,            \* auxiliary: per client, what has been there since it called
    missed          \* auxiliary: per client, producers whose lock timed out

files   == <<mapFile, nsFile>>
prods   == <<nsJson, pc, answer, sensorMap, todo, clean>>
clients == <<lookup, listing, asked, left, got, result, missed>>
bounds  == <<starts, failures>>
vars    == <<files, shmMappingJson, prods, shm, clients, bounds, due>>

Items    == Procs \X Objects
Segments == {Absent, Shell} \cup SUBSET Objects

TypeOK ==
    /\ mapFile \in {"missing", "malformed", "nokey", "good"}
    /\ nsFile \in {"unreadable", "illtyped", "good"}
    /\ shmMappingJson \in [Procs \cup Clients -> {"null", "nokey", "good"}]
    /\ nsJson \in [Procs -> {"null", "illtyped", "good"}]
    /\ pc \in [Procs -> {"down", "idle", "mapping", "namespaces", "create"}]
    /\ answer \in [Procs -> {"none", "true", "false", "threw"}]
    /\ sensorMap \in [Procs -> SUBSET Mapped]
    /\ todo \in [Procs -> SUBSET Mapped]
    /\ shm \in [Procs \X Mapped -> Segments]
    /\ lookup \in [Clients -> {"unset", "empty", "full"}]
    /\ listing \in [Clients -> {"unset", "empty", "full"}]
    /\ asked \in [Clients -> MRDs]
    /\ left \in [Clients -> Seq(Procs)]
    /\ got \in [Clients -> SUBSET Items]
    /\ result \in [Clients -> {"none", "pending", "values", "noElements", "notFound"}]
    /\ starts \in 0 .. MaxStarts /\ failures \in 0 .. MaxFailures
    /\ clean \in [Procs -> BOOLEAN]
    /\ due \in [Clients -> SUBSET Items]
    /\ missed \in [Clients -> SUBSET Procs]

Init ==
    /\ mapFile \in {"missing", "malformed", "nokey", "good"}
    /\ nsFile \in {"unreadable", "illtyped", "good"}
    /\ shmMappingJson = [p \in Procs \cup Clients |-> "null"]
    /\ nsJson = [p \in Procs |-> "null"]
    /\ pc = [p \in Procs |-> "down"]
    /\ answer = [p \in Procs |-> "none"]
    /\ sensorMap = [p \in Procs |-> {}]
    /\ todo = [p \in Procs |-> {}]
    /\ shm = [s \in Procs \X Mapped |-> Absent]
    /\ lookup = [c \in Clients |-> "unset"]
    /\ listing = [c \in Clients |-> "unset"]
    /\ asked \in [Clients -> MRDs]
    /\ left = [c \in Clients |-> <<>>]
    /\ got = [c \in Clients |-> {}]
    /\ result = [c \in Clients |-> "none"]
    /\ starts = 0 /\ failures = 0
    /\ clean = [p \in Procs |-> FALSE]
    /\ due = [c \in Clients |-> {}]
    /\ missed = [c \in Clients |-> {}]

-----------------------------------------------------------------------------
(* Files, and processes that come and go.                                  *)

\* A good file is put in place; a file that is good stays.
Install ==
    /\ \/ mapFile # "good" /\ mapFile' = "good" /\ UNCHANGED nsFile
       \/ nsFile # "good" /\ nsFile' = "good" /\ UNCHANGED mapFile
    /\ UNCHANGED <<shmMappingJson, prods, shm, clients, bounds, due>>

Start(p) ==
    /\ pc[p] = "down"
    /\ starts < MaxStarts
    /\ starts' = starts + 1
    /\ pc' = [pc EXCEPT ![p] = "idle"]
    /\ UNCHANGED <<files, shmMappingJson, nsJson, answer, sensorMap, todo, clean,
                   shm, clients, failures, due>>

\* What a client may still count on is what is left of it in the segments.
InShm(segments, m) ==
    {i \in Items : /\ segments[<<i[1], m>>] \notin {Absent, Shell}
                   /\ i[2] \in segments[<<i[1], m>>]}
Change(segments) ==
    /\ shm' = segments
    /\ due' = [c \in Clients |->
           IF asked[c] \in Mapped THEN due[c] \cap InShm(segments, asked[c]) ELSE {}]

\* The Map objects of an aggregator go, and with each the map in its segment.
Destroyed(p) ==
    [s \in DOMAIN shm |-> IF s[1] = p /\ s[2] \in sensorMap[p] THEN Shell ELSE shm[s]]

Down(p) ==
    /\ pc' = [pc EXCEPT ![p] = "down"]
    /\ shmMappingJson' = [shmMappingJson EXCEPT ![p] = "null"]
    /\ nsJson' = [nsJson EXCEPT ![p] = "null"]
    /\ answer' = [answer EXCEPT ![p] = "none"]
    /\ sensorMap' = [sensorMap EXCEPT ![p] = {}]
    /\ todo' = [todo EXCEPT ![p] = {}]
    /\ clean' = [clean EXCEPT ![p] = FALSE]
    /\ UNCHANGED <<files, clients, bounds>>

\* A producer ends: the static aggregator is destroyed.
Exit(p) == pc[p] = "idle" /\ Down(p) /\ Change(Destroyed(p))

\* It dies, anywhere: the segments stay as they are.
Die(p) == pc[p] # "down" /\ Down(p) /\ UNCHANGED <<shm, due>>

-----------------------------------------------------------------------------
(* AggregationService::namespaceInit.                                      *)

\* The MRDs whose list of producers has the process name in it.
MappedTo(p) == {m \in Mapped : \E i \in DOMAIN Mapping[m] : Mapping[m][i] = p}

\* loadNamespaceConfig: what was loaded once is kept, whether it is of any use or
\* not; else the file, if it is there and parses.
NamespacesOf(p) ==
    IF nsJson[p] # "null" THEN nsJson[p]
    ELSE IF nsFile = "unreadable" THEN "null" ELSE nsFile

\* getSHMSize returns: of its exceptions, those for names that are not in the
\* mapping cannot happen to a name that was taken from it.
SizeKnown(m) == m \notin Unsized

Goto(p, l) == pc' = [pc EXCEPT ![p] = l] /\ UNCHANGED answer

Answer(p, a) ==
    /\ pc' = [pc EXCEPT ![p] = "idle"]
    /\ answer' = [answer EXCEPT ![p] = a]

NamespaceInit(p) ==
    /\ pc[p] = "idle"
    /\ pc' = [pc EXCEPT ![p] = "mapping"]
    /\ answer' = [answer EXCEPT ![p] = "none"]
    /\ clean' = [clean EXCEPT ![p] =
           /\ mapFile = "good" /\ nsFile = "good"
           /\ shmMappingJson[p] # "nokey" /\ nsJson[p] # "illtyped"]
    /\ UNCHANGED <<files, shmMappingJson, nsJson, sensorMap, todo, shm, clients,
                   bounds, due>>

\* Slip: what was parsed is kept before it is looked at.
LoadMappingKeeps(p) ==
    /\ pc[p] = "mapping"
    /\ IF shmMappingJson[p] # "null"
       THEN Goto(p, "namespaces") /\ UNCHANGED shmMappingJson
       ELSE \/ /\ mapFile \in {"missing", "malformed"}
               /\ Answer(p, "false")
               /\ shmMappingJson' = [shmMappingJson EXCEPT ![p] =
                      IF mapFile = "missing" THEN "null" ELSE mapFile]
            \/ /\ mapFile \in {"nokey", "good"}
               /\ shmMappingJson' = [shmMappingJson EXCEPT ![p] = mapFile]
               /\ Goto(p, "namespaces")
    /\ UNCHANGED <<files, nsJson, sensorMap, todo, shm, clients, bounds, clean, due>>

\* loadSHMMappingConfig: a file that was loaded once is never read again, one
\* that could not be is.
LoadMapping(p) ==
    /\ pc[p] = "mapping"
    /\ IF shmMappingJson[p] # "null"
       THEN Goto(p, "namespaces") /\ UNCHANGED shmMappingJson
       ELSE \/ /\ mapFile \in {"missing", "malformed"}
               /\ Answer(p, "false")
               /\ UNCHANGED shmMappingJson
            \/ /\ mapFile \in {"nokey", "good"}
               /\ shmMappingJson' = [shmMappingJson EXCEPT ![p] = mapFile]
               /\ Goto(p, "namespaces")
    /\ UNCHANGED <<files, nsJson, sensorMap, todo, shm, clients, bounds, clean, due>>

\* loadNamespaceConfig, and what getNameSpaceConfiguration makes of what is loaded:
\* values of the wrong type throw, are caught, and leave the aggregator as it was.
\* Else a new aggregator takes the place of the old one, and getProducers throws,
\* uncaught, on a mapping without "Namespaces".
LoadNamespaces(p) ==
    /\ pc[p] = "namespaces"
    /\ nsJson' = [nsJson EXCEPT ![p] = NamespacesOf(p)]
    /\ \/ /\ NamespacesOf(p) \in {"null", "illtyped"}
          /\ Answer(p, "false")
          /\ UNCHANGED <<sensorMap, todo, shm, due>>
       \/ /\ NamespacesOf(p) = "good"
          /\ Change(Destroyed(p))
          /\ sensorMap' = [sensorMap EXCEPT ![p] = {}]
          /\ IF shmMappingJson[p] = "good"
             THEN /\ todo' = [todo EXCEPT ![p] = MappedTo(p)]
                  /\ Goto(p, "create")
             ELSE Answer(p, "threw") /\ UNCHANGED todo
    /\ UNCHANGED <<files, shmMappingJson, clients, bounds, clean>>

\* Slip: a namespace that failed is passed over.
CreateNamespaceSkips(p) ==
    /\ pc[p] = "create"
    /\ \E m \in todo[p] :
        /\ todo' = [todo EXCEPT ![p] = @ \ {m}]
        /\ \/ /\ ~SizeKnown(m)
              /\ UNCHANGED <<pc, answer, sensorMap, shm, due, failures, clean>>
           \/ /\ SizeKnown(m)
              /\ sensorMap' = [sensorMap EXCEPT ![p] = @ \cup {m}]
              /\ Change([shm EXCEPT ![<<p, m>>] = {}])
              /\ UNCHANGED <<pc, answer, failures, clean>>
           \/ /\ SizeKnown(m) /\ failures < MaxFailures
              /\ failures' = failures + 1
              /\ \E s \in {Absent, Shell} : Change([shm EXCEPT ![<<p, m>>] = s])
              /\ clean' = [clean EXCEPT ![p] = FALSE]
              /\ UNCHANGED <<pc, answer, sensorMap>>
    /\ UNCHANGED <<files, shmMappingJson, nsJson, clients, starts>>

\* createShmemNamespace, one namespace of the table in any order: getSHMSize
\* throws, the Map is constructed on a fresh segment, or its constructor throws
\* with the old segment gone.  What was created before a failure stays.
CreateNamespace(p) ==
    /\ pc[p] = "create"
    /\ \E m \in todo[p] :
          \/ /\ ~SizeKnown(m)
             /\ Answer(p, "false")
             /\ todo' = [todo EXCEPT ![p] = {}]
             /\ clean' = [clean EXCEPT ![p] = FALSE]
             /\ UNCHANGED <<sensorMap, shm, due, failures>>
          \/ /\ SizeKnown(m)
             /\ sensorMap' = [sensorMap EXCEPT ![p] = @ \cup {m}]
             /\ todo' = [todo EXCEPT ![p] = @ \ {m}]
             /\ Change([shm EXCEPT ![<<p, m>>] = {}])
             /\ UNCHANGED <<pc, answer, failures, clean>>
          \/ /\ SizeKnown(m) /\ failures < MaxFailures
             /\ failures' = failures + 1
             /\ \E s \in {Absent, Shell} : Change([shm EXCEPT ![<<p, m>>] = s])
             /\ Answer(p, "false")
             /\ todo' = [todo EXCEPT ![p] = {}]
             /\ clean' = [clean EXCEPT ![p] = FALSE]
             /\ UNCHANGED sensorMap
    /\ UNCHANGED <<files, shmMappingJson, nsJson, clients, starts>>

EndInit(p) ==
    /\ pc[p] = "create" /\ todo[p] = {}
    /\ Answer(p, "true")
    /\ UNCHANGED <<files, shmMappingJson, nsJson, sensorMap, todo, clean, shm,
                   clients, bounds, due>>

\* ShmSensorMapIntf::insert of a new object, in a namespace that is open,
\* whatever namespaceInit answered.
Publish(p) ==
    /\ pc[p] = "idle"
    /\ \E m \in sensorMap[p], o \in Objects :
          /\ o \notin shm[<<p, m>>]
          /\ Change([shm EXCEPT ![<<p, m>>] = @ \cup {o}])
    /\ UNCHANGED <<files, shmMappingJson, prods, clients, bounds>>

-----------------------------------------------------------------------------
(* Clients.                                                                *)

\* getMRDNamespaceLookup: whatever goes wrong with the mapping, the lookup is
\* empty; a mapping that could not be loaded is tried again by the next caller.
LoadedBy(c) ==
    IF shmMappingJson[c] # "null" THEN shmMappingJson[c]
    ELSE IF mapFile \in {"nokey", "good"} THEN mapFile ELSE "null"
LookupOf(c) == IF LoadedBy(c) = "good" THEN "full" ELSE "empty"

\* Slip: the values outlive the call, as the lookup does.
KeptValues(c) == UNCHANGED got

\* A call begins with no values.
NoValues(c) == got' = [got EXCEPT ![c] = {}]

\* getAllMRDValues: the lookup is made by the first call and kept for ever.
GetAllMRDValues(c) ==
    /\ result[c] # "pending"
    /\ IF lookup[c] = "unset"
       THEN /\ lookup' = [lookup EXCEPT ![c] = LookupOf(c)]
            /\ shmMappingJson' = [shmMappingJson EXCEPT ![c] = LoadedBy(c)]
       ELSE UNCHANGED <<lookup, shmMappingJson>>
    /\ \E m \in MRDs :
          /\ asked' = [asked EXCEPT ![c] = m]
          /\ IF lookup'[c] = "full" /\ m \in Mapped
             THEN /\ result' = [result EXCEPT ![c] = "pending"]
                  /\ left' = [left EXCEPT ![c] = Mapping[m]]
                  /\ due' = [due EXCEPT ![c] = {i \in InShm(shm, m) :
                                 \E j \in DOMAIN Mapping[m] : Mapping[m][j] = i[1]}]
             ELSE /\ result' = [result EXCEPT ![c] = "notFound"]
                  /\ due' = [due EXCEPT ![c] = {}]
                  /\ UNCHANGED left
    /\ NoValues(c)
    /\ missed' = [missed EXCEPT ![c] = {}]
    /\ UNCHANGED <<files, prods, shm, listing, bounds>>

\* Slip: one try around the loop, so that what throws ends it.
ReadProducerOrEnd(c) ==
    /\ left[c] # <<>>
    /\ LET p == Head(left[c])
           s == shm[<<p, asked[c]>>]
       IN  \/ /\ s \notin {Absent, Shell}
              /\ got' = [got EXCEPT ![c] = @ \cup {<<p, o>> : o \in s}]
              /\ left' = [left EXCEPT ![c] = Tail(@)]
              /\ UNCHANGED missed
           \/ /\ s \in {Absent, Shell}
              /\ left' = [left EXCEPT ![c] = <<>>]
              /\ UNCHANGED <<got, missed>>
           \/ /\ s \notin {Absent, Shell}
              /\ missed' = [missed EXCEPT ![c] = @ \cup {p}]
              /\ left' = [left EXCEPT ![c] = <<>>]
              /\ UNCHANGED got
    /\ UNCHANGED <<files, shmMappingJson, prods, shm, lookup, listing, asked,
                   result, bounds, due>>

\* The segment of one producer is opened and copied.  A segment or map that is
\* not there, or a lock that is not had within a second, throws, and the loop
\* goes on with the next producer.
ReadProducer(c) ==
    /\ left[c] # <<>>
    /\ LET p == Head(left[c])
           s == shm[<<p, asked[c]>>]
       IN  \/ /\ s \notin {Absent, Shell}
              /\ got' = [got EXCEPT ![c] = @ \cup {<<p, o>> : o \in s}]
              /\ UNCHANGED missed
           \/ /\ s \in {Absent, Shell}
              /\ UNCHANGED <<got, missed>>
           \/ /\ s \notin {Absent, Shell}
              /\ missed' = [missed EXCEPT ![c] = @ \cup {p}]
              /\ UNCHANGED got
    /\ left' = [left EXCEPT ![c] = Tail(@)]
    /\ UNCHANGED <<files, shmMappingJson, prods, shm, lookup, listing, asked,
                   result, bounds, due>>

EndRead(c) ==
    /\ result[c] = "pending" /\ left[c] = <<>>
    /\ result' = [result EXCEPT ![c] = IF got[c] # {} THEN "values" ELSE "noElements"]
    /\ UNCHANGED <<files, shmMappingJson, prods, shm, lookup, listing, asked, left,
                   got, missed, bounds, due>>

\* getMrdNamespacesValues has a static lookup of its own.
GetMrdNamespacesValues(c) ==
    /\ result[c] # "pending"
    /\ listing[c] = "unset"
    /\ listing' = [listing EXCEPT ![c] = LookupOf(c)]
    /\ shmMappingJson' = [shmMappingJson EXCEPT ![c] = LoadedBy(c)]
    /\ UNCHANGED <<files, prods, shm, lookup, asked, left, got, result, missed,
                   bounds, due>>

ProducerStep(p) ==
    \/ Start(p) \/ Exit(p) \/ Die(p) \/ NamespaceInit(p) \/ LoadMapping(p)
    \/ LoadNamespaces(p) \/ CreateNamespace(p) \/ EndInit(p) \/ Publish(p)

ClientStep(c) ==
    \/ GetAllMRDValues(c) \/ ReadProducer(c) \/ EndRead(c) \/ GetMrdNamespacesValues(c)

Next ==
    \/ Install
    \/ \E p \in Procs : ProducerStep(p)
    \/ \E c \in Clients : ClientStep(c)

Spec == Init /\ [][Next]_vars

-----------------------------------------------------------------------------
(* Properties.                                                             *)

Answered(c) == result[c] \in {"values", "noElements"}

\* namespaceInit that answered true left every namespace mapped to the producer
\* open, with a map in its segment, also when an earlier call had created some
\* of them and this one replaced the aggregator.
UpHasAll ==
    \A p \in Procs : answer[p] = "true" =>
        \A m \in MappedTo(p) :
            m \in sensorMap[p] /\ shm[<<p, m>>] \notin {Absent, Shell}

\* A producer may call namespaceInit again once the files are in place: what
\* earlier calls could not read does not spoil it.  What they could read is kept
\* until the process ends: a call that has a mapping without "Namespaces", or
\* namespaces of the wrong types, is not promised anything.
RetrySucceeds ==
    \A p \in Procs : clean[p] /\ pc[p] = "idle" => answer[p] = "true"

\* "From each of the shared memory regions read all objects and aggregate them"
\* (README.md:94-96): an answer holds every object that was there all the time
\* of the call, whichever other producers were missing, restarted or ended; but
\* for the producers whose lock the client did not get.
NothingLost ==
    \A c \in Clients : Answered(c) => {i \in due[c] : i[1] \notin missed[c]} \subseteq got[c]

-----------------------------------------------------------------------------
(* What clients are promised, as a specification.                          *)

\* What a segment offers: nothing, if there is no map in it.
Offered(segment) == IF segment \in {Absent, Shell} THEN {} ELSE segment

AbsRegion  == [s \in Procs \X MRDs |-> IF s[2] \in Mapped THEN Offered(shm[s]) ELSE {}]
AbsUnasked == [c \in Clients |-> Range(left[c])]
AbsReading == [c \in Clients |-> result[c] = "pending"]
AbsServers == [m \in MRDs |-> IF m \in Mapped THEN Range(Mapping[m]) ELSE {}]

Directory == INSTANCE MrdDirectory WITH
    Producers <- Procs, Readers <- Clients, Reports <- MRDs, Servers <- AbsServers,
    region <- AbsRegion, report <- asked, unasked <- AbsUnasked, view <- got,
    reading <- AbsReading

\* "Creates a list of shared memory namespaces whose metric type matches", "from each
\* of the shared memory regions read all objects and aggregate them" (README.md:94-97):
\* whatever producers create, publish, destroy and leave behind meanwhile, an answer
\* is put together from regions of the MRD that was asked for, each whole and as it
\* was at one moment of the call.
ImplementsDirectory == Directory!Spec

-----------------------------------------------------------------------------
(* The inductive invariant behind the passing properties.                  *)

Initializing(p) == pc[p] \in {"mapping", "namespaces", "create"}

\* What the aggregator has open has a map in its segment: nobody else touches
\* the segments of a producer that is alive.
OpenInv == \A p \in Procs : \A m \in sensorMap[p] : shm[<<p, m>>] \in SUBSET Objects

\* What is mapped to a producer is open or still to be created, and not both.
InitInv ==
    \A p \in Procs :
        /\ Initializing(p) => answer[p] = "none"
        /\ pc[p] = "create" => /\ MappedTo(p) \subseteq sensorMap[p] \cup todo[p]
                              /\ sensorMap[p] \cap todo[p] = {}
        /\ answer[p] = "true" => MappedTo(p) \subseteq sensorMap[p]

\* A call that nothing stands in the way of is under way or was answered true.
CleanInv ==
    \A p \in Procs : clean[p] =>
        /\ mapFile = "good" /\ shmMappingJson[p] # "nokey"
        /\ nsFile = "good" /\ nsJson[p] # "illtyped"
        /\ pc[p] # "down"
        /\ pc[p] \in {"namespaces", "create"} => shmMappingJson[p] = "good"
        /\ pc[p] = "idle" => answer[p] = "true"

\* What was there all the time of a call was read, was missed, or belongs to a
\* producer that is still to be read.
CallInv(c) ==
    /\ asked[c] \in Mapped => due[c] \subseteq InShm(shm, asked[c])
    /\ left[c] # <<>> => result[c] = "pending"
    /\ result[c] = "pending" =>
          /\ asked[c] \in Mapped
          /\ \A i \in due[c] : \/ i \in got[c] \/ i[1] \in missed[c]
                               \/ \E j \in DOMAIN left[c] : left[c][j] = i[1]
    /\ Answered(c) => \A i \in due[c] : i \in got[c] \/ i[1] \in missed[c]

ReadInv == \A c \in Clients : CallInv(c)

IInv == TypeOK /\ OpenInv /\ InitInv /\ CleanInv /\ ReadInv

=============================================================================
