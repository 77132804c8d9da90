-------------------------- MODULE MrdServiceProofs --------------------------
(***************************************************************************)
(* What a call of namespaceInit leaves and what a read answers, for every  *)
(* number of producers, clients and MRDs, every mapping and any number of  *)
(* restarts and failures.  The parts of IInv are shown one after the       *)
(* other: types, segments that are open, calls, clean calls, reads.        *)
(***************************************************************************)
EXTENDS MrdService, TLAPS

\* The initial state satisfies every part of the invariant.
LEMMA InitIInv == Init => IInv
<1> SUFFICES ASSUME Init PROVE IInv
    OBVIOUS
<1> USE MrdServiceAssumption DEF Init
<1>1. TypeOK
    BY DEF TypeOK, Segments
<1>2. OpenInv /\ InitInv /\ CleanInv
    BY DEF OpenInv, InitInv, CleanInv, Initializing
<1>3. ReadInv
    BY DEF ReadInv, CallInv, Answered, InShm
<1> QED BY <1>1, <1>2, <1>3 DEF IInv

\* The producers of a mapped MRD are a sequence of producers, and so are those
\* that are left when the first was read.
LEMMA Producers ==
    /\ \A m \in Mapped : Mapping[m] \in Seq(Procs)
    /\ \A p \in Procs : MappedTo(p) \subseteq Mapped
    /\ \A s \in Seq(Procs) : s # <<>> => /\ Head(s) \in Procs
                                         /\ Tail(s) \in Seq(Procs)
BY MrdServiceAssumption DEF MappedTo

\* A change to the segments leaves each client what is still there.
LEMMA ChangeType ==
    ASSUME TypeOK, NEW s \in [Procs \X Mapped -> Segments], Change(s)
    PROVE  /\ shm' \in [Procs \X Mapped -> Segments]
           /\ due' \in [Clients -> SUBSET Items]
BY DEF Change, TypeOK

\* Destroyed maps leave shells.
LEMMA DestroyedType ==
    ASSUME TypeOK, NEW p \in Procs
    PROVE  Destroyed(p) \in [Procs \X Mapped -> Segments]
BY DEF Destroyed, TypeOK, Segments

\* The creation of a namespace changes one segment or none.
LEMMA CreateChanges ==
    ASSUME NEW p \in Procs, CreateNamespace(p)
    PROVE  \/ UNCHANGED <<shm, due>>
           \/ \E m \in todo[p], s \in Segments : Change([shm EXCEPT ![<<p, m>>] = s])
BY DEF CreateNamespace, Segments

\* The next place of a producer and its answer are well typed.
LEMMA AnswerType ==
    ASSUME TypeOK, NEW p \in Procs,
           \/ \E l \in {"mapping", "namespaces", "create"} : Goto(p, l)
           \/ \E a \in {"none", "true", "false", "threw"} : Answer(p, a)
    PROVE  /\ pc' \in [Procs -> {"down", "idle", "mapping", "namespaces", "create"}]
           /\ answer' \in [Procs -> {"none", "true", "false", "threw"}]
<1>1. /\ pc \in [Procs -> {"down", "idle", "mapping", "namespaces", "create"}]
      /\ answer \in [Procs -> {"none", "true", "false", "threw"}]
    BY DEF TypeOK
<1>2. ASSUME NEW l \in {"mapping", "namespaces", "create"}, Goto(p, l)
      PROVE  /\ pc' \in [Procs -> {"down", "idle", "mapping", "namespaces", "create"}]
             /\ answer' \in [Procs -> {"none", "true", "false", "threw"}]
    BY ONLY <1>1, <1>2 DEF Goto
<1>3. ASSUME NEW a \in {"none", "true", "false", "threw"}, Answer(p, a)
      PROVE  /\ pc' \in [Procs -> {"down", "idle", "mapping", "namespaces", "create"}]
             /\ answer' \in [Procs -> {"none", "true", "false", "threw"}]
    BY ONLY <1>1, <1>3 DEF Answer
<1> QED BY <1>2, <1>3

\* A client has loaded the mapping or not, and its lookup is full or empty.
LEMMA LookupType ==
    ASSUME TypeOK, NEW c \in Clients
    PROVE  LookupOf(c) \in {"empty", "full"} /\ LoadedBy(c) \in {"null", "nokey", "good"}
BY DEF LookupOf, LoadedBy, TypeOK

\* So has a producer the namespaces.
LEMMA NamespacesType ==
    ASSUME TypeOK, NEW p \in Procs
    PROVE  NamespacesOf(p) \in {"null", "illtyped", "good"}
BY DEF NamespacesOf, TypeOK

-----------------------------------------------------------------------------
(* Types.                                                                  *)

\* Every step keeps the type invariant.
LEMMA NextTypeOK == TypeOK /\ OpenInv /\ ReadInv /\ [Next]_vars => TypeOK'
<1> SUFFICES ASSUME TypeOK, OpenInv, ReadInv, [Next]_vars PROVE TypeOK'
    OBVIOUS
<1> USE MrdServiceAssumption
<1> USE DEF files, prods, clients, bounds
<1>1. CASE Install
    BY <1>1 DEF Install, TypeOK
<1>2. ASSUME NEW p \in Procs, Start(p) PROVE TypeOK'
    BY <1>2 DEF Start, TypeOK
<1>3. ASSUME NEW p \in Procs, Exit(p) PROVE TypeOK'
    <2>1. shm' \in [Procs \X Mapped -> Segments] /\ due' \in [Clients -> SUBSET Items]
        BY <1>3, ChangeType, DestroyedType DEF Exit
    <2> QED BY <1>3, <2>1 DEF Exit, Down, TypeOK
<1>4. ASSUME NEW p \in Procs, Die(p) PROVE TypeOK'
    BY <1>4 DEF Die, Down, TypeOK
<1>5. ASSUME NEW p \in Procs, NamespaceInit(p) PROVE TypeOK'
    BY <1>5 DEF NamespaceInit, TypeOK
<1>6. ASSUME NEW p \in Procs, LoadMapping(p) PROVE TypeOK'
    <2>1. /\ pc' \in [Procs -> {"down", "idle", "mapping", "namespaces", "create"}]
          /\ answer' \in [Procs -> {"none", "true", "false", "threw"}]
        <3>1. Goto(p, "namespaces") \/ Answer(p, "false")
            BY <1>6 DEF LoadMapping
        <3> QED BY <3>1, AnswerType
    <2>2. shmMappingJson' \in [Procs \cup Clients -> {"null", "nokey", "good"}]
        <3>1. \/ shmMappingJson' = shmMappingJson
              \/ \E v \in {"nokey", "good"} : shmMappingJson' = [shmMappingJson EXCEPT ![p] = v]
            BY <1>6 DEF LoadMapping
        <3> QED BY <3>1 DEF TypeOK
    <2>3. UNCHANGED <<files, nsJson, sensorMap, todo, shm, clients, bounds, clean, due>>
        BY <1>6 DEF LoadMapping
    <2> QED BY <2>1, <2>2, <2>3 DEF TypeOK
<1>7. ASSUME NEW p \in Procs, LoadNamespaces(p) PROVE TypeOK'
    <2>1. /\ pc' \in [Procs -> {"down", "idle", "mapping", "namespaces", "create"}]
          /\ answer' \in [Procs -> {"none", "true", "false", "threw"}]
        <3>1. Goto(p, "create") \/ Answer(p, "threw") \/ Answer(p, "false")
            BY <1>7 DEF LoadNamespaces
        <3> QED BY <3>1, AnswerType
    <2>2. /\ nsJson' \in [Procs -> {"null", "illtyped", "good"}]
          /\ sensorMap' \in [Procs -> SUBSET Mapped]
          /\ todo' \in [Procs -> SUBSET Mapped]
        <3>1. MappedTo(p) \subseteq Mapped
            BY Producers
        <3>2. /\ nsJson' = [nsJson EXCEPT ![p] = NamespacesOf(p)]
              /\ sensorMap' = sensorMap \/ sensorMap' = [sensorMap EXCEPT ![p] = {}]
              /\ todo' = todo \/ todo' = [todo EXCEPT ![p] = MappedTo(p)]
            BY <1>7 DEF LoadNamespaces
        <3>3. /\ nsJson \in [Procs -> {"null", "illtyped", "good"}]
              /\ sensorMap \in [Procs -> SUBSET Mapped]
              /\ todo \in [Procs -> SUBSET Mapped]
            BY DEF TypeOK
        <3>4. NamespacesOf(p) \in {"null", "illtyped", "good"}
            BY NamespacesType
        <3> QED BY ONLY <3>1, <3>2, <3>3, <3>4
    <2>3. shm' \in [Procs \X Mapped -> Segments] /\ due' \in [Clients -> SUBSET Items]
        <3>1. UNCHANGED <<shm, due>> \/ Change(Destroyed(p))
            BY <1>7 DEF LoadNamespaces
        <3>2. CASE UNCHANGED <<shm, due>>
            BY <3>2 DEF TypeOK
        <3>3. CASE Change(Destroyed(p))
            BY <3>3, ChangeType, DestroyedType
        <3> QED BY <3>1, <3>2, <3>3
    <2>4. UNCHANGED <<files, shmMappingJson, clients, bounds, clean>>
        BY <1>7 DEF LoadNamespaces
    <2> QED BY <2>1, <2>2, <2>3, <2>4 DEF TypeOK
<1>8. ASSUME NEW p \in Procs, CreateNamespace(p) PROVE TypeOK'
    <2>1. \A m \in todo[p], s \in Segments :
             [shm EXCEPT ![<<p, m>>] = s] \in [Procs \X Mapped -> Segments]
        BY DEF TypeOK
    <2>2. \/ UNCHANGED <<shm, due>>
          \/ \E m \in todo[p], s \in Segments : Change([shm EXCEPT ![<<p, m>>] = s])
        BY <1>8, CreateChanges
    <2>3. shm' \in [Procs \X Mapped -> Segments] /\ due' \in [Clients -> SUBSET Items]
        <3>1. CASE UNCHANGED <<shm, due>>
            BY <3>1 DEF TypeOK
        <3>2. ASSUME NEW m \in todo[p], NEW s \in Segments, Change([shm EXCEPT ![<<p, m>>] = s])
              PROVE  /\ shm' \in [Procs \X Mapped -> Segments]
                     /\ due' \in [Clients -> SUBSET Items]
            BY <3>2, <2>1, ChangeType
        <3> QED BY <2>2, <3>1, <3>2
    <2>4. /\ pc' \in [Procs -> {"down", "idle", "mapping", "namespaces", "create"}]
          /\ answer' \in [Procs -> {"none", "true", "false", "threw"}]
        <3>1. UNCHANGED <<pc, answer>> \/ Answer(p, "false")
            BY <1>8 DEF CreateNamespace
        <3>2. CASE UNCHANGED <<pc, answer>>
            BY <3>2 DEF TypeOK
        <3>3. CASE Answer(p, "false")
            BY <3>3, AnswerType
        <3> QED BY <3>1, <3>2, <3>3
    <2>5. /\ sensorMap' \in [Procs -> SUBSET Mapped]
          /\ todo' \in [Procs -> SUBSET Mapped]
          /\ clean' \in [Procs -> BOOLEAN]
        <3>1. /\ sensorMap \in [Procs -> SUBSET Mapped]
              /\ todo \in [Procs -> SUBSET Mapped]
              /\ clean \in [Procs -> BOOLEAN]
            BY DEF TypeOK
        <3>2. PICK m \in todo[p] :
                 /\ sensorMap' = sensorMap \/ sensorMap' = [sensorMap EXCEPT ![p] = @ \cup {m}]
                 /\ todo' = [todo EXCEPT ![p] = {}] \/ todo' = [todo EXCEPT ![p] = @ \ {m}]
                 /\ clean' = clean \/ clean' = [clean EXCEPT ![p] = FALSE]
            BY <1>8 DEF CreateNamespace
        <3>3. m \in Mapped
            BY <3>1
        <3>4. sensorMap' \in [Procs -> SUBSET Mapped]
            BY ONLY <3>1, <3>2, <3>3
        <3>5. todo' \in [Procs -> SUBSET Mapped]
            BY ONLY <3>1, <3>2
        <3>6. clean' \in [Procs -> BOOLEAN]
            BY ONLY <3>1, <3>2
        <3> QED BY <3>4, <3>5, <3>6
    <2>6. failures' \in 0 .. MaxFailures
        BY <1>8 DEF CreateNamespace, TypeOK
    <2>7. UNCHANGED <<files, shmMappingJson, nsJson, clients, starts>>
        BY <1>8 DEF CreateNamespace
    <2> QED BY <2>3, <2>4, <2>5, <2>6, <2>7 DEF TypeOK
<1>9. ASSUME NEW p \in Procs, EndInit(p) PROVE TypeOK'
    BY <1>9 DEF EndInit, Answer, TypeOK
<1>10. ASSUME NEW p \in Procs, Publish(p) PROVE TypeOK'
    <2>1. PICK m \in sensorMap[p], o \in Objects :
             Change([shm EXCEPT ![<<p, m>>] = @ \cup {o}])
        BY <1>10 DEF Publish
    <2>2. shm[<<p, m>>] \cup {o} \in Segments /\ m \in Mapped
        BY DEF OpenInv, TypeOK, Segments
    <2>3. [shm EXCEPT ![<<p, m>>] = @ \cup {o}] \in [Procs \X Mapped -> Segments]
        BY <2>2 DEF TypeOK
    <2> QED BY <1>10, <2>1, <2>3, ChangeType DEF Publish, TypeOK
<1>11. ASSUME NEW c \in Clients, GetAllMRDValues(c) PROVE TypeOK'
    <2>1. /\ lookup' \in [Clients -> {"unset", "empty", "full"}]
          /\ shmMappingJson' \in [Procs \cup Clients -> {"null", "nokey", "good"}]
        <3>1. \/ UNCHANGED <<lookup, shmMappingJson>>
              \/ /\ lookup' = [lookup EXCEPT ![c] = LookupOf(c)]
                 /\ shmMappingJson' = [shmMappingJson EXCEPT ![c] = LoadedBy(c)]
            BY <1>11 DEF GetAllMRDValues
        <3>2. /\ lookup \in [Clients -> {"unset", "empty", "full"}]
              /\ shmMappingJson \in [Procs \cup Clients -> {"null", "nokey", "good"}]
            BY DEF TypeOK
        <3>3. LookupOf(c) \in {"empty", "full"} /\ LoadedBy(c) \in {"null", "nokey", "good"}
            BY LookupType
        <3> QED BY ONLY <3>1, <3>2, <3>3
    <2>2. PICK m \in MRDs :
             /\ asked' = [asked EXCEPT ![c] = m]
             /\ \/ /\ m \in Mapped
                   /\ result' = [result EXCEPT ![c] = "pending"]
                   /\ left' = [left EXCEPT ![c] = Mapping[m]]
                   /\ due' = [due EXCEPT ![c] = {i \in InShm(shm, m) :
                                  \E j \in DOMAIN Mapping[m] : Mapping[m][j] = i[1]}]
                \/ /\ result' = [result EXCEPT ![c] = "notFound"]
                   /\ due' = [due EXCEPT ![c] = {}]
                   /\ left' = left
        BY <1>11 DEF GetAllMRDValues
    <2>3. left' \in [Clients -> Seq(Procs)]
        <3>1. left \in [Clients -> Seq(Procs)]
            BY DEF TypeOK
        <3> QED BY ONLY <2>2, <3>1, Producers
    <2>4. due' \in [Clients -> SUBSET Items]
        <3>1. due \in [Clients -> SUBSET Items]
            BY DEF TypeOK
        <3>2. {i \in InShm(shm, m) :
                   \E j \in DOMAIN Mapping[m] : Mapping[m][j] = i[1]} \subseteq Items
            BY DEF InShm
        <3> QED BY ONLY <2>2, <3>1, <3>2
    <2>5. /\ asked' \in [Clients -> MRDs]
          /\ result' \in [Clients -> {"none", "pending", "values", "noElements",
                                      "notFound"}]
        <3>1. /\ asked \in [Clients -> MRDs]
              /\ result \in [Clients -> {"none", "pending", "values", "noElements",
                                         "notFound"}]
            BY DEF TypeOK
        <3> QED BY ONLY <2>2, <3>1
    <2>6. /\ got' \in [Clients -> SUBSET Items]
          /\ missed' \in [Clients -> SUBSET Procs]
          /\ UNCHANGED <<files, prods, shm, listing, bounds>>
        BY <1>11 DEF GetAllMRDValues, NoValues, TypeOK
    <2> QED BY <2>1, <2>3, <2>4, <2>5, <2>6 DEF TypeOK
<1>12. ASSUME NEW c \in Clients, ReadProducer(c) PROVE TypeOK'
    <2>1. Head(left[c]) \in Procs /\ Tail(left[c]) \in Seq(Procs)
        BY <1>12, Producers DEF ReadProducer, TypeOK
    <2>2. asked[c] \in Mapped
        BY <1>12 DEF ReadProducer, ReadInv, CallInv
    <2>3. shm[<<Head(left[c]), asked[c]>>] \in Segments
        BY <2>1, <2>2 DEF TypeOK
    <2>4. \/ got' = got
          \/ /\ shm[<<Head(left[c]), asked[c]>>] \notin {Absent, Shell}
             /\ got' = [got EXCEPT ![c] =
                   @ \cup {<<Head(left[c]), o>> : o \in shm[<<Head(left[c]), asked[c]>>]}]
        BY <1>12 DEF ReadProducer
    <2>5. got' \in [Clients -> SUBSET Items]
        <3>1. CASE got' = got
            BY <3>1 DEF TypeOK
        <3>2. CASE got' # got
            <4>1. shm[<<Head(left[c]), asked[c]>>] \subseteq Objects
                BY <3>2, <2>3, <2>4 DEF Segments
            <4>2. {<<Head(left[c]), o>> : o \in shm[<<Head(left[c]), asked[c]>>]} \subseteq Items
                BY ONLY <4>1, <2>1 DEF Items
            <4>3. got \in [Clients -> SUBSET Items]
                BY DEF TypeOK
            <4> QED BY ONLY <3>2, <2>4, <4>2, <4>3
        <3> QED BY <3>1, <3>2
    <2>6. left' \in [Clients -> Seq(Procs)] /\ missed' \in [Clients -> SUBSET Procs]
        <3>1. /\ left' = [left EXCEPT ![c] = Tail(@)]
              /\ missed' = missed \/ missed' = [missed EXCEPT ![c] = @ \cup {Head(left[c])}]
            BY <1>12 DEF ReadProducer
        <3>2. left \in [Clients -> Seq(Procs)] /\ missed \in [Clients -> SUBSET Procs]
            BY DEF TypeOK
        <3> QED BY ONLY <3>1, <3>2, <2>1
    <2>7. UNCHANGED <<files, shmMappingJson, prods, shm, lookup, listing, asked,
                      result, bounds, due>>
        BY <1>12 DEF ReadProducer
    <2> QED BY <2>5, <2>6, <2>7 DEF TypeOK
<1>13. ASSUME NEW c \in Clients, EndRead(c) PROVE TypeOK'
    BY <1>13 DEF EndRead, TypeOK
<1>14. ASSUME NEW c \in Clients, GetMrdNamespacesValues(c) PROVE TypeOK'
    BY <1>14, LookupType DEF GetMrdNamespacesValues, TypeOK
<1>15. CASE UNCHANGED vars
    BY <1>15 DEF vars, TypeOK
<1> QED BY <1>1, <1>2, <1>3, <1>4, <1>5, <1>6, <1>7, <1>8, <1>9, <1>10, <1>11,
           <1>12, <1>13, <1>14, <1>15 DEF Next, ProducerStep, ClientStep

-----------------------------------------------------------------------------
(* What the steps of one process leave alone.                              *)

\* A producer's step: clients, other producers and their segments.
LEMMA ProducerFrame ==
    ASSUME TypeOK, NEW p \in Procs, ProducerStep(p)
    PROVE  /\ UNCHANGED <<files, clients>>
           /\ \A q \in Procs \ {p} :
                 /\ pc'[q] = pc[q] /\ answer'[q] = answer[q]
                 /\ sensorMap'[q] = sensorMap[q] /\ todo'[q] = todo[q]
                 /\ clean'[q] = clean[q] /\ shmMappingJson'[q] = shmMappingJson[q]
                 /\ nsJson'[q] = nsJson[q]
           /\ \A q \in Procs \ {p}, m \in Mapped : shm'[<<q, m>>] = shm[<<q, m>>]
           /\ UNCHANGED <<shm, due>> \/ Change(shm')
<1> USE DEF prods, bounds, TypeOK
<1>1. CASE Start(p) BY <1>1 DEF Start
<1>2. CASE Exit(p) BY <1>2 DEF Exit, Down, Change, Destroyed
<1>3. CASE Die(p) BY <1>3 DEF Die, Down
<1>4. CASE NamespaceInit(p) BY <1>4 DEF NamespaceInit
<1>5. CASE LoadMapping(p) BY <1>5 DEF LoadMapping, Goto, Answer
<1>6. CASE LoadNamespaces(p)
    <2>1. UNCHANGED <<files, clients, clean, shmMappingJson>>
        BY <1>6 DEF LoadNamespaces
    <2>2. UNCHANGED <<shm, due>> \/ Change(Destroyed(p))
        BY <1>6 DEF LoadNamespaces
    <2>3. UNCHANGED <<shm, due>> \/ Change(shm')
        BY <2>2 DEF Change
    <2>4. \A q \in Procs \ {p}, m \in Mapped : shm'[<<q, m>>] = shm[<<q, m>>]
        BY <2>2 DEF Change, Destroyed
    <2>5. \A q \in Procs \ {p} : pc'[q] = pc[q] /\ answer'[q] = answer[q]
        <3>1. Goto(p, "create") \/ Answer(p, "threw") \/ Answer(p, "false")
            BY <1>6 DEF LoadNamespaces
        <3> QED BY <3>1 DEF Goto, Answer
    <2>6. \A q \in Procs \ {p} : /\ sensorMap'[q] = sensorMap[q] /\ todo'[q] = todo[q]
                                 /\ nsJson'[q] = nsJson[q]
        BY <1>6 DEF LoadNamespaces
    <2> QED BY <2>1, <2>3, <2>4, <2>5, <2>6
<1>7. CASE CreateNamespace(p)
    <2>1. UNCHANGED <<files, clients, shmMappingJson>>
        BY <1>7 DEF CreateNamespace
    <2>2. \/ UNCHANGED <<shm, due>>
          \/ \E m \in todo[p], s \in Segments : Change([shm EXCEPT ![<<p, m>>] = s])
        BY <1>7, CreateChanges
    <2>3. UNCHANGED <<shm, due>> \/ Change(shm')
        BY <2>2 DEF Change
    <2>4. \A q \in Procs \ {p}, m \in Mapped : shm'[<<q, m>>] = shm[<<q, m>>]
        <3>1. ASSUME NEW q \in Procs \ {p}, NEW n \in Mapped, NEW m \in todo[p], NEW s \in Segments
              PROVE  [shm EXCEPT ![<<p, m>>] = s][<<q, n>>] = shm[<<q, n>>]
            <4>1. DOMAIN shm = Procs \X Mapped /\ <<p, m>> # <<q, n>>
                OBVIOUS
            <4> QED BY ONLY <4>1
        <3>2. \/ shm' = shm
              \/ \E m \in todo[p], s \in Segments : shm' = [shm EXCEPT ![<<p, m>>] = s]
            BY <2>2 DEF Change
        <3> QED BY ONLY <3>1, <3>2
    <2>5. \A q \in Procs \ {p} : pc'[q] = pc[q] /\ answer'[q] = answer[q]
        BY <1>7 DEF CreateNamespace, Answer
    <2>6. \A q \in Procs \ {p} : /\ sensorMap'[q] = sensorMap[q] /\ todo'[q] = todo[q]
                                 /\ clean'[q] = clean[q] /\ nsJson'[q] = nsJson[q]
        BY <1>7 DEF CreateNamespace
    <2> QED BY <2>1, <2>3, <2>4, <2>5, <2>6
<1>8. CASE EndInit(p) BY <1>8 DEF EndInit, Answer
<1>9. CASE Publish(p) BY <1>9 DEF Publish, Change
<1> QED BY <1>1, <1>2, <1>3, <1>4, <1>5, <1>6, <1>7, <1>8, <1>9 DEF ProducerStep

\* A client's step: files, producers, segments and other clients.  It may load
\* the mapping for a producer that is in its process.
LEMMA ClientFrame ==
    ASSUME TypeOK, NEW c \in Clients, ClientStep(c)
    PROVE  /\ UNCHANGED <<files, prods, shm>>
           /\ \A p \in Procs : \/ shmMappingJson'[p] = shmMappingJson[p]
                               \/ /\ shmMappingJson[p] = "null"
                                  /\ shmMappingJson'[p] \in {mapFile, "null"}
           /\ \A d \in Clients \ {c} :
                 /\ asked'[d] = asked[d] /\ left'[d] = left[d] /\ got'[d] = got[d]
                 /\ result'[d] = result[d] /\ missed'[d] = missed[d] /\ due'[d] = due[d]
<1> USE DEF bounds, TypeOK
<1>1. CASE GetAllMRDValues(c) BY <1>1 DEF GetAllMRDValues, NoValues, LoadedBy
<1>2. CASE ReadProducer(c) BY <1>2 DEF ReadProducer
<1>3. CASE EndRead(c) BY <1>3 DEF EndRead
<1>4. CASE GetMrdNamespacesValues(c) BY <1>4 DEF GetMrdNamespacesValues, LoadedBy
<1> QED BY <1>1, <1>2, <1>3, <1>4 DEF ClientStep

-----------------------------------------------------------------------------
(* What the aggregator has open.                                           *)

\* The segments of a producer change by its own steps: with its aggregator, by
\* the creation of a namespace that is not open yet, or by an insertion.
LEMMA NextOpenInv == TypeOK /\ OpenInv /\ InitInv /\ [Next]_vars => OpenInv'
<1> SUFFICES ASSUME TypeOK, OpenInv, InitInv, [Next]_vars PROVE OpenInv'
    OBVIOUS
<1> DEFINE Good(q) == \A m \in sensorMap[q] : shm[<<q, m>>] \in SUBSET Objects
<1>o. \A q \in Procs : Good(q)
    BY DEF OpenInv
<1>1. ASSUME NEW p \in Procs, ProducerStep(p) PROVE OpenInv'
    <2>1. ASSUME NEW q \in Procs \ {p} PROVE Good(q)'
        <3>1. sensorMap[q] \subseteq Mapped
            BY DEF TypeOK
        <3> QED BY <1>1, <3>1, <1>o, ProducerFrame
    <2>2. Good(p)'
        <3>1. CASE Start(p) BY <3>1, <1>o DEF Start
        <3>2. CASE Exit(p) \/ Die(p) BY <3>2 DEF Exit, Die, Down, TypeOK
        <3>3. CASE NamespaceInit(p) BY <3>3, <1>o DEF NamespaceInit
        <3>4. CASE LoadMapping(p) BY <3>4, <1>o DEF LoadMapping
        <3>5. CASE LoadNamespaces(p)
            <4>1. \/ UNCHANGED <<sensorMap, shm>>
                  \/ sensorMap' = [sensorMap EXCEPT ![p] = {}]
                BY <3>5 DEF LoadNamespaces
            <4> QED BY <4>1, <1>o DEF TypeOK
        <3>6. CASE CreateNamespace(p)
            <4>1. PICK m \in todo[p] :
                     \/ UNCHANGED <<sensorMap, shm>>
                     \/ /\ sensorMap' = [sensorMap EXCEPT ![p] = @ \cup {m}]
                        /\ shm' = [shm EXCEPT ![<<p, m>>] = {}]
                     \/ /\ sensorMap' = sensorMap
                        /\ \E s \in {Absent, Shell} : shm' = [shm EXCEPT ![<<p, m>>] = s]
                BY <3>6 DEF CreateNamespace, Change
            <4>2. m \in Mapped /\ m \notin sensorMap[p] /\ sensorMap[p] \subseteq Mapped
                BY <3>6 DEF CreateNamespace, InitInv, TypeOK
            <4>3. \A n \in Mapped : \A s : [shm EXCEPT ![<<p, m>>] = s][<<p, n>>] =
                                          IF n = m THEN s ELSE shm[<<p, n>>]
                BY <4>2 DEF TypeOK
            <4>4. [sensorMap EXCEPT ![p] = @ \cup {m}][p] = sensorMap[p] \cup {m}
                BY DEF TypeOK
            <4>5. CASE UNCHANGED <<sensorMap, shm>>
                BY <4>5, <1>o
            <4>6. CASE /\ sensorMap' = [sensorMap EXCEPT ![p] = @ \cup {m}]
                       /\ shm' = [shm EXCEPT ![<<p, m>>] = {}]
                BY ONLY <4>2, <4>3, <4>4, <4>6, <1>o, p \in Procs
            <4>7. ASSUME NEW s \in {Absent, Shell}, sensorMap' = sensorMap,
                         shm' = [shm EXCEPT ![<<p, m>>] = s]
                  PROVE  Good(p)'
                BY ONLY <4>2, <4>3, <4>7, <1>o, p \in Procs
            <4> QED BY <4>1, <4>5, <4>6, <4>7
        <3>7. CASE EndInit(p) BY <3>7, <1>o DEF EndInit
        <3>8. CASE Publish(p)
            <4>1. PICK m \in sensorMap[p], o \in Objects :
                     shm' = [shm EXCEPT ![<<p, m>>] = @ \cup {o}]
                BY <3>8 DEF Publish, Change
            <4>2. sensorMap[p] \subseteq Mapped /\ sensorMap' = sensorMap
                BY <3>8 DEF Publish, prods, TypeOK
            <4>3. \A n \in Mapped : shm'[<<p, n>>] =
                     IF n = m THEN shm[<<p, m>>] \cup {o} ELSE shm[<<p, n>>]
                BY <4>1, <4>2 DEF TypeOK
            <4> QED BY <4>2, <4>3, <1>o
        <3> QED BY <1>1, <3>1, <3>2, <3>3, <3>4, <3>5, <3>6, <3>7, <3>8 DEF ProducerStep
    <2> QED BY <2>1, <2>2 DEF OpenInv
<1>2. ASSUME NEW c \in Clients, ClientStep(c) PROVE OpenInv'
    BY <1>2, <1>o, ClientFrame DEF prods, OpenInv
<1>3. CASE Install \/ UNCHANGED vars
    BY <1>3, <1>o DEF Install, vars, prods, OpenInv
<1> QED BY <1>1, <1>2, <1>3 DEF Next

-----------------------------------------------------------------------------
(* Calls of namespaceInit.                                                 *)

\* What is mapped to the producer goes from what it has still to create to what
\* it has open, and the call is answered when nothing is left.
LEMMA NextInitInv == TypeOK /\ InitInv /\ [Next]_vars => InitInv'
<1> SUFFICES ASSUME TypeOK, InitInv, [Next]_vars PROVE InitInv'
    OBVIOUS
<1> DEFINE Good(q) ==
        /\ Initializing(q) => answer[q] = "none"
        /\ pc[q] = "create" => /\ MappedTo(q) \subseteq sensorMap[q] \cup todo[q]
                               /\ sensorMap[q] \cap todo[q] = {}
        /\ answer[q] = "true" => MappedTo(q) \subseteq sensorMap[q]
<1>o. \A q \in Procs : Good(q)
    BY DEF InitInv
<1>t. /\ pc \in [Procs -> {"down", "idle", "mapping", "namespaces", "create"}]
      /\ answer \in [Procs -> {"none", "true", "false", "threw"}]
      /\ sensorMap \in [Procs -> SUBSET Mapped] /\ todo \in [Procs -> SUBSET Mapped]
    BY DEF TypeOK
<1>1. ASSUME NEW p \in Procs, ProducerStep(p) PROVE InitInv'
    <2>1. ASSUME NEW q \in Procs \ {p} PROVE Good(q)'
        BY <1>1, <1>o, ProducerFrame DEF Initializing
    <2>2. Good(p)'
        <3> USE <1>o, <1>t DEF Initializing
        <3>1. CASE Start(p) BY <3>1 DEF Start
        <3>2. CASE Exit(p) \/ Die(p) BY <3>2 DEF Exit, Die, Down
        <3>3. CASE NamespaceInit(p) BY <3>3 DEF NamespaceInit
        <3>4. CASE LoadMapping(p) BY <3>4 DEF LoadMapping, Goto, Answer
        <3>5. CASE LoadNamespaces(p) BY <3>5 DEF LoadNamespaces, Goto, Answer
        <3>6. CASE CreateNamespace(p)
            <4>1. PICK m \in todo[p] :
                     \/ Answer(p, "false")
                     \/ /\ sensorMap' = [sensorMap EXCEPT ![p] = @ \cup {m}]
                        /\ todo' = [todo EXCEPT ![p] = @ \ {m}]
                        /\ UNCHANGED <<pc, answer>>
                BY <3>6 DEF CreateNamespace
            <4>2. pc[p] = "create"
                BY <3>6 DEF CreateNamespace
            <4>3. CASE Answer(p, "false") BY <4>3 DEF Answer
            <4>4. CASE UNCHANGED <<pc, answer>> BY <4>1, <4>2, <4>4 DEF Answer
            <4> QED BY <4>1, <4>3, <4>4
        <3>7. CASE EndInit(p) BY <3>7 DEF EndInit, Answer
        <3>8. CASE Publish(p) BY <3>8 DEF Publish, prods
        <3> QED BY <1>1, <3>1, <3>2, <3>3, <3>4, <3>5, <3>6, <3>7, <3>8 DEF ProducerStep
    <2> QED BY <2>1, <2>2 DEF InitInv
<1>2. ASSUME NEW c \in Clients, ClientStep(c) PROVE InitInv'
    BY <1>2, <1>o, ClientFrame DEF prods, InitInv, Initializing
<1>3. CASE Install \/ UNCHANGED vars
    BY <1>3, <1>o DEF Install, vars, prods, InitInv, Initializing
<1> QED BY <1>1, <1>2, <1>3 DEF Next

-----------------------------------------------------------------------------
(* Calls that nothing stands in the way of.                                *)

\* A file that is good stays good, so a clean call loads both and goes on to its
\* answer, unless a namespace cannot be created.
LEMMA NextCleanInv == TypeOK /\ CleanInv /\ [Next]_vars => CleanInv'
<1> SUFFICES ASSUME TypeOK, CleanInv, [Next]_vars PROVE CleanInv'
    OBVIOUS
<1> DEFINE Good(q) == clean[q] =>
        /\ mapFile = "good" /\ shmMappingJson[q] # "nokey"
        /\ nsFile = "good" /\ nsJson[q] # "illtyped"
        /\ pc[q] # "down"
        /\ pc[q] \in {"namespaces", "create"} => shmMappingJson[q] = "good"
        /\ pc[q] = "idle" => answer[q] = "true"
<1>o. \A q \in Procs : Good(q)
    BY DEF CleanInv
<1>t. /\ pc \in [Procs -> {"down", "idle", "mapping", "namespaces", "create"}]
      /\ answer \in [Procs -> {"none", "true", "false", "threw"}]
      /\ shmMappingJson \in [Procs \cup Clients -> {"null", "nokey", "good"}]
      /\ nsJson \in [Procs -> {"null", "illtyped", "good"}]
      /\ clean \in [Procs -> BOOLEAN]
    BY DEF TypeOK
<1>1. ASSUME NEW p \in Procs, ProducerStep(p) PROVE CleanInv'
    <2>1. ASSUME NEW q \in Procs \ {p} PROVE Good(q)'
        BY <1>1, <1>o, ProducerFrame DEF files
    <2>2. Good(p)'
        <3> USE <1>o, <1>t DEF files
        <3>1. CASE Start(p) BY <3>1 DEF Start
        <3>2. CASE Exit(p) \/ Die(p) BY <3>2 DEF Exit, Die, Down
        <3>3. CASE NamespaceInit(p) BY <3>3 DEF NamespaceInit
        <3>4. CASE LoadMapping(p)
            <4>1. CASE shmMappingJson[p] # "null"
                BY <3>4, <4>1 DEF LoadMapping, Goto
            <4>2. CASE shmMappingJson[p] = "null" /\ clean[p]
                BY <3>4, <4>2 DEF LoadMapping, Goto
            <4>3. CASE ~clean[p]
                BY <3>4, <4>3 DEF LoadMapping
            <4> QED BY <4>1, <4>2, <4>3
        <3>5. CASE LoadNamespaces(p)
            <4>1. CASE clean[p]
                <5>1. nsFile = "good" /\ nsJson[p] # "illtyped" /\ shmMappingJson[p] = "good"
                    BY <3>5, <4>1 DEF LoadNamespaces
                <5>2. NamespacesOf(p) = "good"
                    BY <5>1 DEF NamespacesOf
                <5>3. /\ Goto(p, "create") /\ nsJson' = [nsJson EXCEPT ![p] = "good"]
                      /\ UNCHANGED <<files, shmMappingJson, clean>>
                    BY <3>5, <5>1, <5>2 DEF LoadNamespaces
                <5> QED BY <4>1, <5>1, <5>3 DEF Goto
            <4>2. CASE ~clean[p]
                BY <3>5, <4>2 DEF LoadNamespaces
            <4> QED BY <4>1, <4>2
        <3>6. CASE CreateNamespace(p)
            <4>1. \/ clean' = [clean EXCEPT ![p] = FALSE]
                  \/ UNCHANGED <<clean, pc, answer>>
                BY <3>6 DEF CreateNamespace
            <4>2. UNCHANGED <<files, shmMappingJson, nsJson>>
                BY <3>6 DEF CreateNamespace
            <4> QED BY <4>1, <4>2
        <3>7. CASE EndInit(p) BY <3>7 DEF EndInit, Answer
        <3>8. CASE Publish(p) BY <3>8 DEF Publish, prods
        <3> QED BY <1>1, <3>1, <3>2, <3>3, <3>4, <3>5, <3>6, <3>7, <3>8 DEF ProducerStep
    <2> QED BY <2>1, <2>2 DEF CleanInv
<1>2. ASSUME NEW c \in Clients, ClientStep(c) PROVE CleanInv'
    BY <1>2, <1>o, ClientFrame DEF files, prods, CleanInv
<1>3. CASE Install \/ UNCHANGED vars
    BY <1>3, <1>o DEF Install, vars, files, prods, CleanInv
<1> QED BY <1>1, <1>2, <1>3 DEF Next

-----------------------------------------------------------------------------
(* Reads.                                                                  *)

\* A producer can only take from what a client may count on.
LEMMA ProducerReadInv ==
    ASSUME TypeOK, ReadInv, NEW p \in Procs, ProducerStep(p)
    PROVE  ReadInv'
<1> SUFFICES ASSUME NEW c \in Clients PROVE CallInv(c)'
    BY DEF ReadInv
<1>1. CallInv(c)
    BY DEF ReadInv
<1>2. /\ asked' = asked /\ left' = left /\ got' = got
      /\ result' = result /\ missed' = missed
    BY ProducerFrame DEF clients
<1>3. CASE UNCHANGED <<shm, due>>
    BY <1>1, <1>2, <1>3 DEF CallInv, Answered, InShm
<1>4. CASE Change(shm')
    <2>1. due'[c] = IF asked[c] \in Mapped THEN due[c] \cap InShm(shm', asked[c]) ELSE {}
        BY <1>4 DEF Change
    <2> QED BY <1>1, <1>2, <2>1 DEF CallInv, Answered, InShm
<1> QED BY <1>3, <1>4, ProducerFrame

\* A client reads the producers of its list one by one, and what it may count on
\* is in the segments of those.
LEMMA ClientReadInv ==
    ASSUME TypeOK, ReadInv, NEW c \in Clients, ClientStep(c)
    PROVE  ReadInv'
<1>1. ASSUME NEW d \in Clients \ {c} PROVE CallInv(d)'
    <2>1. CallInv(d)
        BY DEF ReadInv
    <2> QED BY <2>1, ClientFrame DEF CallInv, Answered, InShm
<1>2. CallInv(c)'
    <2>c. CallInv(c)
        BY DEF ReadInv
    <2>1. CASE GetAllMRDValues(c)
        <3>1. PICK m \in MRDs :
                 /\ asked' = [asked EXCEPT ![c] = m]
                 /\ \/ /\ m \in Mapped
                       /\ result' = [result EXCEPT ![c] = "pending"]
                       /\ left' = [left EXCEPT ![c] = Mapping[m]]
                       /\ due' = [due EXCEPT ![c] = {i \in InShm(shm, m) :
                                      \E j \in DOMAIN Mapping[m] : Mapping[m][j] = i[1]}]
                    \/ /\ result' = [result EXCEPT ![c] = "notFound"]
                       /\ due' = [due EXCEPT ![c] = {}]
                       /\ left' = left
            BY <2>1 DEF GetAllMRDValues
        <3>2. result[c] # "pending" /\ left[c] = <<>> /\ shm' = shm
            BY <2>1, <2>c DEF GetAllMRDValues, CallInv
        <3>3. asked'[c] = m
            BY <3>1 DEF TypeOK
        <3>4. CASE result' = [result EXCEPT ![c] = "pending"]
            <4>1. /\ m \in Mapped
                  /\ result'[c] = "pending" /\ left'[c] = Mapping[m]
                  /\ due'[c] = {i \in InShm(shm, m) :
                                   \E j \in DOMAIN Mapping[m] : Mapping[m][j] = i[1]}
                BY <3>1, <3>4 DEF TypeOK
            <4> QED BY <3>2, <3>3, <4>1 DEF CallInv, Answered, InShm
        <3>5. CASE result' # [result EXCEPT ![c] = "pending"]
            <4>1. result'[c] = "notFound" /\ left'[c] = <<>> /\ due'[c] = {}
                BY <3>1, <3>2, <3>5 DEF TypeOK
            <4> QED BY <4>1 DEF CallInv, Answered
        <3> QED BY <3>4, <3>5
    <2>2. CASE ReadProducer(c)
        <3> DEFINE p == Head(left[c])
                   s == shm[<<p, asked[c]>>]
        <3>1. /\ left[c] # <<>> /\ left[c] \in Seq(Procs)
              /\ result[c] = "pending" /\ asked[c] \in Mapped
            BY <2>2, <2>c DEF ReadProducer, CallInv, TypeOK
        <3>2. /\ left'[c] = Tail(left[c])
              /\ UNCHANGED <<shm, asked, result, due>>
            <4>1. /\ left' = [left EXCEPT ![c] = Tail(@)]
                  /\ UNCHANGED <<shm, asked, result, due>>
                BY <2>2 DEF ReadProducer
            <4> QED BY <4>1 DEF TypeOK
        <3>3. got[c] \subseteq got'[c] /\ missed[c] \subseteq missed'[c]
            <4>1. /\ got' = got \/ \E t : got' = [got EXCEPT ![c] = @ \cup t]
                  /\ missed' = missed \/ missed' = [missed EXCEPT ![c] = @ \cup {p}]
                BY <2>2 DEF ReadProducer
            <4> QED BY <4>1 DEF TypeOK
        <3>4. s \notin {Absent, Shell} =>
                 (\A o \in s : <<p, o>> \in got'[c]) \/ p \in missed'[c]
            <4>1. \/ s \in {Absent, Shell}
                  \/ got' = [got EXCEPT ![c] = @ \cup {<<p, o>> : o \in s}]
                  \/ missed' = [missed EXCEPT ![c] = @ \cup {p}]
                BY <2>2 DEF ReadProducer
            <4>2. /\ got \in [Clients -> SUBSET Items]
                  /\ missed \in [Clients -> SUBSET Procs]
                BY DEF TypeOK
            <4>3. CASE got' = [got EXCEPT ![c] = @ \cup {<<p, o>> : o \in s}]
                <5>1. got'[c] = got[c] \cup {<<p, o>> : o \in s}
                    BY <4>2, <4>3
                <5> HIDE DEF p, s
                <5> QED BY <5>1
            <4>4. CASE missed' = [missed EXCEPT ![c] = @ \cup {p}]
                BY <4>2, <4>4
            <4> QED BY <4>1, <4>3, <4>4
        <3>5. ASSUME NEW i \in due[c] PROVE
                 \/ i \in got'[c] \/ i[1] \in missed'[c]
                 \/ \E j \in DOMAIN left'[c] : left'[c][j] = i[1]
            <4>1. CASE i \in got[c] \/ i[1] \in missed[c]
                BY <3>3, <4>1
            <4>2. CASE i[1] = p
                <5>1. i \in InShm(shm, asked[c])
                    BY <3>1, <2>c DEF CallInv
                <5>2. i = <<i[1], i[2]>> /\ s \notin {Absent, Shell} /\ i[2] \in s
                    BY <4>2, <5>1 DEF InShm, Items
                <5> QED BY <3>4, <4>2, <5>2
            <4>3. CASE /\ i[1] # p
                       /\ \E j \in DOMAIN left[c] : left[c][j] = i[1]
                <5>1. PICK j \in DOMAIN left[c] : left[c][j] = i[1]
                    BY <4>3
                <5>2. j \in 1 .. Len(left[c]) /\ j # 1
                    BY <3>1, <4>3, <5>1
                <5>3. /\ j - 1 \in DOMAIN Tail(left[c])
                      /\ Tail(left[c])[j - 1] = left[c][j]
                    BY ONLY <3>1, <5>2
                <5> QED BY <3>2, <5>1, <5>3
            <4> QED BY <3>1, <4>1, <4>2, <4>3, <2>c DEF CallInv
        <3> QED BY <3>1, <3>2, <3>5, <2>c DEF CallInv, Answered, InShm
    <2>3. CASE EndRead(c)
        <3>1. /\ result[c] = "pending" /\ left[c] = <<>>
              /\ result'[c] \in {"values", "noElements"}
              /\ UNCHANGED <<shm, asked, left, got, missed, due>>
            BY <2>3 DEF EndRead, TypeOK
        <3>2. \A i \in due[c] : i \in got[c] \/ i[1] \in missed[c]
            BY <3>1, <2>c DEF CallInv
        <3> QED BY <3>1, <3>2, <2>c DEF CallInv, Answered, InShm
    <2>4. CASE GetMrdNamespacesValues(c)
        BY <2>c, <2>4 DEF GetMrdNamespacesValues, CallInv, Answered
    <2> QED BY <2>1, <2>2, <2>3, <2>4 DEF ClientStep
<1> QED BY <1>1, <1>2 DEF ReadInv

\* Reads, in every step.
LEMMA NextReadInv == TypeOK /\ ReadInv /\ [Next]_vars => ReadInv'
<1> SUFFICES ASSUME TypeOK, ReadInv, [Next]_vars PROVE ReadInv'
    OBVIOUS
<1>1. CASE Install \/ UNCHANGED vars
    BY <1>1 DEF Install, vars, clients, ReadInv, CallInv, Answered, InShm
<1> QED BY <1>1, ProducerReadInv, ClientReadInv DEF Next

-----------------------------------------------------------------------------
(* The directory that clients are promised.                                *)

\* The producers of a sequence are its first one and those of its tail.
LEMMA RangeOfTail ==
    ASSUME NEW s \in Seq(Procs), s # <<>>
    PROVE  /\ Head(s) \in Range(s)
           /\ Range(Tail(s)) \in {Range(s), Range(s) \ {Head(s)}}
<1>1. Head(s) = s[1] /\ 1 \in DOMAIN s
    OBVIOUS
<1>2. ASSUME NEW j \in DOMAIN Tail(s) PROVE Tail(s)[j] \in Range(s)
    <2>1. Tail(s)[j] = s[j + 1] /\ j + 1 \in DOMAIN s
        BY <1>2
    <2> QED BY <2>1 DEF Range
<1>3. ASSUME NEW j \in DOMAIN s, j # 1 PROVE s[j] \in Range(Tail(s))
    <2>1. j - 1 \in DOMAIN Tail(s) /\ Tail(s)[j - 1] = s[j]
        BY <1>3
    <2> QED BY <2>1 DEF Range
<1>4. Range(Tail(s)) \subseteq Range(s)
    BY <1>2 DEF Range
<1>5. Range(s) \subseteq Range(Tail(s)) \cup {Head(s)}
    BY <1>1, <1>3 DEF Range
<1> QED BY <1>1, <1>4, <1>5 DEF Range

\* At the start no producer offers anything and no client asks.
LEMMA InitDirectory == Init => Directory!Init
<1> SUFFICES ASSUME Init PROVE Directory!Init
    OBVIOUS
<1>1. AbsRegion = [s \in Procs \X MRDs |-> {}]
    BY DEF Init, AbsRegion, Offered
<1>2. AbsUnasked = [c \in Clients |-> {}]
    BY DEF Init, AbsUnasked, Range
<1>3. AbsReading = [c \in Clients |-> FALSE]
    BY DEF Init, AbsReading
<1> QED BY <1>1, <1>2, <1>3 DEF Init, Directory!Init

\* Segments of one producer that come to offer nothing are regions withdrawn.
LEMMA Withdrawal ==
    ASSUME NEW p \in Procs, NEW M \in SUBSET Mapped, UNCHANGED clients,
           \A s \in Procs \X Mapped :
               Offered(shm'[s]) = IF s[1] = p /\ s[2] \in M THEN {} ELSE Offered(shm[s])
    PROVE  Directory!Withdraw(p)
<1>1. AbsRegion' = [s \in Procs \X MRDs |->
                       IF s[1] = p /\ s[2] \in M THEN {} ELSE AbsRegion[s]]
    BY DEF AbsRegion
<1>2. M \in SUBSET MRDs
    BY MrdServiceAssumption
<1>3. UNCHANGED <<asked, AbsUnasked, got, AbsReading>>
    BY DEF clients, AbsUnasked, AbsReading
<1> QED BY <1>1, <1>2, <1>3 DEF Directory!Withdraw

\* What a producer does is an offer, a withdrawal of whole regions, or nothing
\* that clients see.
LEMMA ProducerDirectory ==
    ASSUME TypeOK, OpenInv, NEW p \in Procs, ProducerStep(p)
    PROVE  [Directory!Next]_(Directory!vars)
<1>1. UNCHANGED clients
    BY ProducerFrame
<1>2. UNCHANGED <<asked, AbsUnasked, got, AbsReading>>
    BY <1>1 DEF clients, AbsUnasked, AbsReading
<1>3. CASE shm' = shm
    BY <1>2, <1>3 DEF Directory!vars, AbsRegion
<1>4. CASE Directory!Withdraw(p) \/ Directory!Offer(p)
    BY <1>4 DEF Directory!Next
<1>5. CASE Change(Destroyed(p))
    <2>1. sensorMap[p] \in SUBSET Mapped
        BY DEF TypeOK
    <2>2. \A s \in Procs \X Mapped :
             Offered(shm'[s]) =
                 IF s[1] = p /\ s[2] \in sensorMap[p] THEN {} ELSE Offered(shm[s])
        BY <1>5 DEF Change, Destroyed, Offered, TypeOK
    <2> QED BY <1>1, <1>4, <2>1, <2>2, Withdrawal
<1>6. CASE CreateNamespace(p)
    <2>1. CASE shm' = shm
        BY <1>3, <2>1
    <2>2. ASSUME NEW m \in todo[p], NEW x \in {{}, Absent, Shell},
                 shm' = [shm EXCEPT ![<<p, m>>] = x]
          PROVE  Directory!Withdraw(p)
        <3>1. {m} \in SUBSET Mapped
            BY DEF TypeOK
        <3>2. Offered(x) = {}
            BY DEF Offered
        <3>3. \A s \in Procs \X Mapped :
                 shm'[s] = IF s[1] = p /\ s[2] \in {m} THEN x ELSE shm[s]
            BY <2>2, <3>1 DEF TypeOK
        <3>4. \A s \in Procs \X Mapped :
                 Offered(shm'[s]) = IF s[1] = p /\ s[2] \in {m} THEN {} ELSE Offered(shm[s])
            BY <3>2, <3>3
        <3> QED BY <1>1, <3>1, <3>4, Withdrawal
    <2>3. \/ shm' = shm
          \/ \E m \in todo[p], x \in {{}, Absent, Shell} : shm' = [shm EXCEPT ![<<p, m>>] = x]
        BY <1>6 DEF CreateNamespace, Change
    <2> QED BY <1>4, <2>1, <2>2, <2>3
<1>7. CASE Publish(p)
    <2>1. PICK m \in sensorMap[p], o \in Objects :
             shm' = [shm EXCEPT ![<<p, m>>] = @ \cup {o}]
        BY <1>7 DEF Publish, Change
    <2>2. /\ m \in Mapped /\ m \in MRDs
          /\ shm[<<p, m>>] \in SUBSET Objects /\ shm[<<p, m>>] \cup {o} \in SUBSET Objects
        BY MrdServiceAssumption DEF OpenInv, TypeOK
    <2>3. /\ Offered(shm[<<p, m>>]) = shm[<<p, m>>]
          /\ Offered(shm[<<p, m>>] \cup {o}) = shm[<<p, m>>] \cup {o}
        BY <2>2, MrdServiceAssumption DEF Offered
    <2>4. \A s \in Procs \X Mapped :
             shm'[s] = IF s = <<p, m>> THEN shm[<<p, m>>] \cup {o} ELSE shm[s]
        BY <2>1, <2>2 DEF TypeOK
    <2>5. AbsRegion' = [AbsRegion EXCEPT ![<<p, m>>] = @ \cup {o}]
        BY <2>2, <2>3, <2>4 DEF AbsRegion
    <2>6. Directory!Offer(p)
        BY <1>2, <2>2, <2>5 DEF Directory!Offer
    <2> QED BY <1>4, <2>6
<1>8. CASE ~(CreateNamespace(p) \/ Publish(p))
    <2>1. shm' = shm \/ Change(Destroyed(p))
        BY <1>8 DEF ProducerStep, Start, Exit, Die, NamespaceInit, LoadMapping,
                    LoadNamespaces, EndInit
    <2> QED BY <1>3, <1>5, <2>1
<1> QED BY <1>6, <1>7, <1>8

\* What a client does is a question, a producer asked, an answer, or nothing.
LEMMA ClientDirectory ==
    ASSUME TypeOK, ReadInv, NEW c \in Clients, ClientStep(c)
    PROVE  [Directory!Next]_(Directory!vars)
<1>1. AbsRegion' = AbsRegion
    BY ClientFrame DEF AbsRegion
<1>2. CallInv(c)
    BY DEF ReadInv
<1>t. /\ asked \in [Clients -> MRDs] /\ left \in [Clients -> Seq(Procs)]
      /\ got \in [Clients -> SUBSET Items]
      /\ result \in [Clients -> {"none", "pending", "values", "noElements", "notFound"}]
    BY DEF TypeOK
<1>3. ASSUME GetAllMRDValues(c) PROVE Directory!Ask(c)
    <2>1. result[c] # "pending" /\ got' = [got EXCEPT ![c] = {}]
        BY <1>3 DEF GetAllMRDValues, NoValues
    <2>2. PICK m \in MRDs :
             /\ asked' = [asked EXCEPT ![c] = m]
             /\ \/ /\ m \in Mapped
                   /\ result' = [result EXCEPT ![c] = "pending"]
                   /\ left' = [left EXCEPT ![c] = Mapping[m]]
                \/ /\ result' = [result EXCEPT ![c] = "notFound"]
                   /\ left' = left
        BY <1>3 DEF GetAllMRDValues
    <2>3. left[c] = <<>>
        BY <1>2, <2>1 DEF CallInv
    <2>4. ~AbsReading[c]
        BY <2>1 DEF AbsReading
    <2>5. PICK taken \in BOOLEAN :
             /\ AbsReading' = [AbsReading EXCEPT ![c] = taken]
             /\ AbsUnasked' = [AbsUnasked EXCEPT ![c] = IF taken THEN AbsServers[m] ELSE {}]
        <3>1. CASE /\ m \in Mapped
                   /\ result' = [result EXCEPT ![c] = "pending"]
                   /\ left' = [left EXCEPT ![c] = Mapping[m]]
            <4>1. AbsReading' = [AbsReading EXCEPT ![c] = TRUE]
                BY <1>t, <3>1 DEF AbsReading
            <4>2. AbsUnasked' = [AbsUnasked EXCEPT ![c] = AbsServers[m]]
                BY <1>t, <3>1 DEF AbsUnasked, AbsServers
            <4> QED BY <4>1, <4>2
        <3>2. CASE result' = [result EXCEPT ![c] = "notFound"] /\ left' = left
            <4>1. AbsReading' = [AbsReading EXCEPT ![c] = FALSE]
                BY <1>t, <3>2 DEF AbsReading
            <4>2. Range(left[c]) = {}
                BY <2>3 DEF Range
            <4>3. AbsUnasked' = [AbsUnasked EXCEPT ![c] = {}]
                BY <3>2, <4>2 DEF AbsUnasked
            <4> QED BY <4>1, <4>3
        <3> QED BY <2>2, <3>1, <3>2
    <2> QED BY <1>1, <2>1, <2>2, <2>4, <2>5 DEF Directory!Ask
<1>4. ASSUME ReadProducer(c) PROVE Directory!Collect(c)
    <2> DEFINE p == Head(left[c])
               x == shm[<<p, asked[c]>>]
    <2>1. /\ left[c] # <<>> /\ left' = [left EXCEPT ![c] = Tail(@)]
          /\ UNCHANGED <<asked, result>>
        BY <1>4 DEF ReadProducer
    <2>2. \/ got' = got
          \/ /\ x \notin {Absent, Shell}
             /\ got' = [got EXCEPT ![c] = @ \cup {<<p, o>> : o \in x}]
        BY <1>4 DEF ReadProducer
    <2>3. asked[c] \in Mapped /\ asked[c] \in MRDs
        BY <1>2, <1>t, <2>1 DEF CallInv
    <2>4. p \in Range(left[c]) /\ Range(Tail(left[c])) \in {Range(left[c]), Range(left[c]) \ {p}}
        BY <1>t, <2>1, RangeOfTail
    <2>5. p \in Procs
        BY <1>t, <2>1, Producers
    <2>6. \/ AbsUnasked' = AbsUnasked
          \/ AbsUnasked' = [AbsUnasked EXCEPT ![c] = @ \ {p}]
        BY <1>t, <2>1, <2>4 DEF AbsUnasked
    <2>7. p \in AbsUnasked[c]
        BY <2>4 DEF AbsUnasked
    <2>8. got' = got \/ got' = [got EXCEPT ![c] = @ \cup ({p} \X AbsRegion[<<p, asked[c]>>])]
        <3>1. x \notin {Absent, Shell} => AbsRegion[<<p, asked[c]>>] = x
            BY <2>3, <2>5 DEF AbsRegion, Offered
        <3>2. {<<p, o>> : o \in x} = {p} \X x
            OBVIOUS
        <3> HIDE DEF p, x
        <3> QED BY <2>2, <3>1, <3>2
    <2>9. AbsReading' = AbsReading
        BY <2>1 DEF AbsReading
    <2> HIDE DEF p
    <2> QED BY <1>1, <2>1, <2>6, <2>7, <2>8, <2>9 DEF Directory!Collect
<1>5. ASSUME EndRead(c) PROVE Directory!Answer(c)
    <2>1. /\ result[c] = "pending" /\ left[c] = <<>>
          /\ \E a \in {"values", "noElements"} : result' = [result EXCEPT ![c] = a]
          /\ UNCHANGED <<asked, left, got>>
        BY <1>5 DEF EndRead
    <2>2. AbsReading[c] /\ AbsReading' = [AbsReading EXCEPT ![c] = FALSE]
        BY <1>t, <2>1 DEF AbsReading
    <2>3. AbsUnasked[c] = {} /\ AbsUnasked' = AbsUnasked
        BY <2>1 DEF AbsUnasked, Range
    <2> QED BY <1>1, <2>1, <2>2, <2>3 DEF Directory!Answer
<1>6. CASE GetMrdNamespacesValues(c)
    BY <1>1, <1>6 DEF GetMrdNamespacesValues, Directory!vars, AbsUnasked, AbsReading
<1> QED BY <1>3, <1>4, <1>5, <1>6 DEF ClientStep, Directory!Next

\* Every step is one of the directory or none of its steps.
LEMMA NextDirectory == IInv /\ [Next]_vars => [Directory!Next]_(Directory!vars)
<1>1. UNCHANGED <<shm, clients>> => UNCHANGED Directory!vars
    BY DEF clients, Directory!vars, AbsRegion, AbsUnasked, AbsReading
<1> QED BY <1>1, ProducerDirectory, ClientDirectory DEF Next, Install, vars, IInv

-----------------------------------------------------------------------------
(* The theorems.                                                           *)

\* The invariant holds in every state.
THEOREM Inductive == Spec => []IInv
<1>1. IInv /\ [Next]_vars => IInv'
    BY NextTypeOK, NextOpenInv, NextInitInv, NextCleanInv, NextReadInv DEF IInv
<1> QED BY <1>1, InitIInv, PTL DEF Spec

\* Every variable keeps its type.
THEOREM TypeCorrect == Spec => []TypeOK
<1>1. IInv => TypeOK
    BY DEF IInv
<1> QED BY <1>1, Inductive, PTL

\* namespaceInit that answered true has left every mapped namespace open, with
\* its map: in every order of creation, after any failures and restarts.
THEOREM InitMeansOpen == Spec => []UpHasAll
<1>1. IInv => UpHasAll
    BY MrdServiceAssumption DEF IInv, OpenInv, InitInv, UpHasAll
<1> QED BY <1>1, Inductive, PTL

\* A call of namespaceInit that begins with both files in place, and to which no
\* namespace fails, answers true, whatever files the calls before it could not read
\* and whichever namespaces they could not create; unless one of them has read, and
\* so kept, a mapping without "Namespaces" or namespaces of the wrong types.
THEOREM Retries == Spec => []RetrySucceeds
<1>1. IInv => RetrySucceeds
    BY DEF IInv, CleanInv, RetrySucceeds
<1> QED BY <1>1, Inductive, PTL

\* An answer of getAllMRDValues holds every object that was published all the
\* time of the call by a producer whose lock the client had.
THEOREM NothingIsLost == Spec => []NothingLost
<1>1. IInv => NothingLost
    BY DEF IInv, ReadInv, CallInv, NothingLost
<1> QED BY <1>1, Inductive, PTL

\* Whatever producers do while their segments are read one by one, clients are
\* served as by a directory: nothing in an answer is of another MRD, of a producer
\* that is not listed for it, or from before the call.
THEOREM ServesDirectory == Spec => ImplementsDirectory
BY InitDirectory, NextDirectory, Inductive, PTL DEF Spec, ImplementsDirectory, Directory!Spec

=============================================================================
