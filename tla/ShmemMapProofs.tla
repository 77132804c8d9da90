--------------------------- MODULE ShmemMapProofs ---------------------------
(***************************************************************************)
(* Proofs about ShmemMap for any number of creators, threads, clients,     *)
(* keys and values and any bound on generations.  TypeOK is inductive on   *)
(* its own; HandleInv on top of it; LockInv on top of both; ContentInv and *)
(* SnapshotConsistent together on top of the three.                        *)
(***************************************************************************)
EXTENDS ShmemMap, TLAPS

\* The initial state is well typed.
LEMMA InitTypeOK == Init => TypeOK
BY ShmemMapAssumption
   DEF Init, TypeOK, Gens, Procs, Slot, Empty, Blank, Ops

\* One change to the map leaves an entry or no entry in the slot.
LEMMA StoredSlot ==
    ASSUME NEW o \in Ops, NEW slot \in Slot
    PROVE  Stored(o, slot) \in Slot
<1>1. CASE slot = Absent
    BY <1>1, ShmemMapAssumption DEF Stored, Slot, Entry, Ops, Kinds
<1>2. CASE slot \in Entry
    BY <1>2, ShmemMapAssumption DEF Stored, Slot, Entry, Ops, Kinds
<1> QED BY <1>1, <1>2 DEF Slot

\* The empty map is a map, the blank copy a copy.
LEMMA EmptyBlank ==
    /\ Empty \in [Keys -> Slot]
    /\ Blank \in [Keys -> Slot \cup {Garbage, Unread}]
BY DEF Empty, Blank, Slot

\* The end of a read leaves the reader's variables well typed.
LEMMA LeaveType ==
    ASSUME TypeOK, NEW r \in Readers, NEW keep \in BOOLEAN, Leave(r, keep)
    PROVE  /\ rpc' \in [Readers -> {"idle", "open", "openLock", "find", "wait", "scan",
                                    "dead"}]
           /\ rleft' \in [Readers -> SUBSET Keys]
           /\ got' \in [Readers -> [Keys -> Slot \cup {Garbage, Unread}]]
           /\ memory' \in [Procs -> 0 .. nseg]
           /\ memLock' \in [Procs -> 0 .. nlock]
<1>1. nseg \in Nat /\ nlock \in Nat
    BY ShmemMapAssumption DEF TypeOK
<1>2. memory' \in [Procs -> 0 .. nseg] /\ memLock' \in [Procs -> 0 .. nlock]
    <2>1. CASE keep /\ r \in CachedReaders
        BY <2>1 DEF Leave, TypeOK, handles
    <2>2. CASE ~(keep /\ r \in CachedReaders)
        <3>1. memory' = [memory EXCEPT ![r] = 0] /\ memLock' = [memLock EXCEPT ![r] = 0]
            BY <2>2 DEF Leave
        <3>2. memory \in [Procs -> 0 .. nseg] /\ memLock \in [Procs -> 0 .. nlock]
            BY DEF TypeOK
        <3>3. 0 \in 0 .. nseg /\ 0 \in 0 .. nlock
            BY <1>1
        <3> QED BY <3>1, <3>2, <3>3
    <2> QED BY <2>1, <2>2
<1> QED BY <1>2, EmptyBlank DEF Leave, TypeOK

\* A thread inside an operation has its process's segment and mutex.
LEMMA WriterHandles ==
    ASSUME TypeOK, HandleInv, NEW w \in Writers, wpc[w] # "idle"
    PROVE  /\ Home[w] \in Creators /\ cpc[Home[w]] = "up"
           /\ wop[w] \in Ops
           /\ WSeg(w) \in Gens /\ WLock(w) \in Gens
           /\ WLock(w) \in locksOf[WSeg(w)]
<1>1. Home[w] \in Creators /\ cpc[Home[w]] = "up" /\ wop[w] \in Ops
    BY ShmemMapAssumption DEF HandleInv, ThreadInv
<1>2. memory[Home[w]] # 0 /\ memLock[Home[w]] # 0
      /\ memLock[Home[w]] \in locksOf[memory[Home[w]]]
    BY <1>1 DEF HandleInv, CreatorInv, Mapped, Locked
<1>3. memory[Home[w]] \in 0 .. MaxGen /\ memLock[Home[w]] \in 0 .. MaxGen
    BY <1>1, ShmemMapAssumption DEF TypeOK, Procs
<1> QED BY <1>1, <1>2, <1>3, ShmemMapAssumption DEF WSeg, WLock, Gens

\* Typing is preserved by every step.  An operation in progress is a real
\* operation of a creator that is up, which HandleInv says.
LEMMA NextTypeOK == TypeOK /\ HandleInv /\ [Next]_vars => TypeOK'
<1> SUFFICES ASSUME TypeOK, HandleInv, [Next]_vars PROVE TypeOK'
    OBVIOUS
<1> USE ShmemMapAssumption
<1>1. ASSUME NEW c \in Creators, CreatorStep(c) PROVE TypeOK'
    <2> USE DEF TypeOK, names, segs, locks, handles, wvars, rvars, Procs, Gens
    <2>1. CASE RemoveShm(c) BY <2>1 DEF RemoveShm
    <2>2. CASE OpenOrCreateShm(c)
        <3>1. segName' \in 0 .. nseg' /\ nseg' \in 0 .. MaxGen /\ nseg <= nseg'
            BY <2>2 DEF OpenOrCreateShm
        <3>2. \E g \in 0 .. nseg' : memory' = [memory EXCEPT ![c] = g]
            BY <2>2, <3>1 DEF OpenOrCreateShm
        <3>3. memory' \in [Procs -> 0 .. nseg']
            BY <3>1, <3>2
        <3> QED BY <2>2, <3>1, <3>3 DEF OpenOrCreateShm
    <2>3. CASE RemoveLock(c) BY <2>3 DEF RemoveLock
    <2>4. CASE CreateLock(c)
        <3>1. memory[c] \in Gens
            BY <2>4 DEF CreateLock, HandleInv, CreatorInv, Mapped
        <3>2. CASE lockName = 0
            <4>1. /\ lockName' = nlock + 1 /\ nlock' = nlock + 1 /\ nlock + 1 \in Gens
                  /\ owner' = [owner EXCEPT ![nlock + 1] = NoOne]
                  /\ memLock' = [memLock EXCEPT ![c] = nlock + 1]
                  /\ locksOf' = [locksOf EXCEPT ![memory[c]] = @ \cup {nlock + 1}]
                  /\ memory' = memory
                BY <2>4, <3>2 DEF CreateLock
            <4>2. memLock' \in [Procs -> 0 .. nlock']
                BY <4>1
            <4>3. locksOf[memory[c]] \cup {nlock + 1} \in SUBSET Gens
                BY <3>1, <4>1
            <4>4. locksOf \in [Gens -> SUBSET Gens]
                OBVIOUS
            <4>5. locksOf' \in [Gens -> SUBSET Gens]
                BY ONLY <3>1, <4>1, <4>3, <4>4
            <4>6. owner' \in [Gens -> Writers \cup {NoOne}]
                BY <4>1
            <4>7. lockName' \in 0 .. nlock' /\ nlock' \in 0 .. MaxGen
                BY <4>1
            <4>8. cpc' = [cpc EXCEPT ![c] = "hasLock"]
                BY <2>4, <3>2 DEF CreateLock
            <4> QED BY <2>4, <4>1, <4>2, <4>5, <4>6, <4>7, <4>8 DEF CreateLock
        <3>3. CASE lockName # 0
            <4>1. memory' = [memory EXCEPT ![c] = 0]
                BY <2>4, <3>3 DEF CreateLock
            <4>2. memory \in [Procs -> 0 .. nseg] /\ 0 \in 0 .. nseg
                OBVIOUS
            <4>3. memory' \in [Procs -> 0 .. nseg]
                BY ONLY <4>1, <4>2
            <4> QED BY <2>4, <3>3, <4>3 DEF CreateLock
        <3> QED BY <3>2, <3>3
    <2>5. CASE FindOrConstructMap(c)
        <3>1. CASE built[memory[c]] BY <2>5, <3>1 DEF FindOrConstructMap
        <3>2. CASE ~built[memory[c]]
            <4>1. /\ built' \in [Gens -> BOOLEAN]
                  /\ content' \in [Gens -> [Keys -> Slot]]
                  /\ committed' \in [Gens -> [Keys -> Slot]]
                <5>1. /\ built' = [built EXCEPT ![memory[c]] = TRUE]
                      /\ content' = [content EXCEPT ![memory[c]] = Empty]
                      /\ committed' = [committed EXCEPT ![memory[c]] = Empty]
                    BY <2>5, <3>2 DEF FindOrConstructMap
                <5>2. /\ built \in [Gens -> BOOLEAN]
                      /\ content \in [Gens -> [Keys -> Slot]]
                      /\ committed \in [Gens -> [Keys -> Slot]]
                    OBVIOUS
                <5>3. built' \in [Gens -> BOOLEAN]
                    BY ONLY <5>1, <5>2
                <5>4. content' \in [Gens -> [Keys -> Slot]]
                    BY ONLY <5>1, <5>2, EmptyBlank
                <5>5. committed' \in [Gens -> [Keys -> Slot]]
                    BY ONLY <5>1, <5>2, EmptyBlank
                <5> QED BY <5>3, <5>4, <5>5
            <4> QED BY <2>5, <4>1 DEF FindOrConstructMap
        <3> QED BY <3>1, <3>2
    <2>6. CASE ClearMap(c) BY <2>6, EmptyBlank DEF ClearMap
    <2>7. CASE DestroyMap(c)
        <3>1. nseg \in Nat /\ nlock \in Nat
            OBVIOUS
        <3>2. memory' \in [Procs -> 0 .. nseg'] /\ memLock' \in [Procs -> 0 .. nlock']
            BY <2>7, <3>1 DEF DestroyMap
        <3> QED BY <2>7, <3>2, EmptyBlank DEF DestroyMap
    <2>8. CASE CrashCreator(c) BY <2>8 DEF CrashCreator
    <2> QED BY <1>1, <2>1, <2>2, <2>3, <2>4, <2>5, <2>6, <2>7, <2>8 DEF CreatorStep
<1>2. ASSUME NEW w \in Writers, BeginWrite(w) \/ WriterStep(w) PROVE TypeOK'
    <2> USE DEF TypeOK, names, segs, locks, handles, wvars, rvars, Procs, Gens,
                WKeep, WSeg, WLock
    <2>1. CASE BeginWrite(w) BY <2>1 DEF BeginWrite
    <2>2. CASE EnterGate(w) BY <2>2 DEF EnterGate
    <2>3. CASE DrainSharers(w) BY <2>3 DEF DrainSharers
    <2>4. CASE Apply(w)
        <3>1. wop[w] \in Ops /\ WSeg(w) \in Gens
            BY <2>4, WriterHandles DEF Apply
        <3>2. content[WSeg(w)][wop[w].key] \in Slot
            BY <3>1 DEF Ops
        <3>3. Stored(wop[w], content[WSeg(w)][wop[w].key]) \in Slot
            BY <3>1, <3>2, StoredSlot
        <3>4. content' \in [Gens -> [Keys -> Slot]]
            BY <2>4, <3>1, <3>3 DEF Apply, Empty, Slot, Ops
        <3> QED BY <2>4, <3>4 DEF Apply
    <2>5. CASE OutOfMemory(w) BY <2>5 DEF OutOfMemory
    <2>6. CASE ApplyTimestamp(w)
        <3>1. wop[w] \in Ops /\ WSeg(w) \in Gens
            BY <2>6, WriterHandles DEF ApplyTimestamp
        <3>2. content[WSeg(w)][wop[w].key] \in Slot
            BY <3>1 DEF Ops
        <3>4. content' \in [Gens -> [Keys -> Slot]]
            BY <2>6, <3>1, <3>2 DEF ApplyTimestamp, Slot, Entry, Ops
        <3> QED BY <2>6, <3>4 DEF ApplyTimestamp
    <2>7. CASE UnlockExclusive(w)
        <3>1. WSeg(w) \in Gens
            BY <2>7, WriterHandles DEF UnlockExclusive
        <3> QED BY <2>7, <3>1 DEF UnlockExclusive
    <2> QED BY <1>2, <2>1, <2>2, <2>3, <2>4, <2>5, <2>6, <2>7 DEF WriterStep
<1>3. ASSUME NEW r \in Readers, BeginRead(r) \/ ReaderStep(r) \/ CrashReader(r)
      PROVE  TypeOK'
    <2> USE DEF TypeOK, names, segs, locks, handles, wvars, rvars, Procs, Gens,
                RKeep
    <2>1. CASE BeginRead(r) BY <2>1, EmptyBlank DEF BeginRead
    <2>2. CASE OpenShm(r)
        <3>1. CASE segName = 0
            BY <2>2, <3>1, LeaveType DEF OpenShm
        <3>2. CASE ~(segName = 0)
            <4>1. memory' \in [Procs -> 0 .. nseg]
                BY <2>2, <3>2 DEF OpenShm
            <4> QED BY <2>2, <3>2, <4>1 DEF OpenShm
        <3> QED BY <3>1, <3>2
    <2>3. CASE OpenLock(r)
        <3>1. CASE lockName = 0
            BY <2>3, <3>1, LeaveType DEF OpenLock
        <3>2. CASE ~(lockName = 0)
            <4>1. memLock' \in [Procs -> 0 .. nlock]
                BY <2>3, <3>2 DEF OpenLock
            <4> QED BY <2>3, <3>2, <4>1 DEF OpenLock
        <3> QED BY <3>1, <3>2
    <2>4. CASE FindMap(r)
        <3>1. CASE ~built[memory[r]]
            BY <2>4, <3>1, LeaveType DEF FindMap
        <3>2. CASE ~(~built[memory[r]]) BY <2>4, <3>2 DEF FindMap
        <3> QED BY <3>1, <3>2
    <2>5. CASE LockSharable(r) BY <2>5 DEF LockSharable
    <2>6. CASE LockTimeout(r) BY <2>6, LeaveType DEF LockTimeout
    <2>7. CASE VisitKey(r)
        <3>1. memory[r] \in Gens
            BY <2>7 DEF VisitKey, HandleInv, ClientInv
        <3>2. \A k \in Keys : Visible(memory[r], k) \subseteq Slot \cup {Garbage, Unread}
            BY <3>1 DEF Visible
        <3> QED BY <2>7, <3>2 DEF VisitKey
    <2>8. CASE UnlockSharable(r) BY <2>8, LeaveType DEF UnlockSharable
    <2>9. CASE CrashReader(r) BY <2>9, EmptyBlank DEF CrashReader
    <2> QED BY <1>3, <2>1, <2>2, <2>3, <2>4, <2>5, <2>6, <2>7, <2>8, <2>9
            DEF ReaderStep
<1>4. CASE UNCHANGED vars
    BY <1>4 DEF TypeOK, vars, names, segs, locks, handles, wvars, rvars
<1> QED BY <1>1, <1>2, <1>3, <1>4 DEF Next

-----------------------------------------------------------------------------
(* What the steps of one actor leave alone.                                *)

\* A creator's step: clients and their locks, other processes' handles, other
\* processes' threads; mutexes are only ever freed by their creation.
LEMMA CreatorFrame ==
    ASSUME TypeOK, NEW c \in Creators, CreatorStep(c)
    PROVE  /\ UNCHANGED <<rvars, sharers>>
           /\ \A p \in Procs \ {c} : memory'[p] = memory[p] /\ memLock'[p] = memLock[p]
           /\ \A d \in Creators \ {c} : cpc'[d] = cpc[d]
           /\ \A w \in Writers : Home[w] # c => wpc'[w] = wpc[w] /\ wop'[w] = wop[w]
           /\ \A w \in Writers : wpc'[w] \in {wpc[w], "idle"}
           /\ \A w \in Writers : wpc'[w] # "idle" => wop'[w] = wop[w]
<1> USE DEF rvars, locks, handles, wvars, TypeOK
<1>1. CASE RemoveShm(c) BY <1>1 DEF RemoveShm
<1>2. CASE OpenOrCreateShm(c) BY <1>2 DEF OpenOrCreateShm
<1>3. CASE RemoveLock(c) BY <1>3 DEF RemoveLock
<1>4. CASE CreateLock(c) BY <1>4 DEF CreateLock
<1>5. CASE FindOrConstructMap(c) BY <1>5 DEF FindOrConstructMap
<1>6. CASE ClearMap(c) BY <1>6 DEF ClearMap
<1>7. CASE DestroyMap(c) BY <1>7 DEF DestroyMap
<1>8. CASE CrashCreator(c) BY <1>8 DEF CrashCreator
<1> QED BY <1>1, <1>2, <1>3, <1>4, <1>5, <1>6, <1>7, <1>8 DEF CreatorStep

\* A thread's step: every name and handle, every client, other threads, other
\* segments and other mutexes.
LEMMA WriterFrame ==
    ASSUME TypeOK, NEW w \in Writers, BeginWrite(w) \/ WriterStep(w)
    PROVE  /\ UNCHANGED <<names, handles, locksOf, built, cpc, rvars, sharers>>
           /\ \A v \in Writers \ {w} : wpc'[v] = wpc[v] /\ wop'[v] = wop[v]
           /\ \A g \in Gens : g # WSeg(w) =>
                  content'[g] = content[g] /\ committed'[g] = committed[g]
           /\ \A l \in Gens : l # WLock(w) => owner'[l] = owner[l]
<1> USE DEF WKeep, segs, locks, rvars, TypeOK
<1>1. CASE BeginWrite(w) BY <1>1 DEF BeginWrite
<1>2. CASE EnterGate(w) BY <1>2 DEF EnterGate
<1>3. CASE DrainSharers(w) BY <1>3 DEF DrainSharers
<1>4. CASE Apply(w) BY <1>4 DEF Apply
<1>5. CASE OutOfMemory(w) BY <1>5 DEF OutOfMemory
<1>6. CASE ApplyTimestamp(w) BY <1>6 DEF ApplyTimestamp
<1>7. CASE UnlockExclusive(w) BY <1>7 DEF UnlockExclusive
<1> QED BY <1>1, <1>2, <1>3, <1>4, <1>5, <1>6, <1>7 DEF WriterStep

\* A client's step: names, segments, creators and threads, who holds a mutex
\* exclusively, and every other process.
LEMMA ReaderFrame ==
    ASSUME TypeOK, NEW r \in Readers, BeginRead(r) \/ ReaderStep(r) \/ CrashReader(r)
    PROVE  /\ UNCHANGED <<names, segs, cpc, wvars, owner>>
           /\ \A p \in Procs \ {r} : memory'[p] = memory[p] /\ memLock'[p] = memLock[p]
           /\ \A q \in Readers \ {r} : rpc'[q] = rpc[q] /\ got'[q] = got[q]
           /\ \A l \in Gens : \A q \in Readers \ {r} :
                  q \in sharers'[l] <=> q \in sharers[l]
<1> USE DEF RKeep, locks, handles, rvars, TypeOK, Leave
<1>1. CASE BeginRead(r) BY <1>1 DEF BeginRead
<1>2. CASE OpenShm(r) BY <1>2 DEF OpenShm
<1>3. CASE OpenLock(r) BY <1>3 DEF OpenLock
<1>4. CASE FindMap(r) BY <1>4 DEF FindMap
<1>5. CASE LockSharable(r) BY <1>5 DEF LockSharable
<1>6. CASE LockTimeout(r) BY <1>6 DEF LockTimeout
<1>7. CASE VisitKey(r) BY <1>7 DEF VisitKey
<1>8. CASE UnlockSharable(r) BY <1>8 DEF UnlockSharable
<1>9. CASE CrashReader(r) BY <1>9 DEF CrashReader
<1> QED BY <1>1, <1>2, <1>3, <1>4, <1>5, <1>6, <1>7, <1>8, <1>9 DEF ReaderStep

-----------------------------------------------------------------------------
(* Who has which segment and which mutex.                                  *)

\* At the start no process has a segment or a mutex.
LEMMA InitHandleInv == Init => HandleInv
BY ShmemMapAssumption
   DEF Init, HandleInv, CreatorInv, ThreadInv, ClientInv, MutexInv, Mapped, Locked,
       Procs, Gens

\* A creator's segment and mutex change only by its own construction and end.
LEMMA NextCreatorInv == TypeOK /\ HandleInv /\ [Next]_vars => CreatorInv'
<1> SUFFICES ASSUME TypeOK, CreatorInv, MutexInv, [Next]_vars PROVE CreatorInv'
    BY DEF HandleInv
<1> USE ShmemMapAssumption
<1>1. ASSUME NEW c \in Creators, CreatorStep(c) PROVE CreatorInv'
    <2>1. \A d \in Creators \ {c} : /\ cpc'[d] = cpc[d] /\ memory'[d] = memory[d]
                                    /\ memLock'[d] = memLock[d]
        BY <1>1, CreatorFrame DEF Procs
    <2>2. \A g \in Gens : locksOf[g] \subseteq locksOf'[g]
        <3>1. \/ locksOf' = locksOf
              \/ locksOf' = [locksOf EXCEPT ![memory[c]] = @ \cup {nlock + 1}]
            BY <1>1 DEF CreatorStep, RemoveShm, OpenOrCreateShm, RemoveLock, CreateLock,
                        FindOrConstructMap, ClearMap, DestroyMap, CrashCreator, segs
        <3>2. locksOf \in [Gens -> SUBSET Gens]
            BY DEF TypeOK
        <3> QED BY <3>1, <3>2
    <2>3. /\ Mapped(c)' => memory'[c] # 0
          /\ Locked(c)' => memLock'[c] # 0 /\ memLock'[c] \in locksOf'[memory'[c]]
          /\ ~Locked(c)' => memLock'[c] = 0
        <3> USE DEF CreatorInv, Mapped, Locked, TypeOK, Procs, handles, segs, Gens
        <3>1. CASE RemoveShm(c) BY <3>1 DEF RemoveShm
        <3>2. CASE OpenOrCreateShm(c)
            <4>1. cpc'[c] = "hasShm" /\ memLock'[c] = memLock[c] /\ ~Locked(c)
                BY <3>2 DEF OpenOrCreateShm
            <4>2. memory'[c] \in {nseg + 1, segName} \ {0}
                BY <3>2 DEF OpenOrCreateShm
            <4> QED BY <4>1, <4>2
        <3>3. CASE RemoveLock(c) BY <3>3 DEF RemoveLock
        <3>4. CASE CreateLock(c)
            <4>1. CASE lockName = 0
                <5>1. memory[c] \in Gens
                    BY <3>4 DEF CreateLock
                <5>2. /\ cpc'[c] = "hasLock" /\ memory'[c] = memory[c]
                      /\ memLock'[c] = nlock + 1 /\ nlock + 1 # 0
                    BY <3>4, <4>1 DEF CreateLock
                <5>3. locksOf'[memory[c]] = locksOf[memory[c]] \cup {nlock + 1}
                    BY <3>4, <4>1, <5>1 DEF CreateLock
                <5> QED BY <5>1, <5>2, <5>3
            <4>2. CASE lockName # 0
                <5>1. cpc'[c] = "down" /\ memLock'[c] = memLock[c] /\ ~Locked(c)
                    BY <3>4, <4>2 DEF CreateLock
                <5> QED BY <5>1
            <4> QED BY <4>1, <4>2
        <3>5. CASE FindOrConstructMap(c) BY <3>5 DEF FindOrConstructMap
        <3>6. CASE ClearMap(c) BY <3>6 DEF ClearMap
        <3>7. CASE DestroyMap(c) BY <3>7 DEF DestroyMap
        <3>8. CASE CrashCreator(c) BY <3>8 DEF CrashCreator
        <3> QED BY <1>1, <3>1, <3>2, <3>3, <3>4, <3>5, <3>6, <3>7, <3>8 DEF CreatorStep
    <2>4. memLock'[c] \in {memLock[c], 0, nlock + 1}
        BY <1>1 DEF CreatorStep, RemoveShm, OpenOrCreateShm, RemoveLock, CreateLock,
                    FindOrConstructMap, ClearMap, DestroyMap, CrashCreator, handles,
                    TypeOK, Procs
    <2>5. \A d \in Creators : memLock[d] \in 0 .. nlock
        BY DEF TypeOK, Procs
    <2>6. \A d \in Creators \ {c} : memLock'[c] # 0 => memLock'[c] # memLock'[d]
        BY <2>1, <2>4, <2>5 DEF CreatorInv, TypeOK
    <2>7. ASSUME NEW d \in Creators, d # c
          PROVE  /\ Mapped(d)' => memory'[d] # 0
                 /\ Locked(d)' => memLock'[d] # 0 /\ memLock'[d] \in locksOf'[memory'[d]]
                 /\ ~Locked(d)' => memLock'[d] = 0
        <3>1. Locked(d) => memory[d] \in Gens
            BY DEF CreatorInv, Mapped, Locked, TypeOK, Procs, Gens
        <3> QED BY <2>1, <2>2, <2>7, <3>1 DEF CreatorInv, Mapped, Locked
    <2>8. \A d, e \in Creators : memLock'[d] = memLock'[e] /\ memLock'[d] # 0 => d = e
        BY <2>1, <2>6 DEF CreatorInv
    <2> QED BY <2>3, <2>7, <2>8 DEF CreatorInv
<1>2. ASSUME NEW w \in Writers, BeginWrite(w) \/ WriterStep(w) PROVE CreatorInv'
    BY <1>2, WriterFrame DEF CreatorInv, Mapped, Locked, handles
<1>3. ASSUME NEW r \in Readers, BeginRead(r) \/ ReaderStep(r) \/ CrashReader(r)
      PROVE  CreatorInv'
    <2>1. \A d \in Creators : memory'[d] = memory[d] /\ memLock'[d] = memLock[d]
        BY <1>3, ReaderFrame DEF Procs
    <2>2. cpc' = cpc /\ locksOf' = locksOf
        BY <1>3, ReaderFrame DEF segs
    <2> QED BY <2>1, <2>2 DEF CreatorInv, Mapped, Locked
<1>4. CASE UNCHANGED vars
    BY <1>4 DEF vars, handles, segs, CreatorInv, Mapped, Locked
<1> QED BY <1>1, <1>2, <1>3, <1>4 DEF Next

\* A creator that ends takes its threads with it.
LEMMA NextThreadInv == TypeOK /\ HandleInv /\ [Next]_vars => ThreadInv'
<1> SUFFICES ASSUME TypeOK, ThreadInv, [Next]_vars PROVE ThreadInv'
    BY DEF HandleInv
<1> USE ShmemMapAssumption
<1>1. ASSUME NEW c \in Creators, CreatorStep(c) PROVE ThreadInv'
    <2>1. \A w \in Writers : Home[w] = c /\ wpc[w] # "idle" => wpc'[w] = "idle"
        BY <1>1 DEF CreatorStep, RemoveShm, OpenOrCreateShm, RemoveLock, CreateLock,
                    FindOrConstructMap, ClearMap, DestroyMap, CrashCreator, ThreadInv,
                    ThreadsOf, TypeOK
    <2>2. ASSUME NEW w \in Writers, wpc'[w] # "idle"
          PROVE  cpc'[Home[w]] = "up" /\ wop'[w] \in Ops
        <3>1. wpc[w] # "idle" /\ wop'[w] = wop[w] /\ Home[w] # c /\ Home[w] \in Creators
            BY <1>1, <2>1, <2>2, CreatorFrame
        <3> QED BY <1>1, <3>1, CreatorFrame DEF ThreadInv
    <2> QED BY <2>2 DEF ThreadInv
<1>2. ASSUME NEW w \in Writers, BeginWrite(w) \/ WriterStep(w) PROVE ThreadInv'
    <2>1. cpc' = cpc /\ \A v \in Writers \ {w} : wpc'[v] = wpc[v] /\ wop'[v] = wop[v]
        BY <1>2, WriterFrame
    <2>2. wpc'[w] # "idle" => cpc[Home[w]] = "up" /\ wop'[w] \in Ops
        BY <1>2 DEF BeginWrite, WriterStep, EnterGate, DrainSharers, Apply, OutOfMemory,
                    ApplyTimestamp, UnlockExclusive, ThreadInv, TypeOK
    <2> QED BY <2>1, <2>2 DEF ThreadInv
<1>3. ASSUME NEW r \in Readers, BeginRead(r) \/ ReaderStep(r) \/ CrashReader(r)
      PROVE  ThreadInv'
    BY <1>3, ReaderFrame DEF ThreadInv, wvars
<1>4. CASE UNCHANGED vars
    BY <1>4 DEF vars, wvars, ThreadInv
<1> QED BY <1>1, <1>2, <1>3, <1>4 DEF Next

\* A client's handles change only in its own calls.
LEMMA NextClientInv == TypeOK /\ HandleInv /\ [Next]_vars => ClientInv'
<1> SUFFICES ASSUME TypeOK, ClientInv, [Next]_vars PROVE ClientInv'
    BY DEF HandleInv
<1> USE ShmemMapAssumption
<1>1. ASSUME NEW c \in Creators, CreatorStep(c) PROVE ClientInv'
    <2>1. rpc' = rpc /\ \A r \in Readers : memory'[r] = memory[r] /\ memLock'[r] = memLock[r]
        BY <1>1, CreatorFrame DEF Procs, rvars
    <2> QED BY <2>1 DEF ClientInv
<1>2. ASSUME NEW w \in Writers, BeginWrite(w) \/ WriterStep(w) PROVE ClientInv'
    BY <1>2, WriterFrame DEF ClientInv, handles, rvars
<1>3. ASSUME NEW r \in Readers, BeginRead(r) \/ ReaderStep(r) \/ CrashReader(r)
      PROVE  ClientInv'
    <2>1. \A q \in Readers \ {r} :
             rpc'[q] = rpc[q] /\ memory'[q] = memory[q] /\ memLock'[q] = memLock[q]
        BY <1>3, ReaderFrame DEF Procs
    <2>2. /\ rpc'[r] \in {"openLock", "find", "wait", "scan"} => memory'[r] # 0
          /\ rpc'[r] \in {"find", "wait", "scan"} => memLock'[r] # 0
          /\ rpc'[r] = "idle" /\ memory'[r] # 0 => memLock'[r] # 0
        <3> USE DEF ClientInv, TypeOK, Procs, handles, Leave
        <3>1. CASE BeginRead(r) BY <3>1 DEF BeginRead
        <3>2. CASE OpenShm(r) BY <3>2 DEF OpenShm
        <3>3. CASE OpenLock(r) BY <3>3 DEF OpenLock
        <3>4. CASE FindMap(r) BY <3>4 DEF FindMap
        <3>5. CASE LockSharable(r) BY <3>5 DEF LockSharable
        <3>6. CASE LockTimeout(r) BY <3>6 DEF LockTimeout
        <3>7. CASE VisitKey(r) BY <3>7 DEF VisitKey
        <3>8. CASE UnlockSharable(r) BY <3>8 DEF UnlockSharable
        <3>9. CASE CrashReader(r) BY <3>9 DEF CrashReader
        <3> QED BY <1>3, <3>1, <3>2, <3>3, <3>4, <3>5, <3>6, <3>7, <3>8, <3>9
                DEF ReaderStep
    <2> QED BY <2>1, <2>2 DEF ClientInv
<1>4. CASE UNCHANGED vars
    BY <1>4 DEF vars, handles, rvars, ClientInv
<1> QED BY <1>1, <1>2, <1>3, <1>4 DEF Next

\* The number of a new mutex is new.
LEMMA NextMutexInv == TypeOK /\ HandleInv /\ [Next]_vars => MutexInv'
<1> SUFFICES ASSUME TypeOK, MutexInv, [Next]_vars PROVE MutexInv'
    BY DEF HandleInv
<1> USE ShmemMapAssumption
<1>1. ASSUME NEW c \in Creators, CreatorStep(c) PROVE MutexInv'
    <2>1. \/ locksOf' = locksOf /\ nlock' = nlock
          \/ /\ locksOf' = [locksOf EXCEPT ![memory[c]] = @ \cup {nlock + 1}]
             /\ nlock' = nlock + 1
        BY <1>1 DEF CreatorStep, RemoveShm, OpenOrCreateShm, RemoveLock, CreateLock,
                    FindOrConstructMap, ClearMap, DestroyMap, CrashCreator, segs, names
    <2>2. locksOf \in [Gens -> SUBSET Gens] /\ nlock \in Nat
        BY DEF TypeOK
    <2>3. CASE locksOf' = locksOf /\ nlock' = nlock
        BY <2>3 DEF MutexInv
    <2>4. CASE /\ locksOf' = [locksOf EXCEPT ![memory[c]] = @ \cup {nlock + 1}]
               /\ nlock' = nlock + 1
        <3>1. \A g \in Gens : /\ g # memory[c] => locksOf'[g] = locksOf[g]
                              /\ g = memory[c] => locksOf'[g] = locksOf[g] \cup {nlock + 1}
            BY <2>2, <2>4
        <3>2. \A g \in Gens : nlock + 1 \notin locksOf[g]
            BY <2>2 DEF MutexInv
        <3> QED BY <2>2, <2>4, <3>1, <3>2 DEF MutexInv
    <2> QED BY <2>1, <2>3, <2>4
<1>2. ASSUME NEW w \in Writers, BeginWrite(w) \/ WriterStep(w) PROVE MutexInv'
    BY <1>2, WriterFrame DEF MutexInv, names
<1>3. ASSUME NEW r \in Readers, BeginRead(r) \/ ReaderStep(r) \/ CrashReader(r)
      PROVE  MutexInv'
    BY <1>3, ReaderFrame DEF MutexInv, names, segs
<1>4. CASE UNCHANGED vars
    BY <1>4 DEF vars, names, segs, MutexInv
<1> QED BY <1>1, <1>2, <1>3, <1>4 DEF Next

\* Typing and handles together are inductive.
LEMMA Handles == Spec => [](TypeOK /\ HandleInv)
<1>1. Init => TypeOK /\ HandleInv
    BY InitTypeOK, InitHandleInv
<1>2. TypeOK /\ HandleInv /\ [Next]_vars => (TypeOK /\ HandleInv)'
    BY NextTypeOK, NextCreatorInv, NextThreadInv, NextClientInv, NextMutexInv
       DEF HandleInv
<1> QED BY <1>1, <1>2, PTL DEF Spec

\* Every variable has its type.
THEOREM TypeCorrect == Spec => []TypeOK
BY Handles, PTL

-----------------------------------------------------------------------------
(* The mutex.                                                              *)

\* No thread of a creator that is not up is inside an operation.
LEMMA InsideUp ==
    ASSUME TypeOK, HandleInv, NEW w \in Writers, Inside(w)
    PROVE  /\ Home[w] \in Creators /\ cpc[Home[w]] = "up"
           /\ WLock(w) \in Gens /\ WLock(w) <= nlock
<1>1. wpc[w] # "idle"
    BY DEF Inside
<1> QED BY <1>1, WriterHandles, ShmemMapAssumption DEF HandleInv, MutexInv, Gens, TypeOK

\* A creator's step takes no thread into an operation, moves no mutex under
\* one, and resets no mutex but a new one.
LEMMA CreatorLocks ==
    ASSUME TypeOK, HandleInv, NEW c \in Creators, CreatorStep(c)
    PROVE  /\ \A w \in Writers : wpc'[w] # "idle" =>
                  wpc'[w] = wpc[w] /\ WLock(w)' = WLock(w) /\ WSeg(w)' = WSeg(w)
           /\ \A l \in Gens : l <= nlock => owner'[l] = owner[l]
           /\ \A l \in Gens : owner'[l] \in {owner[l], NoOne}
           /\ \A r \in Readers : memLock'[r] = memLock[r] /\ memory'[r] = memory[r]
           /\ rpc' = rpc /\ got' = got /\ sharers' = sharers
<1> USE ShmemMapAssumption
<1>1. rpc' = rpc /\ got' = got /\ sharers' = sharers
    BY CreatorFrame DEF rvars
<1>2. \A r \in Readers : memLock'[r] = memLock[r] /\ memory'[r] = memory[r]
    BY CreatorFrame DEF Procs
<1>3. owner' = owner \/ (nlock < MaxGen /\ owner' = [owner EXCEPT ![nlock + 1] = NoOne])
    BY DEF CreatorStep, RemoveShm, OpenOrCreateShm, RemoveLock, CreateLock,
           FindOrConstructMap, ClearMap, DestroyMap, CrashCreator, locks
<1>4. owner \in [Gens -> Writers \cup {NoOne}] /\ nlock \in Nat
    BY DEF TypeOK
<1>5. \A l \in Gens : (l <= nlock => owner'[l] = owner[l]) /\ owner'[l] \in {owner[l], NoOne}
    BY <1>3, <1>4 DEF Gens
<1>6. ASSUME NEW w \in Writers, wpc'[w] # "idle"
      PROVE  wpc'[w] = wpc[w] /\ WLock(w)' = WLock(w) /\ WSeg(w)' = WSeg(w)
    <2>1. wpc'[w] = wpc[w] /\ wpc[w] # "idle"
        BY <1>6, CreatorFrame
    <2>2. cpc[Home[w]] = "up" /\ Home[w] \in Creators
        BY <2>1, WriterHandles
    <2>3. Home[w] # c
        BY <1>6, <2>1, <2>2
           DEF CreatorStep, RemoveShm, OpenOrCreateShm, RemoveLock, CreateLock,
               FindOrConstructMap, ClearMap, DestroyMap, CrashCreator, ThreadsOf, TypeOK
    <2> QED BY <2>1, <2>2, <2>3, CreatorFrame DEF Procs, WLock, WSeg
<1> QED BY <1>1, <1>2, <1>5, <1>6

\* At the start nobody holds or waits for anything.
LEMMA InitLockInv == Init => LockInv
BY ShmemMapAssumption DEF Init, LockInv, HeldInv, NoPhantomHolder, Inside, Writing, Scanning, Gens

\* A thread inside an operation owns its mutex, no client shares it once the
\* second gate is passed, and a traversal is counted.
LEMMA NextHeldInv == TypeOK /\ HandleInv /\ LockInv /\ [Next]_vars => HeldInv'
<1> SUFFICES ASSUME TypeOK, HandleInv, HeldInv, NoPhantomHolder, [Next]_vars
             PROVE  HeldInv'
    BY DEF LockInv
<1> USE ShmemMapAssumption
<1>1. ASSUME NEW c \in Creators, CreatorStep(c) PROVE HeldInv'
    <2>1. ASSUME NEW w \in Writers
          PROVE  (Inside(w)' => owner'[WLock(w)'] = w)
                 /\ (Writing(w)' => sharers'[WLock(w)'] = {})
        <3>1. CASE wpc'[w] = "idle"
            BY <3>1 DEF Inside, Writing
        <3>2. CASE wpc'[w] # "idle"
            <4>1. wpc'[w] = wpc[w] /\ WLock(w)' = WLock(w) /\ sharers' = sharers
                BY <1>1, <3>2, CreatorLocks
            <4>2. Inside(w) => owner'[WLock(w)] = owner[WLock(w)]
                BY <1>1, CreatorLocks, InsideUp
            <4> QED BY <4>1, <4>2 DEF Inside, Writing, HeldInv
        <3> QED BY <3>1, <3>2
    <2>2. \A r \in Readers : Scanning(r)' => r \in sharers'[memLock'[r]]
        BY <1>1, CreatorLocks DEF HeldInv, Scanning
    <2> QED BY <2>1, <2>2 DEF HeldInv
<1>2. ASSUME NEW w \in Writers, BeginWrite(w) \/ WriterStep(w) PROVE HeldInv'
    <2>1. /\ \A v \in Writers : WLock(v)' = WLock(v)
          /\ sharers' = sharers /\ memLock' = memLock /\ rpc' = rpc
          /\ \A v \in Writers \ {w} : wpc'[v] = wpc[v]
          /\ \A l \in Gens : l # WLock(w) => owner'[l] = owner[l]
        BY <1>2, WriterFrame DEF WLock, handles, rvars
    <2>2. wpc[w] # "idle" => WLock(w) \in Gens
        BY WriterHandles
    <2>3. Inside(w)' => owner'[WLock(w)] = w
        BY <1>2, <2>1, <2>2
           DEF BeginWrite, WriterStep, EnterGate, DrainSharers, Apply, OutOfMemory,
               ApplyTimestamp, UnlockExclusive, Inside, HeldInv, TypeOK, locks
    <2>4. Writing(w)' => sharers[WLock(w)] = {}
        BY <1>2, <2>1, <2>2
           DEF BeginWrite, WriterStep, EnterGate, DrainSharers, Apply, OutOfMemory,
               ApplyTimestamp, UnlockExclusive, Writing, HeldInv, TypeOK, locks
    <2>5. ASSUME NEW v \in Writers \ {w}, Inside(v)
          PROVE  owner'[WLock(v)] = v
        <3>1. owner[WLock(v)] = v /\ WLock(v) \in Gens
            BY <2>5, InsideUp DEF HeldInv
        <3>2. CASE WLock(v) # WLock(w)
            BY <2>1, <3>1, <3>2
        <3>3. CASE WLock(v) = WLock(w)
            <4>1. ~EnterGate(w)
                BY <3>1, <3>3 DEF EnterGate
            <4>2. ~UnlockExclusive(w)
                BY <3>1, <3>3 DEF UnlockExclusive, HeldInv, Inside
            <4>3. owner' = owner
                BY <1>2, <4>1, <4>2
                   DEF BeginWrite, WriterStep, DrainSharers, Apply, OutOfMemory,
                       ApplyTimestamp, locks
            <4> QED BY <3>1, <4>3
        <3> QED BY <3>2, <3>3
    <2> QED BY <2>1, <2>3, <2>4, <2>5 DEF HeldInv, Inside, Writing, Scanning
<1>3. ASSUME NEW r \in Readers, BeginRead(r) \/ ReaderStep(r) \/ CrashReader(r)
      PROVE  HeldInv'
    <2>1. /\ \A w \in Writers : WLock(w)' = WLock(w)
          /\ wpc' = wpc /\ owner' = owner
          /\ \A q \in Readers \ {r} : rpc'[q] = rpc[q] /\ memLock'[q] = memLock[q]
        BY <1>3, ReaderFrame DEF WLock, Procs, wvars
    <2>2. \/ sharers' = sharers
          \/ sharers' = [sharers EXCEPT ![memLock[r]] = @ \ {r}]
          \/ LockSharable(r)
        BY <1>3 DEF BeginRead, ReaderStep, OpenShm, OpenLock, FindMap, LockTimeout,
                    VisitKey, UnlockSharable, CrashReader, locks
    <2>3. ASSUME NEW w \in Writers, Writing(w) PROVE sharers'[WLock(w)] = {}
        <3>1. sharers[WLock(w)] = {} /\ owner[WLock(w)] = w /\ WLock(w) \in Gens
            BY <2>3, InsideUp DEF HeldInv, Writing, Inside
        <3>2. LockSharable(r) => memLock[r] # WLock(w)
            BY <3>1 DEF LockSharable
        <3> QED BY <2>2, <3>1, <3>2 DEF LockSharable, TypeOK
    <2>4. Scanning(r)' => r \in sharers'[memLock'[r]]
        <3>1. LockSharable(r) \/ VisitKey(r) \/ ~Scanning(r)'
            BY <1>3 DEF BeginRead, ReaderStep, OpenShm, OpenLock, FindMap, LockTimeout,
                        UnlockSharable, CrashReader, Scanning, Leave, TypeOK
        <3>2. CASE LockSharable(r)
            <4>1. memLock[r] \in Gens
                BY <3>2 DEF LockSharable, HandleInv, ClientInv, TypeOK, Procs, Gens
            <4> QED BY <3>2, <4>1 DEF LockSharable, TypeOK, handles
        <3>3. CASE VisitKey(r)
            BY <3>3 DEF VisitKey, HeldInv, Scanning, locks, handles
        <3> QED BY <3>1, <3>2, <3>3
    <2>5. ASSUME NEW q \in Readers \ {r}, Scanning(q) PROVE q \in sharers'[memLock[q]]
        <3>1. memLock[q] \in Gens /\ q \in sharers[memLock[q]]
            BY <2>5 DEF Scanning, HandleInv, ClientInv, TypeOK, Procs, Gens, HeldInv
        <3> QED BY <1>3, <3>1, ReaderFrame
    <2> QED BY <2>1, <2>3, <2>4, <2>5 DEF HeldInv, Inside, Writing, Scanning
<1>4. CASE UNCHANGED vars
    BY <1>4 DEF vars, handles, locks, wvars, rvars, HeldInv, Inside, Writing, Scanning, WLock
<1> QED BY <1>1, <1>2, <1>3, <1>4 DEF Next

\* What a mutex counts is held by an operation, a traversal or the dead.
LEMMA NextNoPhantomHolder ==
    TypeOK /\ HandleInv /\ LockInv /\ [Next]_vars => NoPhantomHolder'
<1> SUFFICES ASSUME TypeOK, HandleInv, HeldInv, NoPhantomHolder, [Next]_vars
             PROVE  NoPhantomHolder'
    BY DEF LockInv
<1> USE ShmemMapAssumption
<1>1. ASSUME NEW c \in Creators, CreatorStep(c) PROVE NoPhantomHolder'
    <2>1. ASSUME NEW l \in Gens, NEW w \in Writers, owner'[l] = w, WLock(w)' = l
          PROVE  Inside(w)'
        <3>1. owner[l] = w
            BY <1>1, <2>1, CreatorLocks
        <3>2. Home[w] \in Creators
            OBVIOUS
        <3>3. CASE Home[w] # c
            BY <1>1, <2>1, <3>1, <3>2, <3>3, CreatorFrame
               DEF NoPhantomHolder, Inside, WLock, Procs
        <3>4. CASE Home[w] = c
            <4>1. memLock'[c] = l /\ l # 0 /\ l \in 1 .. MaxGen
                BY <2>1, <3>4 DEF WLock, Gens
            <4>2. memLock[c] = l
                <5>1. ASSUME CreateLock(c), lockName = 0 PROVE FALSE
                    <6>1. nlock' = nlock + 1 /\ memLock'[c] = nlock + 1
                          /\ owner'[nlock + 1] = NoOne
                        BY <5>1, <4>1 DEF CreateLock, TypeOK, Procs, Gens
                    <6> QED BY <2>1, <4>1, <6>1
                <5> QED BY <1>1, <4>1, <5>1
                    DEF CreatorStep, RemoveShm, OpenOrCreateShm, RemoveLock, CreateLock,
                        FindOrConstructMap, ClearMap, DestroyMap, CrashCreator, handles,
                        TypeOK, Procs
            <4>3. Inside(w)
                BY <3>1, <3>4, <4>1, <4>2 DEF NoPhantomHolder, WLock
            <4>4. ~DestroyMap(c) /\ ~CrashCreator(c)
                BY <4>1 DEF DestroyMap, CrashCreator, TypeOK, Procs
            <4>5. wpc' = wpc
                BY <1>1, <4>4
                   DEF CreatorStep, RemoveShm, OpenOrCreateShm, RemoveLock, CreateLock,
                       FindOrConstructMap, ClearMap, wvars
            <4> QED BY <4>3, <4>5 DEF Inside
        <3> QED BY <3>3, <3>4
    <2>2. \A l \in Gens : \A r \in sharers'[l] :
             rpc'[r] = "dead" \/ (Scanning(r)' /\ memLock'[r] = l)
        BY <1>1, CreatorLocks DEF NoPhantomHolder, Scanning, TypeOK
    <2> QED BY <2>1, <2>2 DEF NoPhantomHolder
<1>2. ASSUME NEW w \in Writers, BeginWrite(w) \/ WriterStep(w) PROVE NoPhantomHolder'
    <2>1. /\ \A v \in Writers : WLock(v)' = WLock(v)
          /\ sharers' = sharers /\ memLock' = memLock /\ rpc' = rpc
          /\ \A v \in Writers \ {w} : wpc'[v] = wpc[v]
        BY <1>2, WriterFrame DEF WLock, handles, rvars
    <2>2. ASSUME NEW l \in Gens, NEW v \in Writers, owner'[l] = v, WLock(v) = l
          PROVE  Inside(v)'
        <3>1. CASE v = w
            <4> USE DEF Inside, NoPhantomHolder, TypeOK, locks
            <4>1. CASE BeginWrite(w) BY <2>1, <2>2, <3>1, <4>1 DEF BeginWrite
            <4>2. CASE EnterGate(w) BY <2>1, <2>2, <3>1, <4>2 DEF EnterGate
            <4>3. CASE DrainSharers(w) BY <2>1, <2>2, <3>1, <4>3 DEF DrainSharers
            <4>4. CASE Apply(w)
                <5>1. wpc'[w] \in {"mid", "unlock"}
                    BY <4>4 DEF Apply
                <5> QED BY <3>1, <5>1
            <4>5. CASE OutOfMemory(w) BY <2>1, <2>2, <3>1, <4>5 DEF OutOfMemory
            <4>6. CASE ApplyTimestamp(w) BY <2>1, <2>2, <3>1, <4>6 DEF ApplyTimestamp
            <4>7. CASE UnlockExclusive(w) BY <2>1, <2>2, <3>1, <4>7 DEF UnlockExclusive
            <4> QED BY <1>2, <4>1, <4>2, <4>3, <4>4, <4>5, <4>6, <4>7 DEF WriterStep
        <3>2. CASE v # w
            <4>1. owner[l] = v
                BY <1>2, <2>2, <3>2
                   DEF BeginWrite, WriterStep, EnterGate, DrainSharers, Apply,
                       OutOfMemory, ApplyTimestamp, UnlockExclusive, TypeOK, locks
            <4> QED BY <2>1, <2>2, <3>2, <4>1 DEF NoPhantomHolder, Inside
        <3> QED BY <3>1, <3>2
    <2> QED BY <2>1, <2>2 DEF NoPhantomHolder, Scanning
<1>3. ASSUME NEW r \in Readers, BeginRead(r) \/ ReaderStep(r) \/ CrashReader(r)
      PROVE  NoPhantomHolder'
    <2>1. /\ \A w \in Writers : WLock(w)' = WLock(w)
          /\ wpc' = wpc /\ owner' = owner
          /\ \A q \in Readers \ {r} : rpc'[q] = rpc[q] /\ memLock'[q] = memLock[q]
        BY <1>3, ReaderFrame DEF WLock, Procs, wvars
    <2>2. ASSUME NEW l \in Gens, r \in sharers'[l]
          PROVE  rpc'[r] = "dead" \/ (Scanning(r)' /\ memLock'[r] = l)
        <3> USE DEF NoPhantomHolder, Scanning, TypeOK, locks, handles
        <3>1. CASE BeginRead(r) BY <2>2, <3>1 DEF BeginRead
        <3>2. CASE OpenShm(r) BY <2>2, <3>2 DEF OpenShm
        <3>3. CASE OpenLock(r) BY <2>2, <3>3 DEF OpenLock
        <3>4. CASE FindMap(r) BY <2>2, <3>4 DEF FindMap
        <3>5. CASE LockSharable(r) BY <2>2, <3>5 DEF LockSharable
        <3>6. CASE LockTimeout(r) BY <2>2, <3>6 DEF LockTimeout
        <3>7. CASE VisitKey(r) BY <2>2, <3>7 DEF VisitKey
        <3>8. CASE UnlockSharable(r) BY <2>2, <3>8 DEF UnlockSharable
        <3>9. CASE CrashReader(r) BY <2>2, <3>9 DEF CrashReader
        <3> QED BY <1>3, <3>1, <3>2, <3>3, <3>4, <3>5, <3>6, <3>7, <3>8, <3>9
                DEF ReaderStep
    <2>3. ASSUME NEW l \in Gens, NEW q \in Readers \ {r}, q \in sharers'[l]
          PROVE  rpc'[q] = "dead" \/ (Scanning(q)' /\ memLock'[q] = l)
        <3>1. q \in sharers[l]
            BY <1>3, <2>3, ReaderFrame
        <3> QED BY <2>1, <3>1 DEF NoPhantomHolder, Scanning
    <2>4. \A l \in Gens : sharers'[l] \subseteq Readers
        BY NextTypeOK DEF TypeOK
    <2> QED BY <2>1, <2>2, <2>3, <2>4 DEF NoPhantomHolder, Inside
<1>4. CASE UNCHANGED vars
    BY <1>4 DEF vars, handles, locks, wvars, rvars, NoPhantomHolder, Inside, Scanning, WLock
<1> QED BY <1>1, <1>2, <1>3, <1>4 DEF Next

\* The mutex invariant is inductive on top of typing and handles.
LEMMA Locks == Spec => [](TypeOK /\ HandleInv /\ LockInv)
<1>1. TypeOK /\ HandleInv /\ LockInv /\ [Next]_vars => LockInv'
    BY NextHeldInv, NextNoPhantomHolder DEF LockInv
<1> QED BY <1>1, InitLockInv, Handles, PTL DEF Spec

\* A thread inside a write operation is alone on its mutex, for any number of
\* producers, threads and clients and in every crash.
THEOREM MutualExclusion == Spec => []LockExclusion
<1>1. TypeOK /\ HandleInv /\ LockInv => LockExclusion
    BY DEF LockInv, HeldInv, LockExclusion, Writing, Inside
<1> QED BY <1>1, Locks, PTL

\* Every early return, timeout and throw gives back what it took.
THEOREM LocksAccountedFor == Spec => []NoPhantomHolder
<1>1. LockInv => NoPhantomHolder
    BY DEF LockInv
<1> QED BY <1>1, Locks, PTL

-----------------------------------------------------------------------------
(* What clients copy.                                                      *)

\* A creator's step on segments: only one that has made a mutex touches a map,
\* only its own, and leaves it empty; only CreateLock adds a mutex, a new one.
LEMMA CreatorSegments ==
    ASSUME TypeOK, HandleInv, NEW c \in Creators, CreatorStep(c), NEW g \in Gens
    PROVE  /\ locksOf[g] \subseteq locksOf'[g]
           /\ locksOf'[g] \subseteq locksOf[g] \cup {nlock + 1}
           /\ \/ built'[g] = built[g] /\ content'[g] = content[g]
                 /\ committed'[g] = committed[g]
              \/ /\ Locked(c) /\ memory[c] = g /\ memLock[c] \in locksOf[g]
                 /\ content'[g] = Empty /\ committed'[g] = Empty
                 /\ locksOf'[g] = locksOf[g]
<1> USE ShmemMapAssumption
<1>1. Locked(c) => memory[c] \in Gens /\ memLock[c] \in locksOf[memory[c]]
    BY DEF HandleInv, CreatorInv, Locked, Mapped, TypeOK, Procs, Gens
<1> USE DEF TypeOK, segs
<1>2. CASE RemoveShm(c) BY <1>2 DEF RemoveShm
<1>3. CASE OpenOrCreateShm(c) BY <1>3 DEF OpenOrCreateShm
<1>4. CASE RemoveLock(c) BY <1>4 DEF RemoveLock
<1>5. CASE CreateLock(c)
    <2>1. \/ locksOf' = locksOf
          \/ locksOf' = [locksOf EXCEPT ![memory[c]] = @ \cup {nlock + 1}]
        BY <1>5 DEF CreateLock
    <2>2. UNCHANGED <<built, content, committed>>
        BY <1>5 DEF CreateLock
    <2>3. locksOf \in [Gens -> SUBSET Gens]
        OBVIOUS
    <2>4. locksOf'[g] \in {locksOf[g], locksOf[g] \cup {nlock + 1}}
        BY ONLY <2>1, <2>3, g \in Gens
    <2> QED BY <2>2, <2>4
<1>6. CASE FindOrConstructMap(c) BY <1>1, <1>6 DEF FindOrConstructMap, Locked
<1>7. CASE ClearMap(c) BY <1>1, <1>7 DEF ClearMap, Locked
<1>8. CASE DestroyMap(c) BY <1>1, <1>8 DEF DestroyMap, Locked
<1>9. CASE CrashCreator(c) BY <1>9 DEF CrashCreator
<1> QED BY <1>2, <1>3, <1>4, <1>5, <1>6, <1>7, <1>8, <1>9 DEF CreatorStep

\* Two creators that made a mutex for the same segment made two.
LEMMA OneMutexOneCreator ==
    ASSUME TypeOK, HandleInv, NEW c \in Creators, NEW d \in Creators,
           Locked(c), Locked(d), memory[c] = memory[d],
           locksOf[memory[c]] = {memLock[c]}
    PROVE  c = d
BY DEF HandleInv, CreatorInv

\* A client attached after its step kept its segment and was attached, or has
\* just found a map there.
LEMMA AttachedBefore ==
    ASSUME TypeOK, HandleInv, NEW r \in Readers,
           BeginRead(r) \/ ReaderStep(r) \/ CrashReader(r), Attached(r)'
    PROVE  memory'[r] = memory[r] /\ (Attached(r) \/ built[memory[r]])
<1> USE DEF TypeOK, Procs, handles, Attached, Leave
<1>1. CASE BeginRead(r) BY <1>1 DEF BeginRead
<1>2. CASE OpenShm(r) BY <1>2 DEF OpenShm
<1>3. CASE OpenLock(r) BY <1>3 DEF OpenLock
<1>4. CASE FindMap(r) BY <1>4 DEF FindMap
<1>5. CASE LockSharable(r) BY <1>5 DEF LockSharable
<1>6. CASE LockTimeout(r) BY <1>6 DEF LockTimeout
<1>7. CASE VisitKey(r) BY <1>7 DEF VisitKey
<1>8. CASE UnlockSharable(r) BY <1>8 DEF UnlockSharable
<1>9. CASE CrashReader(r) BY <1>9 DEF CrashReader
<1> QED BY <1>1, <1>2, <1>3, <1>4, <1>5, <1>6, <1>7, <1>8, <1>9 DEF ReaderStep

\* At the start there is no segment, so no map and no copy of one.
LEMMA InitContentInv == Init => ContentInv /\ SnapshotConsistent
<1> SUFFICES ASSUME Init PROVE ContentInv /\ SnapshotConsistent
    OBVIOUS
<1>1. UnusedInv
    BY DEF Init, UnusedInv, Attached, Procs, Gens
<1>2. BuildInv
    BY DEF Init, BuildInv, Locked
<1>3. DirtyInv
    BY DEF Init, DirtyInv
<1>4. BlankInv /\ SnapshotConsistent
    BY DEF Init, BlankInv, SnapshotConsistent, Scanning
<1> QED BY <1>1, <1>2, <1>3, <1>4 DEF ContentInv

\* A map is only built in a segment that has a mutex.
LEMMA NextUnusedInv == TypeOK /\ HandleInv /\ UnusedInv /\ [Next]_vars => UnusedInv'
<1> SUFFICES ASSUME TypeOK, HandleInv, UnusedInv, [Next]_vars PROVE UnusedInv'
    OBVIOUS
<1> USE ShmemMapAssumption
<1>1. ASSUME NEW c \in Creators, CreatorStep(c) PROVE UnusedInv'
    <2>1. \A r \in Readers : Attached(r)' <=> Attached(r)
        BY <1>1, CreatorLocks DEF Attached
    <2> QED BY <1>1, <2>1, CreatorSegments, CreatorLocks DEF UnusedInv
<1>2. ASSUME NEW w \in Writers, BeginWrite(w) \/ WriterStep(w) PROVE UnusedInv'
    <2>1. CASE BeginWrite(w)
        BY <2>1 DEF BeginWrite, segs, handles, rvars, UnusedInv, Attached
    <2>2. CASE WriterStep(w)
        <3>1. locksOf[WSeg(w)] # {}
            BY <2>2, WriterHandles
               DEF WriterStep, EnterGate, DrainSharers, Apply, OutOfMemory,
                   ApplyTimestamp, UnlockExclusive
        <3> QED BY <1>2, <3>1, WriterFrame DEF UnusedInv, Attached, handles, rvars
    <2> QED BY <1>2, <2>1, <2>2
<1>3. ASSUME NEW r \in Readers, BeginRead(r) \/ ReaderStep(r) \/ CrashReader(r)
      PROVE  UnusedInv'
    <2>1. \A q \in Readers \ {r} : Attached(q)' => Attached(q) /\ memory'[q] = memory[q]
        BY <1>3, ReaderFrame DEF Attached, Procs
    <2>2. UNCHANGED <<built, content, committed, locksOf>>
        BY <1>3, ReaderFrame DEF segs
    <2>3. \A g \in Gens : locksOf[g] = {} /\ Attached(r)' => memory'[r] # g
        BY <1>3, AttachedBefore DEF UnusedInv
    <2> QED BY <2>1, <2>2, <2>3 DEF UnusedInv
<1>4. CASE UNCHANGED vars
    BY <1>4 DEF vars, handles, segs, rvars, UnusedInv, Attached
<1> QED BY <1>1, <1>2, <1>3, <1>4 DEF Next

\* Until its creator is up, a segment with one mutex is nobody else's business.
LEMMA NextBuildInv ==
    TypeOK /\ HandleInv /\ UnusedInv /\ BuildInv /\ [Next]_vars => BuildInv'
<1> SUFFICES ASSUME TypeOK, HandleInv, UnusedInv, BuildInv, [Next]_vars PROVE BuildInv'
    OBVIOUS
<1> USE ShmemMapAssumption
<1> DEFINE Sole(c) == Locked(c) /\ locksOf[memory[c]] = {memLock[c]}
           Good(c) ==
               /\ cpc[c] = "hasLock" =>
                   /\ ~built[memory[c]]
                   /\ \A r \in Readers : Attached(r) => memory[r] # memory[c]
               /\ cpc[c] = "hasMap" =>
                   content[memory[c]] = Empty /\ committed[memory[c]] = Empty
<1>1. \A c \in Creators : Locked(c) =>
         memory[c] \in Gens /\ memLock[c] \in Gens /\ memLock[c] \in locksOf[memory[c]]
    BY DEF HandleInv, CreatorInv, Locked, Mapped, TypeOK, Procs, Gens
<1>2. ASSUME NEW d \in Creators, CreatorStep(d), NEW c \in Creators, Sole(c)'
      PROVE  Good(c)'
    <2>1. \A r \in Readers : (Attached(r)' <=> Attached(r)) /\ memory'[r] = memory[r]
        BY <1>2, CreatorLocks DEF Attached
    <2>2. CASE c # d
        <3>1. cpc'[c] = cpc[c] /\ memory'[c] = memory[c] /\ memLock'[c] = memLock[c]
            BY <1>2, <2>2, CreatorFrame DEF Procs
        <3>2. Locked(c) /\ memory[c] \in Gens
            BY <1>1, <1>2, <3>1 DEF Locked
        <3>3. locksOf[memory[c]] = {memLock[c]}
            BY <1>1, <1>2, <3>1, <3>2, CreatorSegments
        <3>4. ~(Locked(d) /\ memory[d] = memory[c])
            BY <2>2, <3>2, <3>3, OneMutexOneCreator
        <3>5. /\ built'[memory[c]] = built[memory[c]]
              /\ content'[memory[c]] = content[memory[c]]
              /\ committed'[memory[c]] = committed[memory[c]]
            BY <1>2, <3>2, <3>4, CreatorSegments
        <3> QED BY <2>1, <3>1, <3>2, <3>3, <3>5 DEF BuildInv
    <2>3. CASE c = d
        <3>1. CASE CreateLock(c)
            <4>1. lockName = 0
                BY <1>2, <3>1 DEF CreateLock, Locked, TypeOK
            <4>2. /\ memory' = memory /\ memLock'[c] = nlock + 1 /\ nlock \in Nat
                  /\ cpc'[c] = "hasLock" /\ built' = built /\ memory[c] \in Gens
                BY <3>1, <4>1
                   DEF CreateLock, TypeOK, Procs, HandleInv, CreatorInv, Mapped, Gens
            <4>3. locksOf[memory[c]] = {}
                <5>1. locksOf[memory[c]] \subseteq {nlock + 1}
                    BY <1>2, <2>3, <4>2, CreatorSegments
                <5>2. nlock + 1 \notin locksOf[memory[c]]
                    BY <4>2 DEF HandleInv, MutexInv
                <5> QED BY <5>1, <5>2
            <4> QED BY <2>1, <4>2, <4>3 DEF UnusedInv
        <3>2. CASE FindOrConstructMap(c)
            <4>1. /\ cpc[c] = "hasLock" /\ cpc'[c] = "hasMap" /\ Locked(c)
                  /\ memory' = memory /\ memLock' = memLock /\ locksOf' = locksOf
                BY <3>2 DEF FindOrConstructMap, Locked, handles, TypeOK
            <4>2. ~built[memory[c]]
                BY <1>2, <4>1 DEF BuildInv
            <4>3. /\ content' = [content EXCEPT ![memory[c]] = Empty]
                  /\ committed' = [committed EXCEPT ![memory[c]] = Empty]
                BY <3>2, <4>2 DEF FindOrConstructMap
            <4> QED BY <1>1, <4>1, <4>3 DEF TypeOK
        <3>3. ~CreateLock(c) /\ ~FindOrConstructMap(c) => cpc'[c] \notin {"hasLock", "hasMap"}
            BY <1>2, <2>3
               DEF CreatorStep, RemoveShm, OpenOrCreateShm, RemoveLock, ClearMap,
                   DestroyMap, CrashCreator, TypeOK
        <3> QED BY <3>1, <3>2, <3>3
    <2> QED BY <2>2, <2>3
<1>3. ASSUME NEW w \in Writers, BeginWrite(w) \/ WriterStep(w), NEW c \in Creators, Sole(c)'
      PROVE  Good(c)'
    <2>1. /\ UNCHANGED <<memory, memLock, cpc, locksOf, built, rpc>>
          /\ \A g \in Gens : g # WSeg(w) =>
                content'[g] = content[g] /\ committed'[g] = committed[g]
        BY <1>3, WriterFrame DEF handles, rvars
    <2>2. Sole(c)
        BY <1>3, <2>1 DEF Locked
    <2>3. ASSUME cpc[c] = "hasMap" PROVE \/ content' = content /\ committed' = committed
                                         \/ memory[c] # WSeg(w)
        <3>1. CASE BeginWrite(w)
            BY <3>1 DEF BeginWrite, segs
        <3>2. CASE WriterStep(w)
            <4>1. wpc[w] # "idle"
                BY <3>2 DEF WriterStep, EnterGate, DrainSharers, Apply, OutOfMemory,
                            ApplyTimestamp, UnlockExclusive
            <4>2. Home[w] \in Creators /\ cpc[Home[w]] = "up" /\ Locked(Home[w])
                BY <4>1, WriterHandles DEF Locked
            <4> QED BY <2>2, <2>3, <4>2, OneMutexOneCreator DEF WSeg
        <3> QED BY <1>3, <3>1, <3>2
    <2> QED BY <1>1, <2>1, <2>2, <2>3 DEF BuildInv, Attached
<1>4. ASSUME NEW r \in Readers, BeginRead(r) \/ ReaderStep(r) \/ CrashReader(r),
             NEW c \in Creators, Sole(c)'
      PROVE  Good(c)'
    <2>1. /\ UNCHANGED <<cpc, locksOf, built, content, committed>>
          /\ \A d \in Creators : memory'[d] = memory[d] /\ memLock'[d] = memLock[d]
          /\ \A q \in Readers \ {r} : Attached(q)' => Attached(q) /\ memory'[q] = memory[q]
        BY <1>4, ReaderFrame DEF segs, Procs, Attached
    <2>2. Sole(c)
        BY <1>4, <2>1 DEF Locked
    <2>3. Attached(r)' => memory'[r] = memory[r] /\ (Attached(r) \/ built[memory[r]])
        BY <1>4, AttachedBefore
    <2> QED BY <2>1, <2>2, <2>3 DEF BuildInv
<1>5. ASSUME UNCHANGED vars PROVE BuildInv'
    BY <1>5 DEF vars, handles, segs, rvars, BuildInv, Attached, Locked
<1>6. (\A c \in Creators : Sole(c)' => Good(c)') => BuildInv'
    BY DEF BuildInv, Locked
<1> QED BY <1>2, <1>3, <1>4, <1>5, <1>6 DEF Next

\* A map differs from the last finished operation only under the lock.
LEMMA NextDirtyInv ==
    TypeOK /\ HandleInv /\ LockInv /\ UnusedInv /\ DirtyInv /\ [Next]_vars => DirtyInv'
<1> SUFFICES ASSUME TypeOK, HandleInv, LockInv, UnusedInv, DirtyInv, [Next]_vars,
                    NEW g \in Gens, NEW l \in Gens, locksOf'[g] = {l},
                    content'[g] # committed'[g]
             PROVE  /\ owner'[l] # NoOne
                    /\ \A r \in Readers : ~(Scanning(r)' /\ memLock'[r] = l)
    BY DEF DirtyInv
<1> USE ShmemMapAssumption
<1>1. ASSUME NEW c \in Creators, CreatorStep(c)
      PROVE  /\ owner'[l] # NoOne
             /\ \A r \in Readers : ~(Scanning(r)' /\ memLock'[r] = l)
    <2>1. content'[g] = content[g] /\ committed'[g] = committed[g]
        BY <1>1, CreatorSegments
    <2>2. locksOf[g] = {l}
        <3>1. locksOf[g] # {}
            BY <2>1 DEF UnusedInv
        <3> QED BY <1>1, <3>1, CreatorSegments
    <2>3. l <= nlock
        BY <2>2 DEF HandleInv, MutexInv, TypeOK
    <2> QED BY <1>1, <2>1, <2>2, <2>3, CreatorLocks DEF DirtyInv, Scanning
<1>2. ASSUME NEW w \in Writers, BeginWrite(w) \/ WriterStep(w)
      PROVE  /\ owner'[l] # NoOne
             /\ \A r \in Readers : ~(Scanning(r)' /\ memLock'[r] = l)
    <2>1. /\ UNCHANGED <<memory, memLock, locksOf, rpc, sharers>>
          /\ \A h \in Gens : h # WSeg(w) =>
                content'[h] = content[h] /\ committed'[h] = committed[h]
          /\ \A m \in Gens : m # WLock(w) => owner'[m] = owner[m]
        BY <1>2, WriterFrame DEF handles, rvars
    <2>2. CASE BeginWrite(w)
        BY <2>1, <2>2 DEF BeginWrite, segs, locks, DirtyInv, Scanning
    <2>3. CASE WriterStep(w)
        <3>1. wpc[w] # "idle"
            BY <2>3 DEF WriterStep, EnterGate, DrainSharers, Apply, OutOfMemory,
                        ApplyTimestamp, UnlockExclusive
        <3>2. WSeg(w) \in Gens /\ WLock(w) \in locksOf[WSeg(w)] /\ WLock(w) \in Gens
            BY <3>1, WriterHandles
        <3>3. CASE WSeg(w) # g
            <4>1. WLock(w) # l
                BY <2>1, <3>2, <3>3 DEF HandleInv, MutexInv
            <4> QED BY <2>1, <3>3, <4>1 DEF DirtyInv, Scanning
        <3>4. CASE WSeg(w) = g
            <4>1. WLock(w) = l
                BY <2>1, <3>2, <3>4
            <4>2. CASE UnlockExclusive(w)
                BY <3>4, <4>2 DEF UnlockExclusive, TypeOK
            <4>3. CASE Apply(w) \/ ApplyTimestamp(w)
                <5>1. Inside(w) /\ Writing(w) /\ owner' = owner
                    BY <4>3 DEF Apply, ApplyTimestamp, Inside, Writing, locks
                <5>2. owner[l] = w /\ sharers[l] = {}
                    BY <4>1, <5>1 DEF LockInv, HeldInv
                <5>3. \A r \in Readers : Scanning(r) => memLock[r] # l
                    BY <5>2 DEF LockInv, HeldInv
                <5> QED BY <2>1, <5>1, <5>2, <5>3 DEF Scanning
            <4>4. CASE EnterGate(w) \/ DrainSharers(w) \/ OutOfMemory(w)
                <5>1. content' = content /\ committed' = committed
                    BY <4>4 DEF EnterGate, DrainSharers, OutOfMemory
                <5>2. owner[l] # NoOne
                      /\ \A r \in Readers : ~(Scanning(r) /\ memLock[r] = l)
                    BY <2>1, <5>1 DEF DirtyInv
                <5>3. owner'[l] # NoOne
                    BY <4>1, <4>4, <5>2 DEF EnterGate, DrainSharers, OutOfMemory, locks
                <5> QED BY <2>1, <5>2, <5>3 DEF Scanning
            <4> QED BY <2>3, <4>2, <4>3, <4>4 DEF WriterStep
        <3> QED BY <3>3, <3>4
    <2> QED BY <1>2, <2>2, <2>3
<1>3. ASSUME NEW r \in Readers, BeginRead(r) \/ ReaderStep(r) \/ CrashReader(r)
      PROVE  /\ owner'[l] # NoOne
             /\ \A q \in Readers : ~(Scanning(q)' /\ memLock'[q] = l)
    <2>1. /\ UNCHANGED <<locksOf, content, committed, owner>>
          /\ \A q \in Readers \ {r} : rpc'[q] = rpc[q] /\ memLock'[q] = memLock[q]
        BY <1>3, ReaderFrame DEF segs, Procs
    <2>2. owner[l] # NoOne /\ \A q \in Readers : ~(Scanning(q) /\ memLock[q] = l)
        BY <2>1 DEF DirtyInv
    <2>3. Scanning(r)' => /\ memLock'[r] = memLock[r]
                          /\ Scanning(r) \/ owner[memLock[r]] = NoOne
        BY <1>3
           DEF BeginRead, ReaderStep, OpenShm, OpenLock, FindMap, LockSharable,
               LockTimeout, VisitKey, UnlockSharable, CrashReader, Leave, Scanning,
               TypeOK, handles
    <2> QED BY <2>1, <2>2, <2>3 DEF Scanning
<1>4. CASE UNCHANGED vars
    BY <1>4 DEF vars, handles, segs, locks, rvars, DirtyInv, Scanning
<1> QED BY <1>1, <1>2, <1>3, <1>4 DEF Next

\* A copy starts blank and is dropped when the call ends.
LEMMA NextBlankInv == TypeOK /\ BlankInv /\ [Next]_vars => BlankInv'
<1> SUFFICES ASSUME TypeOK, BlankInv, [Next]_vars PROVE BlankInv'
    OBVIOUS
<1>1. ASSUME NEW c \in Creators, CreatorStep(c) PROVE BlankInv'
    BY <1>1, CreatorFrame DEF BlankInv, Scanning, rvars
<1>2. ASSUME NEW w \in Writers, BeginWrite(w) \/ WriterStep(w) PROVE BlankInv'
    BY <1>2, WriterFrame DEF BlankInv, Scanning, rvars
<1>3. ASSUME NEW r \in Readers, BeginRead(r) \/ ReaderStep(r) \/ CrashReader(r)
      PROVE  BlankInv'
    <2>1. \A q \in Readers \ {r} : rpc'[q] = rpc[q] /\ got'[q] = got[q]
        BY <1>3, ReaderFrame
    <2>2. ~Scanning(r)' => got'[r] = Blank
        <3> USE DEF BlankInv, Scanning, TypeOK, Leave
        <3>1. CASE BeginRead(r) BY <3>1 DEF BeginRead
        <3>2. CASE OpenShm(r) BY <3>2 DEF OpenShm
        <3>3. CASE OpenLock(r) BY <3>3 DEF OpenLock
        <3>4. CASE FindMap(r) BY <3>4 DEF FindMap
        <3>5. CASE LockSharable(r) BY <3>5 DEF LockSharable
        <3>6. CASE LockTimeout(r) BY <3>6 DEF LockTimeout
        <3>7. CASE VisitKey(r) BY <3>7 DEF VisitKey
        <3>8. CASE UnlockSharable(r) BY <3>8 DEF UnlockSharable
        <3>9. CASE CrashReader(r) BY <3>9 DEF CrashReader
        <3> QED BY <1>3, <3>1, <3>2, <3>3, <3>4, <3>5, <3>6, <3>7, <3>8, <3>9
                DEF ReaderStep
    <2> QED BY <2>1, <2>2 DEF BlankInv, Scanning
<1>4. CASE UNCHANGED vars
    BY <1>4 DEF vars, rvars, BlankInv, Scanning
<1> QED BY <1>1, <1>2, <1>3, <1>4 DEF Next

\* What a client has copied stays what the last finished operation left.
LEMMA NextSnapshot ==
    TypeOK /\ HandleInv /\ LockInv /\ ContentInv /\ SnapshotConsistent /\ [Next]_vars
        => SnapshotConsistent'
<1> SUFFICES ASSUME TypeOK, HandleInv, LockInv, ContentInv, SnapshotConsistent,
                    [Next]_vars, NEW r \in Readers, Scanning(r)', built'[memory'[r]],
                    locksOf'[memory'[r]] = {memLock'[r]}
             PROVE  \A k \in Keys : got'[r][k] \in {Unread, committed'[memory'[r]][k]}
    BY DEF SnapshotConsistent
<1> USE ShmemMapAssumption
<1> DEFINE Goal == \A k \in Keys : got'[r][k] \in {Unread, committed'[memory'[r]][k]}
\* A client in a traversal has a segment and a mutex and is counted by it.
<1>s. Scanning(r) => /\ memory[r] \in Gens /\ memLock[r] \in Gens
                     /\ memLock[r] <= nlock /\ r \in sharers[memLock[r]]
    BY DEF Scanning, HandleInv, ClientInv, LockInv, HeldInv, TypeOK, Procs, Gens
<1>1. ASSUME NEW c \in Creators, CreatorStep(c) PROVE Goal
    <2>1. /\ Scanning(r) /\ memory'[r] = memory[r] /\ memLock'[r] = memLock[r]
          /\ got' = got /\ memory[r] \in Gens
        BY <1>1, <1>s, CreatorLocks DEF Scanning
    <2>2. locksOf[memory[r]] = {memLock[r]}
        <3>1. Attached(r)
            BY <2>1 DEF Scanning, Attached
        <3>2. locksOf[memory[r]] # {}
            BY <2>1, <3>1 DEF ContentInv, UnusedInv
        <3> QED BY <1>1, <2>1, <3>2, CreatorSegments
    <2>3. CASE /\ built'[memory[r]] = built[memory[r]]
               /\ committed'[memory[r]] = committed[memory[r]]
        BY <2>1, <2>2, <2>3 DEF SnapshotConsistent
    <2>4. CASE Locked(c) /\ memory[c] = memory[r] /\ memLock[c] \in locksOf[memory[r]]
        <3>1. locksOf[memory[c]] = {memLock[c]} /\ Attached(r)
            BY <2>1, <2>2, <2>4 DEF Scanning, Attached
        <3>2. cpc[c] # "hasLock"
            BY <2>4, <3>1 DEF ContentInv, BuildInv
        <3>3. cpc[c] = "hasMap" => committed[memory[r]] = Empty
            BY <2>4, <3>1 DEF ContentInv, BuildInv
        <3>4. ~DestroyMap(c)
            BY <2>1, <2>4 DEF DestroyMap, TypeOK
        <3>5. \/ /\ built'[memory[r]] = built[memory[r]]
                 /\ committed'[memory[r]] = committed[memory[r]]
              \/ ClearMap(c)
            BY <1>1, <3>2, <3>4
               DEF CreatorStep, RemoveShm, OpenOrCreateShm, RemoveLock, CreateLock,
                   FindOrConstructMap, CrashCreator, segs
        <3>6. CASE ClearMap(c)
            <4>1. committed'[memory[r]] = Empty /\ built' = built /\ cpc[c] = "hasMap"
                BY <2>1, <2>4, <3>6 DEF ClearMap, TypeOK
            <4> QED BY <2>1, <2>2, <3>3, <4>1 DEF SnapshotConsistent
        <3> QED BY <2>3, <3>5, <3>6
    <2> QED BY <1>1, <2>1, <2>3, <2>4, CreatorSegments
<1>2. ASSUME NEW w \in Writers, BeginWrite(w) \/ WriterStep(w) PROVE Goal
    <2>1. /\ UNCHANGED <<memory, memLock, locksOf, built, rpc, got>>
          /\ \A g \in Gens : g # WSeg(w) => committed'[g] = committed[g]
        BY <1>2, WriterFrame DEF handles, rvars
    <2>2. Scanning(r) /\ memory[r] \in Gens /\ locksOf[memory[r]] = {memLock[r]}
        BY <1>s, <2>1 DEF Scanning
    <2>3. committed'[memory[r]] = committed[memory[r]]
        <3>1. CASE UnlockExclusive(w)
            <4>1. wpc[w] # "idle" /\ Writing(w)
                BY <3>1 DEF UnlockExclusive, Writing
            <4>2. WLock(w) \in locksOf[WSeg(w)] /\ sharers[WLock(w)] = {}
                BY <4>1, WriterHandles DEF LockInv, HeldInv
            <4>3. WSeg(w) # memory[r]
                BY <1>s, <2>2, <4>2
            <4> QED BY <2>1, <2>2, <4>3
        <3>2. CASE ~UnlockExclusive(w)
            BY <1>2, <3>2
               DEF BeginWrite, WriterStep, EnterGate, DrainSharers, Apply, OutOfMemory,
                   ApplyTimestamp, segs
        <3> QED BY <3>1, <3>2
    <2> QED BY <2>1, <2>2, <2>3 DEF SnapshotConsistent
<1>3. ASSUME NEW q \in Readers, BeginRead(q) \/ ReaderStep(q) \/ CrashReader(q) PROVE Goal
    <2>1. UNCHANGED <<locksOf, built, content, committed, owner>>
        BY <1>3, ReaderFrame DEF segs
    <2>2. CASE q # r
        <3>1. /\ rpc'[r] = rpc[r] /\ got'[r] = got[r]
              /\ memory'[r] = memory[r] /\ memLock'[r] = memLock[r]
            BY <1>3, <2>2, ReaderFrame DEF Procs
        <3> QED BY <2>1, <3>1 DEF SnapshotConsistent, Scanning
    <2>3. CASE q = r
        <3>1. LockSharable(r) \/ VisitKey(r)
            BY <1>3, <2>3
               DEF BeginRead, ReaderStep, OpenShm, OpenLock, FindMap, LockTimeout,
                   UnlockSharable, CrashReader, Leave, Scanning, TypeOK
        <3>2. CASE LockSharable(r)
            <4>1. got'[r] = Blank
                BY <3>2 DEF LockSharable, ContentInv, BlankInv, Scanning
            <4> QED BY <4>1 DEF Blank
        <3>3. CASE VisitKey(r)
            <4>1. /\ Scanning(r) /\ memory' = memory /\ memLock' = memLock
                  /\ built[memory[r]] /\ locksOf[memory[r]] = {memLock[r]}
                BY <2>1, <3>3 DEF VisitKey, Scanning, handles
            <4>2. Changing(memory[r]) = {}
                <5>1. SUFFICES ASSUME NEW w \in Writers, wpc[w] \in {"crit", "mid"},
                                      WSeg(w) = memory[r]
                               PROVE  FALSE
                    BY DEF Changing
                <5>2. WLock(w) \in locksOf[WSeg(w)] /\ Writing(w)
                    BY <5>1, WriterHandles DEF Writing
                <5>3. sharers[WLock(w)] = {}
                    BY <5>2 DEF LockInv, HeldInv
                <5> QED BY <1>s, <4>1, <5>1, <5>2, <5>3
            <4>3. content[memory[r]] = committed[memory[r]]
                BY <1>s, <4>1 DEF ContentInv, DirtyInv
            <4>4. \A k \in Keys : Visible(memory[r], k) = {committed[memory[r]][k]}
                BY <4>1, <4>2, <4>3 DEF Visible
            <4>5. PICK k \in rleft[r] : got' = [got EXCEPT ![r][k] = committed[memory[r]][k]]
                <5>1. rleft[r] \subseteq Keys
                    BY DEF TypeOK
                <5>2. PICK k \in rleft[r] : \E e \in Visible(memory[r], k) :
                                                got' = [got EXCEPT ![r][k] = e]
                    BY <3>3 DEF VisitKey
                <5>3. Visible(memory[r], k) = {committed[memory[r]][k]}
                    BY <4>4, <5>1, <5>2
                <5> QED BY ONLY <5>2, <5>3
            <4>6. got \in [Readers -> [Keys -> Slot \cup {Garbage, Unread}]]
                BY DEF TypeOK
            <4>7. \A j \in Keys : got'[r][j] \in {got[r][j], committed[memory[r]][j]}
                BY ONLY <4>5, <4>6, r \in Readers
            <4>8. \A j \in Keys : got[r][j] \in {Unread, committed[memory[r]][j]}
                BY <4>1 DEF SnapshotConsistent
            <4>9. memory'[r] = memory[r] /\ committed' = committed
                BY <2>1, <4>1
            <4> QED BY <4>7, <4>8, <4>9
        <3> QED BY <3>1, <3>2, <3>3
    <2> QED BY <2>2, <2>3
<1>4. CASE UNCHANGED vars
    BY <1>4 DEF vars, handles, segs, rvars, SnapshotConsistent, Scanning
<1> QED BY <1>1, <1>2, <1>3, <1>4 DEF Next

\* The whole inductive invariant holds of every behaviour.
THEOREM Inductive == Spec => []IInv
<1>1. Init => IInv
    BY InitTypeOK, InitHandleInv, InitLockInv, InitContentInv DEF IInv
<1>2. IInv /\ [Next]_vars => IInv'
    BY NextTypeOK, NextCreatorInv, NextThreadInv, NextClientInv, NextMutexInv,
       NextHeldInv, NextNoPhantomHolder, NextUnusedInv, NextBuildInv, NextDirtyInv,
       NextBlankInv, NextSnapshot
       DEF IInv, HandleInv, LockInv, ContentInv
<1> QED BY <1>1, <1>2, PTL DEF Spec

\* A client with the one mutex of its segment copies one moment of finished
\* operations: no torn value and timestamp, no mix of two writes, whoever dies.
THEOREM Snapshots == Spec => []SnapshotConsistent
<1>1. IInv => SnapshotConsistent
    BY DEF IInv
<1> QED BY <1>1, Inductive, PTL

-----------------------------------------------------------------------------
(* One creator.                                                            *)

\* A creator that is alone has the last mutex that was made.
NewestInv == \A c \in Creators : Locked(c) => memLock[c] = nlock

\* Only a creation makes a mutex, and then for the creator at hand.
LEMMA NextNewestInv ==
    ASSUME NEW p, Creators = {p}, TypeOK, HandleInv, NewestInv, [Next]_vars
    PROVE  NewestInv'
<1>1. ASSUME NEW c \in Creators, CreatorStep(c) PROVE NewestInv'
    <2> USE <1>1 DEF NewestInv, Locked, TypeOK, Procs, handles, names
    <2>0. \A d \in Creators : d = c
        OBVIOUS
    <2>1. CASE RemoveShm(c) BY <2>0, <2>1 DEF RemoveShm
    <2>2. CASE OpenOrCreateShm(c) BY <2>0, <2>2 DEF OpenOrCreateShm
    <2>3. CASE RemoveLock(c) BY <2>0, <2>3 DEF RemoveLock
    <2>4. CASE CreateLock(c) BY <2>0, <2>4 DEF CreateLock
    <2>5. CASE FindOrConstructMap(c) BY <2>0, <2>5 DEF FindOrConstructMap
    <2>6. CASE ClearMap(c) BY <2>0, <2>6 DEF ClearMap
    <2>7. CASE DestroyMap(c) BY <2>0, <2>7 DEF DestroyMap
    <2>8. CASE CrashCreator(c) BY <2>0, <2>8 DEF CrashCreator
    <2> QED BY <2>1, <2>2, <2>3, <2>4, <2>5, <2>6, <2>7, <2>8 DEF CreatorStep
<1>2. ASSUME NEW w \in Writers, BeginWrite(w) \/ WriterStep(w) PROVE NewestInv'
    BY <1>2, WriterFrame DEF NewestInv, Locked, names, handles
<1>3. ASSUME NEW r \in Readers, BeginRead(r) \/ ReaderStep(r) \/ CrashReader(r)
      PROVE  NewestInv'
    BY <1>3, ReaderFrame, ShmemMapAssumption DEF NewestInv, Locked, names, Procs
<1>4. CASE UNCHANGED vars
    BY <1>4 DEF vars, names, handles, NewestInv, Locked
<1> QED BY <1>1, <1>2, <1>3, <1>4 DEF Next

\* A client that meets a thread changing its map opened the mutex before the one
\* producer made a new one.
THEOREM RestartWindow ==
    ASSUME NEW p, Creators = {p}
    PROVE  Spec => []OverlapOnlyInRestartWindow
<1>1. Init => NewestInv
    BY DEF Init, NewestInv, Locked
<1>2. TypeOK /\ HandleInv /\ NewestInv /\ [Next]_vars => NewestInv'
    BY NextNewestInv
<1>3. TypeOK /\ HandleInv /\ LockExclusion /\ NewestInv => OverlapOnlyInRestartWindow
    <2>1. SUFFICES ASSUME TypeOK, HandleInv, LockExclusion, NewestInv,
                          NEW r \in Readers, NEW w \in Writers, Scanning(r),
                          w \in Changing(memory[r])
                   PROVE  memLock[r] < WLock(w)
        BY DEF OverlapOnlyInRestartWindow
    <2>2. Writing(w) /\ wpc[w] # "idle"
        BY <2>1 DEF Changing, Writing
    <2>3. WLock(w) = nlock
        BY <2>1, <2>2, WriterHandles DEF NewestInv, Locked, WLock
    <2>4. memLock[r] # WLock(w)
        BY <2>1, <2>2 DEF LockExclusion
    <2>5. memLock[r] \in 0 .. nlock /\ nlock \in Nat
        BY <2>1, ShmemMapAssumption DEF TypeOK, Procs
    <2> QED BY <2>3, <2>4, <2>5
<1> QED BY <1>1, <1>2, <1>3, Handles, MutualExclusion, PTL DEF Spec

=============================================================================
