------------------------------ MODULE ShmemMap ------------------------------
(***************************************************************************)
(* The protocol of one shared-memory namespace: a managed segment that     *)
(* holds a map of sensors, and the named upgradable mutex that guards it.  *)
(* Creators (telemetry producers, and nv_shmem_tool when it erases) unlink *)
(* and re-create both names, write the map from their threads, and destroy *)
(* it or die.  Readers (bmcweb, nv_shmem_tool read) open both names and    *)
(* traverse the map under a sharable lock with a one second timeout.       *)
(*                                                                         *)
(* src/lib/managed_shmem.cpp, src/lib/shmem_map.cpp,                       *)
(* src/lib/impl/shmem_map.hpp, src/lib/telemetry_mrd_client.cpp.           *)
(*                                                                         *)
(* A step is one call into Boost.Interprocess or one store to the map.  A  *)
(* name is unlinked at once, while whoever has the object mapped keeps it, *)
(* so segments and mutexes are numbered by generation and 0 is "none".     *)
(***************************************************************************)
EXTENDS Naturals, FiniteSets

CONSTANTS
    Creators,       \* processes that construct the Map with O_CREAT
    Writers,        \* threads that call its write operations
    Home,           \* the creator process of each writer thread
    Readers,        \* client processes; one that died does not come back
    CachedReaders,  \* those that keep the mapping (getAllKeyValuePair)
    Keys,           \* sensor keys
    Vals,           \* values, each standing for a value and for its timestamp
    MaxGen,         \* bound: segments and mutexes ever created
    NoOne,          \* the exclusive side of a mutex is free
    Absent,         \* no entry for a key
    Garbage,        \* what a read of freed or half-written memory may return
    Unread          \* a key the traversal has not visited

ASSUME ShmemMapAssumption ==
    /\ Home \in [Writers -> Creators]
    /\ CachedReaders \subseteq Readers
    /\ Creators \cap Readers = {}
    /\ MaxGen \in Nat
    /\ NoOne \notin Writers
    /\ Absent \notin [val : Vals, time : Vals]
    /\ {Garbage, Unread} \cap ([val : Vals, time : Vals] \cup {Absent}) = {}
    /\ Garbage # Unread

Procs == Creators \cup Readers
Gens  == 1 .. MaxGen
Entry == [val : Vals, time : Vals]
Slot  == Entry \cup {Absent}
Empty == [k \in Keys |-> Absent]
Blank == [k \in Keys |-> Unread]

VARIABLES
    segName,    \* the segment the shared-memory name denotes
    lockName,   \* the mutex the name + "lock" denotes
    nseg,       \* segments created so far
    nlock,      \* mutexes created so far
    built,      \* segments whose map object is constructed
    content,    \* the map in each segment
    owner,      \* per mutex: the thread that set exclusive_in
    sharers,    \* per mutex: who is counted in num_upr_shar
    memory,     \* per process: its mapped segment
    memLock,    \* per process: its opened mutex
    cpc,        \* per creator: where it is in its lifecycle
    wpc,        \* per writer thread: where it is in an operation
    wop,        \* per writer thread: its operation, NoOne between operations
    rpc,        \* per reader: where it is in a read
    rleft,      \* per reader: keys the traversal has still to visit
    got,        \* per reader: what the traversal has copied so far
    committed,  \* auxiliary: the map as the last finished operation left it
    locksOf     \* auxiliary: the mutexes creators made for each segment

names   == <<segName, lockName, nseg, nlock>>
segs    == <<built, content, committed, locksOf>>
locks   == <<owner, sharers>>
handles == <<memory, memLock>>
wvars   == <<wpc, wop>>
rvars   == <<rpc, rleft, got>>
vars    == <<names, segs, locks, handles, cpc, wvars, rvars>>

-----------------------------------------------------------------------------
Kinds == {"insert", "update", "updateValue", "updateTimestamp", "erase", "clear"}
Ops   == [kind : Kinds, key : Keys, x : Vals]

TypeOK ==
    /\ segName \in 0 .. nseg /\ lockName \in 0 .. nlock
    /\ nseg \in 0 .. MaxGen /\ nlock \in 0 .. MaxGen
    /\ built \in [Gens -> BOOLEAN]
    /\ content \in [Gens -> [Keys -> Slot]]
    /\ committed \in [Gens -> [Keys -> Slot]]
    /\ locksOf \in [Gens -> SUBSET Gens]
    /\ owner \in [Gens -> Writers \cup {NoOne}]
    /\ sharers \in [Gens -> SUBSET Readers]
    /\ memory \in [Procs -> 0 .. nseg]
    /\ memLock \in [Procs -> 0 .. nlock]
    /\ cpc \in [Creators -> {"down", "removedShm", "hasShm", "removedLock",
                             "hasLock", "hasMap", "up"}]
    /\ wpc \in [Writers -> {"idle", "gate1", "gate2", "crit", "mid", "unlock"}]
    /\ wop \in [Writers -> Ops \cup {NoOne}]
    /\ rpc \in [Readers -> {"idle", "open", "openLock", "find", "wait", "scan",
                            "dead"}]
    /\ rleft \in [Readers -> SUBSET Keys]
    /\ got \in [Readers -> [Keys -> Slot \cup {Garbage, Unread}]]

Init ==
    /\ segName = 0 /\ lockName = 0 /\ nseg = 0 /\ nlock = 0
    /\ built = [g \in Gens |-> FALSE]
    /\ content = [g \in Gens |-> Empty]
    /\ committed = [g \in Gens |-> Empty]
    /\ locksOf = [g \in Gens |-> {}]
    /\ owner = [l \in Gens |-> NoOne]
    /\ sharers = [l \in Gens |-> {}]
    /\ memory = [p \in Procs |-> 0]
    /\ memLock = [p \in Procs |-> 0]
    /\ cpc = [c \in Creators |-> "down"]
    /\ wpc = [w \in Writers |-> "idle"]
    /\ wop = [w \in Writers |-> NoOne]
    /\ rpc = [r \in Readers |-> "idle"]
    /\ rleft = [r \in Readers |-> {}]
    /\ got = [r \in Readers |-> Blank]

-----------------------------------------------------------------------------
(* Construction of a map with O_CREAT.                                     *)

\* shared_memory_object::remove(nameSpace): the name goes, mappings stay.
RemoveShm(c) ==
    /\ cpc[c] = "down"
    /\ nseg < MaxGen /\ nlock < MaxGen
    /\ cpc' = [cpc EXCEPT ![c] = "removedShm"]
    /\ segName' = 0
    /\ UNCHANGED <<lockName, nseg, nlock, segs, locks, handles, wvars, rvars>>

\* managed_shared_memory(open_or_create, nameSpace, maxSize).
OpenOrCreateShm(c) ==
    /\ cpc[c] = "removedShm"
    /\ \/ /\ segName = 0
          /\ nseg < MaxGen
          /\ nseg' = nseg + 1
          /\ segName' = nseg + 1
          /\ memory' = [memory EXCEPT ![c] = nseg + 1]
       \/ /\ segName # 0
          /\ memory' = [memory EXCEPT ![c] = segName]
          /\ UNCHANGED <<segName, nseg>>
    /\ cpc' = [cpc EXCEPT ![c] = "hasShm"]
    /\ UNCHANGED <<lockName, nlock, segs, locks, memLock, wvars, rvars>>

\* named_upgradable_mutex::remove(nameSpace + "lock").
RemoveLock(c) ==
    /\ cpc[c] = "hasShm"
    /\ cpc' = [cpc EXCEPT ![c] = "removedLock"]
    /\ lockName' = 0
    /\ UNCHANGED <<segName, nseg, nlock, segs, locks, handles, wvars, rvars>>

\* Slip: open_or_create for the mutex, and still the unlock() after it.
CreateLockOrOpen(c) ==
    /\ cpc[c] = "removedLock"
    /\ nlock < MaxGen \/ lockName # 0
    /\ LET new == lockName = 0
           l   == IF new THEN nlock + 1 ELSE lockName
       IN  /\ nlock' = IF new THEN l ELSE nlock
           /\ lockName' = l
           /\ owner' = [owner EXCEPT ![l] = NoOne]
           /\ memLock' = [memLock EXCEPT ![c] = l]
           /\ locksOf' = [locksOf EXCEPT ![memory[c]] = @ \cup {l}]
    /\ cpc' = [cpc EXCEPT ![c] = "hasLock"]
    /\ UNCHANGED <<segName, nseg, built, content, committed, memory, sharers, wvars, rvars>>

\* named_upgradable_mutex(create_only, ...), which throws when another creator
\* made the name first; then memLock->unlock(), which clears exclusive_in.
CreateLock(c) ==
    /\ cpc[c] = "removedLock"
    /\ \/ /\ lockName = 0
          /\ nlock < MaxGen
          /\ nlock' = nlock + 1
          /\ lockName' = nlock + 1
          /\ owner' = [owner EXCEPT ![nlock + 1] = NoOne]
          /\ memLock' = [memLock EXCEPT ![c] = nlock + 1]
          /\ locksOf' = [locksOf EXCEPT ![memory[c]] = @ \cup {nlock + 1}]
          /\ cpc' = [cpc EXCEPT ![c] = "hasLock"]
          /\ UNCHANGED memory
       \/ /\ lockName # 0
          /\ memory' = [memory EXCEPT ![c] = 0]
          /\ cpc' = [cpc EXCEPT ![c] = "down"]
          /\ UNCHANGED <<lockName, nlock, owner, memLock, locksOf>>
    /\ UNCHANGED <<segName, nseg, built, content, committed, sharers, wvars, rvars>>

\* find<SensorMap>, or construct<SensorMap> an empty one, without the mutex.
FindOrConstructMap(c) ==
    /\ cpc[c] = "hasLock"
    /\ IF built[memory[c]]
       THEN UNCHANGED <<built, content, committed>>
       ELSE /\ built' = [built EXCEPT ![memory[c]] = TRUE]
            /\ content' = [content EXCEPT ![memory[c]] = Empty]
            /\ committed' = [committed EXCEPT ![memory[c]] = Empty]
    /\ cpc' = [cpc EXCEPT ![c] = "hasMap"]
    /\ UNCHANGED <<names, locksOf, locks, handles, wvars, rvars>>

\* mapImpl->clear(), without the mutex: the namespace is ready for use.
ClearMap(c) ==
    /\ cpc[c] = "hasMap"
    /\ content' = [content EXCEPT ![memory[c]] = Empty]
    /\ committed' = [committed EXCEPT ![memory[c]] = Empty]
    /\ cpc' = [cpc EXCEPT ![c] = "up"]
    /\ UNCHANGED <<names, built, locksOf, locks, handles, wvars, rvars>>

-----------------------------------------------------------------------------
(* The end of a creator.                                                   *)

ThreadsOf(c) == {w \in Writers : Home[w] = c}

\* ~Map with O_CREAT: memory->destroy, without the mutex; both names stay.
DestroyMap(c) ==
    /\ cpc[c] = "up"
    /\ \A w \in ThreadsOf(c) : wpc[w] = "idle"
    /\ built' = [built EXCEPT ![memory[c]] = FALSE]
    /\ content' = [content EXCEPT ![memory[c]] = Empty]
    /\ committed' = [committed EXCEPT ![memory[c]] = Empty]
    /\ memory' = [memory EXCEPT ![c] = 0]
    /\ memLock' = [memLock EXCEPT ![c] = 0]
    /\ cpc' = [cpc EXCEPT ![c] = "down"]
    /\ UNCHANGED <<names, locksOf, locks, wvars, rvars>>

\* The process dies: its threads vanish where they are, and what they held
\* stays held, what they stored stays stored.
CrashCreator(c) ==
    /\ cpc[c] # "down"
    /\ cpc' = [cpc EXCEPT ![c] = "down"]
    /\ memory' = [memory EXCEPT ![c] = 0]
    /\ memLock' = [memLock EXCEPT ![c] = 0]
    /\ wpc' = [w \in Writers |-> IF Home[w] = c THEN "idle" ELSE wpc[w]]
    /\ wop' = [w \in Writers |-> IF Home[w] = c THEN NoOne ELSE wop[w]]
    /\ UNCHANGED <<names, segs, locks, rvars>>

CreatorStep(c) ==
    \/ RemoveShm(c) \/ OpenOrCreateShm(c) \/ RemoveLock(c) \/ CreateLock(c)
    \/ FindOrConstructMap(c) \/ ClearMap(c) \/ DestroyMap(c) \/ CrashCreator(c)

-----------------------------------------------------------------------------
(* Write operations: a shmem_write_lock_t on memLock, the change, and     *)
(* the unlock at the end of the scope.                                     *)

WSeg(w)  == memory[Home[w]]
WLock(w) == memLock[Home[w]]
WKeep    == UNCHANGED <<names, handles, locksOf, built, cpc, rvars>>

BeginWrite(w) ==
    /\ cpc[Home[w]] = "up"
    /\ wpc[w] = "idle"
    /\ \E o \in Ops : wop' = [wop EXCEPT ![w] = o]
    /\ wpc' = [wpc EXCEPT ![w] = "gate1"]
    /\ UNCHANGED <<names, segs, locks, handles, cpc, rvars>>

\* Slip: a lock that does not look whether another thread has it.
EnterGateTaken(w) ==
    /\ wpc[w] = "gate1"
    /\ owner' = [owner EXCEPT ![WLock(w)] = w]
    /\ wpc' = [wpc EXCEPT ![w] = "gate2"]
    /\ WKeep
    /\ UNCHANGED <<content, committed, sharers, wop>>

\* named_upgradable_mutex::lock, first gate: set exclusive_in.  From here on
\* no new sharer is admitted.
EnterGate(w) ==
    /\ wpc[w] = "gate1"
    /\ owner[WLock(w)] = NoOne
    /\ owner' = [owner EXCEPT ![WLock(w)] = w]
    /\ wpc' = [wpc EXCEPT ![w] = "gate2"]
    /\ WKeep
    /\ UNCHANGED <<content, committed, sharers, wop>>

\* Slip: the writer does not wait for the sharers that are in.
DrainNobody(w) ==
    /\ wpc[w] = "gate2"
    /\ wpc' = [wpc EXCEPT ![w] = "crit"]
    /\ WKeep
    /\ UNCHANGED <<content, committed, locks, wop>>

\* Second gate: wait until the sharers that are in have left.
DrainSharers(w) ==
    /\ wpc[w] = "gate2"
    /\ sharers[WLock(w)] = {}
    /\ wpc' = [wpc EXCEPT ![w] = "crit"]
    /\ WKeep
    /\ UNCHANGED <<content, committed, locks, wop>>

\* Slip: updateValue of a key that is not there makes an entry without a time.
StoredUpsert(o, slot) ==
    CASE o.kind = "insert" /\ slot = Absent -> [val |-> o.x, time |-> o.x]
      [] o.kind = "erase"                   -> Absent
      [] o.kind \in {"update", "updateValue"} ->
             IF slot = Absent THEN [val |-> o.x, time |-> Absent]
             ELSE [slot EXCEPT !.val = o.x]
      [] o.kind = "updateTimestamp" /\ slot # Absent -> [slot EXCEPT !.time = o.x]
      [] OTHER                              -> slot

\* What one store leaves in the slot of the operation's key.
Stored(o, slot) ==
    CASE o.kind = "insert" /\ slot = Absent -> [val |-> o.x, time |-> o.x]
      [] o.kind = "erase"                   -> Absent
      [] o.kind \in {"update", "updateValue"} /\ slot # Absent ->
             [slot EXCEPT !.val = o.x]
      [] o.kind = "updateTimestamp" /\ slot # Absent -> [slot EXCEPT !.time = o.x]
      [] OTHER                              -> slot

\* The change under the lock.  boost's map::insert keeps an entry that is
\* there, and updating a key that is not there changes nothing.
\* updateValueAndTimeStamp is only half done after its first store.
Apply(w) ==
    LET o    == wop[w]
        slot == content[WSeg(w)][o.key]
    IN  /\ wpc[w] = "crit"
        /\ content' = [content EXCEPT ![WSeg(w)] =
               IF o.kind = "clear" THEN Empty
               ELSE [@ EXCEPT ![o.key] = Stored(o, slot)]]
        /\ wpc' = [wpc EXCEPT ![w] =
               IF o.kind = "update" /\ slot # Absent THEN "mid" ELSE "unlock"]
        /\ WKeep
        /\ UNCHANGED <<committed, locks, wop>>

\* Slip: the throw leaves the scope without the unlock.
OutOfMemoryLocked(w) ==
    /\ wpc[w] \in {"crit", "mid"}
    /\ wop[w].kind # "clear"
    /\ wpc' = [wpc EXCEPT ![w] = "idle"]
    /\ wop' = [wop EXCEPT ![w] = NoOne]
    /\ WKeep
    /\ UNCHANGED <<content, committed, locks>>

\* Building the key (getMapKey) or a string of the entry throws when the
\* segment is full: the scope is left with what was stored so far and the
\* interface reports false.  Only clear() allocates nothing.
OutOfMemory(w) ==
    /\ wpc[w] \in {"crit", "mid"}
    /\ wop[w].kind # "clear"
    /\ wpc' = [wpc EXCEPT ![w] = "unlock"]
    /\ WKeep
    /\ UNCHANGED <<content, committed, locks, wop>>

\* The second half of updateValueAndTimeStamp.  Another creator of the same
\* segment, under a mutex of its own, may have freed the node meanwhile: the
\* store then misses the map.
ApplyTimestamp(w) ==
    /\ wpc[w] = "mid"
    /\ content' = [content EXCEPT ![WSeg(w)][wop[w].key] =
           IF @ = Absent THEN Absent ELSE [@ EXCEPT !.time = wop[w].x]]
    /\ wpc' = [wpc EXCEPT ![w] = "unlock"]
    /\ WKeep
    /\ UNCHANGED <<committed, locks, wop>>

UnlockExclusive(w) ==
    /\ wpc[w] = "unlock"
    /\ owner' = [owner EXCEPT ![WLock(w)] = NoOne]
    /\ committed' = [committed EXCEPT ![WSeg(w)] = content[WSeg(w)]]
    /\ wpc' = [wpc EXCEPT ![w] = "idle"]
    /\ wop' = [wop EXCEPT ![w] = NoOne]
    /\ WKeep
    /\ UNCHANGED <<content, sharers>>

WriterStep(w) ==
    \/ EnterGate(w) \/ DrainSharers(w) \/ Apply(w) \/ OutOfMemory(w)
    \/ ApplyTimestamp(w) \/ UnlockExclusive(w)

-----------------------------------------------------------------------------
(* Reads.                                                                  *)

RKeep == UNCHANGED <<names, segs, cpc, wvars>>

\* getAllValues and getAllKeyValuePair visit every key, getValue one.  A
\* caching client that has the namespace mapped goes straight to the lock.
BeginRead(r) ==
    /\ rpc[r] = "idle"
    /\ \E ks \in {Keys} \cup {{k} : k \in Keys} : rleft' = [rleft EXCEPT ![r] = ks]
    /\ rpc' = [rpc EXCEPT ![r] = IF memory[r] = 0 THEN "open" ELSE "wait"]
    /\ got' = [got EXCEPT ![r] = Blank]
    /\ RKeep
    /\ UNCHANGED <<locks, handles>>

\* The end of a read: the Map object goes with the call unless it is cached.
\* A constructor that throws caches nothing.
Leave(r, keep) ==
    /\ rpc' = [rpc EXCEPT ![r] = "idle"]
    /\ rleft' = [rleft EXCEPT ![r] = {}]
    /\ got' = [got EXCEPT ![r] = Blank]
    /\ IF keep /\ r \in CachedReaders
       THEN UNCHANGED handles
       ELSE /\ memory' = [memory EXCEPT ![r] = 0]
            /\ memLock' = [memLock EXCEPT ![r] = 0]

\* managed_shared_memory(open_only, nameSpace) throws when there is no name.
OpenShm(r) ==
    /\ rpc[r] = "open"
    /\ IF segName = 0
       THEN Leave(r, FALSE)
       ELSE /\ memory' = [memory EXCEPT ![r] = segName]
            /\ rpc' = [rpc EXCEPT ![r] = "openLock"]
            /\ UNCHANGED <<memLock, rleft, got>>
    /\ RKeep
    /\ UNCHANGED locks

\* named_upgradable_mutex(open_only, nameSpace + "lock").
OpenLock(r) ==
    /\ rpc[r] = "openLock"
    /\ IF lockName = 0
       THEN Leave(r, FALSE)
       ELSE /\ memLock' = [memLock EXCEPT ![r] = lockName]
            /\ rpc' = [rpc EXCEPT ![r] = "find"]
            /\ UNCHANGED <<memory, rleft, got>>
    /\ RKeep
    /\ UNCHANGED locks

\* find<SensorMap>: BadMapException when there is no map object.
FindMap(r) ==
    /\ rpc[r] = "find"
    /\ IF built[memory[r]]
       THEN /\ rpc' = [rpc EXCEPT ![r] = "wait"]
            /\ UNCHANGED <<handles, rleft, got>>
       ELSE Leave(r, FALSE)
    /\ RKeep
    /\ UNCHANGED locks

\* Slip: the read goes on whether or not try_lock_sharable_for succeeded.
LockSharableAnyway(r) ==
    /\ rpc[r] = "wait"
    /\ sharers' = [sharers EXCEPT ![memLock[r]] = @ \cup {r}]
    /\ rpc' = [rpc EXCEPT ![r] = "scan"]
    /\ RKeep
    /\ UNCHANGED <<owner, handles, rleft, got>>

\* Slip: a mutex without the first gate, which admits clients past a writer
\* that waits.
LockSharableBarging(r) ==
    /\ rpc[r] = "wait"
    /\ \A w \in Writers : owner[memLock[r]] = w => wpc[w] = "gate2"
    /\ sharers' = [sharers EXCEPT ![memLock[r]] = @ \cup {r}]
    /\ rpc' = [rpc EXCEPT ![r] = "scan"]
    /\ RKeep
    /\ UNCHANGED <<owner, handles, rleft, got>>

\* TryReadLock, granted: the first gate is open.
LockSharable(r) ==
    /\ rpc[r] = "wait"
    /\ owner[memLock[r]] = NoOne
    /\ sharers' = [sharers EXCEPT ![memLock[r]] = @ \cup {r}]
    /\ rpc' = [rpc EXCEPT ![r] = "scan"]
    /\ RKeep
    /\ UNCHANGED <<owner, handles, rleft, got>>

\* Slip: after the second the client tries again.
LockTimeoutRetry(r) ==
    /\ rpc[r] = "wait"
    /\ owner[memLock[r]] # NoOne
    /\ UNCHANGED vars

\* TryReadLock, one second later with the gate still shut.
LockTimeout(r) ==
    /\ rpc[r] = "wait"
    /\ owner[memLock[r]] # NoOne
    /\ Leave(r, TRUE)
    /\ RKeep
    /\ UNCHANGED locks

\* Threads in the middle of changing the map of segment g.
Changing(g) == {w \in Writers : wpc[w] \in {"crit", "mid"} /\ WSeg(w) = g}

\* A visit copies the entry; in a map that is freed or being changed the
\* behaviour is undefined and the copy may be anything.
Visible(g, k) ==
    IF ~built[g] THEN {Garbage}
    ELSE {content[g][k]} \cup (IF Changing(g) = {} THEN {} ELSE {Garbage})

VisitKey(r) ==
    /\ rpc[r] = "scan"
    /\ \E k \in rleft[r] :
          /\ \E e \in Visible(memory[r], k) : got' = [got EXCEPT ![r][k] = e]
          /\ rleft' = [rleft EXCEPT ![r] = @ \ {k}]
    /\ RKeep
    /\ UNCHANGED <<locks, handles, rpc>>

\* The traversal is at the end: the lock is released and the copy returned.
UnlockSharable(r) ==
    /\ rpc[r] = "scan"
    /\ rleft[r] = {}
    /\ sharers' = [sharers EXCEPT ![memLock[r]] = @ \ {r}]
    /\ Leave(r, TRUE)
    /\ RKeep
    /\ UNCHANGED owner

\* A client dies; a mutex in shared memory keeps counting it.
CrashReader(r) ==
    /\ rpc[r] # "dead"
    /\ rpc' = [rpc EXCEPT ![r] = "dead"]
    /\ rleft' = [rleft EXCEPT ![r] = {}]
    /\ got' = [got EXCEPT ![r] = Blank]
    /\ memory' = [memory EXCEPT ![r] = 0]
    /\ memLock' = [memLock EXCEPT ![r] = 0]
    /\ RKeep
    /\ UNCHANGED locks

ReaderStep(r) ==
    \/ OpenShm(r) \/ OpenLock(r) \/ FindMap(r) \/ LockSharable(r)
    \/ LockTimeout(r) \/ VisitKey(r) \/ UnlockSharable(r)

-----------------------------------------------------------------------------
Next ==
    \/ \E c \in Creators : CreatorStep(c)
    \/ \E w \in Writers : BeginWrite(w) \/ WriterStep(w)
    \/ \E r \in Readers : BeginRead(r) \/ ReaderStep(r) \/ CrashReader(r)

Spec == Init /\ [][Next]_vars

\* Fairness: a thread inside a call is scheduled and its waits are the
\* mutex's own; nobody is obliged to start a call, and restarts, exits and
\* deaths are left to chance.
LiveSpec ==
    /\ Spec
    /\ \A w \in Writers : WF_vars(WriterStep(w))
    /\ \A r \in Readers : WF_vars(ReaderStep(r))

-----------------------------------------------------------------------------
(* Properties.                                                             *)

Writing(w)  == wpc[w] \in {"crit", "mid", "unlock"}
Scanning(r) == rpc[r] = "scan"

\* The mutex does its work: a thread inside a write operation shares the mutex
\* it locked with no traversal and with no other thread inside one
\* (shmem_write_lock_t and TryReadLock around every operation).
LockExclusion ==
    \A w \in Writers : Writing(w) =>
        /\ \A r \in Readers : Scanning(r) => memLock[r] # WLock(w)
        /\ \A v \in Writers \ {w} : Writing(v) => WLock(v) # WLock(w)

\* What a client copies is the map as the operations that gave the mutex back
\* left it, all keys of one moment: never half of an updateValueAndTimeStamp
\* that is under way, never a mix of before and after, not even when the
\* producer died half way.  It holds for a client whose mutex is the only one
\* made for its segment, while the map exists.
SnapshotConsistent ==
    \A r \in Readers :
        (Scanning(r) /\ built[memory[r]] /\ locksOf[memory[r]] = {memLock[r]}) =>
            \A k \in Keys : got[r][k] \in {Unread, committed[memory[r]][k]}

\* Nothing a mutex counts is held by nobody: exclusive_in belongs to a thread
\* inside an operation on that mutex or to a producer that died there, each
\* sharer is in a traversal or dead, so every early return, timeout and throw
\* gave back what it took and a restarted producer starts on a free mutex.
Inside(w) == wpc[w] \in {"gate2", "crit", "mid", "unlock"}
NoPhantomHolder ==
    \A l \in Gens :
        /\ \A w \in Writers : owner[l] = w /\ WLock(w) = l => Inside(w)
        /\ \A r \in sharers[l] : rpc[r] = "dead" \/ (Scanning(r) /\ memLock[r] = l)

\* With one creator, the only traversals that meet a thread changing the same
\* map are those of clients that opened both names inside the restart window,
\* after the new segment was named and before the old mutex was unlinked.
OverlapOnlyInRestartWindow ==
    \A r \in Readers, w \in Writers :
        (Scanning(r) /\ w \in Changing(memory[r])) => memLock[r] < WLock(w)

\* A read ends, in an answer or an exception, even when the producer died with
\* the mutex held (the one second limit of TryReadLock).
ReadTerminates ==
    \A r \in Readers : rpc[r] \notin {"idle", "dead"} ~> rpc[r] \in {"idle", "dead"}

\* A thread that has shut the first gate finishes its write however fast clients
\* come back to read, unless one of them died in a traversal: the gate admits no
\* sharer past a waiting writer.  Nothing says which of two waiting threads is
\* the next to shut it.
WriteTerminates ==
    \A w \in Writers :
        Inside(w) ~> (wpc[w] = "idle" \/ \E r \in sharers[WLock(w)] : rpc[r] = "dead")

-----------------------------------------------------------------------------
(* What the documents promise and this protocol does not keep.             *)

\* "APIs must ensure data integrity and protection in a multi process
\* environment" (README.md:49-50): no client walks a map while a thread
\* changes it.
NoOverlap ==
    \A r \in Readers : Scanning(r) => Changing(memory[r]) = {}

-----------------------------------------------------------------------------
(* The inductive invariant behind LockExclusion, NoPhantomHolder and       *)
(* SnapshotConsistent.                                                     *)

Mapped(c)  == cpc[c] \in {"hasShm", "removedLock", "hasLock", "hasMap", "up"}
Locked(c)  == cpc[c] \in {"hasLock", "hasMap", "up"}

\* A reader past find<SensorMap>, in a call or between calls of a caching client.
Attached(r) == rpc[r] \in {"wait", "scan"} \/ (rpc[r] = "idle" /\ memory[r] # 0)

\* A creator has a segment once it opened one and a mutex once it made one,
\* and nobody else has that mutex: create_only never returns an old one.
CreatorInv ==
    \A c \in Creators :
        /\ Mapped(c) => memory[c] # 0
        /\ Locked(c) => memLock[c] # 0 /\ memLock[c] \in locksOf[memory[c]]
        /\ ~Locked(c) => memLock[c] = 0
        /\ \A d \in Creators : memLock[c] = memLock[d] /\ memLock[c] # 0 => c = d

\* Only threads of a creator that is up are in an operation.
ThreadInv ==
    \A w \in Writers : wpc[w] # "idle" => cpc[Home[w]] = "up" /\ wop[w] \in Ops

\* A client has a segment and a mutex from the moment it opened each.
ClientInv ==
    \A r \in Readers :
        /\ rpc[r] \in {"openLock", "find", "wait", "scan"} => memory[r] # 0
        /\ rpc[r] \in {"find", "wait", "scan"} => memLock[r] # 0
        /\ rpc[r] = "idle" /\ memory[r] # 0 => memLock[r] # 0

\* A mutex is made for one segment.
MutexInv ==
    \A g \in Gens : \A l \in locksOf[g] :
        l \in 1 .. nlock /\ \A h \in Gens : l \in locksOf[h] => g = h

HandleInv == CreatorInv /\ ThreadInv /\ ClientInv /\ MutexInv

\* What the mutex words say of the threads and clients.
HeldInv ==
    /\ \A w \in Writers :
        /\ Inside(w) => owner[WLock(w)] = w
        /\ Writing(w) => sharers[WLock(w)] = {}
    /\ \A r \in Readers : Scanning(r) => r \in sharers[memLock[r]]

LockInv == HeldInv /\ NoPhantomHolder

\* A segment no mutex was made for has no map and nobody in it.
UnusedInv ==
    \A g \in Gens : locksOf[g] = {} =>
        /\ ~built[g] /\ content[g] = committed[g]
        /\ \A r \in Readers : Attached(r) => memory[r] # g

\* A segment whose only mutex is its creator's has no map and nobody in it until
\* that creator built it, and is empty until the creator is up.
BuildInv ==
    \A c \in Creators :
        Locked(c) /\ locksOf[memory[c]] = {memLock[c]} =>
            /\ cpc[c] = "hasLock" =>
                /\ ~built[memory[c]]
                /\ \A r \in Readers : Attached(r) => memory[r] # memory[c]
            /\ cpc[c] = "hasMap" =>
                content[memory[c]] = Empty /\ committed[memory[c]] = Empty

\* A segment with one mutex differs from what the last finished operation left
\* only while that mutex is held and no client reads under it.
DirtyInv ==
    \A g \in Gens, l \in Gens :
        locksOf[g] = {l} /\ content[g] # committed[g] =>
            /\ owner[l] # NoOne
            /\ \A r \in Readers : ~(Scanning(r) /\ memLock[r] = l)

\* Nothing is copied outside a traversal.
BlankInv == \A r \in Readers : ~Scanning(r) => got[r] = Blank

ContentInv == UnusedInv /\ BuildInv /\ DirtyInv /\ BlankInv

IInv ==
    /\ TypeOK
    /\ HandleInv
    /\ LockInv
    /\ ContentInv
    /\ SnapshotConsistent

-----------------------------------------------------------------------------
(* Refinement: the map as an object with atomic operations.                *)

\* The maps that one mutex guards: the rest has no promise to keep.
Private(g)   == built[g] /\ \E l \in Gens : locksOf[g] = {l}
\* Clients at the end of a traversal that such a mutex guarded all along.
Answered(r) ==
    /\ Scanning(r) /\ rleft[r] = {}
    /\ built[memory[r]] /\ locksOf[memory[r]] = {memLock[r]}

AbsMap  == [g \in Gens |-> IF Private(g) THEN committed[g] ELSE Empty]
AbsView == [r \in Readers |-> IF Answered(r) THEN got[r] ELSE Blank]

Atomic == INSTANCE AtomicMap WITH Maps <- Gens, map <- AbsMap, view <- AbsView

\* "APIs must ensure data integrity and protection in a multi process
\* environment" (README.md:49-50), where it is kept: with every operation cut
\* into its steps, interleaved with others and ended by deaths, a map under one
\* mutex changes by whole operations, at the moment the mutex is given back, and
\* a client is answered with what the map held at one moment.
ImplementsAtomicMap == Atomic!Spec

\* How far an operation has come, against the map as the last one left it: at the
\* lock nothing is changed, half way the value is, at the end what one operation
\* may leave.
Progress(w) ==
    LET m == committed[WSeg(w)]
        o == wop[w]
    IN  CASE wpc[w] \in {"gate2", "crit"} -> {m}
          [] wpc[w] = "mid" -> {[m EXCEPT ![o.key] = [@ EXCEPT !.val = o.x]]}
          [] wpc[w] = "unlock" /\ o.kind = "clear" -> {Empty}
          [] OTHER -> {[m EXCEPT ![o.key] = s] : s \in Atomic!After(m[o.key], o.x)}

ProgressInv ==
    \A w \in Writers :
        Inside(w) /\ locksOf[WSeg(w)] = {WLock(w)} =>
            /\ content[WSeg(w)] \in Progress(w)
            /\ wpc[w] = "mid" =>
                wop[w].kind = "update" /\ committed[WSeg(w)][wop[w].key] # Absent

=============================================================================
