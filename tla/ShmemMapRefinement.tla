------------------------- MODULE ShmemMapRefinement -------------------------
(***************************************************************************)
(* ShmemMap implements AtomicMap, for any number of creators, threads,     *)
(* clients, keys and values and any bound on generations.  ProgressInv is  *)
(* inductive on top of IInv; with both, every step of the protocol is a    *)
(* step of the abstract map or changes nothing of it.                      *)
(***************************************************************************)
EXTENDS ShmemMapProofs

\* What one store leaves in a slot is what an atomic operation may leave there.
LEMMA StoredAfter ==
    ASSUME NEW o \in Ops, o.kind # "clear", NEW slot \in Slot
    PROVE  o.kind # "update" \/ slot = Absent => Stored(o, slot) \in Atomic!After(slot, o.x)
BY ShmemMapAssumption DEF Stored, Atomic!After, Slot, Entry, Ops, Kinds

\* A thread in an operation on a map with one mutex is the only one there.
LEMMA AloneInside ==
    ASSUME TypeOK, HandleInv, LockInv, NEW w \in Writers, Inside(w),
           locksOf[WSeg(w)] = {WLock(w)}, NEW v \in Writers \ {w}, WriterStep(v)
    PROVE  WSeg(v) # WSeg(w)
<1>1. wpc[v] # "idle"
    BY DEF WriterStep, EnterGate, DrainSharers, Apply, OutOfMemory, ApplyTimestamp,
           UnlockExclusive
<1>2. SUFFICES ASSUME WSeg(v) = WSeg(w) PROVE FALSE
    OBVIOUS
<1>3. WLock(v) = WLock(w)
    BY <1>1, <1>2, WriterHandles
<1>4. owner[WLock(v)] = w
    BY <1>3 DEF LockInv, HeldInv
<1>5. ~EnterGate(v)
    BY <1>4, ShmemMapAssumption DEF EnterGate
<1>6. Inside(v)
    BY <1>5 DEF WriterStep, DrainSharers, Apply, OutOfMemory, ApplyTimestamp,
                UnlockExclusive, Inside
<1>7. owner[WLock(v)] = v
    BY <1>6 DEF LockInv, HeldInv
<1> QED BY <1>4, <1>7

-----------------------------------------------------------------------------
(* How far an operation has come.                                          *)

\* At the start no thread is inside an operation.
LEMMA InitProgressInv == Init => ProgressInv
BY DEF Init, ProgressInv, Inside

\* A thread's own step takes its operation from one stage to the next.
LEMMA OwnProgress ==
    ASSUME TypeOK, HandleInv, LockInv, DirtyInv, ProgressInv,
           NEW w \in Writers, WriterStep(w), Inside(w)', locksOf[WSeg(w)] = {WLock(w)}
    PROVE  /\ content'[WSeg(w)] \in Progress(w)'
           /\ wpc'[w] = "mid" =>
                  wop'[w].kind = "update" /\ committed'[WSeg(w)][wop'[w].key] # Absent
<1> DEFINE g == WSeg(w)
           m == committed[g]
           o == wop[w]
           Left == {[m EXCEPT ![o.key] = s] : s \in Atomic!After(m[o.key], o.x)}
<1>1. wpc[w] # "idle"
    BY DEF WriterStep, EnterGate, DrainSharers, Apply, OutOfMemory, ApplyTimestamp,
           UnlockExclusive
<1>2. /\ g \in Gens /\ WLock(w) \in Gens /\ o \in Ops
      /\ m \in [Keys -> Slot] /\ o.key \in Keys /\ o.x \in Vals /\ m[o.key] \in Slot
      /\ content \in [Gens -> [Keys -> Slot]] /\ content[g] \in [Keys -> Slot]
    BY <1>1, WriterHandles DEF TypeOK, Ops
<1>3. wpc \in [Writers -> {"idle", "gate1", "gate2", "crit", "mid", "unlock"}]
    BY DEF TypeOK
<1>4. Inside(w) => content[g] \in Progress(w)
    BY DEF ProgressInv
<1>5. WSeg(w)' = g /\ WLock(w)' = WLock(w)
    BY WriterFrame DEF WSeg, WLock, handles
<1>6. m \in Left /\ [m EXCEPT ![o.key] = m[o.key]] = m
    <2>1. m[o.key] \in Atomic!After(m[o.key], o.x)
        BY DEF Atomic!After
    <2>2. [m EXCEPT ![o.key] = m[o.key]] = m
        BY <1>2
    <2> QED BY <2>1, <2>2
<1>7. CASE EnterGate(w)
    <2>1. content[g] = m
        BY <1>2, <1>7 DEF DirtyInv, EnterGate
    <2>2. content' = content /\ committed' = committed /\ wpc'[w] = "gate2"
        BY <1>3, <1>7 DEF EnterGate
    <2> QED BY <1>5, <2>1, <2>2 DEF Progress
<1>8. CASE DrainSharers(w)
    <2>1. content[g] = m
        BY <1>4, <1>8 DEF DrainSharers, Inside, Progress
    <2>2. content' = content /\ committed' = committed /\ wpc'[w] = "crit"
        BY <1>3, <1>8 DEF DrainSharers
    <2> QED BY <1>5, <2>1, <2>2 DEF Progress
<1>9. CASE Apply(w)
    <2>1. content[g] = m
        BY <1>4, <1>9 DEF Apply, Inside, Progress
    <2>2. /\ committed' = committed /\ wop' = wop
          /\ content'[g] = IF o.kind = "clear" THEN Empty
                           ELSE [m EXCEPT ![o.key] = Stored(o, m[o.key])]
          /\ wpc'[w] = IF o.kind = "update" /\ m[o.key] # Absent THEN "mid" ELSE "unlock"
        BY <1>2, <1>3, <1>9, <2>1 DEF Apply
    <2>3. CASE o.kind = "clear"
        BY <1>5, <2>2, <2>3 DEF Progress
    <2>4. CASE o.kind = "update" /\ m[o.key] # Absent
        <3>1. Stored(o, m[o.key]) = [m[o.key] EXCEPT !.val = o.x]
            BY <2>4 DEF Stored
        <3> QED BY <1>2, <1>5, <2>2, <2>4, <3>1 DEF Progress
    <2>5. CASE o.kind # "clear" /\ ~(o.kind = "update" /\ m[o.key] # Absent)
        <3>1. Stored(o, m[o.key]) \in Atomic!After(m[o.key], o.x)
            BY <1>2, <2>5, StoredAfter
        <3>2. content'[g] \in Left
            BY <2>2, <2>5, <3>1
        <3> QED BY <1>5, <2>2, <2>5, <3>2 DEF Progress
    <2> QED BY <2>3, <2>4, <2>5
<1>10. CASE OutOfMemory(w)
    <2>1. content' = content /\ committed' = committed /\ wop' = wop
          /\ wpc'[w] = "unlock" /\ o.kind # "clear"
        BY <1>3, <1>10 DEF OutOfMemory
    <2>2. content[g] \in Left
        <3>1. CASE wpc[w] = "crit"
            BY <1>4, <1>6, <3>1 DEF Inside, Progress
        <3>2. CASE wpc[w] = "mid"
            <4>1. m[o.key] # Absent
                BY <3>2 DEF ProgressInv, Inside
            <4>2. content[g] = [m EXCEPT ![o.key] = [m[o.key] EXCEPT !.val = o.x]]
                BY <1>2, <1>4, <3>2 DEF Inside, Progress
            <4>3. [m[o.key] EXCEPT !.val = o.x] \in Atomic!After(m[o.key], o.x)
                BY <4>1 DEF Atomic!After
            <4> QED BY <4>2, <4>3
        <3> QED BY <1>10, <3>1, <3>2 DEF OutOfMemory
    <2> QED BY <1>5, <2>1, <2>2 DEF Progress
<1>11. CASE ApplyTimestamp(w)
    <2>1. m[o.key] # Absent /\ o.kind = "update" /\ wpc[w] = "mid"
        BY <1>11 DEF ApplyTimestamp, ProgressInv, Inside
    <2>2. content[g] = [m EXCEPT ![o.key] = [m[o.key] EXCEPT !.val = o.x]]
        BY <1>2, <1>4, <2>1 DEF Inside, Progress
    <2>3. m[o.key] \in Entry
        BY <1>2, <2>1 DEF Slot
    <2>4. content[g][o.key] = [val |-> o.x, time |-> m[o.key].time]
        BY <1>2, <2>2, <2>3 DEF Entry
    <2>5. content[g][o.key] # Absent
        BY <1>2, <2>3, <2>4, ShmemMapAssumption DEF Entry
    <2>6. content'[g] = [content[g] EXCEPT ![o.key] = [content[g][o.key] EXCEPT !.time = o.x]]
        BY <1>2, <1>11, <2>5 DEF ApplyTimestamp
    <2>7. [content[g][o.key] EXCEPT !.time = o.x] = [val |-> o.x, time |-> o.x]
        BY <2>4
    <2>8. content'[g] = [m EXCEPT ![o.key] = [val |-> o.x, time |-> o.x]]
        BY <1>2, <2>2, <2>6, <2>7
    <2>9. [val |-> o.x, time |-> o.x] \in Atomic!After(m[o.key], o.x)
        BY <2>1 DEF Atomic!After
    <2>10. committed' = committed /\ wop' = wop /\ wpc'[w] = "unlock"
        BY <1>3, <1>11 DEF ApplyTimestamp
    <2> QED BY <1>5, <2>1, <2>8, <2>9, <2>10 DEF Progress
<1>12. ~UnlockExclusive(w)
    BY <1>3 DEF UnlockExclusive, Inside
<1> QED BY <1>7, <1>8, <1>9, <1>10, <1>11, <1>12 DEF WriterStep

\* Nobody but the thread itself changes how far its operation has come.
LEMMA NextProgressInv == IInv /\ ProgressInv /\ [Next]_vars => ProgressInv'
<1> SUFFICES ASSUME IInv, ProgressInv, [Next]_vars, NEW w \in Writers, Inside(w)',
                    locksOf'[WSeg(w)'] = {WLock(w)'}
             PROVE  /\ content'[WSeg(w)'] \in Progress(w)'
                    /\ wpc'[w] = "mid" =>
                           wop'[w].kind = "update"
                           /\ committed'[WSeg(w)'][wop'[w].key] # Absent
    BY DEF ProgressInv
<1> DEFINE Same == /\ wpc'[w] = wpc[w] /\ wop'[w] = wop[w]
                   /\ WSeg(w)' = WSeg(w) /\ WLock(w)' = WLock(w)
                   /\ locksOf[WSeg(w)] = {WLock(w)}
                   /\ content'[WSeg(w)] = content[WSeg(w)]
                   /\ committed'[WSeg(w)] = committed[WSeg(w)]
<1> USE DEF IInv
<1>1. ASSUME Same
      PROVE  /\ content'[WSeg(w)'] \in Progress(w)'
             /\ wpc'[w] = "mid" =>
                    wop'[w].kind = "update"
                    /\ committed'[WSeg(w)'][wop'[w].key] # Absent
    <2>1. Progress(w)' = Progress(w)
        BY <1>1 DEF Progress
    <2>2. Inside(w)
        BY <1>1 DEF Inside
    <2> QED BY <1>1, <2>1, <2>2 DEF ProgressInv
<1>2. ASSUME NEW c \in Creators, CreatorStep(c) PROVE Same
    <2>1. /\ wpc'[w] # "idle" /\ wpc'[w] = wpc[w] /\ wop'[w] = wop[w]
          /\ WSeg(w)' = WSeg(w) /\ WLock(w)' = WLock(w)
        BY <1>2, CreatorLocks, CreatorFrame DEF Inside
    <2>2. /\ WSeg(w) \in Gens /\ WLock(w) \in locksOf[WSeg(w)]
          /\ Home[w] \in Creators /\ cpc[Home[w]] = "up"
        BY <2>1, WriterHandles
    <2>3. locksOf[WSeg(w)] = {WLock(w)}
        BY <1>2, <2>1, <2>2, CreatorSegments
    <2>4. CASE Locked(c) /\ memory[c] = WSeg(w)
        <3>1. c = Home[w]
            BY <2>2, <2>3, <2>4, OneMutexOneCreator DEF Locked, WSeg, WLock
        <3>2. wpc \in [Writers -> {"idle", "gate1", "gate2", "crit", "mid", "unlock"}]
            BY DEF TypeOK
        <3>3. ~DestroyMap(c)
            BY <2>1, <3>1 DEF DestroyMap, ThreadsOf
        <3>4. ~CrashCreator(c)
            BY <2>1, <3>1, <3>2 DEF CrashCreator
        <3>5. FALSE
            BY <1>2, <2>2, <3>1, <3>3, <3>4
               DEF CreatorStep, RemoveShm, OpenOrCreateShm, RemoveLock, CreateLock,
                   FindOrConstructMap, ClearMap
        <3> QED BY <3>5
    <2>5. CASE ~(Locked(c) /\ memory[c] = WSeg(w))
        BY <1>2, <2>1, <2>2, <2>3, <2>5, CreatorSegments
    <2> QED BY <2>4, <2>5
<1>3. ASSUME NEW v \in Writers, BeginWrite(v) \/ WriterStep(v), v # w PROVE Same
    <2>1. /\ wpc'[w] = wpc[w] /\ wop'[w] = wop[w] /\ UNCHANGED <<memory, memLock, locksOf>>
          /\ WSeg(w)' = WSeg(w) /\ WLock(w)' = WLock(w)
        BY <1>3, WriterFrame DEF handles, WSeg, WLock
    <2>2. Inside(w) /\ locksOf[WSeg(w)] = {WLock(w)} /\ WSeg(w) \in Gens
        BY <2>1, WriterHandles DEF Inside
    <2>3. CASE BeginWrite(v)
        BY <2>1, <2>2, <2>3 DEF BeginWrite, segs
    <2>4. CASE WriterStep(v)
        BY <1>3, <2>1, <2>2, <2>4, AloneInside, WriterFrame
    <2> QED BY <1>3, <2>3, <2>4
<1>4. ASSUME BeginWrite(w) \/ WriterStep(w)
      PROVE  /\ content'[WSeg(w)'] \in Progress(w)'
             /\ wpc'[w] = "mid" =>
                    wop'[w].kind = "update"
                    /\ committed'[WSeg(w)'][wop'[w].key] # Absent
    <2>1. WSeg(w)' = WSeg(w) /\ WLock(w)' = WLock(w) /\ locksOf' = locksOf
        BY <1>4, WriterFrame DEF handles, WSeg, WLock
    <2>2. ~BeginWrite(w)
        BY DEF BeginWrite, Inside, TypeOK
    <2> QED BY <1>4, <2>1, <2>2, OwnProgress DEF ContentInv
<1>5. ASSUME NEW r \in Readers, BeginRead(r) \/ ReaderStep(r) \/ CrashReader(r) PROVE Same
    <2>1. UNCHANGED <<segs, wvars>> /\ \A p \in Procs \ {r} :
              memory'[p] = memory[p] /\ memLock'[p] = memLock[p]
        BY <1>5, ReaderFrame
    <2>2. Home[w] \in Procs \ {r}
        BY ShmemMapAssumption DEF Procs
    <2> QED BY <2>1, <2>2 DEF segs, wvars, WSeg, WLock
<1>6. ASSUME UNCHANGED vars PROVE Same
    BY <1>6 DEF vars, segs, handles, wvars, WSeg, WLock
<1> QED BY <1>1, <1>2, <1>3, <1>4, <1>5, <1>6 DEF Next

\* Every operation is as far as its thread's place in the code says.
LEMMA Progresses == Spec => [](IInv /\ ProgressInv)
<1>1. Init => ProgressInv
    BY InitProgressInv
<1>2. IInv /\ ProgressInv /\ [Next]_vars => ProgressInv'
    BY NextProgressInv
<1> QED BY <1>1, <1>2, Inductive, PTL DEF Spec

-----------------------------------------------------------------------------
(* The steps of the protocol as steps of the abstract map.                 *)

\* Both start with no map and no answer.
LEMMA InitAtomic == Init => Atomic!Init
BY ShmemMapAssumption
   DEF Init, Atomic!Init, AbsMap, AbsView, Private, Answered, Scanning,
       Atomic!Empty, Atomic!Blank, Empty, Blank

\* A creator's step leaves the maps alone or begins one again, and answers nobody.
LEMMA CreatorAtomic ==
    ASSUME IInv, NEW c \in Creators, CreatorStep(c)
    PROVE  Atomic!Next \/ UNCHANGED <<AbsMap, AbsView>>
<1> USE DEF IInv
<1>1. /\ UNCHANGED <<rpc, rleft, got>>
      /\ \A r \in Readers : memory'[r] = memory[r] /\ memLock'[r] = memLock[r]
    BY CreatorFrame, CreatorLocks DEF rvars
<1>2. CASE UNCHANGED <<built, committed, locksOf>>
    BY <1>1, <1>2 DEF AbsMap, AbsView, Private, Answered, Scanning
<1>3. ASSUME NEW h \in Gens,
             \A g \in Gens \ {h} : /\ built'[g] = built[g] /\ committed'[g] = committed[g]
                                   /\ locksOf'[g] = locksOf[g],
             Private(h)' => committed'[h] = Empty,
             \A r \in Readers : Answered(r)' /\ memory[r] = h => Answered(r)
      PROVE  Atomic!Next
    <2>1. \A r \in Readers : Answered(r)' => memory[r] \in Gens
        BY <1>1, ShmemMapAssumption
           DEF Answered, Scanning, HandleInv, ClientInv, TypeOK, Procs, Gens
    <2>2. \A r \in Readers : Answered(r)' => Answered(r)
        BY <1>1, <1>3, <2>1 DEF Answered, Scanning
    <2>3. AbsMap' = [AbsMap EXCEPT ![h] = Empty]
        <3>1. \A g \in Gens \ {h} : Private(g)' <=> Private(g)
            BY <1>3 DEF Private
        <3>2. \A g \in Gens : (IF Private(g)' THEN committed'[g] ELSE Empty)
                  = IF g = h THEN Empty ELSE AbsMap[g]
            BY <1>3, <3>1 DEF AbsMap
        <3> QED BY ONLY <3>2 DEF AbsMap, Empty
    <2>4. AbsView' = [r \in Readers |-> IF r \in {q \in Readers : ~Answered(q)'}
                                        THEN Blank ELSE AbsView[r]]
        BY <1>1, <2>2 DEF AbsView
    <2>5. Atomic!Reset(h)
        BY <2>3, <2>4 DEF Atomic!Reset, Atomic!Empty, Atomic!Blank, Empty, Blank
    <2> QED BY <1>3, <2>5 DEF Atomic!Next
<1>4. Locked(c) => memory[c] \in Gens /\ memLock[c] \in locksOf[memory[c]]
    BY ShmemMapAssumption DEF HandleInv, CreatorInv, Locked, Mapped, TypeOK, Procs, Gens
<1>5. CASE CreateLock(c) /\ lockName = 0
    <2>0. PICK h \in Gens : h = memory[c]
        BY <1>5, ShmemMapAssumption
           DEF CreateLock, HandleInv, CreatorInv, Mapped, TypeOK, Procs, Gens
    <2>1. /\ locksOf' = [locksOf EXCEPT ![h] = @ \cup {nlock + 1}]
          /\ built' = built /\ committed' = committed /\ nlock \in Nat
        BY <1>5, <2>0, ShmemMapAssumption DEF CreateLock, TypeOK
    <2>2. nlock + 1 \notin locksOf[h]
        BY <2>1 DEF HandleInv, MutexInv
    <2>3. locksOf'[h] = locksOf[h] \cup {nlock + 1}
        BY <2>1 DEF TypeOK
    <2>4. \A l : locksOf'[h] = {l} => ~built'[h]
        BY <2>1, <2>2, <2>3 DEF ContentInv, UnusedInv
    <2>5. \A g \in Gens \ {h} : locksOf'[g] = locksOf[g]
        BY <2>1 DEF TypeOK
    <2>6. ~Private(h)'
        BY <2>4 DEF Private
    <2>7. \A r \in Readers : ~(Answered(r)' /\ memory[r] = h)
        BY <1>1, <2>4 DEF Answered
    <2> QED BY <1>3, <2>1, <2>5, <2>6, <2>7
<1>6. CASE FindOrConstructMap(c) /\ ~built[memory[c]]
    <2>0. PICK h \in Gens : h = memory[c]
        BY <1>4, <1>6 DEF FindOrConstructMap, Locked
    <2>1. /\ Locked(c) /\ cpc[c] = "hasLock" /\ locksOf' = locksOf
          /\ built' = [built EXCEPT ![h] = TRUE]
          /\ committed' = [committed EXCEPT ![h] = Empty]
        BY <1>6, <2>0 DEF FindOrConstructMap, Locked
    <2>2. \A r \in Readers : ~(Answered(r)' /\ memory[r] = h)
        <3>1. SUFFICES ASSUME NEW r \in Readers, Answered(r)', memory[r] = h PROVE FALSE
            OBVIOUS
        <3>2. locksOf[h] = {memLock[r]} /\ Attached(r)
            BY <1>1, <2>1, <3>1 DEF Answered, Scanning, Attached
        <3>3. locksOf[h] = {memLock[c]}
            BY <1>4, <2>0, <2>1, <3>2
        <3> QED BY <2>1, <3>1, <3>2, <3>3, <2>0 DEF ContentInv, BuildInv
    <2>3. committed'[h] = Empty
        BY <1>4, <2>0, <2>1 DEF TypeOK
    <2>4. \A g \in Gens \ {h} : built'[g] = built[g] /\ committed'[g] = committed[g]
        BY <2>1 DEF TypeOK
    <2> QED BY <1>3, <2>1, <2>2, <2>3, <2>4
<1>7. CASE ClearMap(c)
    <2>0. PICK h \in Gens : h = memory[c]
        BY <1>4, <1>7 DEF ClearMap, Locked
    <2>1. /\ Locked(c) /\ built' = built /\ locksOf' = locksOf
          /\ committed' = [committed EXCEPT ![h] = Empty]
        BY <1>7, <2>0 DEF ClearMap, Locked
    <2>2. \A r \in Readers : Answered(r)' => Answered(r)
        BY <1>1, <2>1 DEF Answered, Scanning
    <2>3. committed'[h] = Empty
        BY <1>4, <2>0, <2>1 DEF TypeOK
    <2>4. \A g \in Gens \ {h} : committed'[g] = committed[g]
        BY <2>1 DEF TypeOK
    <2> QED BY <1>3, <2>1, <2>2, <2>3, <2>4
<1>8. CASE DestroyMap(c)
    <2>0. PICK h \in Gens : h = memory[c]
        BY <1>4, <1>8 DEF DestroyMap, Locked
    <2>1. /\ Locked(c) /\ locksOf' = locksOf
          /\ built' = [built EXCEPT ![h] = FALSE]
          /\ committed' = [committed EXCEPT ![h] = Empty]
        BY <1>8, <2>0 DEF DestroyMap, Locked
    <2>2. ~built'[h]
        BY <1>4, <2>0, <2>1 DEF TypeOK
    <2>3. \A g \in Gens \ {h} : built'[g] = built[g] /\ committed'[g] = committed[g]
        BY <2>1 DEF TypeOK
    <2>4. ~Private(h)'
        BY <2>2 DEF Private
    <2>5. \A r \in Readers : ~(Answered(r)' /\ memory[r] = h)
        BY <1>1, <2>2 DEF Answered
    <2> QED BY <1>3, <2>1, <2>3, <2>4, <2>5
<1> QED BY <1>2, <1>5, <1>6, <1>7, <1>8
        DEF CreatorStep, RemoveShm, OpenOrCreateShm, RemoveLock, CreateLock,
            FindOrConstructMap, CrashCreator, segs

\* A thread changes a map when it gives the mutex back, and then by one operation.
LEMMA WriterAtomic ==
    ASSUME IInv, ProgressInv, NEW w \in Writers, BeginWrite(w) \/ WriterStep(w)
    PROVE  Atomic!Next \/ UNCHANGED <<AbsMap, AbsView>>
<1> USE DEF IInv
<1>1. UNCHANGED <<memory, memLock, locksOf, built, rpc, rleft, got>>
    BY WriterFrame DEF handles, rvars
<1>2. AbsView' = AbsView
    BY <1>1 DEF AbsView, Answered, Scanning
<1>3. CASE ~UnlockExclusive(w)
    <2>1. committed' = committed
        BY <1>3 DEF BeginWrite, segs, WriterStep, EnterGate, DrainSharers, Apply,
                    OutOfMemory, ApplyTimestamp
    <2> QED BY <1>1, <1>2, <2>1 DEF AbsMap, Private
<1>4. CASE UnlockExclusive(w)
    <2>1. Inside(w) /\ wpc[w] = "unlock"
        BY <1>4 DEF UnlockExclusive, Inside
    <2>2. PICK g \in Gens : g = WSeg(w)
        BY <2>1, WriterHandles
    <2>3. /\ WLock(w) \in locksOf[g] /\ wop[w] \in Ops
          /\ committed' = [committed EXCEPT ![g] = content[g]]
        BY <1>4, <2>1, <2>2, WriterHandles DEF UnlockExclusive
    <2>4. AbsMap' = [h \in Gens |-> IF Private(h) THEN committed'[h] ELSE Empty]
        BY <1>1 DEF AbsMap, Private
    <2>5. \A h \in Gens : committed'[h] = IF h = g THEN content[g] ELSE committed[h]
        BY <2>3 DEF TypeOK
    <2>6. CASE ~Private(g)
        <3>1. AbsMap' = AbsMap
            BY <2>4, <2>5, <2>6 DEF AbsMap
        <3> QED BY <1>2, <3>1
    <2>7. CASE Private(g)
        <3>1. locksOf[WSeg(w)] = {WLock(w)}
            BY <2>2, <2>3, <2>7 DEF Private
        <3>2. content[g] \in Progress(w)
            BY <2>1, <2>2, <3>1 DEF ProgressInv
        <3>3. AbsMap' = [AbsMap EXCEPT ![g] = content[g]]
            BY <2>4, <2>5, <2>7 DEF AbsMap
        <3>4. CASE wop[w].kind = "clear"
            <4>1. content[g] = Empty
                BY <2>1, <3>2, <3>4 DEF Progress
            <4>2. AbsView' = [r \in Readers |-> IF r \in {} THEN Blank ELSE AbsView[r]]
                BY <1>2 DEF AbsView
            <4>3. AbsMap' = [AbsMap EXCEPT ![g] = Empty]
                BY <3>3, <4>1
            <4>4. \E R \in SUBSET Readers :
                      AbsView' = [r \in Readers |-> IF r \in R THEN Blank ELSE AbsView[r]]
                <5>1. WITNESS {} \in SUBSET Readers
                <5> QED BY <4>2
            <4>5. Atomic!Reset(g)
                BY ONLY <4>3, <4>4
                   DEF Atomic!Reset, Atomic!Empty, Atomic!Blank, Empty, Blank
            <4> QED BY <4>5 DEF Atomic!Next
        <3>5. CASE wop[w].kind # "clear"
            <4>1. AbsMap[g] = committed[g]
                BY <2>7 DEF AbsMap
            <4>2. PICK s \in Atomic!After(AbsMap[g][wop[w].key], wop[w].x) :
                      content[g] = [AbsMap[g] EXCEPT ![wop[w].key] = s]
                BY <2>1, <2>2, <3>2, <3>5, <4>1 DEF Progress
            <4>3. wop[w].key \in Keys /\ wop[w].x \in Vals
                BY <2>3 DEF Ops
            <4>4. AbsMap' = [AbsMap EXCEPT ![g] = [AbsMap[g] EXCEPT ![wop[w].key] = s]]
                BY <3>3, <4>2
            <4>5. Atomic!Write(g)
                BY <1>2, <4>2, <4>3, <4>4 DEF Atomic!Write
            <4> QED BY <4>5 DEF Atomic!Next
        <3> QED BY <3>4, <3>5
    <2> QED BY <2>6, <2>7
<1> QED BY <1>3, <1>4

\* A client's last visit gives it the map of that moment, and nothing else does.
LEMMA ReaderAtomic ==
    ASSUME IInv, SnapshotConsistent', NEW r \in Readers,
           BeginRead(r) \/ ReaderStep(r) \/ CrashReader(r)
    PROVE  Atomic!Next \/ UNCHANGED <<AbsMap, AbsView>>
<1> USE DEF IInv
<1>1. UNCHANGED <<built, content, committed, locksOf>>
    BY ReaderFrame DEF segs
<1>2. AbsMap' = AbsMap
    BY <1>1 DEF AbsMap, Private
<1>3. \A q \in Readers \ {r} :
          /\ rpc'[q] = rpc[q] /\ rleft'[q] = rleft[q] /\ got'[q] = got[q]
          /\ memory'[q] = memory[q] /\ memLock'[q] = memLock[q]
    <2>1. rleft \in [Readers -> SUBSET Keys]
        BY DEF TypeOK
    <2>2. \A q \in Readers \ {r} : rleft'[q] = rleft[q]
        BY <2>1 DEF BeginRead, ReaderStep, OpenShm, OpenLock, FindMap, LockSharable,
                    LockTimeout, VisitKey, UnlockSharable, CrashReader, Leave
    <2> QED BY <2>2, ReaderFrame DEF Procs
<1>4. \A q \in Readers \ {r} : Answered(q)' <=> Answered(q)
    BY <1>1, <1>3 DEF Answered, Scanning
<1>5. AbsView' = [AbsView EXCEPT ![r] = IF Answered(r)' THEN got'[r] ELSE Blank]
    <2>1. \A q \in Readers : (IF Answered(q)' THEN got'[q] ELSE Blank)
              = IF q = r THEN IF Answered(r)' THEN got'[r] ELSE Blank ELSE AbsView[q]
        BY <1>3, <1>4 DEF AbsView
    <2>2. AbsView' = [q \in Readers |-> IF Answered(q)' THEN got'[q] ELSE Blank]
        BY DEF AbsView, Blank
    <2>3. AbsView = [q \in Readers |-> AbsView[q]]
        BY DEF AbsView
    <2> QED BY ONLY <2>1, <2>2, <2>3
<1>6. CASE ~Answered(r)' \/ got'[r] = Blank
    <2>1. Atomic!Leave(r)
        BY <1>2, <1>5, <1>6 DEF Atomic!Leave, Atomic!Blank, Blank
    <2> QED BY <2>1 DEF Atomic!Next
<1>7. CASE Answered(r)' /\ got'[r] # Blank
    <2>1. VisitKey(r)
        <3>1. Scanning(r)'
            BY <1>7 DEF Answered
        <3>2. LockSharable(r) \/ VisitKey(r)
            BY <3>1 DEF BeginRead, ReaderStep, OpenShm, OpenLock, FindMap, LockTimeout,
                        UnlockSharable, CrashReader, Leave, Scanning, TypeOK
        <3>3. ~LockSharable(r)
            BY <1>7 DEF LockSharable, ContentInv, BlankInv, Scanning
        <3> QED BY <3>2, <3>3
    <2>2. ~Answered(r)
        BY <2>1 DEF VisitKey, Answered
    <2>3. memory'[r] = memory[r] /\ memLock'[r] = memLock[r]
        BY <2>1 DEF VisitKey, handles
    <2>4. PICK g \in Gens : g = memory[r]
        BY <2>1, ShmemMapAssumption
           DEF VisitKey, HandleInv, ClientInv, TypeOK, Procs, Gens
    <2>5. AbsMap[g] = committed[g]
        <3>1. built[g] /\ locksOf[g] = {memLock[r]}
            BY <1>1, <1>7, <2>3, <2>4 DEF Answered
        <3>2. memLock[r] \in Gens
            BY <3>1 DEF TypeOK
        <3> QED BY <3>1, <3>2 DEF AbsMap, Private
    <2>6. \A k \in Keys : got'[r][k] \in {Unread, AbsMap[g][k]}
        BY <1>1, <1>7, <2>3, <2>4, <2>5 DEF SnapshotConsistent, Answered
    <2>7. got'[r] \in [Keys -> Slot \cup {Garbage, Unread}]
        BY NextTypeOK DEF TypeOK, Next
    <2> DEFINE ks == {k \in Keys : got'[r][k] # Unread}
    <2>8. got'[r] = [k \in Keys |-> IF k \in ks THEN AbsMap[g][k] ELSE Unread]
        BY <2>6, <2>7
    <2>9. AbsView[r] = Blank
        BY <2>2 DEF AbsView
    <2>10. Atomic!Read(r)
        <3>1. AbsView' = [AbsView EXCEPT ![r] =
                  [k \in Keys |-> IF k \in ks THEN AbsMap[g][k] ELSE Unread]]
            BY <1>5, <1>7, <2>8
        <3>2. ks \in SUBSET Keys
            OBVIOUS
        <3> HIDE DEF ks
        <3> QED BY <1>2, <2>9, <3>1, <3>2 DEF Atomic!Read, Atomic!Blank, Blank
    <2> QED BY <2>10 DEF Atomic!Next
<1> QED BY <1>6, <1>7

\* Every step of the protocol is a step of the abstract map or none of its steps.
LEMMA NextAtomic ==
    IInv /\ ProgressInv /\ SnapshotConsistent' /\ [Next]_vars
        => [Atomic!Next]_(Atomic!vars)
<1>1. UNCHANGED vars => UNCHANGED <<AbsMap, AbsView>>
    BY DEF vars, segs, handles, rvars, AbsMap, AbsView, Private, Answered, Scanning
<1> QED BY <1>1, CreatorAtomic, WriterAtomic, ReaderAtomic DEF Next, Atomic!vars

\* However its operations are cut into steps and whoever dies, a map under one
\* mutex is an object with atomic operations.
THEOREM Implements == Spec => ImplementsAtomicMap
<1>1. IInv => SnapshotConsistent
    BY DEF IInv
<1> QED BY <1>1, InitAtomic, NextAtomic, Progresses, PTL
        DEF Spec, ImplementsAtomicMap, Atomic!Spec

=============================================================================
