------------------------- MODULE ErrorLoggerProofs -------------------------
(* The limits of the error table, for every number of threads, messages,   *)
(* entries and ticks.                                                      *)
EXTENDS ErrorLogger, FiniteSetTheorems, TLAPS

\* The message a thread reports is added to the table or has its time replaced.
LEMMA StoreDomain ==
    ASSUME NEW t \in Threads, Store(t)
    PROVE  DOMAIN errorLogTimes' = DOMAIN errorLogTimes \cup {errorMessage[t]}
BY DEF Store

\* Every step keeps the type invariant.
LEMMA NextTypeOK == TypeOK /\ [Next]_vars => TypeOK'
<1> SUFFICES ASSUME TypeOK, [Next]_vars PROVE TypeOK'
    OBVIOUS
<1> USE ErrorLoggerAssumption
<1>1. CASE Tick
    BY <1>1 DEF Tick, TypeOK
<1>2. ASSUME NEW t \in Threads, Call(t) PROVE TypeOK'
    BY <1>2 DEF Call, TypeOK
<1>3. ASSUME NEW t \in Threads, Find(t) PROVE TypeOK'
    BY <1>3 DEF Find, TypeOK
<1>4. ASSUME NEW t \in Threads, Store(t) PROVE TypeOK'
    <2>1. errorMessage[t] \in Messages /\ currentTime[t] \in 0 .. MaxTime
        BY DEF TypeOK
    <2>2. /\ DOMAIN errorLogTimes' \subseteq Messages
          /\ errorLogTimes' \in [DOMAIN errorLogTimes' -> 0 .. MaxTime]
        BY <1>4, <2>1 DEF Store, TypeOK
    <2>3. pc' \in [Threads -> {"idle", "find", "refresh", "add"}]
        BY <1>4 DEF Store, TypeOK
    <2>4. lastLog' \in [Messages -> 0 .. MaxTime \cup {Never}]
        BY <1>4, <2>1 DEF Store, TypeOK
    <2> QED BY <1>4, <2>2, <2>3, <2>4 DEF Store, TypeOK
<1>5. CASE UNCHANGED vars
    BY <1>5 DEF vars, TypeOK
<1> QED BY <1>1, <1>2, <1>3, <1>4, <1>5 DEF Next

\* A thread that looked and may add takes one place, which it saw free.
LEMMA NextRoomInv == TypeOK /\ RoomInv /\ [Next]_vars => RoomInv'
<1> SUFFICES ASSUME TypeOK, RoomInv, [Next]_vars PROVE RoomInv'
    OBVIOUS
<1> USE ErrorLoggerAssumption
<1> DEFINE D == DOMAIN errorLogTimes
\* The counts the invariant adds up are numbers.
<1>c. /\ IsFiniteSet(D) /\ IsFiniteSet(Adding) /\ Adding \subseteq Threads
      /\ Cardinality(D) \in Nat /\ Cardinality(Adding) \in Nat
      /\ Cardinality(Threads) \in Nat /\ Cardinality(Adding) <= Cardinality(Threads)
    BY FS_CardinalityType, FS_Subset DEF RoomInv, Adding
<1>d. IsFiniteSet(Adding') /\ Adding' \subseteq Threads /\ Cardinality(Adding') \in Nat
      /\ Cardinality(Adding') <= Cardinality(Threads)
    BY FS_CardinalityType, FS_Subset DEF Adding
<1>1. CASE Tick
    BY <1>1 DEF Tick, RoomInv, Adding, Known
<1>2. ASSUME NEW t \in Threads, Call(t) PROVE RoomInv'
    <2>1. Adding' = Adding /\ errorLogTimes' = errorLogTimes
        BY <1>2 DEF Call, Adding, TypeOK
    <2>2. \A u \in Threads : pc'[u] = "refresh" => pc[u] = "refresh" /\ errorMessage'[u] = errorMessage[u]
        BY <1>2 DEF Call, TypeOK
    <2> QED BY <2>1, <2>2 DEF RoomInv, Known
<1>3. ASSUME NEW t \in Threads, Find(t) PROVE RoomInv'
    <2>1. UNCHANGED <<errorLogTimes, errorMessage>>
        BY <1>3 DEF Find
    <2>2. \A u \in Threads : pc'[u] = "refresh" => Known(u)
        BY <1>3 DEF Find, RoomInv, TypeOK
    <2>3. CASE pc'[t] = "add"
        <3>1. ~Full
            BY <1>3, <2>3 DEF Find, TypeOK
        <3>2. Cardinality(D) < MaxEntries
            BY <1>c, <3>1 DEF Full
        <3>3. Cardinality(D) + Cardinality(Adding') <= MaxEntries + Cardinality(Threads) - 1
            BY <1>c, <1>d, <3>2
        <3> QED BY <1>c, <2>1, <2>2, <3>3 DEF RoomInv, Known
    <2>4. CASE pc'[t] # "add"
        <3>1. Adding' = Adding
            BY <1>3, <2>4 DEF Find, Adding, TypeOK
        <3> QED BY <2>1, <2>2, <3>1 DEF RoomInv, Known
    <2> QED BY <2>3, <2>4
<1>4. ASSUME NEW t \in Threads, Store(t) PROVE RoomInv'
    <2> DEFINE m == errorMessage[t]
    <2>1. DOMAIN errorLogTimes' = D \cup {m}
        BY <1>4, StoreDomain
    <2>2. \A u \in Threads : pc'[u] = "refresh" => Known(u)'
        BY <1>4, <2>1 DEF Store, RoomInv, Known, TypeOK
    <2>3. IsFiniteSet(D \cup {m})
        BY <1>c, FS_AddElement
    <2>4. CASE pc[t] = "add"
        <3>1. Adding' = Adding \ {t} /\ t \in Adding
            BY <1>4, <2>4 DEF Store, Adding, TypeOK
        <3>2. Cardinality(Adding') = Cardinality(Adding) - 1
            BY <1>c, <3>1, FS_RemoveElement
        <3>3. Cardinality(D \cup {m}) <= Cardinality(D) + 1 /\ Cardinality(D \cup {m}) \in Nat
            <4>1. Cardinality(D \cup {m}) = Cardinality(D) \/ Cardinality(D \cup {m}) = Cardinality(D) + 1
                BY <1>c, FS_AddElement
            <4> HIDE DEF D, m
            <4> QED BY <1>c, <4>1
        <3>4. Cardinality(D \cup {m}) + Cardinality(Adding')
                 <= MaxEntries + Cardinality(Threads) - 1
            <4>1. Cardinality(D) + Cardinality(Adding) <= MaxEntries + Cardinality(Threads) - 1
                BY DEF RoomInv
            <4> HIDE DEF D, m
            <4> QED BY <1>c, <1>d, <3>2, <3>3, <4>1
        <3> QED BY <2>1, <2>2, <2>3, <3>4 DEF RoomInv
    <2>5. CASE pc[t] = "refresh"
        <3>1. D \cup {m} = D
            BY <2>5 DEF RoomInv, Known
        <3>2. Adding' = Adding
            BY <1>4, <2>5 DEF Store, Adding, TypeOK
        <3> QED BY <2>1, <2>2, <3>1, <3>2 DEF RoomInv
    <2> QED BY <1>4, <2>4, <2>5 DEF Store
<1>5. CASE UNCHANGED vars
    BY <1>5 DEF vars, RoomInv, Adding, Known
<1> QED BY <1>1, <1>2, <1>3, <1>4, <1>5 DEF Next

\* The table keeps the time of the last call that logged each message.
LEMMA NextHistoryInv == TypeOK /\ HistoryInv /\ [Next]_vars => HistoryInv'
<1> SUFFICES ASSUME TypeOK, HistoryInv, [Next]_vars PROVE HistoryInv'
    OBVIOUS
<1>1. CASE UNCHANGED <<errorLogTimes, lastLog>>
    BY <1>1 DEF HistoryInv
<1>2. ASSUME NEW t \in Threads, Store(t) PROVE HistoryInv'
    <2>1. \A m \in Messages : lastLog'[m] = IF m = errorMessage[t] THEN currentTime[t] ELSE lastLog[m]
        BY <1>2 DEF Store, TypeOK
    <2>2. \A m \in DOMAIN errorLogTimes' :
              errorLogTimes'[m] = IF m = errorMessage[t] THEN currentTime[t] ELSE errorLogTimes[m]
        BY <1>2 DEF Store
    <2> QED BY <1>2, <2>1, <2>2, StoreDomain DEF HistoryInv
<1> QED BY <1>1, <1>2 DEF Next, Tick, Call, Find, vars

\* The strengthened invariant holds of every behaviour: the room in the table is
\* shared out among the threads that have looked, and the times in it are those
\* of the log.
THEOREM Inductive == Spec => []IInv
<1>1. Init => IInv
    <2> SUFFICES ASSUME Init PROVE IInv
        OBVIOUS
    <2> USE ErrorLoggerAssumption
    <2>1. DOMAIN errorLogTimes = {} /\ Adding = {}
        BY DEF Init, Adding
    <2>2. TypeOK
        BY DEF Init, TypeOK
    <2>3. Cardinality(Threads) \in Nat /\ Cardinality(Threads) # 0
        BY FS_CardinalityType, FS_EmptySet
    <2>4. RoomInv
        BY <2>1, <2>3, FS_EmptySet DEF Init, RoomInv
    <2>5. HistoryInv
        BY DEF Init, HistoryInv
    <2> QED BY <2>2, <2>4, <2>5 DEF IInv
<1>2. IInv /\ [Next]_vars => IInv'
    BY NextTypeOK, NextRoomInv, NextHistoryInv DEF IInv
<1> QED BY <1>1, <1>2, PTL DEF Spec

\* However many threads report however many errors, the table never outgrows
\* MAX_LOG_ENTRIES by as many entries as there are threads.
THEOREM Bounded == Spec => []TableBounded
<1>1. IInv => TableBounded
    <2> SUFFICES ASSUME IInv PROVE TableBounded
        OBVIOUS
    <2>1. /\ Cardinality(DOMAIN errorLogTimes) \in Nat /\ Cardinality(Adding) \in Nat
          /\ Cardinality(Threads) \in Nat /\ MaxEntries \in Nat
        BY ErrorLoggerAssumption, FS_CardinalityType, FS_Subset DEF IInv, RoomInv, Adding
    <2> QED BY <2>1 DEF IInv, RoomInv, TableBounded
<1> QED BY <1>1, Inductive, PTL

\* In a process with one thread no message is logged twice within the interval.
THEOREM SingleThreadSpacing ==
    ASSUME NEW single, Threads = {single}
    PROVE  Spec => Spacing
<1>1. Init => DecisionInv
    BY DEF Init, DecisionInv
<1>2. IInv /\ DecisionInv /\ [Next]_vars => DecisionInv'
    <2> SUFFICES ASSUME IInv, DecisionInv, [Next]_vars PROVE DecisionInv'
        OBVIOUS
    <2>1. CASE Tick
        BY <2>1 DEF Tick, DecisionInv, Known, Recent
    <2>2. ASSUME NEW t \in Threads, Call(t) PROVE DecisionInv'
        BY <2>2 DEF Call, DecisionInv, IInv, TypeOK
    <2>3. ASSUME NEW t \in Threads, Find(t) PROVE DecisionInv'
        BY <2>3 DEF Find, DecisionInv, Known, Recent, IInv, TypeOK
    <2>4. ASSUME NEW t \in Threads, Store(t) PROVE DecisionInv'
        BY <2>4 DEF Store, DecisionInv, IInv, TypeOK
    <2>5. CASE UNCHANGED vars
        BY <2>5 DEF vars, DecisionInv, Known, Recent
    <2> QED BY <2>1, <2>2, <2>3, <2>4, <2>5 DEF Next
<1>3. IInv /\ DecisionInv =>
          \A t \in Threads :
              Store(t) => \/ lastLog[errorMessage[t]] = Never
                          \/ currentTime[t] - lastLog[errorMessage[t]] >= Interval
    <2> SUFFICES ASSUME IInv, DecisionInv, NEW t \in Threads, Store(t),
                        lastLog[errorMessage[t]] # Never
                 PROVE  currentTime[t] - lastLog[errorMessage[t]] >= Interval
        OBVIOUS
    <2>1. errorMessage[t] \in Messages
        BY DEF IInv, TypeOK
    <2>2. Known(t) /\ lastLog[errorMessage[t]] = errorLogTimes[errorMessage[t]]
        BY <2>1 DEF IInv, HistoryInv, Known
    <2>3. ~Recent(t)
        BY <2>2 DEF Store, DecisionInv
    <2>4. currentTime[t] \in Int /\ errorLogTimes[errorMessage[t]] \in Int /\ Interval \in Int
        BY <2>2, ErrorLoggerAssumption DEF IInv, TypeOK, Known
    <2> QED BY <2>2, <2>3, <2>4 DEF Recent
<1> QED BY <1>1, <1>2, <1>3, Inductive, PTL DEF Spec, Spacing

=============================================================================
