---------------------------- MODULE ErrorLogger ----------------------------
(***************************************************************************)
(* ErrorLogger::logError, the process-wide table that keeps one error from *)
(* being logged again within LOG_INTERVAL_SECONDS and that never holds     *)
(* more than MAX_LOG_ENTRIES messages (src/lib/error_logger.cpp).          *)
(*                                                                         *)
(* The table is an unordered_map without a lock, and producers call the    *)
(* API from several threads.  A call is cut where another thread can come  *)
(* between: the clock is read, the table is looked up, the entry stored.   *)
(* Of a race on the map itself only the outcomes in which it survives are  *)
(* kept: each lookup and each store is one step.                           *)
(***************************************************************************)
EXTENDS Integers, FiniteSets

CONSTANTS
    Threads,        \* threads of the process that report errors
    Messages,       \* error messages
    MaxEntries,     \* MAX_LOG_ENTRIES
    Interval,       \* LOG_INTERVAL_SECONDS, in ticks of the clock
    MaxTime,        \* bound: the last tick
    Never           \* a message was not logged yet

ASSUME ErrorLoggerAssumption ==
    /\ IsFiniteSet(Threads) /\ Threads # {}
    /\ MaxEntries \in Nat
    /\ Interval \in Nat
    /\ MaxTime \in Nat
    /\ Never \notin Nat

VARIABLES
    now,            \* steady_clock
    errorLogTimes,  \* when each message in the table was last logged
    pc,             \* per thread: where it is in logError
    errorMessage,   \* per thread: the argument of its call
    currentTime,    \* per thread: the clock as its call read it
    lastLog         \* auxiliary: the time of the last call that logged each message

vars == <<now, errorLogTimes, pc, errorMessage, currentTime, lastLog>>

TypeOK ==
    /\ now \in 0 .. MaxTime
    /\ DOMAIN errorLogTimes \subseteq Messages
    /\ errorLogTimes \in [DOMAIN errorLogTimes -> 0 .. MaxTime]
    /\ pc \in [Threads -> {"idle", "find", "refresh", "add"}]
    /\ errorMessage \in [Threads -> Messages]
    /\ currentTime \in [Threads -> 0 .. MaxTime]
    /\ lastLog \in [Messages -> 0 .. MaxTime \cup {Never}]

Init ==
    /\ now = 0
    /\ errorLogTimes = [m \in {} |-> 0]
    /\ pc = [t \in Threads |-> "idle"]
    /\ errorMessage \in [Threads -> Messages]
    /\ currentTime = [t \in Threads |-> 0]
    /\ lastLog = [m \in Messages |-> Never]

-----------------------------------------------------------------------------
Tick ==
    /\ now < MaxTime
    /\ now' = now + 1
    /\ UNCHANGED <<errorLogTimes, pc, errorMessage, currentTime, lastLog>>

\* The call and its getCurrentTime().
Call(t) ==
    /\ pc[t] = "idle"
    /\ \E m \in Messages : errorMessage' = [errorMessage EXCEPT ![t] = m]
    /\ currentTime' = [currentTime EXCEPT ![t] = now]
    /\ pc' = [pc EXCEPT ![t] = "find"]
    /\ UNCHANGED <<now, errorLogTimes, lastLog>>

Known(t) == errorMessage[t] \in DOMAIN errorLogTimes
Full     == Cardinality(DOMAIN errorLogTimes) >= MaxEntries

\* Logged less than the interval ago.  duration_cast truncates, which does not
\* change a comparison with a whole number of seconds.
Recent(t) == currentTime[t] - errorLogTimes[errorMessage[t]] < Interval

\* Slip: one too many fits.
FindOffByOne(t) ==
    /\ pc[t] = "find"
    /\ pc' = [pc EXCEPT ![t] =
           IF Known(t) THEN IF Recent(t) THEN "idle" ELSE "refresh"
           ELSE IF Cardinality(DOMAIN errorLogTimes) > MaxEntries THEN "idle" ELSE "add"]
    /\ UNCHANGED <<now, errorLogTimes, errorMessage, currentTime, lastLog>>

\* The lookup, with its two early returns.
Find(t) ==
    /\ pc[t] = "find"
    /\ pc' = [pc EXCEPT ![t] =
           IF Known(t) THEN IF Recent(t) THEN "idle" ELSE "refresh"
           ELSE IF Full THEN "idle" ELSE "add"]
    /\ UNCHANGED <<now, errorLogTimes, errorMessage, currentTime, lastLog>>

\* The entry is refreshed or added and the message goes to the journal.
Store(t) ==
    /\ pc[t] \in {"refresh", "add"}
    /\ errorLogTimes' = [m \in DOMAIN errorLogTimes \cup {errorMessage[t]} |->
           IF m = errorMessage[t] THEN currentTime[t] ELSE errorLogTimes[m]]
    /\ lastLog' = [lastLog EXCEPT ![errorMessage[t]] = currentTime[t]]
    /\ pc' = [pc EXCEPT ![t] = "idle"]
    /\ UNCHANGED <<now, errorMessage, currentTime>>

Next == Tick \/ \E t \in Threads : Call(t) \/ Find(t) \/ Store(t)

Spec == Init /\ [][Next]_vars

-----------------------------------------------------------------------------
(* Properties.                                                             *)

\* The table outgrows MAX_LOG_ENTRIES by no more than the threads that looked
\* while it had room and had not stored yet: one less than there are, so a
\* process with one thread keeps the limit exactly.
TableBounded ==
    Cardinality(DOMAIN errorLogTimes) <= MaxEntries + Cardinality(Threads) - 1

\* "This method logs the error only if the same error message hasn't been
\* logged within the last LOG_INTERVAL_SECONDS seconds" (error_logger.hpp:32-34):
\* whoever logged it last, a call that logs a message read the clock at least
\* the interval later.
Spacing ==
    [][\A t \in Threads :
          Store(t) => \/ lastLog[errorMessage[t]] = Never
                      \/ currentTime[t] - lastLog[errorMessage[t]] >= Interval]_vars

-----------------------------------------------------------------------------
(* The inductive invariants behind TableBounded and Spacing.               *)

Adding == {t \in Threads : pc[t] = "add"}

\* Every thread about to add an entry saw the table with room for one, and one
\* about to refresh an entry found it.
RoomInv ==
    /\ \A t \in Threads : pc[t] = "refresh" => Known(t)
    /\ IsFiniteSet(DOMAIN errorLogTimes)
    /\ Cardinality(DOMAIN errorLogTimes) + Cardinality(Adding)
          <= MaxEntries + Cardinality(Threads) - 1

\* The table is the history of the journal.
HistoryInv ==
    \A m \in Messages :
        lastLog[m] = IF m \in DOMAIN errorLogTimes THEN errorLogTimes[m] ELSE Never

IInv == TypeOK /\ RoomInv /\ HistoryInv

\* Between its lookup and its store the only thread finds the entry unchanged.
DecisionInv ==
    \A t \in Threads :
        /\ pc[t] = "refresh" => Known(t) /\ ~Recent(t)
        /\ pc[t] = "add" => ~Known(t)

=============================================================================
