------------------------------ MODULE AtomicMap ------------------------------
(***************************************************************************)
(* What the shared maps promise their clients: an operation changes one    *)
(* map at one moment, and a read returns what one map held at one moment.  *)
(*                                                                         *)
(* A map that is constructed, cleared, destroyed or that a second creator  *)
(* takes over begins again; a client may lose the answer it was given from *)
(* it.  Of a map that two creators share nothing is promised.              *)
(***************************************************************************)
EXTENDS Naturals

CONSTANTS
    Maps,           \* the maps there may be
    Readers,        \* clients
    Keys, Vals,     \* sensor keys; values, each with its timestamp
    Absent,         \* no entry for a key
    Unread          \* a key the client did not ask for

VARIABLES
    map,            \* the entries of each map
    view            \* the answer each client has, Blank for none

vars == <<map, view>>

Entry == [val : Vals, time : Vals]
Empty == [k \in Keys |-> Absent]
Blank == [k \in Keys |-> Unread]

TypeOK ==
    /\ map \in [Maps -> [Keys -> Entry \cup {Absent}]]
    /\ view \in [Readers -> [Keys -> Entry \cup {Absent, Unread}]]

Init ==
    /\ map = [g \in Maps |-> Empty]
    /\ view = [r \in Readers |-> Blank]

\* What one operation with reading x may leave in a slot: nothing done, or an
\* entry made, removed, or given the value, the timestamp or both.  Only the
\* value is what updateValueAndTimeStamp leaves when the segment is full.
After(slot, x) ==
    IF slot = Absent THEN {Absent, [val |-> x, time |-> x]}
    ELSE {slot, Absent, [slot EXCEPT !.val = x], [slot EXCEPT !.time = x],
          [val |-> x, time |-> x]}

Write(g) ==
    /\ \E k \in Keys, x \in Vals : \E s \in After(map[g][k], x) :
           map' = [map EXCEPT ![g] = [@ EXCEPT ![k] = s]]
    /\ UNCHANGED view

\* The map begins again, and the clients in R lose their answers.
Reset(g) ==
    /\ map' = [map EXCEPT ![g] = Empty]
    /\ \E R \in SUBSET Readers :
           view' = [r \in Readers |-> IF r \in R THEN Blank ELSE view[r]]

\* One value, or all of them.
Read(r) ==
    /\ view[r] = Blank
    /\ \E g \in Maps, ks \in SUBSET Keys :
           view' = [view EXCEPT ![r] =
               [k \in Keys |-> IF k \in ks THEN map[g][k] ELSE Unread]]
    /\ UNCHANGED map

Leave(r) ==
    /\ view' = [view EXCEPT ![r] = Blank]
    /\ UNCHANGED map

Next ==
    \/ \E g \in Maps : Write(g) \/ Reset(g)
    \/ \E r \in Readers : Read(r) \/ Leave(r)

Spec == Init /\ [][Next]_vars

=============================================================================
