------------------------ MODULE SensorAggregatorProofs ------------------------
(***************************************************************************)
(* What holds of SHMSensorAggregator for any number of threads, keys,      *)
(* calls and list lengths, and whichever threads report a key.  The types  *)
(* hold of every key, the rest of those that one thread reports (Owned):   *)
(* what a thread copied of such a key's fields under the lock is still so  *)
(* when it acts on the copy, whatever is done with the keys besides.       *)
(*                                                                         *)
(* IInv says what a thread knows of its key at each place of a call, that  *)
(* the operations it planned are in the size that is registered, and that  *)
(* all a client sees of a key is.  AnswerInv adds what a call that will be *)
(* answered true has made of its key so far.                               *)
(***************************************************************************)
EXTENDS SensorAggregator, SequenceTheorems, TLAPS

-----------------------------------------------------------------------------
(* Operations and lists of them.                                           *)

\* Operations on elements of a key are operations.
LEMMA OpTypes ==
    ASSUME NEW k \in Keys, NEW i \in Items, NEW x \in Items \cup {Blank, Nan}, NEW ch \in BOOLEAN
    PROVE  Insert(k, i) \in MapOps /\ Update(k, i, x, ch) \in MapOps /\ Erase(k, i) \in MapOps
BY DEF Insert, Update, Erase, MapOps, Elements

\* A function on 1 .. n is a list of n.
LEMMA SeqOfFunction ==
    ASSUME NEW S, NEW n \in Nat, NEW f \in [1 .. n -> S]
    PROVE  f \in Seq(S) /\ Len(f) = n /\ DOMAIN f = 1 .. n
<1>1. f \in Seq(S)
    OBVIOUS
<1>2. DOMAIN f = 1 .. n
    OBVIOUS
<1>3. Len(f) = n
    BY <1>1, <1>2, LenProperties
<1> QED BY <1>1, <1>2, <1>3

\* A list of one.
LEMMA Single ==
    ASSUME NEW S, NEW x \in S
    PROVE  <<x>> \in Seq(S) /\ Len(<<x>>) = 1 /\ DOMAIN <<x>> = {1} /\ <<x>>[1] = x
OBVIOUS

\* What is left of a list of operations after its first.
LEMMA TailFacts ==
    ASSUME NEW S, NEW s \in Seq(S), s # <<>>
    PROVE  /\ Head(s) = s[1] /\ s[1] \in S /\ Tail(s) \in Seq(S)
           /\ Len(s) \in Nat /\ Len(s) >= 1 /\ Len(Tail(s)) = Len(s) - 1
           /\ DOMAIN s = 1 .. Len(s) /\ DOMAIN Tail(s) = 1 .. Len(s) - 1
           /\ \A j \in DOMAIN Tail(s) : j + 1 \in DOMAIN s /\ Tail(s)[j] = s[j + 1]
           /\ Tail(s) = <<>> <=> Len(s) = 1
<1>1. Tail(s) \in Seq(S) /\ Len(Tail(s)) = Len(s) - 1
      /\ \A i \in 1 .. Len(Tail(s)) : Tail(s)[i] = s[i + 1]
    BY HeadTailProperties
<1>2. Len(s) \in Nat /\ Len(s) >= 1 /\ DOMAIN s = 1 .. Len(s)
    BY EmptySeq, LenProperties
<1>3. DOMAIN Tail(s) = 1 .. Len(s) - 1
    BY <1>1, LenProperties
<1>4. s[1] \in S
    BY <1>2, ElementOfSeq
<1>5. Head(s) = s[1]
    OBVIOUS
<1>6. Tail(s) = <<>> <=> Len(s) = 1
    <2>1. Tail(s) = <<>> => Len(Tail(s)) = 0
        BY EmptySeq
    <2>2. Tail(s) # <<>> => Len(Tail(s)) # 0
        BY <1>1, EmptySeq
    <2> QED BY <1>1, <1>2, <2>1, <2>2
<1>7. \A j \in DOMAIN Tail(s) : j + 1 \in DOMAIN s /\ Tail(s)[j] = s[j + 1]
    BY <1>1, <1>2, <1>3
<1> QED BY <1>1, <1>2, <1>3, <1>4, <1>5, <1>6, <1>7

\* The operations for a list of n on a key of size a are all on the key, and
\* insert nothing.
LEMMA ArrayOpsFacts ==
    ASSUME NEW k \in Keys, NEW a \in 1 .. MaxLen, NEW n \in 0 .. MaxLen, NEW order \in Orders(n)
    PROVE  /\ ArrayOps(k, a, n, order) \in Seq(MapOps)
           /\ \A j \in DOMAIN ArrayOps(k, a, n, order) :
                 /\ ArrayOps(k, a, n, order)[j].elem[1] = k
                 /\ ArrayOps(k, a, n, order)[j].kind # "insert"
<1> USE SensorAggregatorAssumption
<1>1. CASE a > n
    BY <1>1, EmptySeq DEF ArrayOps
<1>2. CASE ~(a > n)
    <2> DEFINE e == [i \in 1 .. n - a |-> Erase(k, a - 2 + i)]
               u == [i \in 1 .. n |-> Update(k, i - 1, order[i], FALSE)]
    <2>1. /\ \A i \in 1 .. n - a : Erase(k, a - 2 + i) \in MapOps
          /\ \A i \in 1 .. n - a : Erase(k, a - 2 + i).elem[1] = k /\ Erase(k, a - 2 + i).kind = "erase"
        <3>1. \A i \in 1 .. n - a : a - 2 + i \in Items
            BY DEF Items
        <3> QED BY <3>1, OpTypes DEF Erase
    <2>2. /\ \A i \in 1 .. n : Update(k, i - 1, order[i], FALSE) \in MapOps
          /\ \A i \in 1 .. n : /\ Update(k, i - 1, order[i], FALSE).elem[1] = k
                               /\ Update(k, i - 1, order[i], FALSE).kind = "update"
        <3>1. \A i \in 1 .. n : i - 1 \in Items /\ order[i] \in Items
            BY DEF Items, Orders
        <3> QED BY <3>1, OpTypes DEF Update
    <2>3. n \in Nat /\ n - a \in Nat
        BY <1>2
    <2>4. e \in [1 .. n - a -> MapOps] /\ u \in [1 .. n -> MapOps]
        BY <2>1, <2>2
    <2>d. /\ \A i \in 1 .. n - a : e[i].elem[1] = k /\ e[i].kind = "erase"
          /\ \A i \in 1 .. n : u[i].elem[1] = k /\ u[i].kind = "update"
        BY <2>1, <2>2
    <2>8. ArrayOps(k, a, n, order) = e \o u
        BY <1>2 DEF ArrayOps
    <2> HIDE DEF e, u
    <2>5. /\ e \in Seq(MapOps) /\ Len(e) = n - a
          /\ u \in Seq(MapOps) /\ Len(u) = n
        BY <2>3, <2>4, SeqOfFunction
    <2>6. /\ e \o u \in Seq(MapOps) /\ Len(e \o u) = Len(e) + Len(u)
          /\ \A i \in 1 .. Len(e) + Len(u) :
                (e \o u)[i] = IF i <= Len(e) THEN e[i] ELSE u[i - Len(e)]
        BY <2>5, ConcatProperties
    <2>7. DOMAIN (e \o u) = 1 .. Len(e) + Len(u)
        BY <2>6, LenProperties
    <2>9. \A j \in DOMAIN (e \o u) : (e \o u)[j].elem[1] = k /\ (e \o u)[j].kind # "insert"
        <3> SUFFICES ASSUME NEW j \in 1 .. Len(e) + Len(u)
                     PROVE  (e \o u)[j].elem[1] = k /\ (e \o u)[j].kind # "insert"
            BY <2>7
        <3>1. CASE j <= Len(e)
            BY <3>1, <2>3, <2>5, <2>6, <2>d
        <3>2. CASE ~(j <= Len(e))
            <4>1. j - Len(e) \in 1 .. n /\ (e \o u)[j] = u[j - Len(e)]
                BY <3>2, <2>3, <2>5, <2>6
            <4> QED BY <4>1, <2>d
        <3> QED BY <3>1, <3>2
    <2> QED BY <2>6, <2>8, <2>9
<1> QED BY <1>1, <1>2

\* What the operations of a nan are on a key of size a: they all count, erase or
\* write a nan, end with the nan, and name every index of a list.
NanList(s, k, a) ==
    /\ s \in Seq(MapOps) /\ s # <<>>
    /\ \A j \in DOMAIN s :
          /\ s[j].elem[1] = k /\ s[j].checked /\ s[j].kind \in {"update", "erase"}
          /\ s[j].kind = "update" => s[j].item = Nan
    /\ s[Len(s)].kind = "update"
    /\ a <= 1 => s = <<Update(k, Scalar, Nan, TRUE)>>
    /\ a > 1 => \A i \in 0 .. a - 1 : \E j \in DOMAIN s : s[j].elem = <<k, i>>

\* updateNanValue's operations are so.
LEMMA NanOpsFacts ==
    ASSUME NEW k \in Keys, NEW a \in 0 .. MaxLen
    PROVE  NanList(NanOps(k, a), k, a)
<1> USE SensorAggregatorAssumption
<1>1. CASE ~(a > 1)
    <2> DEFINE u == Update(k, Scalar, Nan, TRUE)
    <2>1. u \in MapOps /\ u.elem[1] = k /\ u.checked /\ u.kind = "update" /\ u.item = Nan
        BY OpTypes DEF Items, Update
    <2>2. NanOps(k, a) = <<u>>
        BY <1>1 DEF NanOps
    <2> DEFINE s == <<u>>
    <2> HIDE DEF u
    <2>3. s \in Seq(MapOps) /\ Len(s) = 1 /\ DOMAIN s = {1} /\ s[1] = u /\ s # <<>>
        BY <2>1
    <2>4. s = <<Update(k, Scalar, Nan, TRUE)>> /\ ~(a > 1) /\ NanOps(k, a) = s
        BY <1>1, <2>2 DEF u
    <2> HIDE DEF s
    <2> QED BY <2>1, <2>3, <2>4 DEF NanList
<1>2. CASE a > 1
    <2> DEFINE e == [i \in 1 .. a - 1 |-> Erase(k, i)]
               u == Update(k, 0, Nan, TRUE)
               s == e \o <<u>>
    <2>1. \A i \in 1 .. a - 1 :
             /\ Erase(k, i) \in MapOps /\ Erase(k, i).elem = <<k, i>>
             /\ Erase(k, i).checked /\ Erase(k, i).kind = "erase"
        <3>1. \A i \in 1 .. a - 1 : i \in Items
            BY DEF Items
        <3> QED BY <3>1, OpTypes DEF Erase
    <2>2. u \in MapOps /\ u.elem = <<k, 0>> /\ u.checked /\ u.kind = "update" /\ u.item = Nan
        <3>1. 0 \in Items
            BY <1>2 DEF Items
        <3> QED BY <3>1, OpTypes DEF Update
    <2>3. a - 1 \in Nat
        BY <1>2
    <2>d. e \in [1 .. a - 1 -> MapOps] /\ \A i \in 1 .. a - 1 : e[i] = Erase(k, i)
        BY <2>1
    <2>8. NanOps(k, a) = s
        BY <1>2 DEF NanOps
    <2> HIDE DEF e, u
    <2>4. e \in Seq(MapOps) /\ Len(e) = a - 1
        BY <2>3, <2>d, SeqOfFunction
    <2>5. <<u>> \in Seq(MapOps) /\ Len(<<u>>) = 1 /\ <<u>>[1] = u
        BY <2>2
    <2> HIDE DEF s
    <2>6. /\ s \in Seq(MapOps) /\ Len(s) = a
          /\ \A i \in 1 .. a : s[i] = IF i <= a - 1 THEN e[i] ELSE <<u>>[i - (a - 1)]
        BY <2>3, <2>4, <2>5, ConcatProperties DEF s
    <2>7. /\ DOMAIN s = 1 .. a /\ s[a] = u
          /\ \A i \in 1 .. a - 1 : s[i] = Erase(k, i)
        BY <2>3, <2>5, <2>6, <2>d, LenProperties
    <2>9. \A i \in 0 .. a - 1 : \E j \in DOMAIN s : s[j].elem = <<k, i>>
        <3> SUFFICES ASSUME NEW i \in 0 .. a - 1 PROVE \E j \in DOMAIN s : s[j].elem = <<k, i>>
            OBVIOUS
        <3>1. CASE i = 0
            BY <3>1, <1>2, <2>2, <2>7
        <3>2. CASE i # 0
            <4>1. i \in 1 .. a - 1 /\ i \in DOMAIN s
                BY <3>2, <2>7
            <4> QED BY <4>1, <2>1, <2>7
        <3> QED BY <3>1, <3>2
    <2>10. \A j \in DOMAIN s : j \in 1 .. a - 1 \/ j = a
        BY <2>7, <1>2
    <2>11. \A j \in DOMAIN s :
                /\ s[j].elem[1] = k /\ s[j].checked /\ s[j].kind \in {"update", "erase"}
                /\ s[j].kind = "update" => s[j].item = Nan
        BY <2>1, <2>2, <2>7, <2>10
    <2>12. s # <<>>
        BY <1>2, <2>6, EmptySeq
    <2>13. s[Len(s)].kind = "update"
        BY <2>2, <2>6, <2>7
    <2>14. ~(a <= 1) /\ s \in Seq(MapOps)
        BY <1>2, <2>6
    <2> QED BY ONLY <2>8, <2>9, <2>11, <2>12, <2>13, <2>14 DEF NanList
<1> QED BY <1>1, <1>2

\* The insertions of a new list.
LEMMA InsertsFacts ==
    ASSUME NEW k \in Keys, NEW n \in 1 .. MaxLen, NEW order \in Orders(n),
           NEW s, s = [i \in 1 .. n |-> Insert(k, order[i])]
    PROVE  /\ s \in Seq(MapOps)
           /\ \A j \in DOMAIN s : s[j].elem[1] = k /\ s[j].elem[2] \in 0 .. n - 1
<1> USE SensorAggregatorAssumption
<1>1. \A i \in 1 .. n : order[i] \in 0 .. n - 1 /\ order[i] \in Items
    BY DEF Orders, Items
<1>2. \A i \in 1 .. n : /\ Insert(k, order[i]) \in MapOps
                        /\ Insert(k, order[i]).elem = <<k, order[i]>>
    BY <1>1, OpTypes DEF Insert
<1>3. n \in Nat
    OBVIOUS
<1>4. s \in [1 .. n -> MapOps] /\ \A j \in 1 .. n : s[j].elem = <<k, order[j]>>
    BY <1>2
<1>5. s \in Seq(MapOps) /\ DOMAIN s = 1 .. n
    BY <1>3, <1>4, SeqOfFunction
<1>6. \A j \in 1 .. n : s[j].elem[1] = k /\ s[j].elem[2] \in 0 .. n - 1
    BY ONLY <1>1, <1>4
<1> QED BY ONLY <1>5, <1>6

-----------------------------------------------------------------------------
(* Types.                                                                  *)

\* m[k] = f keeps the types of a map.
LEMMA PutType ==
    ASSUME NEW D, NEW S, NEW map, DOMAIN map \subseteq D, map \in [DOMAIN map -> S],
           NEW k \in D, NEW f \in S
    PROVE  /\ DOMAIN Put(map, k, f) \subseteq D
           /\ Put(map, k, f) \in [DOMAIN Put(map, k, f) -> S]
BY DEF Put

\* A call of t is under way; it is at its operations on the map.
Busy(t)      == pc[t] # "idle"
Operating(t) == pc[t] = "mapOps"

\* A call under way has a number.
Numbered == \A t \in Threads : Busy(t) => call[t].no # 0

\* The places of a call.
Labels ==
    {"idle", "lookup", "applicable", "match", "emplace",
     "resize", "mapOps", "nan", "nanLookup", "nanKnown"}

\* A step of a call under way to another place in it, or to its end.
LEMMA GotoFacts ==
    ASSUME TypeOK, Numbered, NEW t \in Threads, Busy(t), NEW l \in Labels, Goto(t, l), call' = call
    PROVE  pc' \in [Threads -> Labels] /\ Numbered'
BY DEF TypeOK, Numbered, Busy, Goto, Labels

\* A size that is written into a map of fields keeps its types.
LEMMA SizeType ==
    ASSUME NEW map, DOMAIN map \subseteq Keys, map \in [DOMAIN map -> Fields],
           NEW k, NEW n \in 0 .. MaxLen
    PROVE  /\ DOMAIN [map EXCEPT ![k].arraySize = n] \subseteq Keys
           /\ [map EXCEPT ![k].arraySize = n]
                  \in [DOMAIN [map EXCEPT ![k].arraySize = n] -> Fields]
BY DEF Fields

\* The tables, the segment and the calls keep their types.
LEMMA NextTypeOK == TypeOK /\ Numbered /\ [Next]_vars => TypeOK' /\ Numbered'
<1> SUFFICES ASSUME TypeOK, Numbered, [Next]_vars PROVE TypeOK' /\ Numbered'
    OBVIOUS
<1> USE SensorAggregatorAssumption
<1>k. \A t \in Threads :
          /\ Key(t) \in Keys /\ call[t].shape \in (0 .. MaxLen) \cup {Scalar}
          /\ fields[t].arraySize \in 0 .. MaxLen /\ fields[t].mapped \in BOOLEAN
          /\ call[t].no \in 0 .. MaxCalls
    BY DEF TypeOK, Key, Calls, Fields
<1>m. \A k \in DOMAIN nameSpaceMap :
          /\ k \in Keys /\ nameSpaceMap[k] \in Fields
          /\ nameSpaceMap[k].arraySize \in 0 .. MaxLen
    BY DEF TypeOK, Fields
<1>1. ASSUME NEW t \in Threads, UpdateTelemetry(t) PROVE TypeOK' /\ Numbered'
    <2>1. /\ ncalls < MaxCalls /\ ncalls' = ncalls + 1 /\ ncalls' \in 0 .. MaxCalls
          /\ ncalls + 1 # 0
        BY <1>1 DEF UpdateTelemetry, TypeOK
    <2>2. \A k \in Keys : Shapes[k] \subseteq (0 .. MaxLen) \cup {Scalar} /\ Parents[k] \subseteq BOOLEAN
        OBVIOUS
    <2> DEFINE c(k, s, rc, parent) == [key |-> k, shape |-> s, rc |-> rc,
                                       parent |-> parent, no |-> ncalls + 1]
    <2>3. PICK k \in Keys, s \in (0 .. MaxLen) \cup {Scalar}, rc \in BOOLEAN, parent \in BOOLEAN :
              /\ call' = [call EXCEPT ![t] = c(k, s, rc, parent)]
              /\ pc' = [pc EXCEPT ![t] = IF rc THEN "nan" ELSE "lookup"]
        BY <1>1, <2>2 DEF UpdateTelemetry, Goto
    <2>4. c(k, s, rc, parent) \in Calls
        BY <2>1, <2>2 DEF Calls
    <2>5. call' \in [Threads -> Calls]
        BY <2>3, <2>4 DEF TypeOK
    <2>6. /\ fields' \in [Threads -> Fields] /\ todo' \in [Threads -> Seq(MapOps)]
          /\ newSize' \in [Threads -> -1 .. MaxLen] /\ status' \in [Threads -> BOOLEAN]
        BY <1>1 DEF UpdateTelemetry, TypeOK, NoFields, Fields
    <2>7. Numbered'
        BY <2>1, <2>3 DEF Numbered, Busy, TypeOK
    <2>8. pc' \in [Threads -> Labels]
        BY <2>3 DEF TypeOK, Labels
    <2> QED BY <1>1, <2>1, <2>5, <2>6, <2>7, <2>8 DEF UpdateTelemetry, TypeOK, maps, Labels
<1>2. ASSUME NEW t \in Threads, Lookup(t) PROVE TypeOK' /\ Numbered'
    <2> DEFINE k == Key(t)
               s == call[t].shape
               a == nameSpaceMap[k].arraySize
    <2>1. CASE k \notin DOMAIN nameSpaceMap
        BY <1>2, <2>1 DEF Lookup, TypeOK, Goto, maps, locals, Numbered, Busy
    <2>2. CASE k \in DOMAIN nameSpaceMap
        <3>1. fields' \in [Threads -> Fields]
            BY <1>2, <1>m, <2>2 DEF Lookup, TypeOK
        <3>2. pc' \in [Threads -> Labels]
              /\ Numbered'
            <4>1. Goto(t, "mapOps") /\ call' = call /\ Busy(t)
                BY <1>2, <2>2 DEF Lookup, Busy
            <4> QED BY <4>1, GotoFacts DEF Labels
        <3>3. \/ /\ todo' = [todo EXCEPT ![t] =
                        <<Update(k, Scalar, IF s = Scalar THEN Scalar ELSE Blank, TRUE)>>]
                 /\ newSize' = newSize
              \/ /\ todo' = [todo EXCEPT ![t] =
                        IF k \in NoURI THEN <<>> ELSE <<Update(k, Scalar, Scalar, TRUE)>>]
                 /\ newSize' = newSize
              \/ /\ a > 0 /\ s # Scalar
                 /\ \E order \in Orders(s) : todo' = [todo EXCEPT ![t] = ArrayOps(k, a, s, order)]
                 /\ newSize' = [newSize EXCEPT ![t] = IF a > s THEN -1 ELSE s]
            BY <1>2, <2>2 DEF Lookup
        <3>4. todo' \in [Threads -> Seq(MapOps)] /\ newSize' \in [Threads -> -1 .. MaxLen]
            <4>1. \A x \in {Scalar, Blank} : <<Update(k, Scalar, x, TRUE)>> \in Seq(MapOps)
                <5>1. k \in Keys /\ Scalar \in Items
                    BY <1>k DEF Items
                <5> HIDE DEF k
                <5>2. \A x \in {Scalar, Blank} : Update(k, Scalar, x, TRUE) \in MapOps
                    BY <5>1, OpTypes
                <5> QED BY <5>2, Single
            <4>2. <<>> \in Seq(MapOps)
                BY EmptySeq
            <4>3. CASE a > 0 /\ s # Scalar /\ newSize' = [newSize EXCEPT ![t] = IF a > s THEN -1 ELSE s]
                       /\ \E order \in Orders(s) : todo' = [todo EXCEPT ![t] = ArrayOps(k, a, s, order)]
                <5>1. a \in 1 .. MaxLen /\ s \in 0 .. MaxLen
                    BY <1>k, <1>m, <2>2, <4>3
                <5>2. PICK order \in Orders(s) : todo' = [todo EXCEPT ![t] = ArrayOps(k, a, s, order)]
                    BY <4>3
                <5>3. ArrayOps(k, a, s, order) \in Seq(MapOps)
                    BY <1>k, <5>1, ArrayOpsFacts
                <5> HIDE DEF a, s, k
                <5>4. todo' \in [Threads -> Seq(MapOps)]
                    BY <5>2, <5>3 DEF TypeOK
                <5>5. newSize' \in [Threads -> -1 .. MaxLen]
                    BY <4>3, <5>1 DEF TypeOK
                <5> QED BY <5>4, <5>5
            <4> HIDE DEF a, s, k
            <4> QED BY <3>3, <4>1, <4>2, <4>3 DEF TypeOK
        <3> QED BY <1>2, <3>1, <3>2, <3>4 DEF Lookup, TypeOK, maps, Labels
    <2> QED BY <2>1, <2>2
<1>3. ASSUME NEW t \in Threads, CheckApplicable(t) PROVE TypeOK' /\ Numbered'
    BY <1>3 DEF CheckApplicable, TypeOK, Goto, Answer, maps, locals, Numbered, Busy
<1>4. ASSUME NEW t \in Threads, HandleObjectInsertion(t) PROVE TypeOK' /\ Numbered'
    <2>1. /\ notApplicableKeys' \subseteq Keys
          /\ status' \in [Threads -> BOOLEAN]
          /\ pc' \in [Threads -> Labels] /\ Numbered'
        <3>1. /\ notApplicableKeys' \subseteq notApplicableKeys \cup {Key(t)}
              /\ call' = call /\ Busy(t)
            BY <1>4 DEF HandleObjectInsertion, Busy
        <3>2. \/ \E b \in BOOLEAN : Answer(t, b)
              \/ Goto(t, "emplace") /\ UNCHANGED status
            BY <1>4 DEF HandleObjectInsertion
        <3>3. Goto(t, "idle") \/ Goto(t, "emplace")
            BY <3>2 DEF Answer
        <3>4. pc' \in [Threads -> Labels] /\ Numbered'
            BY <3>1, <3>3, GotoFacts DEF Labels
        <3> QED BY <1>k, <3>1, <3>2, <3>4 DEF TypeOK, Answer
    <2>2. fields' \in [Threads -> Fields]
        <3>1. fields' = fields \/ \E i \in DOMAIN Matches[Key(t)] :
                  fields' = [fields EXCEPT ![t] = [mapped |-> Matches[Key(t)][i].mapped, arraySize |-> 0]]
            BY <1>4 DEF HandleObjectInsertion, Decisive
        <3>2. \A i \in DOMAIN Matches[Key(t)] : Matches[Key(t)][i].mapped \in BOOLEAN
            <4> DEFINE ms == Matches[Key(t)]
            <4>1. ms \in Seq(Match)
                BY <1>k
            <4> HIDE DEF ms
            <4>2. \A i \in DOMAIN ms : ms[i] \in Match
                BY <4>1
            <4> QED BY <4>2 DEF ms, Match
        <3>3. \A i \in DOMAIN Matches[Key(t)] :
                  [mapped |-> Matches[Key(t)][i].mapped, arraySize |-> 0] \in Fields
            BY <3>2 DEF Fields
        <3> QED BY <3>1, <3>3 DEF TypeOK
    <2> QED BY <1>4, <2>1, <2>2 DEF HandleObjectInsertion, TypeOK, Labels
<1>5. ASSUME NEW t \in Threads, Emplace(t) PROVE TypeOK' /\ Numbered'
    <2>1. /\ DOMAIN nameSpaceMap' \subseteq Keys
          /\ nameSpaceMap' \in [DOMAIN nameSpaceMap' -> Fields]
        <3> DEFINE new == Put(nameSpaceMap, Key(t), fields[t])
        <3>1. fields[t] \in Fields /\ Key(t) \in Keys
            BY <1>k DEF TypeOK
        <3>2. DOMAIN new \subseteq Keys /\ new \in [DOMAIN new -> Fields]
            BY <3>1, PutType DEF TypeOK
        <3>3. nameSpaceMap' = nameSpaceMap \/ nameSpaceMap' = new
            BY <1>5 DEF Emplace
        <3> HIDE DEF new
        <3> QED BY <3>2, <3>3 DEF TypeOK
    <2> QED BY <1>5, <2>1 DEF Emplace, TypeOK, Goto, locals, Numbered, Busy
<1>6. ASSUME NEW t \in Threads, Resize(t) PROVE TypeOK' /\ Numbered'
    <2> DEFINE k == Key(t)
               s == call[t].shape
    <2>1. /\ DOMAIN nameSpaceMap' \subseteq Keys
          /\ nameSpaceMap' \in [DOMAIN nameSpaceMap' -> Fields]
        <3>1. s = Scalar \/ s \in 0 .. MaxLen
            BY <1>k
        <3>2. nameSpaceMap' = IF s = Scalar THEN nameSpaceMap
                              ELSE [nameSpaceMap EXCEPT ![k].arraySize = s]
            BY <1>6 DEF Resize
        <3> HIDE DEF s, k
        <3> QED BY <3>1, <3>2, SizeType DEF TypeOK
    <2>2. todo' \in [Threads -> Seq(MapOps)]
        <3>1. CASE todo' = todo
            BY <3>1 DEF TypeOK
        <3>2. CASE todo' = [todo EXCEPT ![t] = <<Insert(k, Scalar)>>]
            <4>1. Insert(k, Scalar) \in MapOps
                BY <1>k, OpTypes DEF Items
            <4> QED BY <3>2, <4>1 DEF TypeOK
        <3>3. ASSUME s # Scalar, s # 0, NEW order \in Orders(s),
                     todo' = [todo EXCEPT ![t] = [i \in 1 .. s |-> Insert(k, order[i])]]
              PROVE  todo' \in [Threads -> Seq(MapOps)]
            <4> DEFINE l == [i \in 1 .. s |-> Insert(k, order[i])]
            <4>1. s \in 1 .. MaxLen
                BY <1>k, <3>3
            <4>2. l \in Seq(MapOps)
                BY <1>k, <4>1, InsertsFacts
            <4> HIDE DEF l
            <4>3. todo' = [todo EXCEPT ![t] = l]
                BY <3>3 DEF l
            <4> QED BY <4>2, <4>3 DEF TypeOK
        <3>4. \/ todo' = todo \/ todo' = [todo EXCEPT ![t] = <<Insert(k, Scalar)>>]
              \/ s # Scalar /\ s # 0 /\ \E order \in Orders(s) :
                    todo' = [todo EXCEPT ![t] = [i \in 1 .. s |-> Insert(k, order[i])]]
            BY <1>6 DEF Resize
        <3> QED BY <3>1, <3>2, <3>3, <3>4
    <2>3. /\ pc' \in [Threads -> Labels]
          /\ Numbered' /\ status' \in [Threads -> BOOLEAN]
        BY <1>6 DEF Resize, TypeOK, Goto, Answer, Numbered, Busy, Labels
    <2> QED BY <1>6, <2>1, <2>2, <2>3 DEF Resize, TypeOK, Labels
<1>7. ASSUME NEW t \in Threads, NanApplicable(t) PROVE TypeOK' /\ Numbered'
    BY <1>7 DEF NanApplicable, TypeOK, Goto, maps, locals, Numbered, Busy
<1>8. ASSUME NEW t \in Threads, NanLookup(t) PROVE TypeOK' /\ Numbered'
    <2> DEFINE k == Key(t)
               f == IF k \in DOMAIN nameSpaceMap THEN nameSpaceMap[k] ELSE NoFields
    <2>1. f \in Fields /\ f.arraySize \in 0 .. MaxLen
        BY <1>m DEF NoFields, Fields
    <2>2. NanOps(k, f.arraySize) \in Seq(MapOps)
        <3>1. k \in Keys
            BY <1>k
        <3> HIDE DEF k, f
        <3>2. NanList(NanOps(k, f.arraySize), k, f.arraySize)
            BY <2>1, <3>1, NanOpsFacts
        <3> QED BY <3>2 DEF NanList
    <2>3. CASE k \notin DOMAIN nameSpaceMap /\ pc[t] = "nanLookup"
        BY <1>8, <2>3 DEF NanLookup, TypeOK, Answer, Goto, Numbered, Busy
    <2>4. CASE ~(k \notin DOMAIN nameSpaceMap /\ pc[t] = "nanLookup")
        <3>1. /\ nameSpaceMap' = Put(nameSpaceMap, k, f)
              /\ fields' = [fields EXCEPT ![t] = f]
              /\ todo' = [todo EXCEPT ![t] = NanOps(k, f.arraySize)]
            BY <1>8, <2>4 DEF NanLookup
        <3>2. pc' \in [Threads -> Labels] /\ Numbered' /\ status' = status
            <4>1. Goto(t, "mapOps") /\ call' = call /\ Busy(t) /\ status' = status
                BY <1>8, <2>4 DEF NanLookup, Busy
            <4> QED BY <4>1, GotoFacts DEF Labels
        <3>3. UNCHANGED <<notApplicableKeys, shm, call, newSize, ncalls, acked>>
            BY <1>8 DEF NanLookup
        <3>4. k \in Keys
            BY <1>k
        <3> HIDE DEF k, f
        <3>5. /\ DOMAIN nameSpaceMap' \subseteq Keys
              /\ nameSpaceMap' \in [DOMAIN nameSpaceMap' -> Fields]
            BY <2>1, <3>1, <3>4, PutType DEF TypeOK
        <3>6. fields' \in [Threads -> Fields] /\ todo' \in [Threads -> Seq(MapOps)]
            BY <2>1, <2>2, <3>1 DEF TypeOK
        <3> QED BY <3>2, <3>3, <3>5, <3>6 DEF TypeOK, Labels
    <2> QED BY <2>3, <2>4
<1>9. ASSUME NEW t \in Threads, MapOp(t) PROVE TypeOK' /\ Numbered'
    <2> DEFINE o   == Head(todo[t])
               new == [call |-> call[t].no, item |-> o.item]
    <2>1. todo[t] \in Seq(MapOps) /\ todo[t] # <<>> /\ pc[t] = "mapOps"
        BY <1>9 DEF MapOp, TypeOK
    <2>2. o \in MapOps /\ Tail(todo[t]) \in Seq(MapOps)
        BY <2>1, TailFacts
    <2>3. call[t].no \in 1 .. MaxCalls
        BY <1>k, <2>1 DEF Numbered, Busy
    <2>4. new \in Reading /\ o.elem \in Elements /\ o.checked \in BOOLEAN
        BY <2>2, <2>3 DEF Reading, MapOps
    <2>5. /\ status' = status \/ status' = [status EXCEPT ![t] = @ /\ ~o.checked]
          /\ \/ shm' = shm \/ shm' = Put(shm, o.elem, new)
             \/ shm' = [shm EXCEPT ![o.elem] = new]
             \/ shm' = [e \in DOMAIN shm \ {o.elem} |-> shm[e]]
          /\ todo' = [todo EXCEPT ![t] = Tail(@)]
        BY <1>9 DEF MapOp
    <2>6. UNCHANGED <<maps, pc, call, fields, newSize, ncalls, acked>>
        BY <1>9 DEF MapOp
    <2> HIDE DEF o, new
    <2>7. DOMAIN shm' \subseteq Elements /\ shm' \in [DOMAIN shm' -> Reading]
        <3> DEFINE put == Put(shm, o.elem, new)
        <3>1. DOMAIN put \subseteq Elements /\ put \in [DOMAIN put -> Reading]
            BY <2>4, PutType DEF TypeOK
        <3>2. CASE shm' = put
            BY <3>1, <3>2
        <3>3. CASE shm' = shm \/ shm' = [shm EXCEPT ![o.elem] = new]
            BY <2>4, <3>3 DEF TypeOK
        <3>4. CASE shm' = [e \in DOMAIN shm \ {o.elem} |-> shm[e]]
            BY <3>4 DEF TypeOK
        <3> QED BY <2>5, <3>2, <3>3, <3>4
    <2>8. todo' \in [Threads -> Seq(MapOps)] /\ status' \in [Threads -> BOOLEAN]
        BY <2>2, <2>4, <2>5 DEF TypeOK
    <2> QED BY <2>6, <2>7, <2>8 DEF TypeOK, maps, Numbered, Busy
<1>10. ASSUME NEW t \in Threads, Return(t) PROVE TypeOK' /\ Numbered'
    <2>1. /\ DOMAIN nameSpaceMap' \subseteq Keys
          /\ nameSpaceMap' \in [DOMAIN nameSpaceMap' -> Fields]
        <3>1. newSize[t] = -1 \/ newSize[t] \in 0 .. MaxLen
            BY DEF TypeOK
        <3>2. nameSpaceMap' = IF newSize[t] = -1 THEN nameSpaceMap
                              ELSE [nameSpaceMap EXCEPT ![Key(t)].arraySize = newSize[t]]
            BY <1>10 DEF Return
        <3> QED BY <3>1, <3>2, SizeType DEF TypeOK
    <2>2. acked' \in [Keys -> Calls]
        BY <1>10 DEF Return, TypeOK
    <2> QED BY <1>10, <2>1, <2>2 DEF Return, TypeOK, Goto, locals, Numbered, Busy
<1>11. CASE UNCHANGED vars
    BY <1>11 DEF vars, maps, locals, TypeOK, Numbered, Busy
<1> QED BY <1>1, <1>2, <1>3, <1>4, <1>5, <1>6, <1>7, <1>8, <1>9, <1>10, <1>11 DEF Next, ThreadStep

\* It holds when the producer starts.
LEMMA InitTypeOK == Init => TypeOK /\ Numbered
<1> SUFFICES ASSUME Init PROVE TypeOK /\ Numbered
    OBVIOUS
<1> USE SensorAggregatorAssumption
<1>1. \A k \in Keys : NoCall(k) \in Calls
    BY DEF NoCall, Calls
<1>2. call \in [Threads -> Calls] /\ acked \in [Keys -> Calls]
    BY <1>1 DEF Init
<1>3. fields \in [Threads -> Fields] /\ todo \in [Threads -> Seq(MapOps)]
    BY DEF Init, NoFields, Fields
<1> QED BY <1>2, <1>3 DEF Init, TypeOK, Numbered, Busy

\* The type invariant holds of every behaviour, however many threads report a key:
\* no call registers a size, or operates on an element, beyond the longest list.
THEOREM TypeCorrect == Spec => []TypeOK
<1>1. TypeOK /\ Numbered /\ [Next]_vars => (TypeOK /\ Numbered)'
    BY NextTypeOK
<1> QED BY <1>1, InitTypeOK, PTL DEF Spec

-----------------------------------------------------------------------------
(* One thread per key: whose steps touch what.                             *)

\* An element has its place in a registered size, which is 0 for a plain value.
Fits(i, a) == IF i = Scalar THEN a = 0 ELSE i < a

\* Who calls, with what, and on which path a call is; its operations are on its key.
Caller(t) ==
    /\ call[t].no # 0 => t \in Reporters[Key(t)] /\ call[t].shape \in Shapes[Key(t)]
    /\ pc[t] \in {"lookup", "applicable", "match", "emplace", "resize"} => ~call[t].rc
    /\ pc[t] \in {"nan", "nanLookup", "nanKnown"} => call[t].rc
    /\ Operating(t) => \A j \in DOMAIN todo[t] : todo[t][j].elem[1] = Key(t)

\* What a thread knows of its key is so: nobody else writes the key's fields.
Known(t) ==
    /\ pc[t] \in {"applicable", "match", "emplace"} => Key(t) \notin DOMAIN nameSpaceMap
    /\ pc[t] = "emplace" => fields[t].arraySize = 0
    /\ pc[t] \in {"resize", "mapOps"} =>
          Key(t) \in DOMAIN nameSpaceMap /\ nameSpaceMap[Key(t)].mapped = fields[t].mapped
    /\ pc[t] = "resize" =>
          nameSpaceMap[Key(t)].arraySize = 0 /\ <<Key(t), Scalar>> \notin DOMAIN shm
    /\ Busy(t) /\ ~Operating(t) => newSize[t] = -1 /\ status[t]

\* What a call inserts has its place in the registered size, and the size it will
\* write back is no smaller.
Planned(t) ==
    Operating(t) =>
        /\ \A j \in DOMAIN todo[t] :
              todo[t][j].kind = "insert" =>
                  Fits(todo[t][j].elem[2], nameSpaceMap[Key(t)].arraySize)
        /\ newSize[t] # -1 => nameSpaceMap[Key(t)].arraySize \in 1 .. newSize[t]

\* What a client sees of a key is registered under a namespace of the producer, and
\* has its place in the registered size.
Seen(k) ==
    \A i \in Visible(k) :
        /\ k \in DOMAIN nameSpaceMap /\ nameSpaceMap[k].mapped
        /\ Fits(i, nameSpaceMap[k].arraySize)

IInv ==
    /\ TypeOK /\ Numbered
    /\ \A t \in Threads : Caller(t) /\ (Owned(Key(t)) => Known(t) /\ Planned(t))
    /\ \A k \in Keys : Owned(k) => Seen(k)

\* A step leaves the thread u alone, or what is shared about the key k.
SameThread(u) ==
    /\ pc'[u] = pc[u] /\ call'[u] = call[u] /\ fields'[u] = fields[u]
    /\ todo'[u] = todo[u] /\ newSize'[u] = newSize[u] /\ status'[u] = status[u]
SameKey(k) ==
    /\ k \in DOMAIN nameSpaceMap' <=> k \in DOMAIN nameSpaceMap
    /\ k \in DOMAIN nameSpaceMap => nameSpaceMap'[k] = nameSpaceMap[k]
    /\ \A i : <<k, i>> \in DOMAIN shm' <=> <<k, i>> \in DOMAIN shm
    /\ \A i : <<k, i>> \in DOMAIN shm => shm'[<<k, i>>] = shm[<<k, i>>]
    /\ acked'[k] = acked[k]

\* A thread steps on its own locals only.
LEMMA OtherThreads ==
    ASSUME TypeOK, NEW t \in Threads, ThreadStep(t), NEW u \in Threads, u # t
    PROVE  SameThread(u)
<1> USE DEF TypeOK, SameThread, locals, Goto, Answer
<1>1. CASE UpdateTelemetry(t)
    BY <1>1 DEF UpdateTelemetry
<1>2. CASE Lookup(t)
    BY <1>2 DEF Lookup
<1>3. CASE CheckApplicable(t)
    BY <1>3 DEF CheckApplicable
<1>4. CASE HandleObjectInsertion(t)
    BY <1>4 DEF HandleObjectInsertion
<1>5. CASE Emplace(t)
    BY <1>5 DEF Emplace
<1>6. CASE Resize(t)
    BY <1>6 DEF Resize
<1>7. CASE NanApplicable(t)
    BY <1>7 DEF NanApplicable
<1>8. CASE NanLookup(t)
    BY <1>8 DEF NanLookup
<1>9. CASE MapOp(t)
    BY <1>9 DEF MapOp
<1>10. CASE Return(t)
    BY <1>10 DEF Return
<1> QED BY <1>1, <1>2, <1>3, <1>4, <1>5, <1>6, <1>7, <1>8, <1>9, <1>10 DEF ThreadStep

\* What an operation on the map does to the segment: nothing to other elements.
LEMMA MapOpFacts ==
    ASSUME TypeOK, NEW t \in Threads, MapOp(t)
    PROVE  /\ pc[t] = "mapOps" /\ todo[t] # <<>> /\ todo[t] \in Seq(MapOps)
           /\ UNCHANGED <<maps, pc, call, fields, newSize, ncalls, acked>>
           /\ todo'[t] = Tail(todo[t])
           /\ \A e : e # todo[t][1].elem =>
                 /\ e \in DOMAIN shm' <=> e \in DOMAIN shm
                 /\ e \in DOMAIN shm => shm'[e] = shm[e]
           /\ todo[t][1].elem \in DOMAIN shm' \ DOMAIN shm =>
                 todo[t][1].kind = "insert" /\ fields[t].mapped
<1> DEFINE o   == Head(todo[t])
           new == [call |-> call[t].no, item |-> o.item]
<1>1. /\ pc[t] = "mapOps" /\ todo[t] # <<>> /\ todo[t] \in Seq(MapOps)
      /\ todo'[t] = Tail(todo[t])
    BY DEF MapOp, TypeOK
<1>2. o = todo[t][1]
    BY <1>1, TailFacts
<1>3. \/ shm' = shm
      \/ o.kind = "insert" /\ fields[t].mapped /\ shm' = Put(shm, o.elem, new)
      \/ o.elem \in DOMAIN shm /\ shm' = [shm EXCEPT ![o.elem] = new]
      \/ shm' = [e \in DOMAIN shm \ {o.elem} |-> shm[e]]
    BY DEF MapOp
<1>4. UNCHANGED <<maps, pc, call, fields, newSize, ncalls, acked>>
    BY DEF MapOp
<1> HIDE DEF o, new
<1>5. /\ \A e : e # o.elem =>
            /\ e \in DOMAIN shm' <=> e \in DOMAIN shm
            /\ e \in DOMAIN shm => shm'[e] = shm[e]
      /\ o.elem \in DOMAIN shm' \ DOMAIN shm => o.kind = "insert" /\ fields[t].mapped
    <2>1. CASE o.kind = "insert" /\ fields[t].mapped /\ shm' = Put(shm, o.elem, new)
        BY <2>1 DEF Put
    <2>2. CASE o.elem \in DOMAIN shm /\ shm' = [shm EXCEPT ![o.elem] = new]
        BY <2>2 DEF TypeOK
    <2>3. CASE shm' = [e \in DOMAIN shm \ {o.elem} |-> shm[e]]
        BY <2>3
    <2>4. CASE shm' = shm
        BY <2>4
    <2> QED BY <1>3, <2>1, <2>2, <2>3, <2>4
<1> QED BY <1>1, <1>2, <1>4, <1>5

\* A call under way touches what is shared about its own key only.
LEMMA OtherKeys ==
    ASSUME IInv, NEW t \in Threads, ThreadStep(t), NEW k \in Keys,
           k # Key(t) \/ ~Busy(t)
    PROVE  SameKey(k)
<1> USE DEF Busy, maps
<1>t. TypeOK /\ Caller(t) /\ Key(t) \in Keys
    BY DEF IInv, TypeOK, Key, Calls
<1>0. CASE UpdateTelemetry(t) \/ Lookup(t) \/ CheckApplicable(t) \/ NanApplicable(t)
    BY <1>0 DEF UpdateTelemetry, Lookup, CheckApplicable, NanApplicable, SameKey
<1>4. CASE HandleObjectInsertion(t)
    BY <1>4 DEF HandleObjectInsertion, SameKey
<1>5. CASE Emplace(t)
    <2>1. k # Key(t) /\ shm' = shm /\ acked' = acked
        BY <1>5 DEF Emplace
    <2>2. nameSpaceMap' = nameSpaceMap \/ nameSpaceMap' = Put(nameSpaceMap, Key(t), fields[t])
        BY <1>5 DEF Emplace
    <2> QED BY <2>1, <2>2 DEF SameKey, Put
<1>6. CASE Resize(t)
    <2>1. k # Key(t) /\ shm' = shm /\ acked' = acked
        BY <1>6 DEF Resize
    <2>2. \/ nameSpaceMap' = nameSpaceMap
          \/ nameSpaceMap' = [nameSpaceMap EXCEPT ![Key(t)].arraySize = call[t].shape]
        BY <1>6 DEF Resize
    <2> QED BY <1>t, <2>1, <2>2 DEF SameKey, TypeOK
<1>8. CASE NanLookup(t)
    <2>1. k # Key(t) /\ shm' = shm /\ acked' = acked
        BY <1>8 DEF NanLookup
    <2> DEFINE f == IF Key(t) \in DOMAIN nameSpaceMap THEN nameSpaceMap[Key(t)] ELSE NoFields
    <2>2. nameSpaceMap' = nameSpaceMap \/ nameSpaceMap' = Put(nameSpaceMap, Key(t), f)
        <3>1. CASE Key(t) \notin DOMAIN nameSpaceMap /\ pc[t] = "nanLookup"
            BY <1>8, <3>1 DEF NanLookup
        <3>2. CASE ~(Key(t) \notin DOMAIN nameSpaceMap /\ pc[t] = "nanLookup")
            BY <1>8, <3>2 DEF NanLookup
        <3> QED BY <3>1, <3>2
    <2> HIDE DEF f
    <2> QED BY <2>1, <2>2 DEF SameKey, Put
<1>9. CASE MapOp(t)
    <2> DEFINE o == todo[t][1]
    <2>1. /\ pc[t] = "mapOps" /\ todo[t] # <<>> /\ todo[t] \in Seq(MapOps)
          /\ UNCHANGED <<maps, acked>>
          /\ \A e : e # o.elem => /\ e \in DOMAIN shm' <=> e \in DOMAIN shm
                                  /\ e \in DOMAIN shm => shm'[e] = shm[e]
        BY <1>9, <1>t, MapOpFacts
    <2>2. o.elem[1] = Key(t) /\ k # Key(t)
        <3>1. 1 \in DOMAIN todo[t]
            BY <2>1, TailFacts
        <3>2. todo[t][1].elem[1] = Key(t)
            <4>1. \A j \in DOMAIN todo[t] : todo[t][j].elem[1] = Key(t)
                BY <1>t, <2>1 DEF Caller, Operating
            <4> QED BY <3>1, <4>1
        <3>3. k # Key(t)
            BY <1>9 DEF MapOp
        <3> QED BY <3>2, <3>3
    <2> HIDE DEF o
    <2>3. \A i : <<k, i>> # o.elem
        BY <2>2
    <2> QED BY <2>1, <2>3 DEF SameKey
<1>10. CASE Return(t)
    <2>1. k # Key(t) /\ shm' = shm
        BY <1>10 DEF Return
    <2>2. \/ nameSpaceMap' = nameSpaceMap
          \/ nameSpaceMap' = [nameSpaceMap EXCEPT ![Key(t)].arraySize = newSize[t]]
        BY <1>10 DEF Return
    <2>3. acked' = acked \/ acked' = [acked EXCEPT ![Key(t)] = call[t]]
        BY <1>10 DEF Return
    <2> QED BY <1>t, <2>1, <2>2, <2>3 DEF SameKey, TypeOK
<1> QED BY <1>0, <1>4, <1>5, <1>6, <1>8, <1>9, <1>10 DEF ThreadStep

\* A step of one thread leaves the key of another thread's last call alone, if the
\* other thread owns it.
LEMMA Others ==
    ASSUME IInv, NEW t \in Threads, ThreadStep(t), NEW u \in Threads, u # t
    PROVE  SameThread(u) /\ (call[u].no # 0 /\ Owned(Key(u)) => SameKey(Key(u)))
<1>1. SameThread(u)
    BY OtherThreads DEF IInv
<1>2. ASSUME call[u].no # 0, Owned(Key(u)) PROVE SameKey(Key(u))
    <2>1. Key(u) \in Keys /\ Key(t) \in Keys
        BY DEF IInv, TypeOK, Key, Calls
    <2>2. CASE Busy(t)
        <3>1. call[t].no # 0
            BY <2>2 DEF IInv, Numbered
        <3>2. u \in Reporters[Key(u)] /\ t \in Reporters[Key(t)]
            BY <1>2, <3>1 DEF IInv, Caller
        <3>3. Key(u) # Key(t)
            BY <1>2, <2>1, <3>2 DEF Owned
        <3> QED BY <2>1, <3>3, OtherKeys
    <2>3. CASE ~Busy(t)
        BY <2>1, <2>3, OtherKeys
    <2> QED BY <2>2, <2>3
<1> QED BY <1>1, <1>2

\* Looking the key up plans updates and erasures, all on the key.
LEMMA LookupOps ==
    ASSUME TypeOK, NEW t \in Threads, Lookup(t), Key(t) \in DOMAIN nameSpaceMap
    PROVE  \A j \in DOMAIN todo'[t] : todo'[t][j].elem[1] = Key(t) /\ todo'[t][j].kind # "insert"
<1> USE SensorAggregatorAssumption
<1> DEFINE k == Key(t)
           s == call[t].shape
           a == nameSpaceMap[k].arraySize
<1>1. k \in Keys /\ s \in (0 .. MaxLen) \cup {Scalar} /\ a \in 0 .. MaxLen
    BY DEF TypeOK, Key, Calls, Fields
<1>2. \/ \E x \in {Scalar, Blank} : todo'[t] = <<Update(k, Scalar, x, TRUE)>>
      \/ todo'[t] = <<>>
      \/ a > 0 /\ s # Scalar /\ \E order \in Orders(s) : todo'[t] = ArrayOps(k, a, s, order)
    BY DEF Lookup, TypeOK
<1>3. ASSUME NEW x, todo'[t] = <<Update(k, Scalar, x, TRUE)>>
      PROVE  \A j \in DOMAIN todo'[t] : todo'[t][j].elem[1] = k /\ todo'[t][j].kind # "insert"
    <2>1. DOMAIN todo'[t] = {1} /\ todo'[t][1] = Update(k, Scalar, x, TRUE)
        BY <1>3
    <2> QED BY <2>1 DEF Update
<1>4. CASE todo'[t] = <<>>
    <2>1. DOMAIN todo'[t] = {}
        BY <1>4
    <2> QED BY <2>1
<1>5. ASSUME a > 0, s # Scalar, NEW order \in Orders(s), todo'[t] = ArrayOps(k, a, s, order)
      PROVE  \A j \in DOMAIN todo'[t] : todo'[t][j].elem[1] = k /\ todo'[t][j].kind # "insert"
    <2>1. a \in 1 .. MaxLen /\ s \in 0 .. MaxLen
        BY <1>1, <1>5
    <2> HIDE DEF k, a, s
    <2> QED BY <1>1, <1>5, <2>1, ArrayOpsFacts
<1> QED BY <1>2, <1>3, <1>4, <1>5

\* A new key's insertions are on the key, of its plain value or of a list's indices.
LEMMA ResizeOps ==
    ASSUME TypeOK, NEW t \in Threads, Resize(t), pc'[t] = "mapOps"
    PROVE  \A j \in DOMAIN todo'[t] :
              /\ todo'[t][j].elem[1] = Key(t)
              /\ IF call[t].shape = Scalar THEN todo'[t][j].elem[2] = Scalar
                 ELSE todo'[t][j].elem[2] \in 0 .. call[t].shape - 1
<1> USE SensorAggregatorAssumption
<1> DEFINE k == Key(t)
           s == call[t].shape
<1>1. k \in Keys /\ s \in (0 .. MaxLen) \cup {Scalar}
    BY DEF TypeOK, Key, Calls
<1>2. ~(s = 0 \/ (s = Scalar /\ k \in NoURI))
    BY DEF Resize, Goto, Answer, TypeOK
<1>3. \/ s = Scalar /\ todo'[t] = <<Insert(k, Scalar)>>
      \/ s # Scalar /\ s # 0 /\ \E order \in Orders(s) :
            todo'[t] = [i \in 1 .. s |-> Insert(k, order[i])]
    BY <1>2 DEF Resize, TypeOK
<1>4. CASE s = Scalar /\ todo'[t] = <<Insert(k, Scalar)>>
    <2>1. DOMAIN todo'[t] = {1} /\ todo'[t][1].elem = <<k, Scalar>>
        BY <1>4 DEF Insert
    <2> QED BY <1>4, <2>1
<1>5. ASSUME s # Scalar, s # 0, NEW order \in Orders(s),
             todo'[t] = [i \in 1 .. s |-> Insert(k, order[i])]
      PROVE  \A j \in DOMAIN todo'[t] : todo'[t][j].elem[1] = k /\ todo'[t][j].elem[2] \in 0 .. s - 1
    <2>1. s \in 1 .. MaxLen
        BY <1>1, <1>5
    <2> DEFINE l == todo'[t]
    <2>2. l = [i \in 1 .. s |-> Insert(k, order[i])] /\ k \in Keys /\ order \in Orders(s)
        BY <1>1, <1>5
    <2> HIDE DEF k, s, l
    <2>3. \A j \in DOMAIN l : l[j].elem[1] = k /\ l[j].elem[2] \in 0 .. s - 1
        BY ONLY <2>1, <2>2, InsertsFacts
    <2> QED BY <2>3 DEF l
<1> QED BY <1>3, <1>4, <1>5

\* A nan's operations are those on the fields it finds or makes.
LEMMA NanLookupOps ==
    ASSUME TypeOK, NEW t \in Threads, NanLookup(t), pc'[t] = "mapOps",
           NEW f, f = IF Key(t) \in DOMAIN nameSpaceMap THEN nameSpaceMap[Key(t)] ELSE NoFields
    PROVE  NanList(todo'[t], Key(t), f.arraySize) /\ status' = status
<1> DEFINE k == Key(t)
<1>1. k \in Keys /\ f.arraySize \in 0 .. MaxLen
    <2>1. NoFields.arraySize \in 0 .. MaxLen
        BY SensorAggregatorAssumption DEF NoFields
    <2> QED BY <2>1 DEF TypeOK, Key, Calls, Fields
<1>2. ~(k \notin DOMAIN nameSpaceMap /\ pc[t] = "nanLookup")
    BY DEF NanLookup, Answer, Goto, TypeOK
<1>3. todo'[t] = NanOps(k, f.arraySize) /\ status' = status
    BY <1>2 DEF NanLookup, TypeOK
<1> HIDE DEF k
<1>4. NanList(NanOps(k, f.arraySize), k, f.arraySize)
    BY <1>1, NanOpsFacts
<1> QED BY <1>3, <1>4 DEF k

\* Each step keeps to its path and its key, whoever else reports the key.
LEMMA OwnCaller ==
    ASSUME TypeOK, NEW t \in Threads, Caller(t), ThreadStep(t)
    PROVE  Caller(t)'
<1>1. CASE UpdateTelemetry(t)
    <2>1. PICK k \in Keys : \E s \in Shapes[k], rc \in BOOLEAN, parent \in Parents[k] :
              /\ t \in Reporters[k]
              /\ call' = [call EXCEPT ![t] = [key |-> k, shape |-> s, rc |-> rc,
                                              parent |-> parent, no |-> ncalls + 1]]
              /\ pc' = [pc EXCEPT ![t] = IF rc THEN "nan" ELSE "lookup"]
        BY <1>1 DEF UpdateTelemetry, Goto
    <2>2. /\ call'[t].key = k /\ call'[t].shape \in Shapes[k] /\ t \in Reporters[k]
          /\ pc'[t] = IF call'[t].rc THEN "nan" ELSE "lookup"
        BY <2>1 DEF TypeOK
    <2> QED BY <2>2 DEF Caller, Key, Operating
<1>2. CASE Lookup(t)
    <2>1. /\ pc[t] = "lookup" /\ call' = call
          /\ Key(t) \notin DOMAIN nameSpaceMap => pc'[t] = "applicable"
          /\ Key(t) \in DOMAIN nameSpaceMap => pc'[t] = "mapOps"
        BY <1>2 DEF Lookup, Goto, TypeOK
    <2>2. CASE Key(t) \notin DOMAIN nameSpaceMap
        BY <2>1, <2>2 DEF Caller, Key, Operating
    <2>3. CASE Key(t) \in DOMAIN nameSpaceMap
        <3>1. \A j \in DOMAIN todo'[t] : todo'[t][j].elem[1] = Key(t)
            BY <1>2, <2>3, LookupOps
        <3> QED BY <2>1, <2>3, <3>1 DEF Caller, Key, Operating
    <2> QED BY <2>2, <2>3
<1>3. CASE CheckApplicable(t) \/ HandleObjectInsertion(t) \/ Emplace(t)
    <2>1. /\ pc[t] \in {"applicable", "match", "emplace"} /\ call' = call
          /\ pc'[t] \in {"idle", "match", "emplace", "resize"}
        BY <1>3 DEF CheckApplicable, HandleObjectInsertion, Emplace, Goto, Answer, TypeOK
    <2> QED BY <2>1 DEF Caller, Key, Operating
<1>4. CASE Resize(t)
    <2>1. pc[t] = "resize" /\ call' = call /\ pc'[t] \in {"idle", "mapOps"}
        BY <1>4 DEF Resize, Goto, Answer, TypeOK
    <2>2. pc'[t] = "mapOps" => \A j \in DOMAIN todo'[t] : todo'[t][j].elem[1] = Key(t)
        BY <1>4, ResizeOps
    <2> QED BY <2>1, <2>2 DEF Caller, Key, Operating
<1>5. CASE NanApplicable(t)
    <2>1. pc[t] = "nan" /\ call' = call /\ pc'[t] \in {"nanKnown", "nanLookup"}
        BY <1>5 DEF NanApplicable, Goto, TypeOK
    <2> QED BY <2>1 DEF Caller, Key, Operating
<1>6. CASE NanLookup(t)
    <2>1. pc[t] \in {"nanLookup", "nanKnown"} /\ call' = call /\ pc'[t] \in {"idle", "mapOps"}
        BY <1>6 DEF NanLookup, Goto, Answer, TypeOK
    <2>2. pc'[t] = "mapOps" => \A j \in DOMAIN todo'[t] : todo'[t][j].elem[1] = Key(t)
        BY <1>6, NanLookupOps DEF NanList
    <2> QED BY <2>1, <2>2 DEF Caller, Key, Operating
<1>7. CASE MapOp(t)
    <2>1. /\ pc[t] = "mapOps" /\ UNCHANGED <<pc, call>> /\ todo'[t] = Tail(todo[t])
          /\ todo[t] \in Seq(MapOps) /\ todo[t] # <<>>
        BY <1>7, MapOpFacts
    <2>2. \A j \in DOMAIN Tail(todo[t]) : j + 1 \in DOMAIN todo[t] /\ Tail(todo[t])[j] = todo[t][j + 1]
        BY <2>1, TailFacts
    <2> QED BY <2>1, <2>2 DEF Caller, Key, Operating
<1>8. CASE Return(t)
    <2>1. pc'[t] = "idle" /\ call' = call
        BY <1>8 DEF Return, Goto, TypeOK
    <2> QED BY <2>1 DEF Caller, Key, Operating
<1> QED BY <1>1, <1>2, <1>3, <1>4, <1>5, <1>6, <1>7, <1>8 DEF ThreadStep

\* What a step does to its own thread and key, if the thread owns it: a new call,
\* which knows nothing yet,
LEMMA OwnCall ==
    ASSUME TypeOK, NEW t \in Threads, UpdateTelemetry(t)
    PROVE  Known(t)' /\ Planned(t)' /\ UNCHANGED <<nameSpaceMap, shm>>
<1>1. pc'[t] \in {"nan", "lookup"}
    <2>1. PICK rc \in BOOLEAN : pc' = [pc EXCEPT ![t] = IF rc THEN "nan" ELSE "lookup"]
        BY DEF UpdateTelemetry, Goto
    <2> QED BY <2>1 DEF TypeOK
<1>2. newSize'[t] = -1 /\ status'[t] /\ UNCHANGED <<nameSpaceMap, shm>>
    BY DEF UpdateTelemetry, TypeOK, maps
<1> QED BY <1>1, <1>2 DEF Known, Planned, Busy, Operating

\* the steps of a call that write neither nameSpaceMap nor the segment,
LEMMA OwnBefore ==
    ASSUME IInv, NEW t \in Threads, Owned(Key(t)),
           CheckApplicable(t) \/ HandleObjectInsertion(t) \/ NanApplicable(t)
    PROVE  Known(t)' /\ Planned(t)' /\ UNCHANGED <<nameSpaceMap, shm>>
<1>1. TypeOK /\ Known(t)
    BY DEF IInv
<1>2. CASE CheckApplicable(t)
    <2>1. /\ pc[t] = "applicable" /\ pc'[t] \in {"idle", "match"}
          /\ pc'[t] = "match" => status' = status
          /\ UNCHANGED <<nameSpaceMap, shm, call, newSize, fields>>
        BY <1>1, <1>2 DEF CheckApplicable, TypeOK, maps, locals, Goto, Answer
    <2> QED BY <1>1, <2>1 DEF Known, Planned, Key, Busy, Operating
<1>3. CASE HandleObjectInsertion(t)
    <2>1. /\ pc[t] = "match" /\ pc'[t] \in {"idle", "emplace"}
          /\ pc'[t] = "emplace" => status' = status /\ fields'[t].arraySize = 0
          /\ UNCHANGED <<nameSpaceMap, shm, call, newSize>>
        BY <1>1, <1>3 DEF HandleObjectInsertion, TypeOK, Goto, Answer
    <2> QED BY <1>1, <2>1 DEF Known, Planned, Key, Busy, Operating
<1>4. CASE NanApplicable(t)
    <2>1. /\ pc[t] = "nan" /\ pc'[t] \in {"nanKnown", "nanLookup"}
          /\ UNCHANGED <<nameSpaceMap, shm, call, newSize, status, fields>>
        BY <1>1, <1>4 DEF NanApplicable, TypeOK, maps, locals, Goto
    <2> QED BY <1>1, <2>1 DEF Known, Planned, Key, Busy, Operating
<1> QED BY <1>2, <1>3, <1>4

\* and the lookup, which copies the fields of the key and plans no insertion.
LEMMA OwnLookup ==
    ASSUME IInv, NEW t \in Threads, Owned(Key(t)), Lookup(t)
    PROVE  Known(t)' /\ Planned(t)' /\ UNCHANGED <<nameSpaceMap, shm>>
<1> USE SensorAggregatorAssumption
<1> DEFINE k == Key(t)
           s == call[t].shape
           a == nameSpaceMap[k].arraySize
<1>1. /\ TypeOK /\ Known(t) /\ pc[t] = "lookup" /\ newSize[t] = -1
      /\ s \in (0 .. MaxLen) \cup {Scalar} /\ (k \in DOMAIN nameSpaceMap => a \in 0 .. MaxLen)
    BY DEF IInv, Lookup, TypeOK, Key, Calls, Fields, Known, Busy, Operating
<1>2. UNCHANGED <<nameSpaceMap, shm, call, status>>
    BY DEF Lookup, maps
<1>3. CASE k \notin DOMAIN nameSpaceMap
    <2>1. pc'[t] = "applicable" /\ UNCHANGED locals
        BY <1>1, <1>3 DEF Lookup, Goto, TypeOK
    <2> QED BY <1>1, <1>2, <1>3, <2>1 DEF Known, Planned, Key, Busy, Operating, locals
<1>4. CASE k \in DOMAIN nameSpaceMap
    <2>1. pc'[t] = "mapOps" /\ fields'[t] = nameSpaceMap[k]
        BY <1>1, <1>4 DEF Lookup, Goto, TypeOK
    <2>2. Known(t)'
        BY <1>1, <1>2, <1>4, <2>1 DEF Known, Key, Busy, Operating
    <2>3. newSize' = newSize \/ (a > 0 /\ s # Scalar /\ newSize'[t] = IF a > s THEN -1 ELSE s)
        BY <1>1, <1>4 DEF Lookup, TypeOK
    <2>4. newSize'[t] # -1 => a \in 1 .. newSize'[t]
        BY <1>1, <1>4, <2>3
    <2>5. \A j \in DOMAIN todo'[t] : todo'[t][j].kind # "insert"
        BY <1>1, <1>4, LookupOps
    <2>6. k' = k /\ a' = a
        BY <1>2 DEF Key
    <2>7. Planned(t)'
        BY <2>4, <2>5, <2>6 DEF Planned
    <2> QED BY <1>2, <2>2, <2>7
<1> QED BY <1>3, <1>4

\* A key nobody registered is seen by nobody; it is registered as found.
LEMMA OwnEmplace ==
    ASSUME IInv, NEW t \in Threads, Owned(Key(t)), Emplace(t)
    PROVE  Known(t)' /\ Planned(t)' /\ Seen(Key(t))'
<1> DEFINE k == Key(t)
<1>1. TypeOK /\ Known(t) /\ pc[t] = "emplace" /\ k \in Keys /\ Seen(k)
      /\ k \notin DOMAIN nameSpaceMap /\ fields[t].arraySize = 0
      /\ newSize[t] = -1 /\ status[t]
    BY DEF IInv, Emplace, TypeOK, Key, Calls, Known, Busy, Operating
<1>2. /\ pc'[t] = "resize" /\ UNCHANGED <<shm, call, newSize, status, fields>>
      /\ nameSpaceMap' = Put(nameSpaceMap, k, fields[t])
    BY <1>1 DEF Emplace, Goto, locals, TypeOK
<1>3. k \in DOMAIN nameSpaceMap' /\ nameSpaceMap'[k] = fields[t]
    BY <1>2 DEF Put
<1>4. Visible(k) = {} /\ Visible(k)' = {}
    BY <1>1, <1>2 DEF Seen, Visible, Key
<1>5. <<k, Scalar>> \notin DOMAIN shm'
    BY <1>2, <1>4 DEF Visible, Items
<1>6. Planned(t)' /\ Seen(Key(t))'
    BY <1>1, <1>2, <1>4 DEF Planned, Seen, Key, Operating
<1>7. Known(t)'
    BY <1>1, <1>2, <1>3, <1>5 DEF Known, Key, Busy, Operating
<1> QED BY <1>6, <1>7

\* The size of a new key is registered before anything of it is seen, and covers
\* what will be inserted.
LEMMA OwnResize ==
    ASSUME IInv, NEW t \in Threads, Owned(Key(t)), Resize(t)
    PROVE  Known(t)' /\ Planned(t)' /\ Seen(Key(t))'
<1> USE SensorAggregatorAssumption
<1> DEFINE k == Key(t)
           s == call[t].shape
           n == nameSpaceMap'[k].arraySize
<1>1. /\ TypeOK /\ pc[t] = "resize" /\ k \in Keys /\ Seen(k)
      /\ k \in DOMAIN nameSpaceMap /\ nameSpaceMap[k].mapped = fields[t].mapped
      /\ nameSpaceMap[k].arraySize = 0 /\ <<k, Scalar>> \notin DOMAIN shm
      /\ newSize[t] = -1 /\ s \in (0 .. MaxLen) \cup {Scalar}
    BY DEF IInv, Resize, TypeOK, Key, Calls, Known, Busy, Operating
<1>2. /\ UNCHANGED <<shm, call, newSize, fields>>
      /\ pc'[t] \in {"idle", "mapOps"}
      /\ nameSpaceMap' = IF s = Scalar THEN nameSpaceMap
                         ELSE [nameSpaceMap EXCEPT ![k].arraySize = s]
    BY <1>1 DEF Resize, Goto, Answer, TypeOK
<1>3. /\ k \in DOMAIN nameSpaceMap' /\ nameSpaceMap'[k].mapped = fields[t].mapped
      /\ n = IF s = Scalar THEN 0 ELSE s
    BY <1>1, <1>2 DEF TypeOK, Fields
<1>4. Visible(k)' = {}
    <2>1. \A i \in Visible(k) : i \in Items /\ Fits(i, 0)
        BY <1>1 DEF Seen, Visible
    <2>2. \A i \in Visible(k) : i = Scalar
        BY <2>1 DEF Fits, Items
    <2>3. Visible(k) = {}
        BY <1>1, <2>2 DEF Visible
    <2> QED BY <1>2, <2>3 DEF Visible, Key
<1>5. Seen(Key(t))'
    BY <1>2, <1>4 DEF Seen, Key
<1>6. Known(t)'
    BY <1>1, <1>2, <1>3 DEF Known, Key, Busy, Operating
<1>7. Planned(t)'
    <2> SUFFICES ASSUME pc'[t] = "mapOps", NEW j \in DOMAIN todo'[t]
                 PROVE  Fits(todo'[t][j].elem[2], n)
        BY <1>1, <1>2 DEF Planned, Key, Operating
    <2>1. IF s = Scalar THEN todo'[t][j].elem[2] = Scalar
          ELSE todo'[t][j].elem[2] \in 0 .. s - 1
        BY <1>1, ResizeOps
    <2> QED BY <1>1, <1>3, <2>1 DEF Fits
<1> QED BY <1>5, <1>6, <1>7

\* A nan plans no insertion; the key it may register is seen by nobody.
LEMMA OwnNanLookup ==
    ASSUME IInv, NEW t \in Threads, Owned(Key(t)), NanLookup(t)
    PROVE  Known(t)' /\ Planned(t)' /\ Seen(Key(t))'
<1> DEFINE k == Key(t)
           f == IF k \in DOMAIN nameSpaceMap THEN nameSpaceMap[k] ELSE NoFields
<1>1. /\ TypeOK /\ k \in Keys /\ Seen(k) /\ newSize[t] = -1
      /\ pc[t] \in {"nanLookup", "nanKnown"}
    BY DEF IInv, NanLookup, TypeOK, Key, Calls, Known, Busy, Operating
<1>2. UNCHANGED <<shm, call, newSize>>
    BY DEF NanLookup
<1>3. Visible(k)' = Visible(k)
    BY <1>2 DEF Visible, Key
<1>4. CASE k \notin DOMAIN nameSpaceMap /\ pc[t] = "nanLookup"
    <2>1. pc'[t] = "idle" /\ UNCHANGED nameSpaceMap
        BY <1>1, <1>4 DEF NanLookup, Answer, Goto, TypeOK
    <2> QED BY <1>1, <1>2, <1>3, <2>1 DEF Known, Planned, Seen, Key, Busy, Operating
<1>5. CASE ~(k \notin DOMAIN nameSpaceMap /\ pc[t] = "nanLookup")
    <2>1. /\ pc'[t] = "mapOps" /\ fields'[t] = f
          /\ nameSpaceMap' = Put(nameSpaceMap, k, f)
        BY <1>1, <1>5 DEF NanLookup, Goto, TypeOK
    <2>2. k \in DOMAIN nameSpaceMap' /\ nameSpaceMap'[k] = f
        BY <2>1 DEF Put
    <2>3. \A j \in DOMAIN todo'[t] : todo'[t][j].kind # "insert"
        <3>1. NanList(todo'[t], k, f.arraySize)
            BY <1>1, <2>1, NanLookupOps
        <3> QED BY <3>1 DEF NanList
    <2>5. Planned(t)'
        BY <1>1, <1>2, <2>3 DEF Planned
    <2>6. Known(t)'
        BY <1>1, <1>2, <2>1, <2>2 DEF Known, Key, Busy, Operating
    <2>7. Seen(Key(t))'
        BY <1>1, <1>2, <1>3, <2>2 DEF Seen, Key
    <2> QED BY <2>5, <2>6, <2>7
<1> QED BY <1>4, <1>5

\* An insertion has its place in the registered size; nothing else adds an element.
LEMMA OwnMapOp ==
    ASSUME IInv, NEW t \in Threads, Owned(Key(t)), MapOp(t)
    PROVE  Known(t)' /\ Planned(t)' /\ Seen(Key(t))'
<1> DEFINE k == Key(t)
           o == todo[t][1]
           s == todo[t]
<1>1. TypeOK /\ Known(t) /\ Planned(t) /\ k \in Keys /\ Seen(k)
    BY DEF IInv, TypeOK, Key, Calls
<1>2. /\ pc[t] = "mapOps" /\ s # <<>> /\ s \in Seq(MapOps)
      /\ UNCHANGED <<nameSpaceMap, pc, call, fields, newSize>> /\ todo'[t] = Tail(s)
      /\ \A e : e # o.elem => (e \in DOMAIN shm' <=> e \in DOMAIN shm)
      /\ o.elem \in DOMAIN shm' \ DOMAIN shm => o.kind = "insert" /\ fields[t].mapped
    BY <1>1, MapOpFacts DEF maps
<1>3. 1 \in DOMAIN s /\ \A j \in DOMAIN Tail(s) : j + 1 \in DOMAIN s /\ Tail(s)[j] = s[j + 1]
    BY <1>2, TailFacts
<1>4. \A j \in DOMAIN s :
          s[j].kind = "insert" => Fits(s[j].elem[2], nameSpaceMap[k].arraySize)
    BY <1>1, <1>2 DEF Planned, Operating
<1>5. k \in DOMAIN nameSpaceMap /\ nameSpaceMap[k].mapped = fields[t].mapped
    BY <1>1, <1>2 DEF Known
<1>6. Known(t)'
    BY <1>1, <1>2, <1>5 DEF Known, Key, Busy, Operating
<1>7. Planned(t)'
    <2>1. \A j \in DOMAIN todo'[t] :
              todo'[t][j].kind = "insert" => Fits(todo'[t][j].elem[2], nameSpaceMap[k].arraySize)
        BY <1>2, <1>3, <1>4
    <2> QED BY <1>1, <1>2, <2>1 DEF Planned, Key, Operating
<1>8. Seen(Key(t))'
    <2> SUFFICES ASSUME NEW i \in Items, <<k, i>> \in DOMAIN shm'
                 PROVE  nameSpaceMap[k].mapped /\ Fits(i, nameSpaceMap[k].arraySize)
        BY <1>2, <1>5 DEF Seen, Visible, Key
    <2>1. CASE <<k, i>> \in DOMAIN shm
        BY <1>1, <2>1 DEF Seen, Visible
    <2>2. CASE <<k, i>> \notin DOMAIN shm
        <3>1. o.elem = <<k, i>> /\ o.kind = "insert" /\ fields[t].mapped
            BY <1>2, <2>2
        <3>2. Fits(o.elem[2], nameSpaceMap[k].arraySize) /\ o.elem[2] = i
            BY <1>3, <1>4, <3>1
        <3> QED BY <1>5, <3>1, <3>2
    <2> QED BY <2>1, <2>2
<1> QED BY <1>6, <1>7, <1>8

\* A size that is written back is that of a list that has grown.
LEMMA OwnReturn ==
    ASSUME IInv, NEW t \in Threads, Owned(Key(t)), Return(t)
    PROVE  Known(t)' /\ Planned(t)' /\ Seen(Key(t))'
<1> USE SensorAggregatorAssumption
<1> DEFINE k == Key(t)
           a == nameSpaceMap[k].arraySize
           n == newSize[t]
<1>1. /\ TypeOK /\ Planned(t) /\ k \in Keys /\ Seen(k) /\ pc[t] = "mapOps"
      /\ k \in DOMAIN nameSpaceMap /\ a \in 0 .. MaxLen /\ n \in -1 .. MaxLen
    BY DEF IInv, Return, TypeOK, Key, Calls, Fields, Known
<1>2. /\ pc'[t] = "idle" /\ UNCHANGED <<shm, call>>
      /\ nameSpaceMap' = IF n = -1 THEN nameSpaceMap ELSE [nameSpaceMap EXCEPT ![k].arraySize = n]
    BY <1>1 DEF Return, Goto, locals, TypeOK
<1>3. Known(t)' /\ Planned(t)'
    BY <1>2 DEF Known, Planned, Busy, Operating
<1>4. Seen(Key(t))'
    <2>1. n # -1 => a \in 1 .. n
        BY <1>1 DEF Planned, Operating
    <2>2. /\ k \in DOMAIN nameSpaceMap' /\ nameSpaceMap'[k].mapped = nameSpaceMap[k].mapped
          /\ nameSpaceMap'[k].arraySize = IF n = -1 THEN a ELSE n
        BY <1>1, <1>2 DEF TypeOK, Fields
    <2> SUFFICES ASSUME NEW i \in Items, <<k, i>> \in DOMAIN shm
                 PROVE  nameSpaceMap[k].mapped /\ Fits(i, IF n = -1 THEN a ELSE n)
        BY <1>2, <2>2 DEF Seen, Visible, Key
    <2>3. nameSpaceMap[k].mapped /\ Fits(i, a)
        BY <1>1 DEF Seen, Visible
    <2>4. Fits(i, IF n = -1 THEN a ELSE n)
        BY <1>1, <2>1, <2>3 DEF Fits, Items
    <2> QED BY <2>3, <2>4
<1> QED BY <1>3, <1>4

\* A call under way stays on its key.
LEMMA KeyStays ==
    ASSUME NEW t \in Threads, ThreadStep(t), Busy(t)
    PROVE  Key(t)' = Key(t)
BY DEF ThreadStep, Busy, Key, UpdateTelemetry, Lookup, CheckApplicable, HandleObjectInsertion,
       Emplace, Resize, NanApplicable, NanLookup, MapOp, Return

\* A step that is not the first of a call is one of a call under way.
LEMMA StepOfCall ==
    ASSUME NEW t \in Threads, ThreadStep(t), ~UpdateTelemetry(t)
    PROVE  Busy(t)
BY DEF ThreadStep, Busy, Lookup, CheckApplicable, HandleObjectInsertion,
       Emplace, Resize, NanApplicable, NanLookup, MapOp, Return

\* Every step keeps the invariant.
LEMMA NextIInv ==
    ASSUME IInv, [Next]_vars
    PROVE  IInv'
<1>1. TypeOK' /\ Numbered'
    BY NextTypeOK DEF IInv
<1>2. ASSUME NEW t \in Threads, ThreadStep(t)
      PROVE  IInv'
    <2>1. Caller(t)' /\ (Owned(Key(t))' => Known(t)' /\ Planned(t)')
        <3>1. Caller(t)'
            BY <1>2, OwnCaller DEF IInv
        <3>2. CASE UpdateTelemetry(t)
            BY <3>1, <3>2, OwnCall DEF IInv
        <3>3. ASSUME ~UpdateTelemetry(t), Owned(Key(t)) PROVE Known(t)' /\ Planned(t)'
            BY <1>2, <3>3, OwnBefore, OwnLookup, OwnEmplace, OwnResize, OwnNanLookup, OwnMapOp,
               OwnReturn DEF ThreadStep
        <3>4. ~UpdateTelemetry(t) => Key(t)' = Key(t)
            BY <1>2, KeyStays, StepOfCall
        <3> QED BY <3>1, <3>2, <3>3, <3>4
    <2>2. ASSUME NEW u \in Threads, u # t
          PROVE  Caller(u)' /\ (Owned(Key(u))' => Known(u)' /\ Planned(u)')
        <3>1. Caller(u) /\ (Owned(Key(u)) => Known(u) /\ Planned(u)) /\ (Busy(u) => call[u].no # 0)
            BY DEF IInv, Numbered
        <3>2. SameThread(u) /\ (call[u].no # 0 /\ Owned(Key(u)) => SameKey(Key(u)))
            BY <1>2, <2>2, Others
        <3>k. Key(u)' = Key(u)
            BY <3>2 DEF SameThread, Key
        <3>3. Caller(u)'
            BY <3>1, <3>2 DEF Caller, SameThread, Key, Operating
        <3>4. ASSUME Owned(Key(u)) PROVE Known(u)'
            BY <3>1, <3>2, <3>4 DEF Known, SameThread, SameKey, Key, Busy, Operating
        <3>5. ASSUME Owned(Key(u)) PROVE Planned(u)'
            <4>1. CASE ~Operating(u)
                BY <3>2, <4>1 DEF Planned, Operating, SameThread
            <4>2. CASE Operating(u)
                <5>1. /\ Key(u) \in DOMAIN nameSpaceMap
                      /\ nameSpaceMap'[Key(u)] = nameSpaceMap[Key(u)]
                    BY <3>1, <3>2, <3>5, <4>2 DEF Known, Operating, Busy, SameThread, SameKey
                <5> QED BY <3>1, <3>2, <3>5, <3>k, <4>2, <5>1 DEF Planned, Operating, SameThread
            <4> QED BY <4>1, <4>2
        <3> QED BY <3>3, <3>4, <3>5, <3>k
    <2>3. ASSUME NEW k \in Keys, Owned(k) PROVE Seen(k)'
        <3>1. CASE k # Key(t) \/ ~Busy(t)
            <4>1. SameKey(k) /\ Seen(k)
                BY <1>2, <2>3, <3>1, OtherKeys DEF IInv
            <4> QED BY <4>1 DEF SameKey, Seen, Visible
        <3>2. CASE k = Key(t) /\ Busy(t)
            <4>1. ~UpdateTelemetry(t) /\ Seen(k) /\ Owned(Key(t))
                BY <2>3, <3>2 DEF UpdateTelemetry, Busy, IInv
            <4>2. Key(t)' = Key(t)
                BY <1>2, <3>2, KeyStays
            <4>3. CASE UNCHANGED <<nameSpaceMap, shm>>
                BY <4>1, <4>3 DEF Seen, Visible
            <4>4. CASE ~UNCHANGED <<nameSpaceMap, shm>>
                <5>1. Emplace(t) \/ Resize(t) \/ NanLookup(t) \/ MapOp(t) \/ Return(t)
                    BY <1>2, <4>1, <4>4, OwnBefore, OwnLookup DEF ThreadStep
                <5>2. Seen(Key(t))'
                    BY <4>1, <5>1, OwnEmplace, OwnResize, OwnNanLookup, OwnMapOp, OwnReturn
                <5> QED BY <3>2, <4>2, <5>2 DEF Seen, Visible
            <4> QED BY <4>3, <4>4
        <3> QED BY <3>1, <3>2
    <2>4. \A u \in Threads : Caller(u)' /\ (Owned(Key(u))' => Known(u)' /\ Planned(u)')
        BY <2>1, <2>2
    <2> QED BY <1>1, <2>3, <2>4 DEF IInv
<1>3. CASE UNCHANGED vars
    BY <1>3 DEF IInv, vars, maps, locals, TypeOK, Numbered, Caller, Known, Planned, Seen,
                Visible, Key, Busy, Operating
<1> QED BY <1>2, <1>3 DEF Next

\* The invariant holds of every behaviour.
LEMMA IInvHolds == Spec => []IInv
<1>1. Init => IInv
    <2> SUFFICES ASSUME Init PROVE IInv
        OBVIOUS
    <2>1. TypeOK /\ Numbered
        BY InitTypeOK
    <2>2. /\ DOMAIN shm = {}
          /\ \A t \in Threads : pc[t] = "idle" /\ call[t].no = 0
        BY DEF Init, NoCall
    <2> QED BY <2>1, <2>2 DEF IInv, Caller, Known, Planned, Seen, Visible, Busy, Operating
<1>2. IInv /\ [Next]_vars => IInv'
    BY NextIInv
<1> QED BY <1>1, <1>2, PTL DEF Spec

\* VisibleIsReachable: whatever a client sees of a key that one thread reports is
\* registered under a namespace of the producer, so that the next update finds it.
THEOREM Reachable == Spec => []VisibleIsReachable
<1>1. IInv => VisibleIsReachable
    BY DEF IInv, Seen, VisibleIsReachable
<1> QED BY <1>1, IInvHolds, PTL

\* VisibleWithinSize: the registered size of a list that one thread reports covers all
\* that a client sees of it, however it grew, shrank or failed.
THEOREM WithinSize == Spec => []VisibleWithinSize
<1>1. IInv => VisibleWithinSize
    BY DEF IInv, Seen, VisibleWithinSize, Visible, Fits
<1> QED BY <1>1, IInvHolds, PTL

-----------------------------------------------------------------------------
(* What was answered true.                                                 *)

\* The calls are numbered in order, and a call under way was not answered yet.
Counted ==
    /\ \A t \in Threads : call[t].no <= ncalls
    /\ \A k \in Keys : acked[k].no <= ncalls
Unanswered(t) == Busy(t) => acked[Key(t)].no # call[t].no

\* A key of plain values, what a call on one makes of its element, and how it
\* looks then.
Plain(k)    == Shapes[k] = {Scalar}
Item(c)     == IF c.rc THEN Nan ELSE Scalar
Shows(k, c) == /\ <<k, Scalar>> \in DOMAIN shm
               /\ shm[<<k, Scalar>>] = [call |-> c.no, item |-> Item(c)]

PlainSize(k) == Plain(k) /\ k \in DOMAIN nameSpaceMap => nameSpaceMap[k].arraySize = 0

\* A call on such a key does one operation: an insertion if the key is new.
PlainPlan(t) ==
    Operating(t) /\ Plain(Key(t)) =>
        /\ todo[t] # <<>> =>
              /\ status[t] /\ Len(todo[t]) = 1
              /\ todo[t][1].checked /\ todo[t][1].elem = <<Key(t), Scalar>>
              /\ todo[t][1].item = Item(call[t])
              /\ \/ todo[t][1].kind = "insert" /\ <<Key(t), Scalar>> \notin DOMAIN shm
                 \/ todo[t][1].kind = "update"
        /\ todo[t] = <<>> /\ status[t] => Shows(Key(t), call[t])

\* What was last answered true is shown, but for a call that is about to return true.
Answered(k) ==
    Plain(k) /\ acked[k].no # 0 =>
        \/ Shows(k, acked[k])
        \/ \E t \in Threads : Key(t) = k /\ Operating(t) /\ todo[t] = <<>> /\ status[t]

\* A nan on its way will update a plain value that is not there, and fail,
Hopeless(t) ==
    /\ todo[t] # <<>> /\ todo[t][1].kind = "update" /\ todo[t][1].checked
    /\ todo[t][1].elem \notin DOMAIN shm

\* or else every value that is seen is a nan of the call, or will be one or erased,
AllNan(t)  == \A i \in Visible(Key(t)) : shm[<<Key(t), i>>] = [call |-> call[t].no, item |-> Nan]
Covered(t) ==
    \A i \in Visible(Key(t)) :
        \/ shm[<<Key(t), i>>] = [call |-> call[t].no, item |-> Nan]
        \/ \E j \in DOMAIN todo[t] : todo[t][j].elem = <<Key(t), i>>

\* and the last operation leaves one.
NanPlan(t) ==
    Operating(t) /\ call[t].rc /\ status[t] =>
        /\ \A j \in DOMAIN todo[t] :
              /\ todo[t][j].checked /\ todo[t][j].kind \in {"update", "erase"}
              /\ todo[t][j].kind = "update" => todo[t][j].item = Nan
        /\ \/ Hopeless(t)
           \/ /\ Covered(t)
              /\ todo[t] = <<>> => Visible(Key(t)) # {}
              /\ todo[t] # <<>> => todo[t][Len(todo[t])].kind = "update"

NanDone(t) ==
    ~Busy(t) /\ call[t].no # 0 /\ call[t].rc /\ acked[Key(t)] = call[t] =>
        Visible(Key(t)) # {} /\ AllNan(t)

CallAnswer(t) == Unanswered(t) /\ PlainPlan(t) /\ NanPlan(t) /\ NanDone(t)
KeyAnswer(k)  == PlainSize(k) /\ Answered(k)

AnswerInv ==
    /\ IInv /\ Counted
    /\ \A t \in Threads : Owned(Key(t)) => CallAnswer(t)
    /\ \A k \in Keys : Owned(k) => KeyAnswer(k)

\* The numbers go up.
LEMMA NextCounted ==
    ASSUME TypeOK, Counted, [Next]_vars
    PROVE  Counted'
<1>1. /\ ncalls \in Nat
      /\ \A t \in Threads : call[t].no \in Nat
      /\ \A k \in Keys : acked[k].no \in Nat
    <2>1. /\ ncalls \in Nat /\ call \in [Threads -> Calls] /\ acked \in [Keys -> Calls]
        BY SensorAggregatorAssumption DEF TypeOK
    <2>2. \A c \in Calls : c.no \in Nat
        BY SensorAggregatorAssumption DEF Calls
    <2> QED BY <2>1, <2>2
<1>2. ASSUME NEW t \in Threads, UpdateTelemetry(t) PROVE Counted'
    <2>1. ncalls' = ncalls + 1 /\ acked' = acked
        BY <1>2 DEF UpdateTelemetry
    <2>2. \A u \in Threads : call'[u].no = ncalls + 1 \/ call'[u].no = call[u].no
        BY <1>2 DEF UpdateTelemetry, TypeOK
    <2> QED BY <1>1, <2>1, <2>2 DEF Counted
<1>3. ASSUME NEW t \in Threads, Return(t) PROVE Counted'
    <2>1. /\ UNCHANGED <<ncalls, call>>
          /\ acked' = acked \/ acked' = [acked EXCEPT ![Key(t)] = call[t]]
        BY <1>3 DEF Return
    <2>2. \A k \in Keys : acked'[k] = acked[k] \/ acked'[k] = call[t]
        BY <2>1 DEF TypeOK
    <2> QED BY <2>1, <2>2 DEF Counted
<1>4. ASSUME NEW t \in Threads, ThreadStep(t), ~UpdateTelemetry(t), ~Return(t) PROVE Counted'
    <2>1. UNCHANGED <<ncalls, call, acked>>
        BY <1>4 DEF ThreadStep, Lookup, CheckApplicable, HandleObjectInsertion, Emplace, Resize,
                    NanApplicable, NanLookup, MapOp
    <2> QED BY <2>1 DEF Counted
<1>5. CASE UNCHANGED vars
    BY <1>5 DEF vars, Counted
<1> QED BY <1>2, <1>3, <1>4, <1>5 DEF Next

\* A step to another place in the call, or to an answer without an operation.
LEMMA AnswerElsewhere ==
    ASSUME AnswerInv, NEW t \in Threads, Owned(Key(t)), Busy(t), ~Operating(t), call' = call,
           acked' = acked, pc'[t] # "mapOps"
    PROVE  CallAnswer(t)'
<1>1. acked[Key(t)].no # call[t].no
    BY DEF AnswerInv, CallAnswer, Unanswered
<1> QED BY <1>1 DEF CallAnswer, Unanswered, PlainPlan, NanPlan, NanDone, Busy, Operating, Key

\* A new call.
LEMMA AnswerUpdateTelemetry ==
    ASSUME AnswerInv, NEW t \in Threads, UpdateTelemetry(t)
    PROVE  CallAnswer(t)'
<1>1. TypeOK /\ \A k \in Keys : acked[k].no <= ncalls /\ acked[k].no \in Nat
    <2>1. TypeOK /\ \A k \in Keys : acked[k].no <= ncalls
        BY DEF AnswerInv, IInv, Counted
    <2>2. \A k \in Keys : acked[k] \in Calls
        BY <2>1 DEF TypeOK
    <2>3. \A c \in Calls : c.no \in Nat
        BY SensorAggregatorAssumption DEF Calls
    <2> QED BY <2>1, <2>2, <2>3
<1>2. PICK k \in Keys : call'[t].key = k /\ call'[t].no = ncalls + 1
    BY <1>1 DEF UpdateTelemetry, TypeOK
<1>3. pc'[t] \in {"nan", "lookup"} /\ ncalls' = ncalls + 1 /\ acked' = acked /\ ncalls \in Nat
    <2>1. PICK rc \in BOOLEAN : pc'[t] = IF rc THEN "nan" ELSE "lookup"
        BY <1>1 DEF UpdateTelemetry, TypeOK, Goto
    <2> QED BY <1>1, <2>1, SensorAggregatorAssumption DEF UpdateTelemetry, TypeOK
<1>4. Unanswered(t)'
    <2>1. acked[k].no # ncalls + 1
        BY <1>1, <1>3
    <2> QED BY <1>2, <1>3, <2>1 DEF Unanswered, Key
<1>5. PlainPlan(t)' /\ NanPlan(t)' /\ NanDone(t)'
    BY <1>3 DEF PlainPlan, NanPlan, NanDone, Busy, Operating
<1> QED BY <1>4, <1>5 DEF CallAnswer

\* A plain value that is registered is updated.
LEMMA AnswerLookup ==
    ASSUME AnswerInv, NEW t \in Threads, Owned(Key(t)), Lookup(t)
    PROVE  CallAnswer(t)'
<1> DEFINE k == Key(t)
<1>1. /\ TypeOK /\ Caller(t) /\ PlainSize(k) /\ Unanswered(t) /\ k \in Keys
      /\ pc[t] = "lookup" /\ call[t].no # 0 /\ ~call[t].rc /\ status[t]
    BY DEF AnswerInv, IInv, CallAnswer, KeyAnswer, Lookup, TypeOK, Key, Calls, Caller, Known,
           Numbered, Busy, Operating
<1>2. UNCHANGED <<call, acked, ncalls, status>>
    BY DEF Lookup
<1>3. CASE pc'[t] # "mapOps"
    BY <1>1, <1>2, <1>3, AnswerElsewhere DEF Busy, Operating
<1>4. CASE pc'[t] = "mapOps"
    <2>1. k \in DOMAIN nameSpaceMap
        BY <1>1, <1>4 DEF Lookup, Goto, TypeOK
    <2>2. Unanswered(t)' /\ NanPlan(t)' /\ NanDone(t)'
        BY <1>1, <1>2, <1>4 DEF Unanswered, NanPlan, NanDone, Busy, Key
    <2>3. PlainPlan(t)'
        <3> SUFFICES ASSUME Plain(k) PROVE PlainPlan(t)'
            BY <1>2 DEF PlainPlan, Key
        <3>1. call[t].shape = Scalar /\ nameSpaceMap[k].arraySize = 0
            BY <1>1, <2>1 DEF Caller, Plain, PlainSize
        <3>2. todo'[t] = <<Update(k, Scalar, Scalar, TRUE)>>
            <4>1. \E x : /\ call[t].shape = Scalar => x = Scalar
                         /\ todo'[t] = <<Update(k, Scalar, x, TRUE)>>
                <5>1. ~(nameSpaceMap[k].arraySize > 0)
                    BY <3>1
                <5> QED BY <1>1, <2>1, <5>1 DEF Lookup, TypeOK
            <4> QED BY <3>1, <4>1
        <3>3. todo'[t] # <<>> /\ Len(todo'[t]) = 1 /\ todo'[t][1] = Update(k, Scalar, Scalar, TRUE)
            BY <3>2
        <3>4. todo'[t][1].checked /\ todo'[t][1].elem = <<k, Scalar>>
              /\ todo'[t][1].item = Item(call[t]) /\ todo'[t][1].kind = "update"
            BY <1>1, <3>3 DEF Update, Item
        <3> QED BY <1>1, <1>2, <3>3, <3>4 DEF PlainPlan, Key
    <2> QED BY <2>2, <2>3 DEF CallAnswer
<1> QED BY <1>3, <1>4

\* A plain value that is new is inserted, and is not there before.
LEMMA AnswerResize ==
    ASSUME AnswerInv, NEW t \in Threads, Owned(Key(t)), Resize(t)
    PROVE  CallAnswer(t)'
<1> DEFINE k == Key(t)
<1>1. /\ TypeOK /\ Caller(t) /\ Unanswered(t) /\ k \in Keys
      /\ pc[t] = "resize" /\ call[t].no # 0 /\ ~call[t].rc /\ <<k, Scalar>> \notin DOMAIN shm
      /\ status[t]
    BY DEF AnswerInv, IInv, CallAnswer, Resize, TypeOK, Key, Calls, Caller, Known, Numbered, Busy, Operating
<1>2. UNCHANGED <<call, acked, ncalls, shm>>
    BY DEF Resize
<1>3. CASE pc'[t] # "mapOps"
    BY <1>1, <1>2, <1>3, AnswerElsewhere DEF Busy, Operating
<1>4. CASE pc'[t] = "mapOps"
    <2>2. Unanswered(t)' /\ NanPlan(t)' /\ NanDone(t)'
        BY <1>1, <1>2, <1>4 DEF Unanswered, NanPlan, NanDone, Busy, Key
    <2>3. PlainPlan(t)'
        <3> SUFFICES ASSUME Plain(k) PROVE PlainPlan(t)'
            BY <1>2 DEF PlainPlan, Key
        <3>1. call[t].shape = Scalar
            BY <1>1 DEF Caller, Plain
        <3>a. ~(call[t].shape = 0 \/ (call[t].shape = Scalar /\ k \in NoURI))
            BY <1>1, <1>4 DEF Resize, Goto, Answer, TypeOK
        <3>2. todo'[t] = <<Insert(k, Scalar)>>
            BY <1>1, <3>a, <3>1 DEF Resize, TypeOK
        <3>3. todo'[t] # <<>> /\ Len(todo'[t]) = 1 /\ todo'[t][1] = Insert(k, Scalar)
            BY <3>2
        <3>4. todo'[t][1].checked /\ todo'[t][1].elem = <<k, Scalar>>
              /\ todo'[t][1].item = Item(call[t]) /\ todo'[t][1].kind = "insert"
            BY <1>1, <3>3 DEF Insert, Item
        <3>5. status' = status
            BY <1>1, <1>4 DEF Resize, Goto, Answer, TypeOK
        <3> QED BY <1>1, <1>2, <3>3, <3>4, <3>5 DEF PlainPlan, Key
    <2> QED BY <2>2, <2>3 DEF CallAnswer
<1> QED BY <1>3, <1>4

\* A nan meets all that is seen of its key, or updates a plain value where a list of
\* one element is.
LEMMA AnswerNanLookup ==
    ASSUME AnswerInv, NEW t \in Threads, Owned(Key(t)), NanLookup(t)
    PROVE  CallAnswer(t)'
<1> USE SensorAggregatorAssumption
<1> DEFINE k == Key(t)
           f == IF k \in DOMAIN nameSpaceMap THEN nameSpaceMap[k] ELSE NoFields
           a == f.arraySize
           s == todo'[t]
<1>1. /\ TypeOK /\ Caller(t) /\ Unanswered(t) /\ k \in Keys /\ PlainSize(k) /\ Seen(k)
      /\ pc[t] \in {"nanLookup", "nanKnown"} /\ call[t].rc /\ status[t]
    BY DEF AnswerInv, IInv, CallAnswer, KeyAnswer, NanLookup, TypeOK, Key, Calls, Caller, Known,
           Busy, Operating
<1>2. UNCHANGED <<call, acked, ncalls, shm>>
    BY DEF NanLookup
<1>3. CASE pc'[t] # "mapOps"
    BY <1>1, <1>2, <1>3, AnswerElsewhere DEF Busy, Operating
<1>4. CASE pc'[t] = "mapOps"
    <2>2. todo'[t] = s /\ status' = status
        BY <1>1, <1>4, NanLookupOps
    <2>3. a \in 0 .. MaxLen
        BY <1>1 DEF TypeOK, Fields, NoFields
    <2>4. NanList(s, k, a)
        BY <1>1, <1>4, NanLookupOps
    <2>5. \A i \in Visible(k) : i \in Items /\ Fits(i, a)
        BY <1>1 DEF Seen, Visible
    <2>6. Unanswered(t)' /\ NanDone(t)'
        BY <1>1, <1>2, <1>4 DEF Unanswered, NanDone, Busy, Key
    <2> DEFINE u == Update(k, Scalar, Nan, TRUE)
    <2>7. a <= 1 => /\ s # <<>> /\ Len(s) = 1 /\ DOMAIN s = {1}
                    /\ s[1].checked /\ s[1].elem = <<k, Scalar>> /\ s[1].item = Nan /\ s[1].kind = "update"
        <3>1. u.checked /\ u.elem = <<k, Scalar>> /\ u.item = Nan /\ u.kind = "update"
            BY DEF Update
        <3>2. a <= 1 => s = <<u>>
            <4> HIDE DEF k, a, s
            <4> QED BY <2>4 DEF NanList
        <3> HIDE DEF u, s
        <3> QED BY <3>1, <3>2
    <2> HIDE DEF s
    <2>8. PlainPlan(t)'
        <3>1. Plain(k) => a = 0
            BY <1>1 DEF PlainSize, NoFields
        <3> QED BY <1>1, <1>2, <2>2, <2>7, <3>1 DEF PlainPlan, Key, Item
    <2>9. /\ \A j \in DOMAIN s :
                /\ s[j].checked /\ s[j].kind \in {"update", "erase"}
                /\ s[j].kind = "update" => s[j].item = Nan
          /\ s # <<>> /\ s[Len(s)].kind = "update"
        <3> HIDE DEF k, a
        <3> QED BY <2>4 DEF NanList
    <2>10. \/ <<k, Scalar>> \notin DOMAIN shm /\ a <= 1
           \/ \A i \in Visible(k) : \E j \in DOMAIN s : s[j].elem = <<k, i>>
        <3>1. CASE a = 0
            <4>1. \A i \in Visible(k) : i = Scalar
                BY <2>5, <3>1 DEF Fits, Items
            <4> QED BY <2>7, <3>1, <4>1
        <3>2. CASE a = 1
            <4>1. Scalar \notin Visible(k)
                BY <2>5, <3>2 DEF Fits
            <4> QED BY <3>2, <4>1 DEF Visible, Items
        <3>3. CASE a > 1
            <4>1. \A i \in Visible(k) : i \in 0 .. a - 1
                BY <2>3, <2>5, <3>3 DEF Fits, Items
            <4>2. \A i \in 0 .. a - 1 : \E j \in DOMAIN s : s[j].elem = <<k, i>>
                <5> HIDE DEF k, a
                <5> QED BY <2>4, <3>3 DEF NanList
            <4> HIDE DEF k, a
            <4> QED BY <4>1, <4>2
        <3>4. a = 0 \/ a = 1 \/ a > 1
            BY <2>3
        <3> HIDE DEF k, a
        <3> QED BY <3>1, <3>2, <3>3, <3>4
    <2>11. NanPlan(t)'
        <3>1. Visible(k)' = Visible(k) /\ Key(t)' = k
            BY <1>2 DEF Visible, Key
        <3>2. CASE <<k, Scalar>> \notin DOMAIN shm /\ a <= 1
            <4>1. Hopeless(t)'
                BY <1>2, <2>2, <2>7, <3>2 DEF Hopeless
            <4> QED BY <2>2, <2>9, <4>1 DEF NanPlan
        <3>3. CASE \A i \in Visible(k) : \E j \in DOMAIN s : s[j].elem = <<k, i>>
            <4>1. Covered(t)'
                BY <2>2, <3>1, <3>3 DEF Covered, Visible
            <4> QED BY <2>2, <2>9, <4>1 DEF NanPlan
        <3> QED BY <2>10, <3>2, <3>3
    <2> QED BY <2>6, <2>8, <2>11 DEF CallAnswer
<1> QED BY <1>3, <1>4

\* How an operation on the map ends: it fails, finds its element, adds it, writes it
\* or erases it.
LEMMA MapOpResult ==
    ASSUME TypeOK, NEW t \in Threads, MapOp(t),
           NEW o, o = todo[t][1], NEW new, new = [call |-> call[t].no, item |-> o.item]
    PROVE  \/ shm' = shm /\ (o.checked => ~status'[t])
           \/ o.kind = "insert" /\ o.elem \in DOMAIN shm /\ shm' = shm
           \/ o.kind = "insert" /\ o.elem \notin DOMAIN shm
              /\ o.elem \in DOMAIN shm' /\ shm'[o.elem] = new
           \/ o.kind = "update" /\ o.elem \in DOMAIN shm
              /\ o.elem \in DOMAIN shm' /\ shm'[o.elem] = new
           \/ o.kind = "erase" /\ o.elem \notin DOMAIN shm'
<1>1. todo[t] \in Seq(MapOps) /\ todo[t] # <<>>
    BY DEF MapOp, TypeOK
<1>2. Head(todo[t]) = o
    BY <1>1, TailFacts
<1>3. \/ shm' = shm /\ status' = [status EXCEPT ![t] = @ /\ ~o.checked]
      \/ o.kind = "insert" /\ o.elem \in DOMAIN shm /\ shm' = shm
      \/ o.kind = "insert" /\ o.elem \notin DOMAIN shm /\ shm' = Put(shm, o.elem, new)
      \/ o.kind = "update" /\ o.elem \in DOMAIN shm /\ shm' = [shm EXCEPT ![o.elem] = new]
      \/ o.kind = "erase" /\ shm' = [e \in DOMAIN shm \ {o.elem} |-> shm[e]]
    BY <1>2 DEF MapOp
<1>4. CASE shm' = shm /\ status' = [status EXCEPT ![t] = @ /\ ~o.checked]
    BY <1>4 DEF TypeOK
<1>5. CASE o.kind = "insert" /\ o.elem \notin DOMAIN shm /\ shm' = Put(shm, o.elem, new)
    BY <1>5 DEF Put
<1>6. CASE o.kind = "update" /\ o.elem \in DOMAIN shm /\ shm' = [shm EXCEPT ![o.elem] = new]
    BY <1>6 DEF TypeOK
<1>7. CASE o.kind = "erase" /\ shm' = [e \in DOMAIN shm \ {o.elem} |-> shm[e]]
    BY <1>7
<1> QED BY <1>3, <1>4, <1>5, <1>6, <1>7

\* A status that is true after an operation was so before.
LEMMA StatusFalls ==
    ASSUME TypeOK, NEW t \in Threads, MapOp(t), status'[t]
    PROVE  status[t]
BY DEF MapOp, TypeOK

\* The one operation on a plain value makes the reading of the call seen; those of a
\* nan cover what is seen up to the last.
LEMMA AnswerMapOp ==
    ASSUME AnswerInv, NEW t \in Threads, Owned(Key(t)), MapOp(t)
    PROVE  CallAnswer(t)'
<1> DEFINE k   == Key(t)
           s   == todo[t]
           o   == todo[t][1]
           new == [call |-> call[t].no, item |-> o.item]
<1>1. TypeOK /\ Unanswered(t) /\ PlainPlan(t) /\ NanPlan(t) /\ Caller(t)
    BY DEF AnswerInv, IInv, CallAnswer
<1>2. /\ pc[t] = "mapOps" /\ s # <<>> /\ s \in Seq(MapOps)
      /\ UNCHANGED <<pc, call, acked, ncalls>> /\ todo'[t] = Tail(s)
      /\ \A e : e # o.elem => /\ e \in DOMAIN shm' <=> e \in DOMAIN shm
                              /\ e \in DOMAIN shm => shm'[e] = shm[e]
    BY <1>1, MapOpFacts
<1>3. /\ 1 \in DOMAIN s /\ Len(s) \in Nat /\ Len(s) >= 1 /\ DOMAIN s = 1 .. Len(s)
      /\ Tail(s) = <<>> <=> Len(s) = 1
      /\ Len(Tail(s)) = Len(s) - 1 /\ DOMAIN Tail(s) = 1 .. Len(s) - 1
      /\ \A j \in DOMAIN Tail(s) : j + 1 \in DOMAIN s /\ Tail(s)[j] = s[j + 1]
    BY <1>2, TailFacts
<1>4. \/ shm' = shm /\ (o.checked => ~status'[t])
      \/ o.kind = "insert" /\ o.elem \in DOMAIN shm /\ shm' = shm
      \/ o.kind = "insert" /\ o.elem \notin DOMAIN shm
         /\ o.elem \in DOMAIN shm' /\ shm'[o.elem] = new
      \/ o.kind = "update" /\ o.elem \in DOMAIN shm
         /\ o.elem \in DOMAIN shm' /\ shm'[o.elem] = new
      \/ o.kind = "erase" /\ o.elem \notin DOMAIN shm'
    BY <1>1, MapOpResult
<1>5. Unanswered(t)' /\ NanDone(t)'
    BY <1>1, <1>2 DEF Unanswered, NanDone, Busy, Key
<1>6. PlainPlan(t)'
    <2> SUFFICES ASSUME Plain(k) PROVE PlainPlan(t)'
        BY <1>2 DEF PlainPlan, Key
    <2>1. /\ Len(s) = 1 /\ o.checked /\ o.elem = <<k, Scalar>> /\ o.item = Item(call[t])
          /\ \/ o.kind = "insert" /\ <<k, Scalar>> \notin DOMAIN shm
             \/ o.kind = "update"
        BY <1>1, <1>2 DEF PlainPlan, Operating
    <2>2. Tail(s) = <<>>
        BY <1>3, <2>1
    <2>3. status'[t] => /\ <<k, Scalar>> \in DOMAIN shm'
                        /\ shm'[<<k, Scalar>>] = [call |-> call[t].no, item |-> Item(call[t])]
        <3> HIDE DEF o, k
        <3> QED BY <1>4, <2>1
    <2>4. status'[t] => Shows(k, call[t])'
        BY <1>2, <2>3 DEF Shows, Item, Key
    <2> QED BY <1>2, <2>2, <2>4 DEF PlainPlan, Key, Shows
<1>7. NanPlan(t)'
    <2> SUFFICES ASSUME call[t].rc, status'[t] PROVE NanPlan(t)'
        BY <1>2 DEF NanPlan
    <2>1. Operating(t) /\ status[t] /\ Key(t)' = k
        BY <1>1, <1>2, StatusFalls DEF Operating, Key
    <2>2. \A j \in DOMAIN s :
              /\ s[j].checked /\ s[j].kind \in {"update", "erase"}
              /\ s[j].kind = "update" => s[j].item = Nan
        BY <1>1, <2>1 DEF NanPlan
    <2>3. /\ o.checked /\ o.kind \in {"update", "erase"}
          /\ o.kind = "update" => o.item = Nan
        BY <1>3, <2>2
    <2>4. \/ /\ o.kind = "update" /\ o.elem \in DOMAIN shm /\ o.elem \in DOMAIN shm'
             /\ shm'[o.elem] = [call |-> call[t].no, item |-> Nan]
          \/ o.kind = "erase" /\ o.elem \notin DOMAIN shm'
        BY <1>4, <2>3
    <2>5. ~Hopeless(t)
        BY <2>4 DEF Hopeless
    <2>6. Covered(t) /\ s[Len(s)].kind = "update"
        BY <1>1, <1>2, <2>1, <2>5 DEF NanPlan
    <2>7. Covered(t)'
        <3> SUFFICES ASSUME NEW i \in Items, <<k, i>> \in DOMAIN shm'
                     PROVE  \/ shm'[<<k, i>>] = [call |-> call[t].no, item |-> Nan]
                            \/ \E j \in DOMAIN Tail(s) : Tail(s)[j].elem = <<k, i>>
            BY <1>2, <2>1 DEF Covered, Visible
        <3>1. CASE <<k, i>> = o.elem
            BY <2>4, <3>1
        <3>2. CASE <<k, i>> # o.elem
            <4>1. <<k, i>> \in DOMAIN shm /\ shm'[<<k, i>>] = shm[<<k, i>>]
                BY <1>2, <3>2
            <4>2. \/ shm[<<k, i>>] = [call |-> call[t].no, item |-> Nan]
                  \/ \E j \in DOMAIN s : s[j].elem = <<k, i>>
                BY <2>6, <4>1 DEF Covered, Visible
            <4>3. ASSUME NEW j \in DOMAIN s, s[j].elem = <<k, i>>
                  PROVE  \E l \in DOMAIN Tail(s) : Tail(s)[l].elem = <<k, i>>
                <5>1. j # 1
                    BY <3>2, <4>3
                <5>2. j - 1 \in DOMAIN Tail(s) /\ Tail(s)[j - 1] = s[j]
                    BY <1>3, <5>1
                <5> QED BY <4>3, <5>2
            <4> QED BY <4>1, <4>2, <4>3
        <3> QED BY <3>1, <3>2
    <2>8. Tail(s) = <<>> => Visible(k)' # {}
        <3> SUFFICES ASSUME Len(s) = 1 PROVE \E i \in Items : <<k, i>> \in DOMAIN shm'
            BY <1>2, <1>3, <2>1 DEF Visible
        <3>1. o.elem[1] = k /\ o.elem \in Elements
            <4>1. o \in MapOps
                BY <1>2, TailFacts
            <4> QED BY <1>1, <1>3, <2>1, <4>1 DEF Caller, MapOps
        <3>2. o.elem = <<k, o.elem[2]>> /\ o.elem[2] \in Items
            BY <3>1 DEF Elements
        <3>3. o.elem \in DOMAIN shm'
            BY <2>4, <2>6
        <3> QED BY <3>2, <3>3
    <2>9. Tail(s) # <<>> => Tail(s)[Len(Tail(s))].kind = "update"
        BY <1>3, <2>6
    <2>10. \A j \in DOMAIN Tail(s) :
              /\ Tail(s)[j].checked /\ Tail(s)[j].kind \in {"update", "erase"}
              /\ Tail(s)[j].kind = "update" => Tail(s)[j].item = Nan
        BY <1>3, <2>2
    <2> QED BY <1>2, <2>1, <2>7, <2>8, <2>9, <2>10 DEF NanPlan, Visible
<1> QED BY <1>5, <1>6, <1>7 DEF CallAnswer

\* The call returns: a nan that is answered true has replaced all that was seen.
LEMMA AnswerReturn ==
    ASSUME AnswerInv, NEW t \in Threads, Owned(Key(t)), Return(t)
    PROVE  CallAnswer(t)'
<1> DEFINE k == Key(t)
<1>1. /\ TypeOK /\ Unanswered(t) /\ NanPlan(t) /\ pc[t] = "mapOps" /\ todo[t] = <<>> /\ k \in Keys
      /\ acked[k].no # call[t].no
    BY DEF AnswerInv, IInv, CallAnswer, Return, TypeOK, Key, Calls, Unanswered, Busy
<1>2. /\ pc'[t] = "idle" /\ UNCHANGED <<shm, call, ncalls>>
      /\ acked' = IF status[t] /\ fields[t].mapped THEN [acked EXCEPT ![k] = call[t]] ELSE acked
    BY <1>1 DEF Return, Goto, TypeOK
<1>3. Unanswered(t)' /\ PlainPlan(t)' /\ NanPlan(t)'
    BY <1>1, <1>2 DEF Unanswered, PlainPlan, NanPlan, Busy, Operating
<1>4. NanDone(t)'
    <2> SUFFICES ASSUME call[t].rc, acked'[k] = call[t]
                 PROVE  Visible(k) # {} /\ AllNan(t)
        BY <1>2 DEF NanDone, Visible, AllNan, Key
    <2>1. status[t]
        BY <1>1, <1>2
    <2>2. ~Hopeless(t)
        BY <1>1 DEF Hopeless
    <2>3. Covered(t) /\ Visible(k) # {}
        BY <1>1, <2>1, <2>2 DEF NanPlan, Operating
    <2> QED BY <1>1, <2>3 DEF Covered, AllNan
<1> QED BY <1>3, <1>4 DEF CallAnswer

\* A step outside a thread's own key leaves what holds of the thread's key.
LEMMA AnswerOthers ==
    ASSUME AnswerInv, NEW t \in Threads, ThreadStep(t),
           NEW u \in Threads, u # t, Owned(Key(u))
    PROVE  CallAnswer(u)'
<1>1. IInv /\ TypeOK /\ CallAnswer(u) /\ Known(u) /\ (Busy(u) => call[u].no # 0)
    BY DEF AnswerInv, IInv, Numbered
<1>2. SameThread(u) /\ (call[u].no # 0 => SameKey(Key(u)))
    BY <1>1, Others
<1>3. Key(u)' = Key(u) /\ (Busy(u)' <=> Busy(u)) /\ (Operating(u)' <=> Operating(u))
    BY <1>2 DEF SameThread, Key, Busy, Operating
<1>4. Unanswered(u)'
    BY <1>1, <1>2, <1>3 DEF CallAnswer, Unanswered, SameThread, SameKey
<1>5. call[u].no # 0 =>
          /\ Visible(Key(u))' = Visible(Key(u))
          /\ \A i \in Visible(Key(u)) : shm'[<<Key(u), i>>] = shm[<<Key(u), i>>]
    BY <1>2, <1>3 DEF SameKey, Visible
<1>6. PlainPlan(u)'
    BY <1>1, <1>2, <1>3 DEF CallAnswer, PlainPlan, Shows, Operating, Busy, SameThread, SameKey
<1>7. NanDone(u)'
    BY <1>1, <1>2, <1>3, <1>5 DEF CallAnswer, NanDone, AllNan, SameThread, SameKey
<1>8. NanPlan(u)'
    <2> SUFFICES ASSUME Operating(u), call[u].rc, status[u] PROVE NanPlan(u)'
        BY <1>2, <1>3 DEF NanPlan, SameThread
    <2>1. call[u].no # 0 /\ todo'[u] = todo[u] /\ call'[u] = call[u]
        BY <1>1, <1>2 DEF Operating, Busy, SameThread
    <2>2. Covered(u) => Covered(u)'
        BY <1>3, <1>5, <2>1 DEF Covered
    <2>3. Hopeless(u) /\ todo[u][1].elem[1] = Key(u) => Hopeless(u)'
        <3> SUFFICES ASSUME Hopeless(u), todo[u][1].elem[1] = Key(u) PROVE Hopeless(u)'
            OBVIOUS
        <3>1. todo[u] \in Seq(MapOps) /\ todo[u] # <<>>
            BY <1>1 DEF TypeOK, Hopeless
        <3>2. todo[u][1] \in MapOps
            BY <3>1, TailFacts
        <3>3. todo[u][1].elem = <<Key(u), todo[u][1].elem[2]>>
            BY <3>2 DEF MapOps, Elements
        <3> QED BY <1>2, <2>1, <3>3 DEF Hopeless, SameKey
    <2>4. todo[u] # <<>> => todo[u][1].elem[1] = Key(u)
        <3> SUFFICES ASSUME todo[u] # <<>> PROVE todo[u][1].elem[1] = Key(u)
            OBVIOUS
        <3>1. todo[u] \in Seq(MapOps)
            BY <1>1 DEF TypeOK
        <3>2. 1 \in DOMAIN todo[u]
            BY <3>1, TailFacts
        <3> QED BY <2>1, <3>2 DEF AnswerInv, IInv, Caller, Operating
    <2> QED BY <1>1, <1>3, <1>5, <2>1, <2>2, <2>3, <2>4 DEF CallAnswer, NanPlan, Hopeless
<1> QED BY <1>4, <1>6, <1>7, <1>8 DEF CallAnswer

\* Nobody else operates on the owned key of a call under way.
LEMMA Alone ==
    ASSUME IInv, NEW t \in Threads, NEW u \in Threads, Owned(Key(t)), Busy(t), Busy(u),
           Key(t) = Key(u)
    PROVE  t = u
<1>1. call[t].no # 0 /\ call[u].no # 0 /\ Key(t) \in Keys
    BY DEF IInv, Numbered, TypeOK, Key, Calls
<1> QED BY <1>1 DEF IInv, Caller, Owned

\* The size of an owned key of plain values stays 0.
LEMMA PlainStays ==
    ASSUME AnswerInv, NEW t \in Threads, Owned(Key(t)), ThreadStep(t), Busy(t)
    PROVE  LET k == Key(t) IN
           Plain(k) /\ k \in DOMAIN nameSpaceMap' => nameSpaceMap'[k].arraySize = 0
<1> DEFINE k == Key(t)
<1> SUFFICES ASSUME Plain(k), k \in DOMAIN nameSpaceMap' PROVE nameSpaceMap'[k].arraySize = 0
    OBVIOUS
<1>1. /\ TypeOK /\ Caller(t) /\ Known(t) /\ Planned(t) /\ PlainSize(k) /\ k \in Keys
      /\ call[t].no # 0
    BY DEF AnswerInv, IInv, KeyAnswer, Numbered, TypeOK, Key, Calls
<1>2. k \in DOMAIN nameSpaceMap => nameSpaceMap[k].arraySize = 0
    BY <1>1 DEF PlainSize
<1>3. ASSUME nameSpaceMap' = nameSpaceMap PROVE nameSpaceMap'[k].arraySize = 0
    BY <1>2, <1>3
<1>4. CASE Emplace(t)
    BY <1>1, <1>2, <1>4 DEF Emplace, Put, Known
<1>5. CASE Resize(t)
    BY <1>1, <1>3, <1>5 DEF Resize, Caller, Plain
<1>6. CASE NanLookup(t)
    <2> DEFINE f == IF k \in DOMAIN nameSpaceMap THEN nameSpaceMap[k] ELSE NoFields
    <2>1. nameSpaceMap' = nameSpaceMap \/ nameSpaceMap' = Put(nameSpaceMap, k, f)
        <3>1. CASE k \notin DOMAIN nameSpaceMap /\ pc[t] = "nanLookup"
            BY <1>6, <3>1 DEF NanLookup
        <3>2. CASE ~(k \notin DOMAIN nameSpaceMap /\ pc[t] = "nanLookup")
            BY <1>6, <3>2 DEF NanLookup
        <3> QED BY <3>1, <3>2
    <2>2. f.arraySize = 0
        BY <1>2 DEF NoFields
    <2> HIDE DEF f
    <2> QED BY <1>3, <2>1, <2>2 DEF Put
<1>7. CASE Return(t)
    <2>1. pc[t] = "mapOps" /\ k \in DOMAIN nameSpaceMap
        BY <1>1, <1>7 DEF Return, Known
    <2>2. newSize[t] = -1
        BY <1>1, <1>2, <2>1 DEF Planned, Operating
    <2> QED BY <1>3, <1>7, <2>2 DEF Return
<1>8. CASE Lookup(t) \/ CheckApplicable(t) \/ HandleObjectInsertion(t) \/ NanApplicable(t) \/ MapOp(t)
    BY <1>3, <1>8 DEF Lookup, CheckApplicable, HandleObjectInsertion, NanApplicable, MapOp, maps
<1>9. ~UpdateTelemetry(t)
    BY DEF UpdateTelemetry, Busy
<1> QED BY <1>4, <1>5, <1>6, <1>7, <1>8, <1>9 DEF ThreadStep

\* What was answered true stays shown until the next call is about to return true.
LEMMA AnsweredStays ==
    ASSUME AnswerInv, NEW t \in Threads, Owned(Key(t)), ThreadStep(t), Busy(t)
    PROVE  LET k == Key(t) IN
           Plain(k) /\ acked'[k].no # 0 =>
               \/ /\ <<k, Scalar>> \in DOMAIN shm'
                  /\ shm'[<<k, Scalar>>] = [call |-> acked'[k].no, item |-> Item(acked'[k])]
               \/ /\ Key(t)' = k /\ Operating(t)' /\ todo'[t] = <<>> /\ status'[t]
<1> DEFINE k == Key(t)
           Shown == /\ <<k, Scalar>> \in DOMAIN shm'
                    /\ shm'[<<k, Scalar>>] = [call |-> acked'[k].no, item |-> Item(acked'[k])]
<1> SUFFICES ASSUME Plain(k), acked'[k].no # 0
             PROVE  Shown \/ (Key(t)' = k /\ Operating(t)' /\ todo'[t] = <<>> /\ status'[t])
    OBVIOUS
<1>1. /\ IInv /\ TypeOK /\ Known(t) /\ PlainPlan(t) /\ Answered(k) /\ Seen(k) /\ k \in Keys
    BY DEF AnswerInv, IInv, CallAnswer, KeyAnswer, TypeOK, Key, Calls
<1>2. acked[k].no # 0 => Shows(k, acked[k]) \/ (Operating(t) /\ todo[t] = <<>> /\ status[t])
    <2>1. ASSUME NEW u \in Threads, Key(u) = k, Operating(u) PROVE u = t
        BY <1>1, <2>1, Alone DEF Operating, Busy
    <2> QED BY <1>1, <2>1 DEF Answered
<1>3. ASSUME ~Operating(t), shm' = shm, acked' = acked PROVE Shown
    BY <1>2, <1>3 DEF Shows
<1>4. CASE MapOp(t)
    <2> DEFINE s == todo[t]
               o == todo[t][1]
               new == [call |-> call[t].no, item |-> o.item]
    <2>1. /\ pc[t] = "mapOps" /\ s # <<>> /\ s \in Seq(MapOps)
          /\ UNCHANGED <<pc, call, acked>> /\ todo'[t] = Tail(s)
        BY <1>1, <1>4, MapOpFacts
    <2>2. /\ Len(s) = 1 /\ o.checked /\ o.elem = <<k, Scalar>>
          /\ \/ o.kind = "insert" /\ <<k, Scalar>> \notin DOMAIN shm
             \/ o.kind = "update"
          /\ acked[k].no # 0 => Shows(k, acked[k])
        BY <1>1, <1>2, <2>1 DEF PlainPlan, Operating
    <2>3. Tail(s) = <<>>
        BY <2>1, <2>2, TailFacts
    <2>4. CASE status'[t]
        BY <2>1, <2>3, <2>4 DEF Operating, Key
    <2>5. CASE ~status'[t]
        <3>1. shm' = shm
            <4>1. status' # status
                BY <1>1, <2>1, <2>5 DEF PlainPlan, Operating
            <4> QED BY <1>4, <4>1 DEF MapOp
        <3> QED BY <2>1, <2>2, <3>1 DEF Shows
    <2> QED BY <2>4, <2>5
<1>5. CASE Return(t)
    <2>1. /\ pc[t] = "mapOps" /\ todo[t] = <<>> /\ shm' = shm
          /\ acked' = IF status[t] /\ fields[t].mapped THEN [acked EXCEPT ![k] = call[t]] ELSE acked
        BY <1>5 DEF Return
    <2>2. CASE status[t]
        <3>1. Shows(k, call[t])
            BY <1>1, <2>1, <2>2 DEF PlainPlan, Operating
        <3>2. fields[t].mapped
            BY <1>1, <2>1, <3>1 DEF Shows, Seen, Visible, Items, Known
        <3>3. acked'[k] = call[t]
            BY <1>1, <2>1, <2>2, <3>2 DEF TypeOK
        <3> QED BY <2>1, <3>1, <3>3 DEF Shows
    <2>3. CASE ~status[t]
        BY <1>2, <2>1, <2>3 DEF Shows
    <2> QED BY <2>2, <2>3
<1>6. CASE Lookup(t) \/ CheckApplicable(t) \/ HandleObjectInsertion(t) \/ Emplace(t)
           \/ Resize(t) \/ NanApplicable(t) \/ NanLookup(t)
    <2>1. ~Operating(t) /\ shm' = shm /\ acked' = acked
        BY <1>6 DEF Lookup, CheckApplicable, HandleObjectInsertion, Emplace, Resize,
                    NanApplicable, NanLookup, Operating
    <2> QED BY <1>3, <2>1
<1>7. ~UpdateTelemetry(t)
    BY DEF UpdateTelemetry, Busy
<1> QED BY <1>4, <1>5, <1>6, <1>7 DEF ThreadStep

\* Every step keeps the invariant.
LEMMA NextAnswerInv ==
    ASSUME AnswerInv, [Next]_vars
    PROVE  AnswerInv'
<1>1. IInv' /\ Counted'
    BY NextIInv, NextCounted DEF AnswerInv, IInv
<1>2. ASSUME NEW t \in Threads, ThreadStep(t)
      PROVE  AnswerInv'
    <2>t. IInv /\ TypeOK
        BY DEF AnswerInv, IInv
    <2>2. Owned(Key(t))' => CallAnswer(t)'
        <3>1. CASE UpdateTelemetry(t)
            BY <3>1, AnswerUpdateTelemetry
        <3>2. ASSUME CheckApplicable(t) \/ HandleObjectInsertion(t) \/ Emplace(t) \/ NanApplicable(t),
                     Owned(Key(t))
              PROVE  CallAnswer(t)'
            <4>1. Busy(t) /\ ~Operating(t) /\ UNCHANGED <<call, acked>>
                BY <3>2 DEF CheckApplicable, HandleObjectInsertion, Emplace, NanApplicable, Busy, Operating
            <4>2. pc'[t] # "mapOps"
                BY <3>2, <2>t DEF CheckApplicable, HandleObjectInsertion, Emplace, NanApplicable,
                                  Goto, Answer, TypeOK
            <4> QED BY <3>2, <4>1, <4>2, AnswerElsewhere
        <3>3. ASSUME ~UpdateTelemetry(t), Owned(Key(t)) PROVE CallAnswer(t)'
            BY <1>2, <3>2, <3>3, AnswerLookup, AnswerResize, AnswerNanLookup, AnswerMapOp, AnswerReturn
                DEF ThreadStep
        <3>4. ~UpdateTelemetry(t) => Key(t)' = Key(t)
            BY <1>2, KeyStays, StepOfCall
        <3> QED BY <3>1, <3>3, <3>4
    <2>3. ASSUME NEW u \in Threads PROVE Owned(Key(u))' => CallAnswer(u)'
        <3>1. CASE u # t
            <4>1. Key(u)' = Key(u)
                BY <1>2, <2>t, <3>1, OtherThreads DEF SameThread, Key
            <4> QED BY <1>2, <3>1, <4>1, AnswerOthers
        <3> QED BY <2>2, <3>1
    <2>4. ASSUME NEW k \in Keys, Owned(k) PROVE KeyAnswer(k)'
        <3>1. KeyAnswer(k)
            BY <2>4 DEF AnswerInv
        <3>2. CASE k # Key(t) \/ ~Busy(t)
            <4>1. SameKey(k)
                BY <1>2, <2>t, <3>2, OtherKeys
            <4>3. PlainSize(k)'
                BY <3>1, <4>1 DEF KeyAnswer, PlainSize, SameKey
            <4>4. Answered(k)'
                <5> SUFFICES ASSUME Plain(k), acked[k].no # 0 PROVE Answered(k)'
                    BY <4>1 DEF Answered, SameKey
                <5>1. CASE Shows(k, acked[k])
                    <6>1. Shows(k, acked[k])'
                        BY <4>1, <5>1 DEF Shows, SameKey
                    <6> QED BY <6>1 DEF Answered
                <5>2. ASSUME NEW u \in Threads, Key(u) = k, Operating(u), todo[u] = <<>>, status[u]
                      PROVE  Answered(k)'
                    <6>1. u # t
                        BY <3>2, <5>2 DEF Operating, Busy
                    <6>2. SameThread(u)
                        BY <1>2, <2>t, <6>1, OtherThreads
                    <6>3. (Key(u) = k /\ Operating(u) /\ todo[u] = <<>> /\ status[u])'
                        BY <5>2, <6>2 DEF SameThread, Key, Operating
                    <6> QED BY <6>3 DEF Answered
                <5> QED BY <3>1, <5>1, <5>2 DEF KeyAnswer, Answered
            <4> QED BY <4>3, <4>4 DEF KeyAnswer
        <3>3. CASE k = Key(t) /\ Busy(t)
            <4>1. PlainSize(k)'
                BY <1>2, <2>4, <3>3, PlainStays DEF PlainSize
            <4>2. Answered(k)'
                <5> SUFFICES ASSUME Plain(k), acked'[k].no # 0 PROVE Answered(k)'
                    BY DEF Answered
                <5>1. \/ /\ <<k, Scalar>> \in DOMAIN shm'
                         /\ shm'[<<k, Scalar>>] = [call |-> acked'[k].no, item |-> Item(acked'[k])]
                      \/ Key(t)' = k /\ Operating(t)' /\ todo'[t] = <<>> /\ status'[t]
                    BY <1>2, <2>4, <3>3, AnsweredStays
                <5> QED BY <5>1 DEF Answered, Shows, Item, Key, Operating
            <4> QED BY <4>1, <4>2 DEF KeyAnswer
        <3> QED BY <3>2, <3>3
    <2> QED BY <1>1, <2>3, <2>4 DEF AnswerInv
<1>3. CASE UNCHANGED vars
    <2>1. UNCHANGED <<nameSpaceMap, shm, pc, call, todo, status, ncalls, acked>>
        BY <1>3 DEF vars, maps, locals
    <2>2. ASSUME NEW t \in Threads, Owned(Key(t)) PROVE CallAnswer(t)'
        <3>1. CallAnswer(t)
            BY <2>2 DEF AnswerInv
        <3>2. Unanswered(t)' /\ PlainPlan(t)'
            BY <2>1, <3>1 DEF CallAnswer, Unanswered, PlainPlan, Shows, Key, Busy, Operating
        <3>3. NanPlan(t)' /\ NanDone(t)'
            BY <2>1, <3>1 DEF CallAnswer, NanPlan, NanDone, Hopeless, Covered, AllNan, Visible, Key,
                              Busy, Operating
        <3> QED BY <3>2, <3>3 DEF CallAnswer
    <2>3. ASSUME NEW k \in Keys, Owned(k) PROVE KeyAnswer(k)'
        <3>1. KeyAnswer(k)
            BY <2>3 DEF AnswerInv
        <3> QED BY <2>1, <3>1 DEF KeyAnswer, PlainSize, Answered, Shows, Key, Operating
    <2>4. \A t \in Threads : Key(t)' = Key(t)
        BY <2>1 DEF Key
    <2> QED BY <1>1, <2>2, <2>3, <2>4 DEF AnswerInv
<1> QED BY <1>2, <1>3 DEF Next

\* It holds of every behaviour.
LEMMA AnswerInvHolds == Spec => []AnswerInv
<1>1. Init => AnswerInv
    <2> SUFFICES ASSUME Init PROVE AnswerInv
        OBVIOUS
    <2>1. /\ DOMAIN nameSpaceMap = {} /\ ncalls = 0
          /\ \A t \in Threads : pc[t] = "idle" /\ call[t].no = 0
          /\ \A k \in Keys : acked[k].no = 0
        BY DEF Init, NoCall
    <2>2. IInv
        <3>1. TypeOK /\ Numbered
            BY InitTypeOK
        <3>2. DOMAIN shm = {}
            BY DEF Init
        <3> QED BY <2>1, <3>1, <3>2 DEF IInv, Caller, Known, Planned, Seen, Visible, Busy, Operating
    <2>3. Counted /\ (\A t \in Threads : CallAnswer(t)) /\ (\A k \in Keys : KeyAnswer(k))
        BY <2>1 DEF Counted, CallAnswer, KeyAnswer, Unanswered, PlainPlan, NanPlan, NanDone,
               PlainSize, Answered, Busy, Operating
    <2> QED BY <2>2, <2>3 DEF AnswerInv
<1>2. AnswerInv /\ [Next]_vars => AnswerInv'
    BY NextAnswerInv
<1> QED BY <1>1, <1>2, PTL DEF Spec

\* AckedIsVisible: a client that asks after updateTelemetry answered true for a plain
\* value that one thread reports sees that value, or its nan, and no older one.
THEOREM AnsweredIsVisible == Spec => []AckedIsVisible
<1>1. AnswerInv => AckedIsVisible
    BY DEF AnswerInv, KeyAnswer, Answered, Plain, Shows, Item, AckedIsVisible, Quiet, Operating
<1> QED BY <1>1, AnswerInvHolds, PTL

\* NanHidesValues: a failed reading of a key that one thread reports, answered true,
\* leaves its nan, and no value of the key besides, whatever was a list before.
THEOREM NanHides == Spec => []NanHidesValues
<1>1. AnswerInv => NanHidesValues
    BY DEF AnswerInv, CallAnswer, NanDone, AllNan, Busy, NanHidesValues
<1> QED BY <1>1, AnswerInvHolds, PTL

=============================================================================
