----------------------------- MODULE DevicePath -----------------------------
(***************************************************************************)
(* Where a sensor is published: the namespaces whose keywords its object   *)
(* path matches, and the names of the device and of its part.              *)
(*                                                                         *)
(* src/lib/shm_sensor_aggregator.cpp: getMatchCount, parseDevicePath, and  *)
(* the choice among the candidates in handleObjectInsertion.               *)
(*                                                                         *)
(* A name is a sequence of words, cut so that whatever the code looks for  *)
(* in it is a word of its own.  A path is a sequence of names.             *)
(***************************************************************************)
EXTENDS Integers, Sequences, FiniteSets, SequencesExt

CONSTANTS
    NameSpaces,         \* the namespaces of the configuration
    nameSpaceConfig     \* per namespace: its entries, keyword and property list

\* The namespaces are read from a file; what is split has one part at least.
ASSUME ConfigAssumption ==
    /\ IsFiniteSet(NameSpaces)
    /\ \A ns \in NameSpaces :
          nameSpaceConfig[ns] \in Seq([keyword : Seq(STRING) \ {<<>>}, props : SUBSET STRING])

Entries == UNION {{ns} \X DOMAIN nameSpaceConfig[ns] : ns \in NameSpaces}

Has(name, word)   == \E i \in DOMAIN name : name[i] = word
Mentions(p, word) == \E i \in DOMAIN p : Has(p[i], word)

\* devicePath.find(prefix) == 0.
StartsWith(p, prefix) ==
    /\ Len(prefix) <= Len(p)
    /\ \A i \in DOMAIN prefix : p[i] # <<>> /\ p[i][1] = prefix[i]

\* filename() of the path, of its parent and of the parent's parent.
Filename(p)        == IF Len(p) >= 1 THEN p[Len(p)] ELSE <<>>
ParentName(p)      == IF Len(p) >= 2 THEN p[Len(p) - 1] ELSE <<>>
GrandparentName(p) == IF Len(p) >= 3 THEN p[Len(p) - 2] ELSE <<>>

-----------------------------------------------------------------------------
\* Where the word is found from there on, and past the end when it is not.
Look(p, from, word) ==
    LET at == {j \in from .. Len(p) : Has(p[j], word)}
    IN  IF at = {} THEN Len(p) + 1 ELSE CHOOSE j \in at : \A i \in at : j <= i

\* Where each word of the keyword is found: it is looked for from the name where
\* the word before was found, that name included.
Places(keyword, p) ==
    LET at[n \in 0 .. Len(keyword)] ==
            IF n = 0 THEN 1 ELSE Look(p, at[n - 1], keyword[n])
    IN  at

\* All words of the keyword count, or none.
GetMatchCount(keyword, p) ==
    IF Places(keyword, p)[Len(keyword)] <= Len(p) THEN Len(keyword) ELSE 0

\* Paths whose last name is a part of a device that the path does not name.
Partial(p) ==
    \E prefix \in {<<"xyz", "openbmc_project", "sensors">>, <<"health", "chassis">>,
                   <<"health", "system">>, <<"xyz", "openbmc_project", "state">>} :
        StartsWith(p, prefix)

\* Slip: the device name is not cleared.
NamesUncleared(p, count, old) ==
    IF count = 1 /\ ~StartsWith(p, <<"xyz", "openbmc_project", "state">>)
    THEN [old EXCEPT !.device = Filename(p)]
    ELSE IF count = 1 \/ Partial(p) THEN [old EXCEPT !.subDevice = Filename(p)]
    ELSE [device |-> GrandparentName(p), subDevice |-> Filename(p)]

\* The names for a better match; one that is not set stays as it was.
Names(p, count, old) ==
    IF count = 1
    THEN IF StartsWith(p, <<"xyz", "openbmc_project", "state">>)
         THEN [old EXCEPT !.subDevice = Filename(p)]
         ELSE [old EXCEPT !.device = Filename(p)]
    ELSE IF Partial(p) THEN [device |-> <<>>, subDevice |-> Filename(p)]
    ELSE IF Mentions(p, "ResetStatistics") THEN [device |-> ParentName(p), subDevice |-> <<>>]
    ELSE IF StartsWith(p, <<"xyz", "openbmc_project", "metric">>)
         THEN [device |-> <<>>, subDevice |-> Filename(p)]
    ELSE [device |-> GrandparentName(p), subDevice |-> Filename(p)]

NoNames == [device |-> <<>>, subDevice |-> <<>>]

Candidate(ns, i, names) ==
    [ns |-> ns, index |-> i, device |-> names.device, subDevice |-> names.subDevice]

\* Slip: a better match does not clear the candidates that were found before it.
VisitUncleared(p, s, ns, i) ==
    LET count == GetMatchCount(nameSpaceConfig[ns][i].keyword, p)
        names == IF count > s.max THEN Names(p, count, s.names) ELSE s.names
    IN  IF count = 0 \/ count < s.max THEN s
        ELSE [max |-> count, names |-> names, found |-> Append(s.found, Candidate(ns, i, names))]

\* The i-th entry of a namespace, after s: the best count so far, the names for it
\* and the candidates that have it.
Visit(p, s, ns, i) ==
    LET count == GetMatchCount(nameSpaceConfig[ns][i].keyword, p)
        names == Names(p, count, s.names)
    IN  IF count = 0 \/ count < s.max THEN s
        ELSE IF count = s.max
        THEN [s EXCEPT !.found = Append(s.found, Candidate(ns, i, s.names))]
        ELSE [max |-> count, names |-> names, found |-> <<Candidate(ns, i, names)>>]

\* All entries of a namespace.
VisitAll(p, s, ns) ==
    LET after[i \in 0 .. Len(nameSpaceConfig[ns])] ==
            IF i = 0 THEN s ELSE Visit(p, after[i - 1], ns, i)
    IN  after[Len(nameSpaceConfig[ns])]

\* The candidates for a path, when the table of namespaces is walked in the given
\* order: the entries that match in most words, in the order they are met.
ParseDevicePath(p, order) ==
    LET after[k \in 0 .. Len(order)] ==
            IF k = 0 THEN [max |-> 0, names |-> NoNames, found |-> <<>>]
            ELSE VisitAll(p, after[k - 1], order[k])
    IN  after[Len(order)].found

\* The parent's name when the path gives no device; "" when there is no parent.
DeviceOf(c, parent) == IF c.device = <<>> THEN parent ELSE c.device

\* Slip: a sensor is registered without its parent.
FieldsOrphaned(p, prop, parent, order) ==
    LET cs == ParseDevicePath(p, order)
        Listed == {i \in DOMAIN cs : prop \in nameSpaceConfig[cs[i].ns][cs[i].index].props}
    IN  {[ns |-> cs[i].ns, device |-> DeviceOf(cs[i], parent), subDevice |-> cs[i].subDevice] :
            i \in {j \in Listed : \A k \in Listed : j <= k}}

\* handleObjectInsertion: the NameSpaceFields that the key is registered with, as
\* a set with one member or none.  The first candidate that lists the property has
\* it; a candidate before it that needs a parent and has none ends the search.
FieldsOf(p, prop, parent, order) ==
    LET cs == ParseDevicePath(p, order)
        Listed   == {i \in DOMAIN cs : prop \in nameSpaceConfig[cs[i].ns][cs[i].index].props}
        Orphaned == {i \in DOMAIN cs : DeviceOf(cs[i], parent) = <<>>}
    IN  {[ns |-> cs[i].ns, device |-> DeviceOf(cs[i], parent), subDevice |-> cs[i].subDevice] :
            i \in {j \in Listed : \A k \in Listed \cup Orphaned : j <= k /\ j \notin Orphaned}}

-----------------------------------------------------------------------------
(* The same, without an order.                                             *)

\* The words of the keyword occur in the path, in their order.
Matches(keyword, p) ==
    \E at \in [DOMAIN keyword -> DOMAIN p] :
        /\ \A i \in DOMAIN keyword : Has(p[at[i]], keyword[i])
        /\ \A i, j \in DOMAIN keyword : i <= j => at[i] <= at[j]

\* The namespaces with an entry that lists the property and whose keyword matches,
\* while no longer keyword does.
Homes(p, prop) ==
    LET Match == {e \in Entries : Matches(nameSpaceConfig[e[1]][e[2]].keyword, p)}
        Words(e) == Len(nameSpaceConfig[e[1]][e[2]].keyword)
    IN  {e[1] : e \in {f \in Match : /\ \A g \in Match : Words(g) <= Words(f)
                                     /\ prop \in nameSpaceConfig[f[1]][f[2]].props}}

=============================================================================
