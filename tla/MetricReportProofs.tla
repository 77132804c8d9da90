------------------------- MODULE MetricReportProofs -------------------------
(***************************************************************************)
(* Where a sensor is published, whatever the configuration and the order   *)
(* in which its namespaces are walked, that its text does not change its   *)
(* meaning with an update, and that its URI can be read in one way.        *)
(*                                                                         *)
(* The loops of getMatchCount and parseDevicePath are recursive functions  *)
(* on an interval.  Recursion shows that such a function exists and is in  *)
(* a set that each step keeps; the set is an argument, so that it serves   *)
(* for each loop as its invariant: Places for the words of a keyword, Seen *)
(* for the entries of a namespace and for the namespaces of the table.     *)
(*                                                                         *)
(* A URI is read from its ends: the first word that no resource has begins *)
(* the leaf (FirstCut), the last word that no name has begins the last     *)
(* step of the resource (LastCut), and so on to the front (TextTells).     *)
(*                                                                         *)
(* Its mark is counted from the tables: each is made of directories with a *)
(* mark or without (PortTables to MixedTables), each namespace puts one in *)
(* front of the suffixes that have none, and only there (LocatedMarks).    *)
(***************************************************************************)
EXTENDS MetricReport, FiniteSetTheorems, SequenceTheorems, WellFoundedInduction, TLAPS

\* A set with 0 and with the successor of each of its members has the interval.
LEMMA Ascent ==
    ASSUME NEW n \in Nat, NEW P, 0 \in P,
           \A i \in 1 .. n : i - 1 \in P => i \in P
    PROVE  0 .. n \subseteq P
<1> DEFINE T == {i \in 0 .. n : i \notin P}
<1>1. SUFFICES ASSUME T # {} PROVE FALSE
    OBVIOUS
<1>2. T \subseteq Nat
    OBVIOUS
<1>3. PICK i \in T : \A j \in T : ~(<<j, i>> \in OpToRel(<, Nat))
  <2>1. IsWellFoundedOn(OpToRel(<, Nat), Nat)
    BY NatLessThanWellFounded
  <2> HIDE DEF T
  <2> QED BY <1>1, <1>2, <2>1, WFMin, Zenon
<1>4. \A j \in T : ~(j < i)
    BY <1>2, <1>3 DEF OpToRel
<1>5. i # 0 /\ i - 1 \notin T
    BY <1>4
<1> QED BY <1>5

\* The results of a loop from b on, step by step; each step leads from a set to the
\* next; each result is in its set.
Iterates(h, step, b, n) == h = [i \in 0 .. n |-> IF i = 0 THEN b ELSE step[i][h[i - 1]]]
Keeps(step, S, n)       == \A i \in 1 .. n : \A t \in S[i - 1] : step[i][t] \in S[i]
Within(h, S, n)         == \A i \in 0 .. n : h[i] \in S[i]

\* A loop has results, and they keep its invariant S.
LEMMA Recursion ==
    ASSUME NEW n \in Nat, NEW S, NEW b \in S[0], NEW step, Keeps(step, S, n)
    PROVE  \E h : Iterates(h, step, b, n) /\ Within(h, S, n)
<1> DEFINE Good(h, k) == Iterates(h, step, b, k) /\ Within(h, S, k)
           P == {k \in 0 .. n : \E h : Good(h, k)}
<1>1. 0 \in P
  <2>1. Good([i \in 0 .. 0 |-> b], 0)
    BY DEF Iterates, Within
  <2> HIDE DEF Good
  <2> QED BY <2>1
<1>2. ASSUME NEW k \in 1 .. n, k - 1 \in P PROVE k \in P
  <2>1. PICK h : Good(h, k - 1)
    BY <1>2
  <2> DEFINE g == [i \in 0 .. k |-> IF i = k THEN step[k][h[k - 1]] ELSE h[i]]
  <2>2. \A i \in 0 .. k : g[i] \in S[i]
    BY <2>1 DEF Keeps, Within
  <2>3. ASSUME NEW i \in 0 .. k
        PROVE  g[i] = IF i = 0 THEN b ELSE step[i][g[i - 1]]
    <3>1. CASE i = k
      BY <3>1
    <3>2. CASE i # k
      <4>1. h[i] = IF i = 0 THEN b ELSE step[i][h[i - 1]]
        BY <3>2, <2>1 DEF Iterates
      <4> QED BY <4>1, <3>2
    <3> QED BY <3>1, <3>2
  <2>4. Good(g, k)
    BY <2>2, <2>3 DEF Iterates, Within
  <2> HIDE DEF Good
  <2> QED BY <2>4
<1>3. 0 .. n \subseteq P
  <2> HIDE DEF P
  <2> QED BY <1>1, <1>2, Ascent
<1> QED BY <1>3


\* A set of natural numbers has a least one.
LEMMA Least ==
    ASSUME NEW T, T \subseteq Nat, T # {}
    PROVE  \E i \in T : \A j \in T : i <= j
<1>1. PICK i \in T : \A j \in T : ~(<<j, i>> \in OpToRel(<, Nat))
  <2>1. IsWellFoundedOn(OpToRel(<, Nat), Nat)
    BY NatLessThanWellFounded
  <2> QED BY <2>1, WFMin, Zenon
<1>2. \A j \in T : ~(j < i)
    BY <1>1 DEF OpToRel
<1> QED BY <1>2

-----------------------------------------------------------------------------
\* Look finds the first name with the word, from there on.
LEMMA LookFinds ==
    ASSUME NEW p, Len(p) \in Nat, NEW from \in 1 .. Len(p) + 1, NEW word
    PROVE  /\ Look(p, from, word) \in from .. Len(p) + 1
           /\ Look(p, from, word) <= Len(p) => Has(p[Look(p, from, word)], word)
           /\ \A j \in from .. Len(p) : Has(p[j], word) => Look(p, from, word) <= j
<1> DEFINE at == {j \in from .. Len(p) : Has(p[j], word)}
<1>1. CASE at = {}
  <2>1. Look(p, from, word) = Len(p) + 1
    BY <1>1 DEF Look
  <2> HIDE DEF Look
  <2> QED BY <1>1, <2>1
<1>2. CASE at # {}
  <2>1. \E j \in at : \A i \in at : j <= i
    <3>1. at \subseteq Nat
      OBVIOUS
    <3> HIDE DEF at
    <3> QED BY <1>2, <3>1, Least
  <2>2. Look(p, from, word) \in at /\ \A i \in at : Look(p, from, word) <= i
    <3>1. Look(p, from, word) = CHOOSE j \in at : \A i \in at : j <= i
      BY <1>2 DEF Look
    <3> HIDE DEF at
    <3> QED BY <2>1, <3>1
  <2> QED BY <2>2
<1> QED BY <1>1, <1>2

\* As much of the type of a keyword as its words matter.
Keyword(k) == Len(k) \in Nat /\ DOMAIN k = 1 .. Len(k)

\* The place of a word is looked for from the place of the word before.
LEMMA PlacesAre ==
    ASSUME NEW k, Keyword(k), NEW p, Len(p) \in Nat
    PROVE  /\ Places(k, p)[0] = 1
           /\ \A n \in 1 .. Len(k) : Places(k, p)[n] = Look(p, Places(k, p)[n - 1], k[n])
           /\ \A n \in 0 .. Len(k) : Places(k, p)[n] \in 1 .. Len(p) + 1
<1> DEFINE N == Len(k)
           S == [n \in 0 .. N |-> 1 .. Len(p) + 1]
           step == [n \in 1 .. N |-> [i \in 1 .. Len(p) + 1 |-> Look(p, i, k[n])]]
<1>1. N \in Nat
  BY DEF Keyword
<1>2. PICK h : Iterates(h, step, 1, N) /\ Within(h, S, N)
  <2>1. 1 \in S[0]
    BY <1>1
  <2>2. Keeps(step, S, N)
    <3>1. ASSUME NEW n \in 1 .. N, NEW i \in S[n - 1] PROVE step[n][i] \in S[n]
      BY <1>1, LookFinds
    <3> QED BY <3>1 DEF Keeps
  <2> HIDE DEF S, step, N
  <2> QED BY <1>1, <2>1, <2>2, Recursion
<1>3. h = [n \in 0 .. N |-> IF n = 0 THEN 1 ELSE Look(p, h[n - 1], k[n])]
  <2>1. \A n \in 0 .. N : h[n] \in 1 .. Len(p) + 1
    BY <1>2 DEF Within
  <2>2. \A n \in 1 .. N : step[n][h[n - 1]] = Look(p, h[n - 1], k[n])
    BY <1>1, <2>1
  <2> HIDE DEF step, N
  <2> QED BY <1>1, <2>2, <1>2 DEF Iterates
<1>4. Places(k, p) = [n \in 0 .. N |-> IF n = 0 THEN 1 ELSE Look(p, Places(k, p)[n - 1], k[n])]
  BY <1>3 DEF Places
<1> DEFINE at == Places(k, p)
<1>5. /\ at[0] = 1
      /\ \A n \in 1 .. N : at[n] = Look(p, at[n - 1], k[n])
  <2> HIDE DEF at, N
  <2> QED BY <1>1, <1>4 DEF at
<1> DEFINE P == {n \in 0 .. N : at[n] \in 1 .. Len(p) + 1}
<1>6. 0 .. N \subseteq P
  <2>1. 0 \in P
    BY <1>1, <1>5
  <2>2. ASSUME NEW n \in 1 .. N, n - 1 \in P PROVE n \in P
    <3>1. at[n - 1] \in 1 .. Len(p) + 1
      BY <2>2
    <3>2. Look(p, at[n - 1], k[n]) \in at[n - 1] .. Len(p) + 1
      <4> HIDE DEF at
      <4> QED BY <3>1, LookFinds
    <3> QED BY <1>1, <1>5, <3>1, <3>2
  <2> HIDE DEF P, N
  <2> QED BY <1>1, <2>1, <2>2, Ascent
<1> QED BY <1>5, <1>6

\* The places of later words are not in front of those of earlier ones.
LEMMA PlacesAscend ==
    ASSUME NEW k, Keyword(k), NEW p, Len(p) \in Nat,
           NEW i \in 0 .. Len(k), NEW j \in 0 .. Len(k), i <= j
    PROVE  Places(k, p)[i] <= Places(k, p)[j]
<1> DEFINE at == Places(k, p)
           N == Len(k)
           P == {n \in 0 .. N : i <= n => at[i] <= at[n]}
<1>1. N \in Nat
  BY DEF Keyword
<1>2. /\ \A n \in 1 .. N : at[n] = Look(p, at[n - 1], k[n])
      /\ \A n \in 0 .. N : at[n] \in 1 .. Len(p) + 1
  BY PlacesAre
<1>3. 0 \in P
  BY <1>1, <1>2
<1>4. ASSUME NEW n \in 1 .. N, n - 1 \in P PROVE n \in P
  <2>1. Look(p, at[n - 1], k[n]) \in at[n - 1] .. Len(p) + 1
    <3>1. at[n - 1] \in 1 .. Len(p) + 1
      BY <1>1, <1>2
    <3> HIDE DEF at
    <3> QED BY <3>1, LookFinds
  <2>2. at[n - 1] <= at[n]
    BY <1>1, <1>2, <2>1
  <2> HIDE DEF at
  <2> QED BY <1>1, <1>2, <1>4, <2>2
<1>5. 0 .. N \subseteq P
  <2> HIDE DEF P, N
  <2> QED BY <1>1, <1>3, <1>4, Ascent
<1> QED BY <1>5

\* getMatchCount finds every keyword whose words occur in the path in their order,
\* though it never goes back: no other places are in front of those it takes.
LEMMA CountIsMatch ==
    ASSUME NEW k, Keyword(k), k # <<>>, Len(k) >= 1, NEW p, Len(p) \in Nat, DOMAIN p = 1 .. Len(p)
    PROVE  GetMatchCount(k, p) = IF Matches(k, p) THEN Len(k) ELSE 0
<1> DEFINE at == Places(k, p)
           N == Len(k)
<1>1. N \in Nat /\ N >= 1
  BY DEF Keyword
<1>2. /\ at[0] = 1
      /\ \A n \in 1 .. N : at[n] = Look(p, at[n - 1], k[n])
      /\ \A n \in 0 .. N : at[n] \in 1 .. Len(p) + 1
  BY PlacesAre
<1>3. \A i, j \in 0 .. N : i <= j => at[i] <= at[j]
  BY PlacesAscend
<1>4. \A n \in 1 .. N :
        /\ at[n] <= Len(p) => Has(p[at[n]], k[n])
        /\ \A j \in at[n - 1] .. Len(p) : Has(p[j], k[n]) => at[n] <= j
  <2>1. TAKE n \in 1 .. N
  <2>2. at[n - 1] \in 1 .. Len(p) + 1 /\ at[n] = Look(p, at[n - 1], k[n])
    BY <1>1, <1>2
  <2> HIDE DEF at, N
  <2> QED BY <2>2, LookFinds
<1>5. ASSUME at[N] <= Len(p) PROVE Matches(k, p)
  <2> DEFINE e == [i \in DOMAIN k |-> at[i]]
  <2>1. \A i \in 1 .. N : at[i] \in 1 .. Len(p)
    BY <1>1, <1>2, <1>3, <1>5
  <2>2. e \in [DOMAIN k -> DOMAIN p]
    BY <2>1 DEF Keyword
  <2>3. \A i \in DOMAIN k : Has(p[e[i]], k[i])
    BY <2>1, <1>4 DEF Keyword
  <2>4. \A i, j \in DOMAIN k : i <= j => e[i] <= e[j]
    BY <1>1, <1>3 DEF Keyword
  <2> HIDE DEF e
  <2> QED BY <2>2, <2>3, <2>4 DEF Matches
<1>6. ASSUME Matches(k, p) PROVE at[N] <= Len(p)
  <2>1. PICK e \in [DOMAIN k -> DOMAIN p] :
            /\ \A i \in DOMAIN k : Has(p[e[i]], k[i])
            /\ \A i, j \in DOMAIN k : i <= j => e[i] <= e[j]
    BY <1>6 DEF Matches
  <2> DEFINE Q == {n \in 0 .. N : n > 0 => at[n] <= e[n]}
  <2>2. 0 \in Q
    BY <1>1
  <2>3. ASSUME NEW n \in 1 .. N, n - 1 \in Q PROVE n \in Q
    <3>1. e[n] \in 1 .. Len(p) /\ Has(p[e[n]], k[n])
      BY <2>1 DEF Keyword
    <3>2. at[n - 1] <= e[n]
      <4>1. CASE n = 1
        BY <4>1, <1>2, <3>1
      <4>2. CASE n > 1
        <5>1. at[n - 1] <= e[n - 1]
          BY <2>3, <4>2
        <5>2. e[n - 1] <= e[n] /\ e[n - 1] \in 1 .. Len(p)
          <6>1. n \in DOMAIN k /\ n - 1 \in DOMAIN k /\ n - 1 <= n
            BY <1>1, <4>2 DEF Keyword
          <6> QED BY <2>1, <6>1
        <5>3. at[n - 1] \in 1 .. Len(p) + 1
          BY <1>1, <1>2
        <5> HIDE DEF at
        <5> QED BY <3>1, <5>1, <5>2, <5>3
      <4> QED BY <4>1, <4>2
    <3>3. e[n] \in at[n - 1] .. Len(p)
      <4>1. at[n - 1] \in 1 .. Len(p) + 1
        BY <1>1, <1>2
      <4> HIDE DEF at
      <4> QED BY <3>1, <3>2, <4>1
    <3>4. at[n] <= e[n]
      <4> HIDE DEF at
      <4> QED BY <1>4, <3>1, <3>3
    <3> QED BY <3>4
  <2>4. 0 .. N \subseteq Q
    <3> HIDE DEF Q, N
    <3> QED BY <1>1, <2>2, <2>3, Ascent
  <2>5. at[N] <= e[N] /\ e[N] \in 1 .. Len(p)
    BY <1>1, <2>1, <2>4 DEF Keyword
  <2>6. at[N] \in 1 .. Len(p) + 1
    BY <1>1, <1>2
  <2> HIDE DEF at
  <2> QED BY <2>5, <2>6
<1> QED BY <1>5, <1>6 DEF GetMatchCount

-----------------------------------------------------------------------------
\* As much of the type of a path as its names matter.
Path(p) == Len(p) \in Nat /\ DOMAIN p = 1 .. Len(p)

\* The states of the walk.
Parts(p)      == Range(p) \cup {<<>>}
NamesOf(p)    == [device : Parts(p), subDevice : Parts(p)]
Candidates(p) == [ns : NameSpaces, index : Nat, device : Parts(p), subDevice : Parts(p)]
States(p)     == [max : Nat, names : NamesOf(p), found : Seq(Candidates(p))]

\* What an entry counts, and the names for a best count of m.
Count(e, p)     == GetMatchCount(nameSpaceConfig[e[1]][e[2]].keyword, p)
BestNames(p, m) == IF m = 0 THEN NoNames ELSE Names(p, m, NoNames)

\* Of the entries V, m is the best count; each candidate is one of V with this count
\* and each of V with this count is a candidate.
Longest(p, V, m) ==
    /\ \A e \in V : Count(e, p) <= m
    /\ m = 0 \/ \E e \in V : Count(e, p) = m
Sound(p, V, m, cs) ==
    \A i \in DOMAIN cs : \E e \in V :
        Count(e, p) = m /\ m > 0 /\ cs[i] = Candidate(e[1], e[2], BestNames(p, m))
Complete(p, V, m, cs) ==
    \A e \in V : Count(e, p) = m /\ m > 0 =>
        \E i \in DOMAIN cs : cs[i] = Candidate(e[1], e[2], BestNames(p, m))

\* The invariant of the walk when it has been at the entries V.  The names are those
\* for the best count: the counts before it have left nothing behind.
Seen(p, V) ==
    {s \in States(p) : /\ Longest(p, V, s.max)
                       /\ s.names = BestNames(p, s.max)
                       /\ Sound(p, V, s.max, s.found)
                       /\ Complete(p, V, s.max, s.found)}

\* The entries of a namespace have keywords.
LEMMA ConfigTypes ==
    ASSUME NEW ns \in NameSpaces
    PROVE  /\ Len(nameSpaceConfig[ns]) \in Nat
           /\ DOMAIN nameSpaceConfig[ns] = 1 .. Len(nameSpaceConfig[ns])
           /\ \A i \in 1 .. Len(nameSpaceConfig[ns]) :
                 LET k == nameSpaceConfig[ns][i].keyword
                 IN  Keyword(k) /\ k # <<>> /\ Len(k) >= 1
<1>1. nameSpaceConfig[ns] \in Seq([keyword : Seq(STRING) \ {<<>>}, props : SUBSET STRING])
  BY ConfigAssumption
<1>2. \A k \in Seq(STRING) \ {<<>>} : Keyword(k) /\ k # <<>> /\ Len(k) >= 1
  BY DEF Keyword
<1>3. \A i \in 1 .. Len(nameSpaceConfig[ns]) :
         nameSpaceConfig[ns][i].keyword \in Seq(STRING) \ {<<>>}
  <2> DEFINE K == Seq(STRING) \ {<<>>}
             R == [keyword : K, props : SUBSET STRING]
  <2>1. TAKE i \in 1 .. Len(nameSpaceConfig[ns])
  <2>2. nameSpaceConfig[ns][i] \in R
    <3>1. nameSpaceConfig[ns] \in Seq(R)
      BY <1>1
    <3> HIDE DEF R
    <3> QED BY <3>1
  <2> HIDE DEF K
  <2>3. \A r \in R : r.keyword \in K
    OBVIOUS
  <2> HIDE DEF R
  <2> QED BY <2>2, <2>3 DEF K
<1> QED BY <1>1, <1>2, <1>3

\* An entry is a namespace and an index of its list.
LEMMA EntryTypes ==
    ASSUME NEW e \in Entries
    PROVE  /\ e[1] \in NameSpaces /\ e[2] \in 1 .. Len(nameSpaceConfig[e[1]])
           /\ e = <<e[1], e[2]>>
BY ConfigTypes DEF Entries

\* An entry counts the words of its keyword when it matches.
LEMMA CountType ==
    ASSUME NEW p, Path(p), NEW e \in Entries
    PROVE  /\ Count(e, p) \in Nat
           /\ Count(e, p) > 0 <=> Matches(nameSpaceConfig[e[1]][e[2]].keyword, p)
           /\ Count(e, p) > 0 => Count(e, p) = Len(nameSpaceConfig[e[1]][e[2]].keyword)
<1> DEFINE k == nameSpaceConfig[e[1]][e[2]].keyword
<1>1. Keyword(k) /\ k # <<>> /\ Len(k) >= 1 /\ Len(k) \in Nat
  BY EntryTypes, ConfigTypes DEF Keyword
<1>2. GetMatchCount(k, p) = IF Matches(k, p) THEN Len(k) ELSE 0
  <2> HIDE DEF k
  <2> QED BY <1>1, CountIsMatch DEF Path
<1> HIDE DEF k
<1> QED BY <1>1, <1>2 DEF Count, k

\* The names are taken from the path.
LEMMA NamesType ==
    ASSUME NEW p, Path(p), NEW m, NEW old \in NamesOf(p)
    PROVE  Names(p, m, old) \in NamesOf(p)
<1>1. Filename(p) \in Parts(p) /\ ParentName(p) \in Parts(p) /\ GrandparentName(p) \in Parts(p)
  BY DEF Filename, ParentName, GrandparentName, Parts, Range, Path
<1>2. <<>> \in Parts(p)
  BY DEF Parts
<1> QED BY <1>1, <1>2 DEF Names, NamesOf

\* The names for a better count do not depend on those before.
LEMMA NamesBest ==
    ASSUME NEW p, NEW m \in Nat, NEW n \in Nat, m < n
    PROVE  Names(p, n, BestNames(p, m)) = BestNames(p, n)
<1>1. CASE n = 1
  BY <1>1 DEF BestNames
<1>2. CASE n > 1
  BY <1>2 DEF BestNames, Names
<1> QED BY <1>1, <1>2

\* An entry: worse than the best, as good, or better.
LEMMA VisitSees ==
    ASSUME NEW p, Path(p), NEW V, V \subseteq Entries, NEW s \in Seen(p, V),
           NEW ns \in NameSpaces, NEW i \in 1 .. Len(nameSpaceConfig[ns])
    PROVE  Visit(p, s, ns, i) \in Seen(p, V \cup {<<ns, i>>})
<1> DEFINE e == <<ns, i>>
           W == V \cup {e}
           n == Count(e, p)
           t == Visit(p, s, ns, i)
<1>1. e \in Entries
  BY ConfigTypes DEF Entries
<1>2. n \in Nat /\ \A d \in V : Count(d, p) \in Nat
  BY <1>1, CountType
<1>3. /\ s \in States(p) /\ Longest(p, V, s.max) /\ s.names = BestNames(p, s.max)
      /\ Sound(p, V, s.max, s.found) /\ Complete(p, V, s.max, s.found)
  BY DEF Seen
<1>4. s.max \in Nat /\ s.names \in NamesOf(p) /\ s.found \in Seq(Candidates(p))
  BY <1>3 DEF States
<1>5. n = GetMatchCount(nameSpaceConfig[ns][i].keyword, p)
  BY DEF Count
<1> HIDE DEF n
<1>6. CASE n = 0 \/ n < s.max
  <2>1. t = s
    BY <1>5, <1>6 DEF Visit
  <2>2. Longest(p, W, s.max)
    BY <1>2, <1>3, <1>4, <1>6 DEF Longest, n
  <2>3. Sound(p, W, s.max, s.found)
    BY <1>3 DEF Sound
  <2>4. Complete(p, W, s.max, s.found)
    BY <1>2, <1>3, <1>4, <1>6 DEF Complete, n
  <2> QED BY <1>3, <2>1, <2>2, <2>3, <2>4 DEF Seen
<1>7. CASE n > 0 /\ n = s.max
  <2> DEFINE c == Candidate(ns, i, s.names)
             f == Append(s.found, c)
  <2>1. t = [s EXCEPT !.found = f]
    BY <1>2, <1>4, <1>5, <1>7 DEF Visit
  <2>2. c \in Candidates(p)
    BY <1>4, ConfigTypes DEF Candidate, Candidates, NamesOf
  <2>3. c = Candidate(e[1], e[2], BestNames(p, s.max))
    BY <1>3
  <2> HIDE DEF c
  <2>4. /\ f \in Seq(Candidates(p))
        /\ DOMAIN f = DOMAIN s.found \cup {Len(s.found) + 1}
        /\ \A j \in DOMAIN s.found : f[j] = s.found[j]
        /\ f[Len(s.found) + 1] = c
    BY <1>4, <2>2
  <2> HIDE DEF f
  <2>5. /\ t \in States(p) /\ t.max = s.max /\ t.names = s.names /\ t.found = f
    BY <1>3, <2>1, <2>4 DEF States
  <2>6. Longest(p, W, s.max)
    BY <1>2, <1>3, <1>4, <1>7 DEF Longest, n
  <2>7. Sound(p, W, s.max, f)
    BY <1>3, <1>7, <2>3, <2>4 DEF Sound, n
  <2>8. Complete(p, W, s.max, f)
    BY <1>3, <1>7, <2>3, <2>4 DEF Complete, n
  <2> QED BY <1>3, <2>5, <2>6, <2>7, <2>8 DEF Seen
<1>8. CASE n > s.max
  <2> DEFINE names == Names(p, n, s.names)
             c == Candidate(ns, i, names)
  <2>1. t = [max |-> n, names |-> names, found |-> <<c>>]
    BY <1>2, <1>4, <1>5, <1>8 DEF Visit
  <2>2. names \in NamesOf(p) /\ names = BestNames(p, n)
    BY <1>2, <1>3, <1>4, <1>8, NamesType, NamesBest
  <2> HIDE DEF names
  <2>3. c \in Candidates(p) /\ c = Candidate(e[1], e[2], BestNames(p, n))
    BY <2>2, ConfigTypes DEF Candidate, Candidates, NamesOf
  <2> HIDE DEF c
  <2>4. t \in States(p) /\ t.max = n /\ t.names = names /\ t.found = <<c>>
    BY <1>2, <2>1, <2>2, <2>3 DEF States
  <2>5. Longest(p, W, n)
    BY <1>2, <1>3, <1>4, <1>8 DEF Longest, n
  <2>6. Sound(p, W, n, <<c>>)
    <3>1. e \in W /\ Count(e, p) = n /\ n > 0
      BY <1>2, <1>4, <1>8 DEF n
    <3>2. \A j \in DOMAIN <<c>> : <<c>>[j] = c
      OBVIOUS
    <3> HIDE DEF e, W
    <3> QED BY <2>3, <3>1, <3>2 DEF Sound
  <2>7. Complete(p, W, n, <<c>>)
    <3>1. \A d \in V : Count(d, p) # n
      BY <1>2, <1>3, <1>4, <1>8 DEF Longest
    <3> QED BY <2>3, <3>1 DEF Complete
  <2> QED BY <2>2, <2>4, <2>5, <2>6, <2>7 DEF Seen
<1> QED BY <1>2, <1>4, <1>6, <1>7, <1>8

\* The entries of one namespace.
EntriesOf(ns) == {ns} \X (1 .. Len(nameSpaceConfig[ns]))

\* The inner loop.
LEMMA VisitAllSees ==
    ASSUME NEW p, Path(p), NEW V, V \subseteq Entries, NEW s \in Seen(p, V),
           NEW ns \in NameSpaces
    PROVE  VisitAll(p, s, ns) \in Seen(p, V \cup EntriesOf(ns))
<1> DEFINE N == Len(nameSpaceConfig[ns])
           W(i) == V \cup ({ns} \X (1 .. i))
           S == [i \in 0 .. N |-> Seen(p, W(i))]
           step == [i \in 1 .. N |-> [t \in Seen(p, W(i - 1)) |-> Visit(p, t, ns, i)]]
           after == CHOOSE f : f = [i \in 0 .. N |->
                        IF i = 0 THEN s ELSE Visit(p, f[i - 1], ns, i)]
<1>1. N \in Nat
  BY ConfigTypes
<1>2. W(0) = V /\ \A i \in 1 .. N : W(i) = W(i - 1) \cup {<<ns, i>>}
  BY <1>1
<1>3. \A i \in 0 .. N : W(i) \subseteq Entries
  <2>1. \A i \in 1 .. N : <<ns, i>> \in Entries
    BY ConfigTypes DEF Entries
  <2> HIDE DEF N
  <2> QED BY <1>1, <2>1
<1>4. \A i \in 1 .. N : \A t \in Seen(p, W(i - 1)) : Visit(p, t, ns, i) \in Seen(p, W(i))
  <2>1. TAKE i \in 1 .. N
  <2>2. /\ W(i - 1) \subseteq Entries /\ W(i) = W(i - 1) \cup {<<ns, i>>}
        /\ i \in 1 .. Len(nameSpaceConfig[ns])
    BY <1>1, <1>2, <1>3
  <2> HIDE DEF W, N
  <2> QED BY <2>2, VisitSees
<1> HIDE DEF W
<1>5. PICK h : Iterates(h, step, s, N) /\ Within(h, S, N)
  <2>1. s \in S[0]
    BY <1>1, <1>2
  <2>2. Keeps(step, S, N)
    <3>1. ASSUME NEW i \in 1 .. N, NEW t \in S[i - 1] PROVE step[i][t] \in S[i]
      BY <1>1, <1>4
    <3> HIDE DEF step, S, N
    <3> QED BY <3>1 DEF Keeps
  <2> HIDE DEF S, step, N
  <2> QED BY <1>1, <2>1, <2>2, Recursion
<1>6. \A i \in 0 .. N : h[i] \in Seen(p, W(i))
  BY <1>5 DEF Within
<1>7. h = [i \in 0 .. N |-> IF i = 0 THEN s ELSE Visit(p, h[i - 1], ns, i)]
  <2>1. \A i \in 1 .. N : step[i][h[i - 1]] = Visit(p, h[i - 1], ns, i)
    BY <1>1, <1>6
  <2>2. h = [i \in 0 .. N |-> IF i = 0 THEN s ELSE step[i][h[i - 1]]]
    BY <1>5 DEF Iterates
  <2>3. \A i \in 0 .. N : h[i] = IF i = 0 THEN s ELSE Visit(p, h[i - 1], ns, i)
    <3> HIDE DEF step, N
    <3> QED BY <1>1, <2>1, <2>2
  <2> HIDE DEF step, N
  <2> QED BY <2>2, <2>3
<1>8. after = [i \in 0 .. N |-> IF i = 0 THEN s ELSE Visit(p, after[i - 1], ns, i)]
  BY <1>7
<1>9. VisitAll(p, s, ns) = after[N]
  BY DEF VisitAll
<1> HIDE DEF after
<1> DEFINE P == {i \in 0 .. N : after[i] \in Seen(p, W(i))}
<1>10. 0 \in P
  BY <1>1, <1>2, <1>8
<1>11. ASSUME NEW i \in 1 .. N, i - 1 \in P PROVE i \in P
  BY <1>1, <1>4, <1>8, <1>11
<1>12. 0 .. N \subseteq P
  <2> HIDE DEF P, N
  <2> QED BY <1>1, <1>10, <1>11, Ascent
<1>13. W(N) = V \cup EntriesOf(ns)
  BY DEF W, EntriesOf
<1>14. after[N] \in Seen(p, W(N))
  BY <1>1, <1>12
<1> QED BY <1>9, <1>13, <1>14

\* An order has each namespace that the path matches.
LEMMA OrderTypes ==
    ASSUME NEW p, NEW order \in Orders(Touched(p))
    PROVE  /\ Len(order) \in Nat
           /\ \A k \in 1 .. Len(order) : order[k] \in NameSpaces
           /\ \A ns \in Touched(p) : \E k \in 1 .. Len(order) : order[k] = ns
<1> DEFINE T == Touched(p)
           n == Cardinality(T)
<1>1. T \subseteq NameSpaces
  BY DEF Touched
<1>2. n \in Nat
  <2>1. IsFiniteSet(T)
    BY <1>1, ConfigAssumption, FS_Subset
  <2> QED BY <2>1, FS_CardinalityType
<1> HIDE DEF T
<1>3. order \in [1 .. n -> T] /\ \A x \in T : \E i \in DOMAIN order : order[i] = x
  BY DEF Orders, T
<1> HIDE DEF n
<1>4. order \in Seq(T) /\ Len(order) = n
  BY <1>2, <1>3
<1> QED BY <1>1, <1>2, <1>3, <1>4 DEF T

\* The outer loop.
LEMMA WalkSees ==
    ASSUME NEW p, Path(p), NEW order \in Orders(Touched(p))
    PROVE  \E t \in Seen(p, UNION {EntriesOf(order[k]) : k \in 1 .. Len(order)}) :
               t.found = ParseDevicePath(p, order)
<1> DEFINE N == Len(order)
           W(i) == UNION {EntriesOf(order[k]) : k \in 1 .. i}
           s == [max |-> 0, names |-> NoNames, found |-> <<>>]
           S == [i \in 0 .. N |-> Seen(p, W(i))]
           step == [i \in 1 .. N |-> [t \in Seen(p, W(i - 1)) |-> VisitAll(p, t, order[i])]]
           after == CHOOSE f : f = [k \in 0 .. N |->
                        IF k = 0 THEN [max |-> 0, names |-> NoNames, found |-> <<>>]
                        ELSE VisitAll(p, f[k - 1], order[k])]
<1>1. N \in Nat /\ \A k \in 1 .. N : order[k] \in NameSpaces
  BY OrderTypes
<1> HIDE DEF N
<1>2. W(0) = {} /\ \A i \in 1 .. N : W(i) = W(i - 1) \cup EntriesOf(order[i])
  <2>1. W(0) = {}
    OBVIOUS
  <2>2. ASSUME NEW i \in 1 .. N PROVE W(i) = W(i - 1) \cup EntriesOf(order[i])
    <3>1. 1 .. i = (1 .. (i - 1)) \cup {i}
      BY <1>1
    <3> QED BY <3>1
  <2> QED BY <2>1, <2>2
<1>3. \A i \in 0 .. N : W(i) \subseteq Entries
  <2>1. \A ns \in NameSpaces : EntriesOf(ns) \subseteq Entries
    BY ConfigTypes DEF Entries, EntriesOf
  <2> QED BY <1>1, <2>1
<1> HIDE DEF W
<1>4. \A i \in 1 .. N : \A t \in Seen(p, W(i - 1)) : VisitAll(p, t, order[i]) \in Seen(p, W(i))
  <2>1. TAKE i \in 1 .. N
  <2>2. /\ W(i - 1) \subseteq Entries /\ W(i) = W(i - 1) \cup EntriesOf(order[i])
        /\ order[i] \in NameSpaces
    BY <1>1, <1>2, <1>3
  <2> QED BY <2>2, VisitAllSees
<1>5. s \in Seen(p, W(0))
  <2>1. NoNames \in NamesOf(p)
    BY DEF NoNames, NamesOf, Parts
  <2>2. s \in States(p)
    BY <2>1 DEF States
  <2> QED BY <1>2, <2>2 DEF Seen, Longest, Sound, Complete, BestNames
<1> HIDE DEF s
<1>6. PICK h : Iterates(h, step, s, N) /\ Within(h, S, N)
  <2>1. s \in S[0]
    BY <1>1, <1>5
  <2>2. Keeps(step, S, N)
    <3>1. ASSUME NEW i \in 1 .. N, NEW t \in S[i - 1] PROVE step[i][t] \in S[i]
      BY <1>1, <1>4
    <3> HIDE DEF step, S
    <3> QED BY <3>1 DEF Keeps
  <2> HIDE DEF S, step
  <2> QED BY <1>1, <2>1, <2>2, Recursion
<1>7. \A i \in 0 .. N : h[i] \in Seen(p, W(i))
  BY <1>6 DEF Within
<1>8. h = [i \in 0 .. N |-> IF i = 0 THEN s ELSE VisitAll(p, h[i - 1], order[i])]
  <2>1. \A i \in 1 .. N : step[i][h[i - 1]] = VisitAll(p, h[i - 1], order[i])
    BY <1>1, <1>7
  <2>2. h = [i \in 0 .. N |-> IF i = 0 THEN s ELSE step[i][h[i - 1]]]
    BY <1>6 DEF Iterates
  <2>3. \A i \in 0 .. N : h[i] = IF i = 0 THEN s ELSE VisitAll(p, h[i - 1], order[i])
    <3> HIDE DEF step
    <3> QED BY <1>1, <2>1, <2>2
  <2> HIDE DEF step
  <2> QED BY <2>2, <2>3
<1>9. after = [i \in 0 .. N |-> IF i = 0 THEN s ELSE VisitAll(p, after[i - 1], order[i])]
  BY <1>8 DEF s
<1>10. ParseDevicePath(p, order) = after[N].found
  BY DEF ParseDevicePath, N
<1> HIDE DEF after
<1> DEFINE P == {i \in 0 .. N : after[i] \in Seen(p, W(i))}
<1>11. 0 \in P
  BY <1>1, <1>5, <1>9
<1>12. ASSUME NEW i \in 1 .. N, i - 1 \in P PROVE i \in P
  BY <1>1, <1>4, <1>9, <1>12
<1>13. 0 .. N \subseteq P
  <2> HIDE DEF P
  <2> QED BY <1>1, <1>11, <1>12, Ascent
<1>14. after[N] \in Seen(p, W(N))
  BY <1>1, <1>13
<1> QED BY <1>10, <1>14 DEF W, N

\* Whatever the order, the candidates are the entries with the best count of all.
LEMMA Parsed ==
    ASSUME NEW p, Path(p), NEW order \in Orders(Touched(p))
    PROVE  \E m \in Nat :
              /\ Longest(p, Entries, m)
              /\ Sound(p, Entries, m, ParseDevicePath(p, order))
              /\ Complete(p, Entries, m, ParseDevicePath(p, order))
              /\ ParseDevicePath(p, order) \in Seq(Candidates(p))
<1> DEFINE V == UNION {EntriesOf(order[k]) : k \in 1 .. Len(order)}
           cs == ParseDevicePath(p, order)
<1>1. PICK t \in Seen(p, V) : t.found = cs
  BY WalkSees
<1>2. V \subseteq Entries
  BY OrderTypes, ConfigTypes DEF Entries, EntriesOf
<1>3. ASSUME NEW e \in Entries, Count(e, p) > 0 PROVE e \in V
  <2>1. e[1] \in NameSpaces /\ e[2] \in 1 .. Len(nameSpaceConfig[e[1]]) /\ e = <<e[1], e[2]>>
    BY EntryTypes
  <2>2. e[1] \in Touched(p)
    BY <1>3, <2>1, ConfigTypes DEF Touched, Count
  <2>3. PICK k \in 1 .. Len(order) : order[k] = e[1]
    BY <2>2, OrderTypes
  <2>4. e \in EntriesOf(order[k])
    BY <2>1, <2>3 DEF EntriesOf
  <2> QED BY <2>4
<1>4. \A e \in Entries : Count(e, p) \in Nat
  BY CountType
<1> HIDE DEF V, cs
<1>5. /\ t.max \in Nat /\ cs \in Seq(Candidates(p))
      /\ Longest(p, V, t.max) /\ Sound(p, V, t.max, cs) /\ Complete(p, V, t.max, cs)
  BY <1>1 DEF Seen, States
<1> DEFINE m == t.max
<1> HIDE DEF m
<1>6. m \in Nat /\ Longest(p, V, m) /\ Sound(p, V, m, cs) /\ Complete(p, V, m, cs)
  BY <1>5 DEF m
<1>7. Longest(p, Entries, m)
  BY <1>2, <1>3, <1>4, <1>6 DEF Longest
<1>8. Sound(p, Entries, m, cs)
  BY <1>2, <1>6 DEF Sound
<1>9. Complete(p, Entries, m, cs)
  BY <1>2, <1>3, <1>4, <1>6 DEF Complete
<1> QED BY <1>5, <1>6, <1>7, <1>8, <1>9 DEF cs

\* The best count of the configuration, and the fields that a sensor has then.
Best(p, m) == m \in Nat /\ Longest(p, Entries, m)
FieldsAt(ns, p, m, parent) ==
    [ns |-> ns, device |-> DeviceOf(BestNames(p, m), parent),
     subDevice |-> BestNames(p, m).subDevice]

\* There is one best count.
LEMMA BestUnique ==
    ASSUME NEW p, Path(p), NEW m, Best(p, m), NEW n, Best(p, n)
    PROVE  m = n
BY CountType DEF Best, Longest

\* An entry with the best count that lists the property is a home.
LEMMA HomeOf ==
    ASSUME NEW p, Path(p), NEW m, Best(p, m), NEW e \in Entries, Count(e, p) = m, m > 0,
           NEW prop, prop \in nameSpaceConfig[e[1]][e[2]].props
    PROVE  e[1] \in Homes(p, prop)
<1> DEFINE Match == {d \in Entries : Matches(nameSpaceConfig[d[1]][d[2]].keyword, p)}
           KeyLen(d) == Len(nameSpaceConfig[d[1]][d[2]].keyword)
<1>1. e \in Match /\ KeyLen(e) = m
  BY CountType
<1>2. \A d \in Match : KeyLen(d) <= m
  BY CountType DEF Best, Longest
<1>3. e \in {f \in Match : /\ \A g \in Match : KeyLen(g) <= KeyLen(f)
                           /\ prop \in nameSpaceConfig[f[1]][f[2]].props}
  BY <1>1, <1>2
<1> QED BY <1>3 DEF Homes

\* A sensor is registered at home, with the names for the best count.
LEMMA Placed ==
    ASSUME NEW p, Path(p), NEW prop, NEW parent, NEW order \in Orders(Touched(p)),
           NEW f \in FieldsOf(p, prop, parent, order)
    PROVE  \E m : /\ Best(p, m) /\ f.ns \in Homes(p, prop) /\ f.ns \in NameSpaces
                  /\ f = FieldsAt(f.ns, p, m, parent) /\ f.device # <<>>
                  /\ \E e \in Entries : /\ Count(e, p) = m /\ m > 0 /\ f.ns = e[1]
                                        /\ prop \in nameSpaceConfig[e[1]][e[2]].props
<1> DEFINE cs == ParseDevicePath(p, order)
           Listed == {i \in DOMAIN cs : prop \in nameSpaceConfig[cs[i].ns][cs[i].index].props}
           Orphaned == {i \in DOMAIN cs : DeviceOf(cs[i], parent) = <<>>}
           Chosen(i) == [ns |-> cs[i].ns, device |-> DeviceOf(cs[i], parent),
                         subDevice |-> cs[i].subDevice]
<1>1. PICK m \in Nat : /\ Longest(p, Entries, m) /\ Sound(p, Entries, m, cs)
  BY Parsed
<1>2. PICK i \in Listed : /\ \A k \in Listed \cup Orphaned : i <= k /\ i \notin Orphaned
                          /\ f = Chosen(i)
  BY DEF FieldsOf
<1>3. i \in DOMAIN cs /\ i \notin Orphaned
  BY <1>2
<1> HIDE DEF cs
<1>4. PICK e \in Entries : /\ Count(e, p) = m /\ m > 0
                           /\ cs[i] = Candidate(e[1], e[2], BestNames(p, m))
  BY <1>1, <1>3 DEF Sound
<1>5. /\ cs[i].ns = e[1] /\ cs[i].index = e[2] /\ cs[i].device = BestNames(p, m).device
      /\ cs[i].subDevice = BestNames(p, m).subDevice
  BY <1>4 DEF Candidate
<1>6. f = FieldsAt(e[1], p, m, parent)
  BY <1>2, <1>5 DEF FieldsAt, DeviceOf
<1>7. f.ns = e[1] /\ f.device # <<>>
  BY <1>2, <1>3, <1>5
<1>8. prop \in nameSpaceConfig[e[1]][e[2]].props
  BY <1>2, <1>5
<1>9. Best(p, m)
  BY <1>1 DEF Best
<1>10. e[1] \in Homes(p, prop) /\ e[1] \in NameSpaces
  BY <1>4, <1>8, <1>9, HomeOf, EntryTypes
<1> QED BY <1>4, <1>6, <1>7, <1>8, <1>9, <1>10

\* With one home, what a sensor may get in an order it gets in any other.
LEMMA SameFields ==
    ASSUME NEW p, Path(p), NEW prop, NEW parent,
           \A a, b \in Homes(p, prop) : a = b,
           NEW order \in Orders(Touched(p)), NEW other \in Orders(Touched(p)),
           NEW f \in FieldsOf(p, prop, parent, order)
    PROVE  f \in FieldsOf(p, prop, parent, other)
<1> DEFINE cs == ParseDevicePath(p, other)
           Listed == {i \in DOMAIN cs : prop \in nameSpaceConfig[cs[i].ns][cs[i].index].props}
           Orphaned == {i \in DOMAIN cs : DeviceOf(cs[i], parent) = <<>>}
           Chosen(i) == [ns |-> cs[i].ns, device |-> DeviceOf(cs[i], parent),
                         subDevice |-> cs[i].subDevice]
<1>1. PICK m : /\ Best(p, m) /\ f.ns \in Homes(p, prop) /\ f.ns \in NameSpaces
               /\ f = FieldsAt(f.ns, p, m, parent) /\ f.device # <<>>
               /\ \E e \in Entries : /\ Count(e, p) = m /\ m > 0 /\ f.ns = e[1]
                                     /\ prop \in nameSpaceConfig[e[1]][e[2]].props
  BY Placed
<1>2. PICK e \in Entries : /\ Count(e, p) = m /\ m > 0 /\ f.ns = e[1]
                           /\ prop \in nameSpaceConfig[e[1]][e[2]].props
  BY <1>1
<1>3. /\ Sound(p, Entries, m, cs) /\ Complete(p, Entries, m, cs)
      /\ cs \in Seq(Candidates(p))
  <2>1. PICK n \in Nat : /\ Longest(p, Entries, n) /\ Sound(p, Entries, n, cs)
                         /\ Complete(p, Entries, n, cs) /\ cs \in Seq(Candidates(p))
    BY Parsed
  <2>2. n = m
    BY <1>1, <2>1, BestUnique DEF Best
  <2> QED BY <2>1, <2>2
<1>4. DOMAIN cs \subseteq Nat
  BY <1>3
<1> HIDE DEF cs
<1>5. PICK k \in DOMAIN cs : cs[k] = Candidate(e[1], e[2], BestNames(p, m))
  BY <1>2, <1>3 DEF Complete
<1>6. k \in Listed
  BY <1>2, <1>5 DEF Candidate
<1>7. PICK i \in Listed : \A j \in Listed : i <= j
  <2>1. Listed \subseteq Nat
    BY <1>4
  <2> HIDE DEF Listed
  <2> QED BY <1>6, <2>1, Least
<1>8. PICK d \in Entries : /\ Count(d, p) = m /\ m > 0
                           /\ cs[i] = Candidate(d[1], d[2], BestNames(p, m))
  BY <1>3, <1>7 DEF Sound
<1>9. /\ cs[i].ns = d[1] /\ cs[i].index = d[2] /\ cs[i].device = BestNames(p, m).device
      /\ cs[i].subDevice = BestNames(p, m).subDevice
  BY <1>8 DEF Candidate
<1>10. d[1] = f.ns
  <2>1. prop \in nameSpaceConfig[d[1]][d[2]].props
    BY <1>7, <1>9
  <2>2. d[1] \in Homes(p, prop)
    BY <1>1, <1>8, <2>1, HomeOf
  <2> QED BY <1>1, <2>2
<1>11. Chosen(i) = f
  BY <1>1, <1>9, <1>10 DEF FieldsAt, DeviceOf
<1>12. Orphaned = {}
  <2>1. \A j \in DOMAIN cs : DeviceOf(cs[j], parent) = DeviceOf(BestNames(p, m), parent)
    BY <1>3 DEF Sound, Candidate, DeviceOf
  <2>2. DeviceOf(BestNames(p, m), parent) # <<>>
    BY <1>1 DEF FieldsAt
  <2> QED BY <2>1, <2>2
<1>13. i \in {j \in Listed : \A l \in Listed \cup Orphaned : j <= l /\ j \notin Orphaned}
  BY <1>7, <1>12
<1> QED BY <1>11, <1>13 DEF FieldsOf, cs

\* A sensor that is at home in one namespace is registered with the same fields, or
\* not at all, in whatever order the hash table of namespaces is walked.
THEOREM OrderDoesNotMatter ==
    ASSUME OneHome, NEW s \in Sensors,
           NEW order \in Orders(Touched(s.path)), NEW other \in Orders(Touched(s.path))
    PROVE  FieldsOf(s.path, s.prop, s.parent, order) = FieldsOf(s.path, s.prop, s.parent, other)
<1>1. Path(s.path)
  BY SensorsAssumption DEF Path
<1>2. \A a, b \in Homes(s.path, s.prop) : a = b
  BY DEF OneHome
<1>3. \A f \in FieldsOf(s.path, s.prop, s.parent, order) :
          f \in FieldsOf(s.path, s.prop, s.parent, other)
  BY <1>1, <1>2, SameFields
<1>4. \A f \in FieldsOf(s.path, s.prop, s.parent, other) :
          f \in FieldsOf(s.path, s.prop, s.parent, order)
  BY <1>1, <1>2, SameFields
<1> QED BY <1>3, <1>4

-----------------------------------------------------------------------------
\* A registered sensor has been given its fields in one of the orders.
Registered ==
    /\ DOMAIN fields \subseteq Sensors /\ DOMAIN shown = DOMAIN fields
    /\ DOMAIN last = DOMAIN fields
    /\ \A s \in DOMAIN fields :
          /\ \E order \in Orders(Touched(s.path)) :
                fields[s] \in FieldsOf(s.path, s.prop, s.parent, order)
          /\ last[s] \in s.readings

\* At first no sensor is registered.
LEMMA RegisteredInit == Init => Registered
BY DEF Init, Registered

\* A sensor is registered once, and its fields stay.
LEMMA RegisteredNext == Registered /\ [Next]_vars => Registered'
<1> SUFFICES ASSUME Registered, [Next]_vars PROVE Registered'
    OBVIOUS
<1> USE DEF Registered
<1>1. ASSUME NEW s \in Sensors, NEW r \in s.readings, Publish(s, r) PROVE Registered'
  BY <1>1 DEF Publish, With
<1>2. ASSUME NEW s \in Sensors, NEW r \in s.readings, Refresh(s, r) PROVE Registered'
  BY <1>2 DEF Refresh
<1>3. CASE UNCHANGED vars
  BY <1>3 DEF vars
<1> QED BY <1>1, <1>2, <1>3 DEF Next

\* Registered is an invariant: no step gives a sensor other fields than a walk of the
\* table, and none that was not published has elements or a reading.
THEOREM AlwaysRegistered == Spec => []Registered
BY RegisteredInit, RegisteredNext, PTL DEF Spec

\* What a registered sensor's fields are, without the order.
LEMMA RegisteredAt ==
    ASSUME Registered, NEW s \in DOMAIN fields
    PROVE  /\ s \in Sensors /\ Path(s.path)
           /\ \E m : /\ Best(s.path, m)
                     /\ fields[s].ns \in Homes(s.path, s.prop) /\ fields[s].ns \in NameSpaces
                     /\ fields[s] = FieldsAt(fields[s].ns, s.path, m, s.parent)
                     /\ fields[s].device # <<>>
<1>1. s \in Sensors /\ Path(s.path)
  BY SensorsAssumption DEF Registered, Path
<1>2. PICK order \in Orders(Touched(s.path)) :
          fields[s] \in FieldsOf(s.path, s.prop, s.parent, order)
  BY DEF Registered
<1> DEFINE f == fields[s]
<1>3. \E m : /\ Best(s.path, m) /\ f.ns \in Homes(s.path, s.prop) /\ f.ns \in NameSpaces
             /\ f = FieldsAt(f.ns, s.path, m, s.parent) /\ f.device # <<>>
             /\ \E e \in Entries : /\ Count(e, s.path) = m /\ m > 0 /\ f.ns = e[1]
                                   /\ s.prop \in nameSpaceConfig[e[1]][e[2]].props
  <2> HIDE DEF f
  <2> QED BY <1>1, <1>2, Placed DEF f
<1> QED BY <1>1, <1>3

\* AtHome: when no sensor is at home in two namespaces each is published in its home.
THEOREM HomeTheOnlyOne == ASSUME OneHome PROVE Spec => []AtHome
<1>1. Registered => AtHome
  <2> SUFFICES ASSUME Registered, NEW s \in DOMAIN fields
               PROVE  Homes(s.path, s.prop) = {fields[s].ns}
    BY DEF AtHome
  <2>1. s \in Sensors /\ fields[s].ns \in Homes(s.path, s.prop)
    BY RegisteredAt
  <2> QED BY <2>1 DEF OneHome
<1> QED BY <1>1, AlwaysRegistered, PTL

\* A path that names no device leaves the device to the parent.
LEMMA PartialNames ==
    ASSUME NEW p, Partial(p), NEW m \in Nat, m >= 2
    PROVE  BestNames(p, m).device = <<>>
BY DEF BestNames, Names

\* SensorsHaveParents: a sensor whose path names no device is its parent's when a
\* keyword of two words matches the path, whichever keywords are met before it.
THEOREM ParentsNamed == ASSUME LongKeywords PROVE Spec => []SensorsHaveParents
<1>1. Registered => SensorsHaveParents
  <2> SUFFICES ASSUME Registered, NEW s \in DOMAIN fields, Partial(s.path)
               PROVE  fields[s].device = s.parent
    BY DEF SensorsHaveParents
  <2>1. /\ s \in Sensors /\ Path(s.path)
        /\ \E m : /\ Best(s.path, m)
                  /\ fields[s].ns \in Homes(s.path, s.prop) /\ fields[s].ns \in NameSpaces
                  /\ fields[s] = FieldsAt(fields[s].ns, s.path, m, s.parent)
                  /\ fields[s].device # <<>>
    BY RegisteredAt
  <2>2. PICK m : /\ Best(s.path, m) /\ fields[s].ns \in Homes(s.path, s.prop)
                 /\ fields[s] = FieldsAt(fields[s].ns, s.path, m, s.parent)
    BY <2>1
  <2>3. PICK e \in Entries : LET keyword == nameSpaceConfig[e[1]][e[2]].keyword
                             IN  Matches(keyword, s.path) /\ Len(keyword) >= 2
    BY <2>1, <2>2 DEF LongKeywords
  <2>4. m \in Nat /\ m >= 2
    BY <2>1, <2>2, <2>3, CountType DEF Best, Longest
  <2>5. BestNames(s.path, m).device = <<>>
    BY <2>4, PartialNames
  <2>6. fields[s].device = DeviceOf(BestNames(s.path, m), s.parent)
    BY <2>2 DEF FieldsAt
  <2> QED BY <2>5, <2>6 DEF DeviceOf
<1> QED BY <1>1, AlwaysRegistered, PTL

\* A text says what was made from what.
LEMMA TextHasTwo ==
    ASSUME NEW iface, NEW metric, NEW type, NEW x, NEW device, NEW status
    PROVE  Len(ValueText(iface, metric, type, x, device, status)) = 2
<1>1. \A t : Len(Text(t)) = 2
  BY DEF Text
<1>2. Len(TranslateReading(iface, metric, x, device)) = 2
  <2>1. CASE iface \notin DOMAIN Translated
    BY <1>1, <2>1 DEF TranslateReading
  <2>2. CASE iface \in DOMAIN Translated /\ metric \notin Translated[iface]
    <3>1. \E t : TranslateReading(iface, metric, x, device) = Text(t)
      BY <2>2, Zenon DEF TranslateReading, Empty
    <3> QED BY <1>1, <3>1
  <2>3. CASE iface \in DOMAIN Translated /\ metric \in Translated[iface]
    <3>1. \E t : TranslateReading(iface, metric, x, device) = Text(t)
      BY <2>3, Zenon DEF TranslateReading
    <3> QED BY <1>1, <3>1
  <2> QED BY <2>1, <2>2, <2>3
<1>3. Len(TranslateCount(iface, metric, x.name)) = 2
  BY DEF TranslateCount
<1>4. Len(TranslateOperationalStatus(metric, x.name)) = 2
  <2>1. \E t : TranslateOperationalStatus(metric, x.name) = Text(t)
    BY DEF TranslateOperationalStatus, Empty
  <2> QED BY <1>1, <2>1
<1>5. Len(<<"decimal", x.name>>) = 2
  OBVIOUS
<1> QED BY <1>1, <1>2, <1>3, <1>4, <1>5 DEF ValueText

\* What an element has: a URI, an index and a text.
Element(e) ==
    /\ e = [uri |-> e.uri, index |-> e.index, text |-> e.text]
    /\ e.uri # <<>> /\ Len(e.text) = 2
Elements == \A s \in DOMAIN fields : \A i \in DOMAIN shown[s] : Element(shown[s][i])

\* getMetricValues makes elements; a plain one only when there is a URI.
LEMMA ValuesAreElements ==
    ASSUME NEW f, NEW s, NEW r,
           s.type \in Lists => GenerateURI(f, s.path, s.prop, s.iface) # <<>>,
           NEW i \in DOMAIN GetMetricValues(f, s, r)
    PROVE  Element(GetMetricValues(f, s, r)[i])
<1> DEFINE uri == GenerateURI(f, s.path, s.prop, s.iface)
           Of(type, x, j) ==
               [uri |-> uri, index |-> j,
                text |-> ValueText(s.iface, s.prop, type, x, f.ns, IsStatus(s))]
<1>1. ASSUME uri # <<>>, NEW type, NEW x, NEW j PROVE Element(Of(type, x, j))
  <2>1. Len(ValueText(s.iface, s.prop, type, x, f.ns, IsStatus(s))) = 2
    BY TextHasTwo
  <2> QED BY <1>1, <2>1 DEF Element
<1>2. CASE s.type \in Lists
  <2>1. GetMetricValues(f, s, r)
          = [j \in 0 .. Len(r) - 1 |-> Of(ElementOf[s.type], r[j + 1], j)]
    BY <1>2 DEF GetMetricValues
  <2>2. uri # <<>>
    BY <1>2
  <2> HIDE DEF Of, uri
  <2> QED BY <1>1, <2>1, <2>2
<1>3. CASE s.type \notin Lists
  <2>1. GetMetricValues(f, s, r)
          = [j \in (IF uri = <<>> THEN {} ELSE {Plain}) |-> Of(s.type, r[1], Plain)]
    BY <1>3 DEF GetMetricValues
  <2> HIDE DEF Of, uri
  <2> QED BY <1>1, <2>1
<1> QED BY <1>2, <1>3

\* The elements of a list have a URI when the configuration sees to it.
LEMMA ListURI ==
    ASSUME ListsHaveURI, NEW s \in Sensors, NEW order \in Orders(Touched(s.path)),
           NEW f \in FieldsOf(s.path, s.prop, s.parent, order), s.type \in Lists
    PROVE  GenerateURI(f, s.path, s.prop, s.iface) # <<>>
<1> DEFINE p == s.path
           names == Range(p) \cup {<<>>, s.parent}
<1>1. Path(p)
  BY SensorsAssumption DEF Path
<1>2. PICK m : /\ Best(p, m) /\ f.ns \in Homes(p, s.prop) /\ f.ns \in NameSpaces
               /\ f = FieldsAt(f.ns, p, m, s.parent) /\ f.device # <<>>
               /\ \E e \in Entries : /\ Count(e, p) = m /\ m > 0 /\ f.ns = e[1]
                                     /\ s.prop \in nameSpaceConfig[e[1]][e[2]].props
  BY <1>1, Placed
<1>3. BestNames(p, m) \in NamesOf(p)
  <2>1. NoNames \in NamesOf(p)
    BY DEF NoNames, NamesOf, Parts
  <2> QED BY <1>1, <2>1, NamesType DEF BestNames
<1>4. f \in [ns : Homes(p, s.prop), device : names, subDevice : names]
  <2>1. BestNames(p, m).device \in names /\ BestNames(p, m).subDevice \in names
    BY <1>3 DEF NamesOf, Parts
  <2>2. DeviceOf(BestNames(p, m), s.parent) \in names
    BY <2>1 DEF DeviceOf
  <2> HIDE DEF names
  <2>3. FieldsAt(f.ns, p, m, s.parent)
            \in [ns : Homes(p, s.prop), device : names, subDevice : names]
    BY <1>2, <2>1, <2>2 DEF FieldsAt
  <2> QED BY <1>2, <2>3
<1> QED BY <1>4 DEF ListsHaveURI

\* A step publishes elements or gives them another text.
LEMMA ElementsNext ==
    ASSUME ListsHaveURI, Registered, Elements, [Next]_vars
    PROVE  Elements'
<1>1. ASSUME NEW s \in Sensors, NEW r \in s.readings, Publish(s, r) PROVE Elements'
  <2>1. PICK order \in Orders(Touched(s.path)) :
            \E f \in FieldsOf(s.path, s.prop, s.parent, order) :
               /\ fields' = With(fields, s, f)
               /\ shown' = With(shown, s, GetMetricValues(f, s, r))
    BY <1>1 DEF Publish
  <2>2. PICK f \in FieldsOf(s.path, s.prop, s.parent, order) :
               /\ fields' = With(fields, s, f)
               /\ shown' = With(shown, s, GetMetricValues(f, s, r))
    BY <2>1
  <2>3. \A i \in DOMAIN GetMetricValues(f, s, r) : Element(GetMetricValues(f, s, r)[i])
    BY ListURI, ValuesAreElements
  <2> QED BY <2>2, <2>3 DEF Elements, With, Registered
<1>2. ASSUME NEW s \in Sensors, NEW r \in s.readings, Refresh(s, r) PROVE Elements'
  <2> DEFINE Fresh(i) == [shown[s][i] EXCEPT !.text = GetMetricValue(s, r[1])]
  <2>1. /\ s \in DOMAIN fields /\ UNCHANGED fields
        /\ shown' = [shown EXCEPT ![s] = [i \in DOMAIN shown[s] |-> Fresh(i)]]
    BY <1>2 DEF Refresh
  <2>2. ASSUME NEW i \in DOMAIN shown[s] PROVE Element(Fresh(i))
    <3>1. Len(GetMetricValue(s, r[1])) = 2
      <4> DEFINE status == s.iface = "OperationalStatus"
      <4>1. GetMetricValue(s, r[1]) = ValueText(s.iface, s.prop, s.type, r[1], "", status)
        BY DEF GetMetricValue
      <4> HIDE DEF status
      <4> QED BY <4>1, TextHasTwo
    <3>2. Element(shown[s][i])
      BY <2>1 DEF Elements
    <3> QED BY <3>1, <3>2 DEF Element
  <2> HIDE DEF Fresh
  <2> QED BY <2>1, <2>2 DEF Elements, Registered
<1>3. CASE UNCHANGED vars
  BY <1>3 DEF vars, Elements
<1> QED BY <1>1, <1>2, <1>3 DEF Next

\* TypeOK: when the lists have URIs each element that is published has one, its sensor
\* a namespace of the configuration and a device.
THEOREM Typed == ASSUME ListsHaveURI PROVE Spec => []TypeOK
<1>1. Init => Elements
  BY DEF Init, Elements
<1>2. Registered /\ Elements /\ [Next]_vars => Elements'
  BY ElementsNext
<1>3. Registered /\ Elements => TypeOK
  <2> SUFFICES ASSUME Registered, Elements PROVE TypeOK
    OBVIOUS
  <2>1. \A s \in DOMAIN fields : fields[s].ns \in NameSpaces /\ fields[s].device # <<>>
    BY RegisteredAt
  <2> QED BY <2>1 DEF TypeOK, Registered, Elements, Element
<1> QED BY <1>1, <1>2, <1>3, AlwaysRegistered, PTL DEF Spec

-----------------------------------------------------------------------------
\* translateReading wants the namespace for the link status of a CPU only.
LEMMA SameReading ==
    ASSUME NEW iface, NEW metric, NEW x, NEW ns,
           iface = "PortState" /\ metric = "LinkStatus" => ns # "CpuProcessorMetrics"
    PROVE  TranslateReading(iface, metric, x, ns) = TranslateReading(iface, metric, x, "")
BY DEF TranslateReading

\* Where the two functions know different things it makes no difference.
LEMMA SameValueText ==
    ASSUME SameFacts, NEW s \in Sensors, NEW ns \in Homes(s.path, s.prop), NEW x
    PROVE  ValueText(s.iface, s.prop, s.type, x, ns, IsStatus(s)) = GetMetricValue(s, x)
<1>1. TranslateReading(s.iface, s.prop, x, ns) = TranslateReading(s.iface, s.prop, x, "")
  BY SameReading DEF SameFacts
<1>2. s.type = "bool" => (IsStatus(s) <=> s.iface = "OperationalStatus")
  BY DEF SameFacts, IsStatus
<1> QED BY <1>1, <1>2 DEF ValueText, GetMetricValue

\* An update makes the text that publishing the reading would have made.
LEMMA SameTextNext ==
    ASSUME SameFacts, Registered, SameText, [Next]_vars
    PROVE  SameText'
<1>1. ASSUME NEW s \in Sensors, NEW r \in s.readings, Publish(s, r) PROVE SameText'
  BY <1>1 DEF Publish, With, SameText, Registered
<1>2. ASSUME NEW s \in Sensors, NEW r \in s.readings, Refresh(s, r) PROVE SameText'
  <2> DEFINE uri == GenerateURI(fields[s], s.path, s.prop, s.iface)
             D == IF uri = <<>> THEN {} ELSE {Plain}
             Txt(x) == ValueText(s.iface, s.prop, s.type, x, fields[s].ns, IsStatus(s))
             Fresh(i) == [shown[s][i] EXCEPT !.text = GetMetricValue(s, r[1])]
  <2>1. /\ s \in DOMAIN fields /\ UNCHANGED fields /\ s.type \notin Lists
        /\ shown' = [shown EXCEPT ![s] = [i \in DOMAIN shown[s] |-> Fresh(i)]]
        /\ last' = [last EXCEPT ![s] = r]
    BY <1>2 DEF Refresh
  <2>2. \A q : GetMetricValues(fields[s], s, q)
                  = [i \in D |-> [uri |-> uri, index |-> Plain, text |-> Txt(q[1])]]
    BY <2>1 DEF GetMetricValues
  <2>3. Txt(r[1]) = GetMetricValue(s, r[1])
    <3>1. fields[s].ns \in Homes(s.path, s.prop)
      BY <2>1, RegisteredAt
    <3> QED BY <3>1, SameValueText
  <2> HIDE DEF uri, D, Txt
  <2>4. shown[s] = [i \in D |-> [uri |-> uri, index |-> Plain, text |-> Txt(last[s][1])]]
    BY <2>1, <2>2 DEF SameText, Registered
  <2>5. [i \in DOMAIN shown[s] |-> Fresh(i)] = GetMetricValues(fields[s], s, r)
    <3>1. \A i \in D : Fresh(i) = [uri |-> uri, index |-> Plain, text |-> Txt(r[1])]
      BY <2>3, <2>4
    <3>2. DOMAIN shown[s] = D
      BY <2>4
    <3>3. GetMetricValues(fields[s], s, r)
              = [i \in D |-> [uri |-> uri, index |-> Plain, text |-> Txt(r[1])]]
      BY <2>2
    <3> HIDE DEF Fresh
    <3> QED BY <3>1, <3>2, <3>3
  <2> HIDE DEF Fresh
  <2> QED BY <2>1, <2>5 DEF SameText, Registered
<1>3. CASE UNCHANGED vars
  BY <1>3 DEF vars, SameText
<1> QED BY <1>1, <1>2, <1>3 DEF Next

\* SameText: when the CPU's ports report no link status and only a software inventory
\* has a BOOLEAN operational status, getMetricValue and getMetricValues agree.
THEOREM TextsAgree == ASSUME SameFacts PROVE Spec => []SameText
<1>1. Init => SameText
  BY DEF Init, SameText
<1>2. Registered /\ SameText /\ [Next]_vars => SameText'
  BY SameTextNext
<1> QED BY <1>1, <1>2, AlwaysRegistered, PTL DEF Spec

-----------------------------------------------------------------------------
\* x is a and then b, word by word.
OneThenOther(x, a, b) ==
    /\ Len(x) = Len(a) + Len(b)
    /\ \A i \in 1 .. Len(a) : x[i] = a[i]
    /\ \A i \in 1 .. Len(b) : x[Len(a) + i] = b[i]

\* What stands where in two sequences, one after the other.
LEMMA Joined ==
    ASSUME NEW S, NEW a \in Seq(S), NEW b \in Seq(S)
    PROVE  a \o b \in Seq(S) /\ OneThenOther(a \o b, a, b)
BY ConcatProperties DEF OneThenOther

\* a is followed by a word that is not in W, and that by words of W.
Cut(S, W, a, c, m) == a \in Seq(S) /\ c \in S \ W /\ m \in Seq(W)

\* A sequence that is cut at its last word outside W is cut in one way.
LEMMA LastCut ==
    ASSUME NEW S, NEW W, W \subseteq S, NEW a, NEW b, NEW c, NEW d, NEW m, NEW n,
           Cut(S, W, a, c, m), Cut(S, W, b, d, n),
           a \o <<c>> \o m = b \o <<d>> \o n
    PROVE  a = b /\ c = d /\ m = n
<1> USE DEF Cut
<1> DEFINE X == a \o <<c>> \o m
<1>1. \A u \in Seq(S), e \in S, w \in Seq(W) :
          /\ Len(u \o <<e>> \o w) = Len(u) + 1 + Len(w)
          /\ \A i \in 1 .. Len(u) : (u \o <<e>> \o w)[i] = u[i]
          /\ (u \o <<e>> \o w)[Len(u) + 1] = e
          /\ \A i \in 1 .. Len(w) : (u \o <<e>> \o w)[Len(u) + 1 + i] = w[i] /\ w[i] \in W
  <2>1. TAKE u \in Seq(S), e \in S, w \in Seq(W)
  <2>2. w \in Seq(S) /\ <<e>> \in Seq(S)
    BY SeqMonotonic
  <2>3. /\ u \o <<e>> \in Seq(S) /\ Len(u \o <<e>>) = Len(u) + 1
        /\ \A i \in 1 .. Len(u) : (u \o <<e>>)[i] = u[i]
        /\ (u \o <<e>>)[Len(u) + 1] = e
    <3> DEFINE v == <<e>>
    <3>1. v \in Seq(S) /\ Len(v) = 1 /\ v[1] = e
      BY <2>2
    <3>2. u \o v \in Seq(S) /\ OneThenOther(u \o v, u, v)
      <4> HIDE DEF v
      <4> QED BY <3>1, Joined
    <3> HIDE DEF v
    <3>3. /\ u \o v \in Seq(S) /\ Len(u \o v) = Len(u) + 1
          /\ \A i \in 1 .. Len(u) : (u \o v)[i] = u[i]
          /\ (u \o v)[Len(u) + 1] = e
      BY <3>1, <3>2 DEF OneThenOther
    <3> QED BY <3>3 DEF v
  <2> DEFINE v == u \o <<e>>
  <2>4. OneThenOther(v \o w, v, w)
    <3> HIDE DEF v
    <3>1. v \in Seq(S)
      BY <2>3 DEF v
    <3> QED BY <3>1, <2>2, Joined
  <2>5. Len(u) \in Nat /\ Len(w) \in Nat /\ \A i \in 1 .. Len(w) : w[i] \in W
    OBVIOUS
  <2> HIDE DEF v
  <2>6. v \o w = u \o <<e>> \o w
    BY DEF v
  <2>7. /\ Len(v) = Len(u) + 1 /\ v[Len(u) + 1] = e
        /\ \A i \in 1 .. Len(u) : v[i] = u[i]
    BY <2>3 DEF v
  <2> QED BY <2>4, <2>5, <2>6, <2>7 DEF OneThenOther
<1>2. Len(a) \in Nat /\ Len(b) \in Nat /\ Len(m) \in Nat /\ Len(n) \in Nat
  OBVIOUS
<1>3. /\ Len(X) = Len(a) + 1 + Len(m)
      /\ \A i \in 1 .. Len(a) : X[i] = a[i]
      /\ X[Len(a) + 1] = c
      /\ \A i \in 1 .. Len(m) : X[Len(a) + 1 + i] = m[i] /\ m[i] \in W
  BY <1>1
<1>4. /\ Len(X) = Len(b) + 1 + Len(n)
      /\ \A i \in 1 .. Len(b) : X[i] = b[i]
      /\ X[Len(b) + 1] = d
      /\ \A i \in 1 .. Len(n) : X[Len(b) + 1 + i] = n[i] /\ n[i] \in W
  BY <1>1
<1> HIDE DEF X
<1>5. ~(Len(a) < Len(b))
  <2>1. SUFFICES ASSUME Len(a) < Len(b) PROVE FALSE
    OBVIOUS
  <2> DEFINE k == Len(b) - Len(a)
  <2>2. k \in 1 .. Len(m)
    BY <2>1, <1>2, <1>3, <1>4
  <2>3. Len(b) + 1 = Len(a) + 1 + k
    BY <1>2
  <2> HIDE DEF k
  <2>4. X[Len(a) + 1 + k] \in W
    BY <1>3, <2>2
  <2> QED BY <2>3, <2>4, <1>4
<1>6. ~(Len(b) < Len(a))
  <2>1. SUFFICES ASSUME Len(b) < Len(a) PROVE FALSE
    OBVIOUS
  <2> DEFINE k == Len(a) - Len(b)
  <2>2. k \in 1 .. Len(n)
    BY <2>1, <1>2, <1>3, <1>4
  <2>3. Len(a) + 1 = Len(b) + 1 + k
    BY <1>2
  <2> HIDE DEF k
  <2>4. X[Len(b) + 1 + k] \in W
    BY <1>4, <2>2
  <2> QED BY <2>3, <2>4, <1>3
<1>7. Len(a) = Len(b) /\ Len(m) = Len(n)
  BY <1>2, <1>3, <1>4, <1>5, <1>6
<1>8. c = d
  BY <1>3, <1>4, <1>7
<1>9. a = b
  BY <1>3, <1>4, <1>7, SeqEqual
<1>10. m = n
  BY <1>3, <1>4, <1>7, SeqEqual
<1> QED BY <1>8, <1>9, <1>10

\* a has words of W, and what follows does not begin with one.
Ends(S, W, a, m) == a \in Seq(W) /\ m \in Seq(S) /\ (m = <<>> \/ m[1] \notin W)

\* A sequence that is cut at its first word outside W is cut in one way.
LEMMA FirstCut ==
    ASSUME NEW S, NEW W, W \subseteq S, NEW a, NEW b, NEW m, NEW n,
           Ends(S, W, a, m), Ends(S, W, b, n), a \o m = b \o n
    PROVE  a = b /\ m = n
<1> USE DEF Ends
<1> DEFINE X == a \o m
<1>1. Len(a) \in Nat /\ Len(b) \in Nat /\ Len(m) \in Nat /\ Len(n) \in Nat
  OBVIOUS
<1>2. a \in Seq(S) /\ b \in Seq(S) /\ m \in Seq(S) /\ n \in Seq(S)
  BY SeqMonotonic
<1>3. /\ Len(X) = Len(a) + Len(m)
      /\ \A i \in 1 .. Len(a) : X[i] = a[i] /\ a[i] \in W
      /\ \A i \in 1 .. Len(m) : X[Len(a) + i] = m[i]
  <2>1. OneThenOther(X, a, m)
    BY <1>2, Joined
  <2> QED BY <2>1 DEF OneThenOther
<1>4. /\ Len(X) = Len(b) + Len(n)
      /\ \A i \in 1 .. Len(b) : X[i] = b[i] /\ b[i] \in W
      /\ \A i \in 1 .. Len(n) : X[Len(b) + i] = n[i]
  <2>1. OneThenOther(X, b, n)
    BY <1>2, Joined
  <2> QED BY <2>1 DEF OneThenOther
<1>5. (Len(m) > 0 => m[1] \notin W) /\ (Len(n) > 0 => n[1] \notin W)
  BY EmptySeq
<1> HIDE DEF X
<1>6. ~(Len(a) < Len(b))
  <2>1. SUFFICES ASSUME Len(a) < Len(b) PROVE FALSE
    OBVIOUS
  <2>2. 1 \in 1 .. Len(m) /\ Len(a) + 1 \in 1 .. Len(b)
    BY <2>1, <1>1, <1>3, <1>4
  <2>3. X[Len(a) + 1] = m[1] /\ X[Len(a) + 1] \in W
    BY <2>2, <1>3, <1>4
  <2> QED BY <2>2, <2>3, <1>5
<1>7. ~(Len(b) < Len(a))
  <2>1. SUFFICES ASSUME Len(b) < Len(a) PROVE FALSE
    OBVIOUS
  <2>2. 1 \in 1 .. Len(n) /\ Len(b) + 1 \in 1 .. Len(a)
    BY <2>1, <1>1, <1>3, <1>4
  <2>3. X[Len(b) + 1] = n[1] /\ X[Len(b) + 1] \in W
    BY <2>2, <1>3, <1>4
  <2> QED BY <2>2, <2>3, <1>5
<1>8. Len(a) = Len(b) /\ Len(m) = Len(n)
  BY <1>1, <1>3, <1>4, <1>6, <1>7
<1>9. a = b
  BY <1>3, <1>4, <1>8, SeqEqual
<1>10. m = n
  BY <1>3, <1>4, <1>8, SeqEqual
<1> QED BY <1>9, <1>10

\* The words that names are made of, those that the code puts there included; the
\* resources, and the words that their texts are made of.
NameWords     == Words \cup {"0", "/", "CLink", "NVLink", "NVLinkFabric_0", "PCIeRetimerTopology_"}
Steps         == [collection : Collections, name : Seq(NameWords)]
Resources     == Seq(Steps)
ResourceWords == NameWords \cup Collections

\* No name has a word that a collection or a leaf begins with, no resource a fragment.
LEMMA WordsApart ==
    /\ Collections \cap NameWords = {} /\ Openings \cap ResourceWords = {}
    /\ NameWords \subseteq ResourceWords /\ Collections \subseteq ResourceWords
    /\ "#" \in Openings /\ "#" \notin ResourceWords
<1>1. Openings \cap Collections = {} /\ "#" \in Openings
  BY DEF Openings, Collections
<1>2. Collections \cap NameWords = {}
  BY DEF NameWords, Words, Collections
<1>3. Openings \cap NameWords = {}
  BY DEF NameWords, Words, Openings
<1> QED BY <1>1, <1>2, <1>3 DEF ResourceWords

\* A step is a collection and a name.
LEMMA StepTypes ==
    ASSUME NEW r \in Resources
    PROVE  /\ Len(r) \in Nat
           /\ \A k \in 1 .. Len(r) : r[k] \in Steps /\ r[k].collection \in Collections
                                     /\ r[k].name \in Seq(NameWords)
                                     /\ r[k] = [collection |-> r[k].collection, name |-> r[k].name]
<1>1. \A x \in Steps : x.collection \in Collections /\ x.name \in Seq(NameWords)
                       /\ x = [collection |-> x.collection, name |-> x.name]
  BY DEF Steps
<1>2. Len(r) \in Nat /\ \A k \in 1 .. Len(r) : r[k] \in Steps
  <2> HIDE DEF Steps
  <2> QED BY DEF Resources
<1> QED BY <1>1, <1>2

\* A resource's text is its steps' texts, one after the other.
AreTexts(h, r) ==
    /\ h[0] = <<>>
    /\ \A k \in 1 .. Len(r) : /\ h[k] = h[k - 1] \o <<r[k].collection>> \o r[k].name
                              /\ h[k - 1] \in Seq(ResourceWords)
    /\ h[Len(r)] \in Seq(ResourceWords)

\* The recursive function of the model is that.
LEMMA TextsAre ==
    ASSUME NEW r \in Resources
    PROVE  AreTexts(Texts(r), r)
<1> DEFINE N == Len(r)
           T == Seq(ResourceWords)
           More(t, k) == t \o <<r[k].collection>> \o r[k].name
           S == [k \in 0 .. N |-> T]
           step == [k \in 1 .. N |-> [t \in T |-> More(t, k)]]
           text == CHOOSE f : f = [k \in 0 .. N |-> IF k = 0 THEN <<>> ELSE More(f[k - 1], k)]
<1>1. N \in Nat
  BY StepTypes
<1>2. \A k \in 1 .. N : \A t \in T : More(t, k) \in T
  <2>1. TAKE k \in 1 .. N
  <2>2. <<r[k].collection>> \in T /\ r[k].name \in T
    <3>1. r[k].collection \in ResourceWords /\ r[k].name \in Seq(NameWords)
      BY StepTypes, WordsApart
    <3>2. Seq(NameWords) \subseteq Seq(ResourceWords)
      BY WordsApart, SeqMonotonic
    <3> QED BY <3>1, <3>2
  <2> QED BY <2>2, ConcatProperties
<1>3. PICK h : Iterates(h, step, <<>>, N) /\ Within(h, S, N)
  <2>1. <<>> \in S[0]
    BY <1>1
  <2>2. Keeps(step, S, N)
    <3>1. ASSUME NEW k \in 1 .. N, NEW t \in S[k - 1] PROVE step[k][t] \in S[k]
      <4> HIDE DEF More, T
      <4> QED BY <1>1, <1>2
    <3> HIDE DEF step, S, N
    <3> QED BY <3>1 DEF Keeps
  <2> HIDE DEF S, step, N
  <2> QED BY <1>1, <2>1, <2>2, Recursion
<1> HIDE DEF More, T
<1>4. \A k \in 0 .. N : h[k] \in T
  BY <1>3 DEF Within
<1>5. h = [k \in 0 .. N |-> IF k = 0 THEN <<>> ELSE More(h[k - 1], k)]
  <2>1. \A k \in 1 .. N : step[k][h[k - 1]] = More(h[k - 1], k)
    BY <1>1, <1>4
  <2>2. h = [k \in 0 .. N |-> IF k = 0 THEN <<>> ELSE step[k][h[k - 1]]]
    BY <1>3 DEF Iterates
  <2>3. \A k \in 0 .. N : h[k] = IF k = 0 THEN <<>> ELSE More(h[k - 1], k)
    <3> HIDE DEF step, N
    <3> QED BY <1>1, <2>1, <2>2
  <2> HIDE DEF step, N
  <2> QED BY <2>2, <2>3
<1>6. text = [k \in 0 .. N |-> IF k = 0 THEN <<>> ELSE More(text[k - 1], k)]
  BY <1>5
<1>7. Texts(r) = text
  BY DEF Texts, More
<1> HIDE DEF text
<1>8. text[0] = <<>> /\ \A k \in 1 .. N : text[k] = More(text[k - 1], k)
  BY <1>1, <1>6
<1> DEFINE P == {k \in 0 .. N : text[k] \in T}
<1>9. 0 \in P
  <2>1. <<>> \in T
    BY DEF T
  <2> QED BY <1>1, <1>8, <2>1
<1>10. ASSUME NEW k \in 1 .. N, k - 1 \in P PROVE k \in P
  BY <1>1, <1>2, <1>8, <1>10
<1>11. 0 .. N \subseteq P
  <2> HIDE DEF P, N
  <2> QED BY <1>1, <1>9, <1>10, Ascent
<1>12. text[N] \in T /\ \A k \in 1 .. N : text[k - 1] \in T
  <2>1. \A k \in 0 .. N : text[k] \in T
    BY <1>11
  <2>2. N \in 0 .. N /\ \A k \in 1 .. N : k - 1 \in 0 .. N
    BY <1>1
  <2> QED BY <2>1, <2>2
<1> QED BY <1>7, <1>8, <1>12 DEF AreTexts, More, T

\* Two resources with the same text are the same.
LEMMA TextTells ==
    ASSUME NEW r \in Resources, NEW q \in Resources, Texts(r)[Len(r)] = Texts(q)[Len(q)]
    PROVE  r = q
<1> DEFINE f == Texts(r)
           g == Texts(q)
           Alike(k) == \A j \in 0 .. Len(q) :
                          f[k] = g[j] => k = j /\ \A i \in 1 .. k : r[i] = q[i]
           P == {k \in 0 .. Len(r) : Alike(k)}
<1>1. AreTexts(f, r) /\ AreTexts(g, q) /\ Len(r) \in Nat /\ Len(q) \in Nat
  BY TextsAre, StepTypes
<1> HIDE DEF f, g
<1>2. \A u \in Seq(ResourceWords), c \in Collections, w \in Seq(NameWords) : u \o <<c>> \o w # <<>>
  <2>1. TAKE u \in Seq(ResourceWords), c \in Collections, w \in Seq(NameWords)
  <2>4. Seq(NameWords) \subseteq Seq(ResourceWords) /\ c \in ResourceWords
    BY WordsApart, SeqMonotonic
  <2>2. w \in Seq(ResourceWords) /\ <<c>> \in Seq(ResourceWords) /\ u \in Seq(ResourceWords)
    BY <2>4
  <2>3. Len(u \o <<c>> \o w) = Len(u) + 1 + Len(w) /\ Len(u) \in Nat /\ Len(w) \in Nat
    BY <2>2
  <2> QED BY <2>3
<1>3. \A k \in 1 .. Len(r) : f[k] # <<>>
  <2>1. TAKE k \in 1 .. Len(r)
  <2>2. f[k] = f[k - 1] \o <<r[k].collection>> \o r[k].name /\ f[k - 1] \in Seq(ResourceWords)
    BY <1>1 DEF AreTexts
  <2>3. r[k].collection \in Collections /\ r[k].name \in Seq(NameWords)
    BY StepTypes
  <2> QED BY <1>2, <2>2, <2>3
<1>4. \A k \in 1 .. Len(q) : g[k] # <<>>
  <2>1. TAKE k \in 1 .. Len(q)
  <2>2. g[k] = g[k - 1] \o <<q[k].collection>> \o q[k].name /\ g[k - 1] \in Seq(ResourceWords)
    BY <1>1 DEF AreTexts
  <2>3. q[k].collection \in Collections /\ q[k].name \in Seq(NameWords)
    BY StepTypes
  <2> QED BY <1>2, <2>2, <2>3
<1>5. 0 \in P
  BY <1>1, <1>4 DEF AreTexts
<1>6. ASSUME NEW k \in 1 .. Len(r), k - 1 \in P PROVE k \in P
  <2>1. SUFFICES ASSUME NEW j \in 0 .. Len(q), f[k] = g[j]
                 PROVE  k = j /\ \A i \in 1 .. k : r[i] = q[i]
    BY <1>1
  <2>2. j \in 1 .. Len(q)
    BY <1>1, <1>3, <2>1 DEF AreTexts
  <2>3. /\ f[k] = f[k - 1] \o <<r[k].collection>> \o r[k].name
        /\ g[j] = g[j - 1] \o <<q[j].collection>> \o q[j].name
        /\ f[k - 1] \in Seq(ResourceWords) /\ g[j - 1] \in Seq(ResourceWords)
    BY <1>1, <2>2 DEF AreTexts
  <2>4. /\ r[k].collection \in ResourceWords \ NameWords /\ q[j].collection \in ResourceWords \ NameWords
        /\ r[k].name \in Seq(NameWords) /\ q[j].name \in Seq(NameWords) /\ NameWords \subseteq ResourceWords
    BY <2>2, StepTypes, WordsApart
  <2>5. f[k - 1] = g[j - 1] /\ r[k].collection = q[j].collection /\ r[k].name = q[j].name
    <3> DEFINE a == f[k - 1]
               b == g[j - 1]
               c == r[k].collection
               d == q[j].collection
               m == r[k].name
               n == q[j].name
    <3>1. a \o <<c>> \o m = b \o <<d>> \o n
      BY <2>1, <2>3
    <3>2. /\ a \in Seq(ResourceWords) /\ b \in Seq(ResourceWords)
          /\ c \in ResourceWords \ NameWords /\ d \in ResourceWords \ NameWords
          /\ m \in Seq(NameWords) /\ n \in Seq(NameWords) /\ NameWords \subseteq ResourceWords
      BY <2>3, <2>4
    <3>3. Cut(ResourceWords, NameWords, a, c, m) /\ Cut(ResourceWords, NameWords, b, d, n)
      BY <3>2 DEF Cut
    <3> HIDE DEF a, b, c, d, m, n
    <3>4. a = b /\ c = d /\ m = n
      BY <3>1, <3>2, <3>3, LastCut
    <3> QED BY <3>4 DEF a, b, c, d, m, n
  <2>6. r[k] = q[j]
    BY <2>2, <2>5, StepTypes
  <2>7. k - 1 = j - 1 /\ \A i \in 1 .. k - 1 : r[i] = q[i]
    <3>1. Alike(k - 1) /\ j - 1 \in 0 .. Len(q)
      BY <1>6, <2>2, <1>1
    <3> QED BY <3>1, <2>5
  <2> QED BY <1>1, <2>2, <2>6, <2>7
<1>7. 0 .. Len(r) \subseteq P
  <2> HIDE DEF P
  <2> QED BY <1>1, <1>5, <1>6, Ascent
<1>8. Len(r) = Len(q) /\ \A i \in 1 .. Len(r) : r[i] = q[i]
  BY <1>1, <1>7 DEF f, g
<1>9. r \in Seq(Steps) /\ q \in Seq(Steps)
  BY DEF Resources
<1> HIDE DEF P
<1> QED BY <1>8, <1>9, SeqEqual

\* What a URI may end with, and a resource with such an end.
Fits(l)    == l = <<>> \/ (l \in Seq(STRING) /\ l # <<>> /\ l[1] \in Openings)
IsPlace(x) == x.resource \in Resources /\ x = At(x.resource, x.leaf)

\* Two places with the same text are the same.
LEMMA PlaceTells ==
    ASSUME NEW x, NEW y, IsPlace(x), IsPlace(y), Fits(x.leaf), Fits(y.leaf), TextOf(x) = TextOf(y)
    PROVE  x = y
<1> DEFINE r == x.resource
           q == y.resource
           a == Texts(r)[Len(r)]
           b == Texts(q)[Len(q)]
           S == STRING \cup ResourceWords
<1>1. r \in Resources /\ q \in Resources
  BY DEF IsPlace
<1>2. a \in Seq(ResourceWords) /\ b \in Seq(ResourceWords)
  BY <1>1, TextsAre DEF AreTexts
<1>3. \A l : Fits(l) => l \in Seq(S) /\ (l = <<>> \/ l[1] \notin ResourceWords)
  <2>1. TAKE l
  <2>2. Seq(STRING) \subseteq Seq(S) /\ <<>> \in Seq(S)
    BY SeqMonotonic
  <2> HIDE DEF S
  <2> QED BY <2>2, WordsApart DEF Fits
<1>4. a \o x.leaf = b \o y.leaf
  BY DEF TextOf
<1>5. a = b /\ x.leaf = y.leaf
  <2> DEFINE m == x.leaf
             n == y.leaf
  <2>1. /\ ResourceWords \subseteq S /\ m \in Seq(S) /\ n \in Seq(S)
        /\ (m = <<>> \/ m[1] \notin ResourceWords) /\ (n = <<>> \/ n[1] \notin ResourceWords)
        /\ a \o m = b \o n
    BY <1>3, <1>4
  <2> HIDE DEF a, b, m, n, S
  <2>2. Ends(S, ResourceWords, a, m) /\ Ends(S, ResourceWords, b, n)
    BY <1>2, <2>1 DEF Ends
  <2>3. a = b /\ m = n
    BY <2>1, <2>2, FirstCut
  <2> QED BY <2>3 DEF m, n
<1>6. r = q
  <2> HIDE DEF r, q
  <2> QED BY <1>1, <1>5, TextTells DEF a, b
<1> QED BY <1>5, <1>6 DEF IsPlace

\* A name in a collection is a resource.
LEMMA InType ==
    ASSUME NEW c \in Collections, NEW name \in Seq(NameWords)
    PROVE  In(c, name) \in Resources
BY DEF In, Resources, Steps

\* What is in a resource is one.
LEMMA InsideType ==
    ASSUME NEW r \in Resources, NEW q \in Resources
    PROVE  r \o q \in Resources
BY ConcatProperties DEF Resources

\* A leaf of a resource is a place.
LEMMA AtType ==
    ASSUME NEW r \in Resources, NEW l
    PROVE  IsPlace(At(r, l))
BY DEF IsPlace, At

\* The resources that the names make.
LEMMA ResourceTypes ==
    ASSUME PlainNames, NEW name \in Seq(NameWords)
    PROVE  /\ Systems(name) \in Resources /\ Chassis(name) \in Resources
           /\ Fabrics(name) \in Resources /\ Processor(name) \in Resources
           /\ Port(name) \in Resources /\ Switch(name) \in Resources
           /\ OwnChassis(name) \in Resources /\ PCIeDevice(name) \in Resources
           /\ Memory(name) \in Resources /\ In("/Switches/", name) \in Resources
           /\ In("/NetworkAdapters/", name) \in Resources /\ In("/Sensors/", name) \in Resources
           /\ In("/redfish/v1/UpdateService/SoftwareInventory/", name) \in Resources
<1>1. Collections =
          {"/redfish/v1/Systems/", "/redfish/v1/Chassis/", "/redfish/v1/Fabrics/",
           "/redfish/v1/UpdateService/SoftwareInventory/", "/Processors/", "/Ports/", "/Sensors/",
           "/Switches/", "/PCIeDevices/", "/Memory/", "/NetworkAdapters/"}
  BY DEF Collections
<1>2. SystemId \in Seq(NameWords) /\ Prefix \in NameWords
  <2>1. Seq(Words) \subseteq Seq(NameWords) /\ Words \subseteq NameWords
    BY SeqMonotonic DEF NameWords
  <2> QED BY <2>1 DEF PlainNames
<1>3. <<Prefix, "NVLinkFabric_0">> \in Seq(NameWords) /\ <<Prefix>> \o name \in Seq(NameWords)
  <2>1. "NVLinkFabric_0" \in NameWords
    BY DEF NameWords
  <2> QED BY <1>2, <2>1
<1>4. \A n \in Seq(NameWords) :
          /\ Systems(n) \in Resources /\ Chassis(n) \in Resources
          /\ Fabrics(n) \in Resources /\ In("/Processors/", n) \in Resources
          /\ Port(n) \in Resources /\ PCIeDevice(n) \in Resources
          /\ In("/Memory/", n) \in Resources /\ In("/Switches/", n) \in Resources
          /\ In("/NetworkAdapters/", n) \in Resources /\ In("/Sensors/", n) \in Resources
          /\ In("/redfish/v1/UpdateService/SoftwareInventory/", n) \in Resources
  BY <1>1, InType DEF Systems, Chassis, Fabrics, Port, PCIeDevice
<1>5. OwnChassis(name) \in Resources
  BY <1>3, <1>4 DEF OwnChassis
<1>6. Processor(name) \in Resources
  BY <1>2, <1>4, InsideType DEF Processor
<1>7. Memory(name) \in Resources
  BY <1>2, <1>4, InsideType DEF Memory
<1>8. Switch(name) \in Resources
  BY <1>3, <1>4, InsideType DEF Switch
<1> QED BY <1>4, <1>5, <1>6, <1>7, <1>8

\* A set of numbers up to n has a greatest one.
LEMMA Greatest ==
    ASSUME NEW n \in Nat, NEW T, T \subseteq 1 .. n, T # {}
    PROVE  \E i \in T : \A j \in T : j <= i
<1> DEFINE D == {n - i : i \in T}
<1>1. D \subseteq Nat /\ D # {}
  <2>1. \A i \in T : n - i \in Nat
    OBVIOUS
  <2> QED BY <2>1
<1>2. PICK d \in D : \A e \in D : d <= e
  <2> HIDE DEF D
  <2> QED BY <1>1, Least
<1>3. PICK i \in T : d = n - i
  OBVIOUS
<1>4. \A j \in T : n - i <= n - j
  BY <1>2, <1>3
<1> QED BY <1>4

\* The names of a path.
LEMMA PathNames ==
    ASSUME NEW p \in Seq(Seq(NameWords))
    PROVE  /\ Filename(p) \in Seq(NameWords) /\ GrandparentName(p) \in Seq(NameWords)
           /\ Path(p) /\ \A i \in DOMAIN p : p[i] \in Seq(NameWords)
BY DEF Filename, GrandparentName, Path

\* What follows the last "_" of a name is one.
LEMMA RetimerIdType ==
    ASSUME NEW name \in Seq(NameWords)
    PROVE  RetimerId(name) \in Seq(NameWords)
<1> DEFINE at == {i \in DOMAIN name : name[i] = "_"}
           i == CHOOSE k \in at : \A j \in at : j <= k
<1>1. CASE at = {}
  <2>1. <<"0">> \in Seq(NameWords)
    BY DEF NameWords
  <2> QED BY <1>1, <2>1 DEF RetimerId
<1>2. CASE at # {}
  <2>1. DOMAIN name = 1 .. Len(name) /\ Len(name) \in Nat /\ at \subseteq DOMAIN name
    <3>1. at \subseteq DOMAIN name
      BY Zenon
    <3> HIDE DEF at
    <3> QED BY <3>1
  <2>2. \E k \in at : \A j \in at : j <= k
    <3> HIDE DEF at
    <3> QED BY <1>2, <2>1, Greatest
  <2>3. i \in 1 .. Len(name)
    BY <2>1, <2>2
  <2>4. RetimerId(name) = SubSeq(name, 1 + i, Len(name))
    BY <1>2 DEF RetimerId
  <2> HIDE DEF i, at
  <2>5. SubSeq(name, 1 + i, Len(name)) \in Seq(NameWords)
    <3>1. 1 + i \in Int /\ Len(name) \in Int
      BY <2>3
    <3>2. \A k \in 1 + i .. Len(name) : name[k] \in NameWords
      BY <2>3
    <3> QED BY <3>1, <3>2, SubSeqProperties
  <2> QED BY <2>4, <2>5
<1> QED BY <1>1, <1>2

\* The port of a CPU has the name of its sensor, but for a word.
LEMMA CpuPortType ==
    ASSUME NEW p \in Seq(Seq(NameWords)), NEW x \in CpuPort(p)
    PROVE  x.port \in Seq(NameWords)
<1> DEFINE leaf == Filename(p)
           known == cpuPortOemMetricMappings
           found == {i \in DOMAIN known : Has(leaf, known[i][1])}
           k(w) == CHOOSE i \in DOMAIN leaf : leaf[i] = w /\ \A j \in 1 .. i - 1 : leaf[j] # w
<1>1. leaf \in Seq(NameWords)
  BY PathNames
<1>2. PICK i \in found : x = [port |-> [leaf EXCEPT ![k(known[i][1])] = known[i][2]], metric |-> known[i][3]]
  <2> HIDE DEF leaf, k
  <2> QED BY Zenon DEF CpuPort, leaf, k
<1>3. known[i][2] \in NameWords /\ Has(leaf, known[i][1])
  <2>1. known[i][2] \in {"CLink", "NVLink"}
    BY <1>2 DEF cpuPortOemMetricMappings
  <2> QED BY <2>1, <1>2 DEF NameWords
<1>4. k(known[i][1]) \in DOMAIN leaf
  <2> DEFINE w == known[i][1]
             A == {j \in DOMAIN leaf : leaf[j] = w}
  <2>1. A \subseteq Nat /\ A # {}
    BY <1>1, <1>3 DEF Has
  <2>2. PICK j \in A : \A h \in A : j <= h
    <3> HIDE DEF A
    <3> QED BY <2>1, Least
  <2> HIDE DEF w, leaf
  <2>3. j \in DOMAIN leaf /\ leaf[j] = w /\ \A h \in 1 .. j - 1 : leaf[h] # w
    BY <1>1, <2>2
  <2> QED BY <2>3 DEF w
<1> DEFINE at == k(known[i][1])
           name == known[i][2]
<1>5. at \in 1 .. Len(leaf) /\ name \in NameWords
  BY <1>1, <1>3, <1>4
<1>6. x.port = [leaf EXCEPT ![at] = name]
  BY <1>2
<1> HIDE DEF at, name, leaf
<1> QED BY <1>1, <1>5, <1>6, ExceptSeq

\* Of the texts between two marks of a path there is one that holds the others.
LEMMA Outermost ==
    ASSUME NEW n \in Nat, NEW A, A \subseteq 1 .. n, NEW B, B \subseteq 1 .. n,
           NEW E, E = {e \in A \X B : e[1] < e[2] - 1}, E # {}
    PROVE  \E x \in E : \A y \in E : x[1] <= y[1] /\ x[2] >= y[2]
<1> DEFINE First  == {e[1] : e \in E}
           Second == {e[2] : e \in E}
<1>1. \A e \in E : e[1] \in A /\ e[2] \in B /\ e[1] \in 1 .. n /\ e[2] \in 1 .. n /\ e[1] < e[2] - 1
  OBVIOUS
<1>2. First \subseteq Nat /\ First # {} /\ Second \subseteq 1 .. n /\ Second # {}
  BY <1>1
<1>3. PICK a \in First : \A i \in First : a <= i
  <2> HIDE DEF First
  <2> QED BY <1>2, Least
<1>4. PICK b \in Second : \A i \in Second : i <= b
  <2> HIDE DEF Second
  <2> QED BY <1>2, Greatest
<1>5. PICK e \in E : e[1] = a
  BY <1>3
<1>6. PICK d \in E : d[2] = b
  BY <1>4
<1>7. a \in A /\ b \in B /\ a < b - 1
  <2>1. a <= d[1] /\ d[1] < b - 1 /\ a \in 1 .. n /\ b \in 1 .. n /\ d[1] \in 1 .. n
    BY <1>1, <1>3, <1>5, <1>6
  <2> QED BY <1>1, <1>5, <1>6, <2>1
<1>8. <<a, b>> \in E
  BY <1>7
<1>9. \A y \in E : a <= y[1] /\ b >= y[2]
  BY <1>1, <1>2, <1>3, <1>4
<1> QED BY <1>8, <1>9

\* The chassis of an adapter is the outermost text between its marks, names and "/".
LEMMA AdapterChassisType ==
    ASSUME PlainNames, NEW p \in Seq(Seq(NameWords)), NEW f, f.device \in Seq(NameWords)
    PROVE  AdapterChassis(f, p) \in Seq(NameWords)
<1> DEFINE A == {i \in DOMAIN p : p[i][Len(p[i])] = "chassis"}
           B == {i \in DOMAIN p : p[i][1] = "NetworkAdapters"}
           ends == {e \in (DOMAIN p) \X (DOMAIN p) :
                       /\ e[1] < e[2] - 1
                       /\ p[e[1]][Len(p[e[1]])] = "chassis" /\ p[e[2]][1] = "NetworkAdapters"}
           e == CHOOSE x \in ends : \A y \in ends : x[1] <= y[1] /\ x[2] >= y[2]
           T == Seq(NameWords)
           N == e[2] - e[1] - 2
           More(t, k) == t \o <<"/">> \o p[e[1] + 1 + k]
           joined == CHOOSE g : g = [k \in 0 .. N |-> IF k = 0 THEN p[e[1] + 1] ELSE More(g[k - 1], k)]
<1>1. DOMAIN p = 1 .. Len(p) /\ Len(p) \in Nat /\ \A i \in DOMAIN p : p[i] \in T
  BY PathNames DEF Path
<1>2. CASE ends = {}
  <2>1. AdapterChassis(f, p) = <<Prefix>> \o f.device
    BY <1>2, Zenon DEF AdapterChassis
  <2>2. Prefix \in NameWords
    BY DEF PlainNames, NameWords
  <2> QED BY <2>1, <2>2
<1>3. CASE ends # {}
  <2>1. AdapterChassis(f, p) = joined[N]
    BY <1>3, Zenon DEF AdapterChassis
  <2>2. e \in ends
    <3>1. ends = {x \in A \X B : x[1] < x[2] - 1}
      BY Zenon
    <3>2. A \subseteq 1 .. Len(p) /\ B \subseteq 1 .. Len(p)
      BY <1>1
    <3>3. \E x \in ends : \A y \in ends : x[1] <= y[1] /\ x[2] >= y[2]
      <4> HIDE DEF A, B, ends
      <4> QED BY <1>1, <1>3, <3>1, <3>2, Outermost
    <3> HIDE DEF ends
    <3> QED BY <3>3
  <2>3. e[1] \in 1 .. Len(p) /\ e[2] \in 1 .. Len(p) /\ e[1] < e[2] - 1
    <3> HIDE DEF e
    <3> QED BY <1>1, <2>2
  <2> HIDE DEF e, ends
  <2>4. N \in Nat /\ p[e[1] + 1] \in T /\ \A k \in 1 .. N : p[e[1] + 1 + k] \in T
    <3>1. \A l \in Nat : \A x, y \in 1 .. l : x < y - 1 =>
              /\ y - x - 2 \in Nat /\ x + 1 \in 1 .. l
              /\ \A k \in 1 .. y - x - 2 : x + 1 + k \in 1 .. l
      OBVIOUS
    <3>2. N \in Nat /\ e[1] + 1 \in 1 .. Len(p) /\ \A k \in 1 .. N : e[1] + 1 + k \in 1 .. Len(p)
      BY <1>1, <2>3, <3>1
    <3> QED BY <1>1, <3>2
  <2>5. \A k \in 1 .. N : \A t \in T : More(t, k) \in T
    <3>1. <<"/">> \in T
      BY DEF NameWords
    <3> HIDE DEF N
    <3> QED BY <2>4, <3>1, ConcatProperties
  <2> DEFINE S == [k \in 0 .. N |-> T]
             step == [k \in 1 .. N |-> [t \in T |-> More(t, k)]]
             b == p[e[1] + 1]
  <2> HIDE DEF More, T, N
  <2>6. PICK h : Iterates(h, step, b, N) /\ Within(h, S, N)
    <3>1. b \in S[0]
      BY <2>4
    <3>2. Keeps(step, S, N)
      <4>1. ASSUME NEW k \in 1 .. N, NEW t \in S[k - 1] PROVE step[k][t] \in S[k]
        BY <2>4, <2>5
      <4> HIDE DEF step, S
      <4> QED BY <4>1 DEF Keeps
    <3> HIDE DEF S, step, b
    <3> QED BY <2>4, <3>1, <3>2, Recursion
  <2>7. \A k \in 0 .. N : h[k] \in T
    BY <2>6 DEF Within
  <2>8. h = [k \in 0 .. N |-> IF k = 0 THEN b ELSE More(h[k - 1], k)]
    <3>1. \A k \in 1 .. N : step[k][h[k - 1]] = More(h[k - 1], k)
      BY <2>4, <2>7
    <3>2. h = [k \in 0 .. N |-> IF k = 0 THEN b ELSE step[k][h[k - 1]]]
      BY <2>6 DEF Iterates
    <3>3. \A k \in 0 .. N : h[k] = IF k = 0 THEN b ELSE More(h[k - 1], k)
      <4> HIDE DEF step, b
      <4> QED BY <2>4, <3>1, <3>2
    <3> HIDE DEF step, b
    <3> QED BY <3>2, <3>3
  <2>9. joined = [k \in 0 .. N |-> IF k = 0 THEN b ELSE More(joined[k - 1], k)]
    BY <2>8
  <2> HIDE DEF joined, b
  <2> DEFINE P == {k \in 0 .. N : joined[k] \in T}
  <2>10. 0 \in P
    BY <2>4, <2>9 DEF b
  <2>11. ASSUME NEW k \in 1 .. N, k - 1 \in P PROVE k \in P
    BY <2>4, <2>5, <2>9, <2>11
  <2>12. 0 .. N \subseteq P
    <3> HIDE DEF P
    <3> QED BY <2>4, <2>10, <2>11, Ascent
  <2>13. joined[N] \in T
    BY <2>4, <2>12
  <2> QED BY <2>1, <2>13 DEF T
<1> QED BY <1>2, <1>3

\* A sensor is a resource, with or without the platform's prefix.
LEMMA SensorType ==
    ASSUME PlainNames, NEW f, f.device \in Seq(NameWords), f.subDevice \in Seq(NameWords)
    PROVE  Sensor(f) \in Resources
<1>1. Prefixed(f.device) \in Seq(NameWords)
  <2>1. Prefix \in NameWords
    BY DEF PlainNames, NameWords
  <2>2. <<Prefix>> \o f.device \in Seq(NameWords)
    BY <2>1
  <2> QED BY <2>2 DEF Prefixed
<1> QED BY <1>1, ResourceTypes, InsideType DEF Sensor

\* So is the place of what has no URI.
LEMMA NowherePlace == IsPlace(Nowhere)
<1>1. <<>> \in Resources
  BY DEF Resources
<1> QED BY <1>1, AtType DEF Nowhere

\* The branches of CpuProcessorMetrics make a resource from the names, whatever the leaf.
LEMMA CpuProcessorPlace ==
    ASSUME PlainNames, NEW p \in Seq(Seq(NameWords)), NEW metric, NEW iface,
           NEW f, f.device \in Seq(NameWords), f.subDevice \in Seq(NameWords)
    PROVE  IsPlace(CpuProcessorAt(f, p, metric, iface))
<1> DEFINE c == CHOOSE x \in CpuPort(p) : TRUE
<1>1. Sensor(f) \in Resources /\ Processor(f.device) \in Resources
      /\ Processor(f.device) \o Port(f.subDevice) \in Resources
  BY SensorType, ResourceTypes, InsideType
<1>2. CpuPort(p) # {} => Processor(f.device) \o Port(c.port) \in Resources
  <2>1. SUFFICES ASSUME CpuPort(p) # {} PROVE Processor(f.device) \o Port(c.port) \in Resources
    OBVIOUS
  <2>2. c \in CpuPort(p)
    BY <2>1
  <2> HIDE DEF c
  <2>3. c.port \in Seq(NameWords)
    BY <2>2, CpuPortType
  <2> QED BY <1>1, <2>3, ResourceTypes, InsideType
<1>3. \A l : /\ IsPlace(At(Sensor(f), l)) /\ IsPlace(At(Processor(f.device), l))
             /\ IsPlace(At(Processor(f.device) \o Port(f.subDevice), l))
             /\ CpuPort(p) # {} => IsPlace(At(Processor(f.device) \o Port(c.port), l))
  <2> HIDE DEF c
  <2> QED BY <1>1, <1>2, AtType
<1> QED BY <1>3, NowherePlace DEF CpuProcessorAt

\* The branches of ProcessorMetrics.
LEMMA ProcessorPlace ==
    ASSUME PlainNames, NEW p \in Seq(Seq(NameWords)), NEW metric, NEW iface,
           NEW f, f.device \in Seq(NameWords)
    PROVE  IsPlace(ProcessorAt(f, p, metric, iface))
<1> DEFINE child == Filename(p)
<1>1. /\ Processor(f.device) \in Resources /\ OwnChassis(f.device) \in Resources
      /\ Processor(GrandparentName(p)) \in Resources
      /\ OwnChassis(child) \o PCIeDevice(child) \in Resources
  BY PathNames, ResourceTypes, InsideType
<1> HIDE DEF child
<1>2. \A l : /\ IsPlace(At(Processor(f.device), l)) /\ IsPlace(At(OwnChassis(f.device), l))
             /\ IsPlace(At(Processor(GrandparentName(p)), l))
             /\ IsPlace(At(OwnChassis(child) \o PCIeDevice(child), l))
  BY <1>1, AtType
<1> QED BY <1>2 DEF ProcessorAt, child

\* The branches of HealthMetrics.
LEMMA HealthPlace ==
    ASSUME PlainNames, NEW p, NEW metric, NEW iface, NEW f, f.device \in Seq(NameWords)
    PROVE  IsPlace(HealthAt(f, p, metric, iface))
<1>1. SystemId \in Seq(NameWords)
  <2>1. Seq(Words) \subseteq Seq(NameWords)
    BY SeqMonotonic DEF NameWords
  <2> QED BY <2>1 DEF PlainNames
<1>2. /\ In("/redfish/v1/UpdateService/SoftwareInventory/", f.device) \in Resources
      /\ Systems(SystemId) \in Resources /\ OwnChassis(f.device) \in Resources
  BY <1>1, ResourceTypes
<1> DEFINE soft == In("/redfish/v1/UpdateService/SoftwareInventory/", f.device)
           own  == IF <<Prefix>> \o f.device = SystemId THEN Systems(SystemId)
                   ELSE OwnChassis(f.device)
<1>3. soft \in Resources /\ own \in Resources
  BY <1>2
<1> HIDE DEF soft, own
<1>4. \A l : IsPlace(At(soft, l)) /\ IsPlace(At(own, l))
  BY <1>3, AtType
<1> QED BY <1>4, NowherePlace DEF HealthAt, soft, own

\* All namespaces.
LEMMA LocatedPlace ==
    ASSUME PlainNames, NEW p \in Seq(Seq(NameWords)), NEW metric, NEW iface,
           NEW f, f.device \in Seq(NameWords), f.subDevice \in Seq(NameWords)
    PROVE  IsPlace(Located(f, p, metric, iface))
<1>1. /\ Sensor(f) \in Resources /\ Processor(f.device) \in Resources
      /\ Switch(f.device) \in Resources /\ Memory(f.device) \in Resources
      /\ Port(f.subDevice) \in Resources
      /\ Chassis(f.device) \in Resources /\ PCIeDevice(f.subDevice) \in Resources
  BY SensorType, ResourceTypes
<1>2. Adapter(f, p) \in Resources
  <2>1. AdapterChassis(f, p) \in Seq(NameWords)
    BY AdapterChassisType
  <2>2. Chassis(AdapterChassis(f, p)) \in Resources /\ In("/NetworkAdapters/", f.device) \in Resources
    BY <2>1, ResourceTypes
  <2> QED BY <2>2, InsideType DEF Adapter
<1>3. Retimer(f.device) \in Resources
  <2>1. RetimerId(f.device) \in Seq(NameWords)
    BY RetimerIdType
  <2>2. Prefix \in NameWords /\ "PCIeRetimerTopology_" \in NameWords
    BY DEF PlainNames, NameWords
  <2>3. <<Prefix, "PCIeRetimerTopology_">> \o RetimerId(f.device) \in Seq(NameWords)
    BY <2>1, <2>2
  <2>4. /\ Fabrics(<<Prefix, "PCIeRetimerTopology_">> \o RetimerId(f.device)) \in Resources
        /\ In("/Switches/", f.device) \in Resources
    BY <2>3, ResourceTypes
  <2> QED BY <2>4, InsideType DEF Retimer
<1>4. \A l : /\ IsPlace(At(Sensor(f), l)) /\ IsPlace(At(Processor(f.device), l))
             /\ IsPlace(At(Processor(f.device) \o Port(f.subDevice), l))
             /\ IsPlace(At(Switch(f.device), l))
             /\ IsPlace(At(Switch(f.device) \o Port(f.subDevice), l))
             /\ IsPlace(At(Adapter(f, p) \o Port(f.subDevice), l))
             /\ IsPlace(At(Chassis(f.device) \o PCIeDevice(f.subDevice), l))
             /\ IsPlace(At(Retimer(f.device) \o Port(f.subDevice), l))
             /\ IsPlace(At(Memory(f.device), l))
  BY <1>1, <1>2, <1>3, InsideType, AtType
<1> QED BY <1>4, NowherePlace, CpuProcessorPlace, ProcessorPlace, HealthPlace DEF Located

\* The names that a sensor is registered with are plain.
LEMMA PlainFields ==
    ASSUME PlainNames, NEW s \in Sensors, NEW order \in Orders(Touched(s.path)),
           NEW f \in FieldsOf(s.path, s.prop, s.parent, order)
    PROVE  /\ s.path \in Seq(Seq(NameWords))
           /\ f.device \in Seq(NameWords) /\ f.subDevice \in Seq(NameWords)
<1> DEFINE p == s.path
           T == Seq(NameWords)
<1>1. p \in Seq(T) /\ s.parent \in T /\ <<>> \in T
  <2>1. Words \subseteq NameWords
    BY DEF NameWords
  <2>2. Seq(Words) \subseteq T
    BY <2>1, SeqMonotonic
  <2>3. Seq(Seq(Words)) \subseteq Seq(T)
    BY <2>2, SeqMonotonic
  <2> QED BY <2>2, <2>3 DEF PlainNames
<1>2. Path(p) /\ Parts(p) \subseteq T
  <2> HIDE DEF p, T
  <2>1. Len(p) \in Nat /\ DOMAIN p = 1 .. Len(p) /\ \A k \in DOMAIN p : p[k] \in T
    BY <1>1
  <2> QED BY <1>1, <2>1 DEF Path, Parts, Range
<1>3. PICK m : f = FieldsAt(f.ns, p, m, s.parent)
  BY <1>2, Placed
<1>4. BestNames(p, m) \in NamesOf(p)
  <2>1. NoNames \in NamesOf(p)
    BY DEF NoNames, NamesOf, Parts
  <2> QED BY <1>2, <2>1, NamesType DEF BestNames
<1>5. BestNames(p, m).device \in T /\ BestNames(p, m).subDevice \in T
  <2>1. BestNames(p, m).device \in Parts(p) /\ BestNames(p, m).subDevice \in Parts(p)
    BY <1>4 DEF NamesOf
  <2> QED BY <1>2, <2>1
<1>6. f.device = DeviceOf(BestNames(p, m), s.parent) /\ f.subDevice = BestNames(p, m).subDevice
  BY <1>3 DEF FieldsAt
<1> HIDE DEF T, p
<1>7. f.device \in T /\ f.subDevice \in T
  BY <1>1, <1>5, <1>6 DEF DeviceOf
<1> QED BY <1>1, <1>7 DEF T, p

\* Where a property may be found is a place with an end that fits.
LEMMA PlacesFit ==
    ASSUME PlainNames, LeavesFit, NEW s \in Sensors, NEW x \in PlacesOf(s)
    PROVE  IsPlace(x) /\ Fits(x.leaf)
<1>0. PICK order \in Orders(Touched(s.path)) :
          \E f \in FieldsOf(s.path, s.prop, s.parent, order) : x = Located(f, s.path, s.prop, s.iface)
  BY DEF PlacesOf
<1>1. PICK f \in FieldsOf(s.path, s.prop, s.parent, order) : x = Located(f, s.path, s.prop, s.iface)
  BY <1>0
<1>2. IsPlace(x)
  <2>1. /\ s.path \in Seq(Seq(NameWords))
        /\ f.device \in Seq(NameWords) /\ f.subDevice \in Seq(NameWords)
    BY PlainFields
  <2> QED BY <1>1, <2>1, LocatedPlace
<1>3. Fits(x.leaf)
  BY DEF LeavesFit, Fits
<1> QED BY <1>2, <1>3

\* A URI can be read in one way: when no name has a word that a collection or a leaf
\* begins with, equal URIs of any two sensors are the same leaf of the same resource,
\* name by name, whichever branches of generateURI made them.
THEOREM UrisTell ==
    ASSUME PlainNames, LeavesFit
    PROVE  \A s, t \in Sensors : \A x \in PlacesOf(s), y \in PlacesOf(t) :
               TextOf(x) = TextOf(y) => x = y
BY PlacesFit, PlaceTells

\* Each element has the URI of its sensor's fields, and its own index.
Made ==
    \A s \in DOMAIN fields : \A i \in DOMAIN shown[s] :
        /\ shown[s][i].uri = GenerateURI(fields[s], s.path, s.prop, s.iface)
        /\ shown[s][i].index = i

\* A step publishes elements so or leaves their URIs and indices.
LEMMA MadeNext ==
    ASSUME Registered, Elements, Made, [Next]_vars
    PROVE  Made'
<1>1. ASSUME NEW s \in Sensors, NEW r \in s.readings, Publish(s, r) PROVE Made'
  <2>1. PICK f : /\ fields' = With(fields, s, f)
                 /\ shown' = With(shown, s, GetMetricValues(f, s, r))
    BY <1>1 DEF Publish
  <2> DEFINE uri == GenerateURI(f, s.path, s.prop, s.iface)
             values == GetMetricValues(f, s, r)
  <2>2. \A i \in DOMAIN values : values[i].uri = uri /\ values[i].index = i
    <3> DEFINE Of(type, x, j) ==
                   [uri |-> uri, index |-> j,
                    text |-> ValueText(s.iface, s.prop, type, x, f.ns, IsStatus(s))]
    <3>1. \A type, x, j : Of(type, x, j).uri = uri /\ Of(type, x, j).index = j
      OBVIOUS
    <3>2. CASE s.type \in Lists
      <4>1. values = [j \in 0 .. Len(r) - 1 |-> Of(ElementOf[s.type], r[j + 1], j)]
        BY <3>2 DEF GetMetricValues
      <4> HIDE DEF Of, uri, values
      <4> QED BY <3>1, <4>1
    <3>3. CASE s.type \notin Lists
      <4>1. values = [j \in (IF uri = <<>> THEN {} ELSE {Plain}) |-> Of(s.type, r[1], Plain)]
        BY <3>3 DEF GetMetricValues
      <4> HIDE DEF Of, uri, values
      <4> QED BY <3>1, <4>1
    <3> QED BY <3>2, <3>3
  <2>3. s \notin DOMAIN fields
    BY <1>1 DEF Publish
  <2> HIDE DEF values, uri
  <2>4. /\ DOMAIN fields' = DOMAIN fields \cup {s}
        /\ fields'[s] = f /\ shown'[s] = values
        /\ \A t \in DOMAIN fields : fields'[t] = fields[t] /\ shown'[t] = shown[t]
    BY <2>1, <2>3 DEF With, Registered, values
  <2> QED BY <2>2, <2>4 DEF Made, uri
<1>2. ASSUME NEW s \in Sensors, NEW r \in s.readings, Refresh(s, r) PROVE Made'
  <2> DEFINE Fresh(i) == [shown[s][i] EXCEPT !.text = GetMetricValue(s, r[1])]
  <2>1. /\ s \in DOMAIN fields /\ UNCHANGED fields
        /\ shown' = [shown EXCEPT ![s] = [i \in DOMAIN shown[s] |-> Fresh(i)]]
    BY <1>2 DEF Refresh
  <2>2. \A i \in DOMAIN shown[s] : Fresh(i).uri = shown[s][i].uri /\ Fresh(i).index = shown[s][i].index
    <3>1. TAKE i \in DOMAIN shown[s]
    <3>2. shown[s][i] = [uri |-> shown[s][i].uri, index |-> shown[s][i].index, text |-> shown[s][i].text]
      BY <2>1 DEF Elements, Element
    <3> QED BY <3>2
  <2> HIDE DEF Fresh
  <2> QED BY <2>1, <2>2 DEF Made, Registered
<1>3. CASE UNCHANGED vars
  BY <1>3 DEF vars, Made
<1> QED BY <1>1, <1>2, <1>3 DEF Next

\* The inductive invariant of the URIs, when the lists have one.
LEMMA AlwaysMade ==
    ASSUME ListsHaveURI
    PROVE  Spec => [](Registered /\ Elements /\ Made)
<1>1. Init => Elements /\ Made
  BY DEF Init, Elements, Made
<1>2. Registered /\ Elements /\ Made /\ [Next]_vars => Elements' /\ Made'
  BY ElementsNext, MadeNext
<1> QED BY <1>1, <1>2, AlwaysRegistered, PTL DEF Spec

\* An element is found at one of its sensor's places.
LEMMA PlaceOfElement ==
    ASSUME Registered, Elements, Made, NEW s \in DOMAIN fields, NEW i \in DOMAIN shown[s]
    PROVE  s \in Sensors /\ \E x \in PlacesOf(s) : shown[s][i].uri = TextOf(x)
<1> DEFINE x == Located(fields[s], s.path, s.prop, s.iface)
<1>1. s \in Sensors
  BY DEF Registered
<1>2. shown[s][i].uri = TextOf(x) /\ TextOf(x) # <<>>
  <2>1. shown[s][i].uri = GenerateURI(fields[s], s.path, s.prop, s.iface)
    BY DEF Made
  <2>2. shown[s][i].uri # <<>>
    BY DEF Elements, Element
  <2> QED BY <2>1, <2>2 DEF GenerateURI
<1>3. TextOf(Nowhere) = <<>>
  <2>1. <<>> \in Resources /\ Len(<<>>) = 0
    BY DEF Resources
  <2>2. Texts(<<>>)[0] = <<>>
    BY <2>1, TextsAre DEF AreTexts
  <2> QED BY <2>1, <2>2 DEF TextOf, Nowhere, At
<1>4. PICK order \in Orders(Touched(s.path)) :
          fields[s] \in FieldsOf(s.path, s.prop, s.parent, order)
  BY DEF Registered
<1> HIDE DEF x
<1>5. x \in PlacesOf(s)
  BY <1>2, <1>3, <1>4 DEF PlacesOf, x
<1> QED BY <1>1, <1>2, <1>5

\* DistinctURIs: when no two sensors report the same leaf of the same resource, none of
\* their elements share a URI and an index.
THEOREM NoClash ==
    ASSUME PlainNames, LeavesFit, PerLeaf, ListsHaveURI
    PROVE  Spec => []DistinctURIs
<1>1. ASSUME Registered, Elements, Made PROVE DistinctURIs
  <2>1. SUFFICES ASSUME NEW s \in DOMAIN shown, NEW t \in DOMAIN shown,
                        NEW i \in DOMAIN shown[s], NEW j \in DOMAIN shown[t],
                        shown[s][i].uri = shown[t][j].uri, shown[s][i].index = shown[t][j].index
                 PROVE  s = t /\ i = j
    BY DEF DistinctURIs
  <2>2. s \in DOMAIN fields /\ t \in DOMAIN fields
    BY <1>1 DEF Registered
  <2>3. s \in Sensors /\ t \in Sensors
    BY <1>1, <2>2 DEF Registered
  <2>4. PICK x \in PlacesOf(s) : shown[s][i].uri = TextOf(x)
    BY <1>1, <2>2, PlaceOfElement
  <2>5. PICK y \in PlacesOf(t) : shown[t][j].uri = TextOf(y)
    BY <1>1, <2>2, PlaceOfElement
  <2>6. x = y
    BY <2>1, <2>3, <2>4, <2>5, UrisTell
  <2>7. s = t
    BY <2>3, <2>4, <2>5, <2>6 DEF PerLeaf
  <2>8. i = j
    BY <1>1, <2>1, <2>2 DEF Made
  <2> QED BY <2>7, <2>8
<1> QED BY <1>1, AlwaysMade, PTL

-----------------------------------------------------------------------------
\* A sequence of words, with one mark among them, or with none.
IsText(l) == \E W : l \in Seq(W)
Single(l) == IsText(l) /\ \E k \in DOMAIN l : \A j \in DOMAIN l : l[j] = "#" <=> j = k
Bare(l)   == IsText(l) /\ \A j \in DOMAIN l : l[j] # "#"

\* One text after the other.
LEMMA JoinedTexts ==
    ASSUME NEW a, NEW b, IsText(a), IsText(b)
    PROVE  /\ Len(a) \in Nat /\ DOMAIN a = 1 .. Len(a) /\ Len(b) \in Nat /\ DOMAIN b = 1 .. Len(b)
           /\ IsText(a \o b) /\ OneThenOther(a \o b, a, b)
           /\ DOMAIN (a \o b) = 1 .. Len(a) + Len(b)
<1>1. PICK W : a \in Seq(W)
  BY DEF IsText
<1>2. PICK V : b \in Seq(V)
  BY DEF IsText
<1> DEFINE S == W \cup V
<1>3. a \in Seq(S) /\ b \in Seq(S)
  <2>1. W \subseteq S /\ V \subseteq S
    OBVIOUS
  <2> HIDE DEF S
  <2> QED BY <1>1, <1>2, <2>1, SeqMonotonic
<1> HIDE DEF S
<1>4. a \o b \in Seq(S) /\ OneThenOther(a \o b, a, b)
  BY <1>3, Joined
<1> QED BY <1>3, <1>4 DEF IsText, OneThenOther

\* A mark stays the only one between texts without.
LEMMA MarkAlone ==
    /\ \A a, b : Bare(a) /\ Bare(b) => Bare(a \o b)
    /\ \A a, b : Single(a) /\ Bare(b) => Single(a \o b)
    /\ \A a, b : Bare(a) /\ Single(b) => Single(a \o b)
<1>1. ASSUME NEW a, NEW b, Bare(a), Bare(b) PROVE Bare(a \o b)
  <2>1. /\ Len(a) \in Nat /\ DOMAIN a = 1 .. Len(a) /\ Len(b) \in Nat /\ DOMAIN b = 1 .. Len(b)
        /\ IsText(a \o b) /\ OneThenOther(a \o b, a, b) /\ DOMAIN (a \o b) = 1 .. Len(a) + Len(b)
    BY <1>1, JoinedTexts DEF Bare
  <2>2. ASSUME NEW j \in DOMAIN (a \o b) PROVE (a \o b)[j] # "#"
    <3>1. CASE j \in 1 .. Len(a)
      BY <1>1, <2>1, <3>1 DEF OneThenOther, Bare
    <3>2. CASE j \notin 1 .. Len(a)
      <4>1. j - Len(a) \in 1 .. Len(b) /\ j = Len(a) + (j - Len(a))
        BY <2>1, <3>2
      <4> QED BY <1>1, <2>1, <4>1 DEF OneThenOther, Bare
    <3> QED BY <3>1, <3>2
  <2> QED BY <2>1, <2>2 DEF Bare
<1>2. ASSUME NEW a, NEW b, Single(a), Bare(b) PROVE Single(a \o b)
  <2>1. /\ Len(a) \in Nat /\ DOMAIN a = 1 .. Len(a) /\ Len(b) \in Nat /\ DOMAIN b = 1 .. Len(b)
        /\ IsText(a \o b) /\ OneThenOther(a \o b, a, b) /\ DOMAIN (a \o b) = 1 .. Len(a) + Len(b)
    BY <1>2, JoinedTexts DEF Bare, Single
  <2>2. PICK k \in DOMAIN a : \A j \in DOMAIN a : a[j] = "#" <=> j = k
    BY <1>2 DEF Single
  <2>3. ASSUME NEW j \in DOMAIN (a \o b) PROVE (a \o b)[j] = "#" <=> j = k
    <3>1. CASE j \in 1 .. Len(a)
      BY <2>1, <2>2, <3>1 DEF OneThenOther
    <3>2. CASE j \notin 1 .. Len(a)
      <4>1. j - Len(a) \in 1 .. Len(b) /\ j = Len(a) + (j - Len(a)) /\ j # k
        BY <2>1, <2>2, <3>2
      <4>2. (a \o b)[j] = b[j - Len(a)]
        BY <2>1, <4>1 DEF OneThenOther
      <4> QED BY <1>2, <2>1, <4>1, <4>2 DEF Bare
    <3> QED BY <3>1, <3>2
  <2>4. k \in DOMAIN (a \o b)
    BY <2>1, <2>2
  <2> QED BY <2>1, <2>3, <2>4 DEF Single
<1>3. ASSUME NEW a, NEW b, Bare(a), Single(b) PROVE Single(a \o b)
  <2>1. /\ Len(a) \in Nat /\ DOMAIN a = 1 .. Len(a) /\ Len(b) \in Nat /\ DOMAIN b = 1 .. Len(b)
        /\ IsText(a \o b) /\ OneThenOther(a \o b, a, b) /\ DOMAIN (a \o b) = 1 .. Len(a) + Len(b)
    BY <1>3, JoinedTexts DEF Bare, Single
  <2>2. PICK k \in 1 .. Len(b) : \A j \in 1 .. Len(b) : b[j] = "#" <=> j = k
    BY <1>3, <2>1 DEF Single
  <2>3. ASSUME NEW j \in DOMAIN (a \o b) PROVE (a \o b)[j] = "#" <=> j = Len(a) + k
    <3>1. CASE j \in 1 .. Len(a)
      <4>1. (a \o b)[j] = a[j] /\ a[j] # "#" /\ j # Len(a) + k
        BY <1>3, <2>1, <2>2, <3>1 DEF OneThenOther, Bare
      <4> QED BY <4>1
    <3>2. CASE j \notin 1 .. Len(a)
      <4> DEFINE i == j - Len(a)
      <4>1. i \in 1 .. Len(b) /\ j = Len(a) + i
        BY <2>1, <3>2
      <4> HIDE DEF i
      <4>2. (a \o b)[j] = b[i]
        BY <2>1, <4>1 DEF OneThenOther
      <4>3. b[i] = "#" <=> i = k
        BY <2>2, <4>1
      <4>4. i = k <=> j = Len(a) + k
        BY <2>1, <2>2, <4>1
      <4> QED BY <4>2, <4>3, <4>4
    <3> QED BY <3>1, <3>2
  <2>4. Len(a) + k \in DOMAIN (a \o b)
    BY <2>1, <2>2
  <2> QED BY <2>1, <2>3, <2>4 DEF Single
<1> QED BY <1>1, <1>2, <1>3

\* The texts of a table, each with a mark, or each without.
Singles(t) == \A m \in DOMAIN t : Single(t[m])
Bares(t)   == \A m \in DOMAIN t : Bare(t[m])

\* A table has the marks of its directories.
LEMMA TableMarks ==
    /\ \A d, M : Single(d) /\ "#" \notin M => Singles(Under(d, M))
    /\ \A d, M : Bare(d) /\ "#" \notin M => Bares(Under(d, M))
    /\ \A d, n : Single(d) /\ (\A m \in DOMAIN n : n[m] # "#") => Singles(Renamed(d, n))
    /\ \A d, n : Bare(d) /\ (\A m \in DOMAIN n : n[m] # "#") => Bares(Renamed(d, n))
    /\ \A t, u : Singles(t) /\ Singles(u) => Singles(t ++ u)
    /\ \A t, u : Bares(t) /\ Bares(u) => Bares(t ++ u)
<1>1. ASSUME NEW x, x # "#" PROVE Bare(<<x>>)
  <2>1. <<x>> \in Seq({x}) /\ DOMAIN <<x>> = {1} /\ <<x>>[1] = x
    OBVIOUS
  <2> QED BY <1>1, <2>1 DEF Bare, IsText
<1>2. \A d, M : Single(d) /\ "#" \notin M => Singles(Under(d, M))
  BY <1>1, MarkAlone DEF Under, Singles
<1>3. \A d, M : Bare(d) /\ "#" \notin M => Bares(Under(d, M))
  BY <1>1, MarkAlone DEF Under, Bares
<1>4. \A d, n : Single(d) /\ (\A m \in DOMAIN n : n[m] # "#") => Singles(Renamed(d, n))
  BY <1>1, MarkAlone DEF Renamed, Singles
<1>5. \A d, n : Bare(d) /\ (\A m \in DOMAIN n : n[m] # "#") => Bares(Renamed(d, n))
  BY <1>1, MarkAlone DEF Renamed, Bares
<1>6. \A t, u : Singles(t) /\ Singles(u) => Singles(t ++ u)
  BY DEF Singles, ++
<1>7. \A t, u : Bares(t) /\ Bares(u) => Bares(t ++ u)
  BY DEF Bares, ++
<1> QED BY <1>2, <1>3, <1>4, <1>5, <1>6, <1>7

\* The directories.
LEMMA Directories ==
    /\ Single(PortNvidia) /\ Single(PortNetworking) /\ Single(NVLinkErrors) /\ Bare(Nvidia)
    /\ Single(<<"#", "/">>) /\ Single(<<"/Metrics", "#", "/">>) /\ Single(<<"#", "/Oem/Nvidia/">>)
    /\ Single(<<"Metrics", "#", "/Oem/Nvidia/">>) /\ Single(<<"#", "/Status/">>)
    /\ Bare(<<"/">>) /\ Bare(<<"/Status/">>) /\ Bare(<<"/PowerLimitWatts/">>)
    /\ Bare(<<"/PCIeErrors/">>) /\ Bare(<<"/PCIeMetrics/">>)
    /\ Bare(<<"/Oem/Nvidia/PCIeMetrics/">>) /\ Bare(<<"/Oem/Nvidia/RowRemapping/">>)
    /\ Single(<<"#", "/PCIeInterface/">>)
<1>1. \A a : IsText(<<a>>)
  <2>1. \A a : <<a>> \in Seq({a})
    OBVIOUS
  <2> QED BY <2>1 DEF IsText
<1>2. \A a, b : IsText(<<a, b>>)
  <2>1. \A a, b : <<a, b>> \in Seq({a, b})
    OBVIOUS
  <2> QED BY <2>1 DEF IsText
<1>3. \A a, b, c : IsText(<<a, b, c>>)
  <2>1. \A a, b, c : <<a, b, c>> \in Seq({a, b, c})
    OBVIOUS
  <2> QED BY <2>1 DEF IsText
<1>4. \A a : a # "#" => Bare(<<a>>)
  BY <1>1 DEF Bare
<1>5. \A a : a # "#" => Single(<<"#", a>>)
  BY <1>2 DEF Single
<1>6. \A a, b : a # "#" /\ b # "#" => Single(<<a, "#", b>>)
  BY <1>3 DEF Single
<1> QED BY <1>4, <1>5, <1>6 DEF PortNvidia, PortNetworking, NVLinkErrors, Nvidia

\* The interfaces whose suffixes have a mark, and those whose have none.
Marked ==
    {"PortInfo", "PortState", "PortWidth", "IBPort", "EthPort", "PortMetricsOem1", "PortMetricsOem2",
     "PortMetricsOem3", "PortPacketCounters", "PCIeDevice", "PCIeRefClock", "Health",
     "HealthRollup", "MemorySpareChannel", "PowerSystemInputs"}
Unmarked ==
    {"NVLinkMetrics", "GPMMetrics", "ResetCounterMetrics", "PCIeLaneError",
     "PCIeTransactionCounter", "MemoryECC", "OperatingConfig", "Dimm", "MemoryRowRemapping",
     "PowerSmoothing", "CurrentPowerProfile", "InbandReconfigSettings", "MemoryMetrics",
     "SMUtilization", "PowerLimit", "Switch", "OperationalStatus", "Power.Cap"}

\* The tables of ports and links.
LEMMA PortTables ==
    /\ Singles(portInfoInterfaceMap) /\ Singles(portStateInterfaceMap)
    /\ Singles(ibPortInterfaceMap) /\ Singles(ethPortInterfaceMap)
    /\ Singles(portMetricsOem1InterfaceMap) /\ Singles(portMetricsOem2InterfaceMap)
    /\ Singles(portMetricsOem3InterfaceMap) /\ Singles(portPacketCountersInterfaceMap)
    /\ Singles(pcieDeviceMap)
<1>1. Singles(portInfoInterfaceMap)
  BY TableMarks, Directories DEF portInfoInterfaceMap
<1>2. Singles(portStateInterfaceMap)
  BY TableMarks, Directories DEF portStateInterfaceMap
<1>3. Singles(ibPortInterfaceMap)
  BY TableMarks, Directories DEF ibPortInterfaceMap
<1>4. Singles(ethPortInterfaceMap)
  BY TableMarks, Directories DEF ethPortInterfaceMap
<1>5. Singles(portMetricsOem1InterfaceMap)
  BY TableMarks, Directories DEF portMetricsOem1InterfaceMap
<1>6. Singles(portMetricsOem2InterfaceMap)
  BY TableMarks, Directories DEF portMetricsOem2InterfaceMap
<1>7. Singles(portMetricsOem3InterfaceMap)
  BY TableMarks, Directories DEF portMetricsOem3InterfaceMap
<1>8. Singles(portPacketCountersInterfaceMap)
  BY TableMarks, Directories DEF portPacketCountersInterfaceMap
<1>9. Singles(pcieDeviceMap)
  BY TableMarks, Directories DEF pcieDeviceMap
<1> QED BY <1>1, <1>2, <1>3, <1>4, <1>5, <1>6, <1>7, <1>8, <1>9

\* The tables of what a namespace gives a mark.
LEMMA PlainTables ==
    /\ Bares(nvLinkMetricsMap) /\ Bares(gpmMetricsMap) /\ Bares(resetCountersMetricsMap)
    /\ Bares(pcIeLaneErrorMap) /\ Bares(pcieTransactionCounterMap) /\ Bares(memoryECCMap)
    /\ Bares(operatingConfigMap) /\ Bares(dimmMap) /\ Bares(memoryRowRemappingMap)
    /\ Bares(powerSmoothingInterfaceMap) /\ Bares(powerSmoothingCurrentPwrProfileInterfaceMap)
    /\ Bares(reConfigPermission)
<1>1. Bares(nvLinkMetricsMap)
  BY TableMarks, Directories DEF nvLinkMetricsMap
<1>2. Bares(gpmMetricsMap)
  BY TableMarks, Directories DEF gpmMetricsMap
<1>3. Bares(resetCountersMetricsMap)
  BY TableMarks, Directories DEF resetCountersMetricsMap
<1>4. Bares(pcIeLaneErrorMap)
  BY TableMarks, Directories DEF pcIeLaneErrorMap
<1>5. Bares(pcieTransactionCounterMap)
  BY TableMarks, Directories DEF pcieTransactionCounterMap
<1>6. Bares(memoryECCMap)
  BY TableMarks, Directories DEF memoryECCMap
<1>7. Bares(operatingConfigMap)
  BY TableMarks, Directories DEF operatingConfigMap
<1>8. Bares(dimmMap)
  BY TableMarks, Directories DEF dimmMap
<1>9. Bares(memoryRowRemappingMap)
  BY TableMarks, Directories DEF memoryRowRemappingMap
<1>10. Bares(powerSmoothingInterfaceMap)
  BY TableMarks, Directories DEF powerSmoothingInterfaceMap
<1>11. Bares(powerSmoothingCurrentPwrProfileInterfaceMap)
  BY TableMarks, Directories DEF powerSmoothingCurrentPwrProfileInterfaceMap
<1>12. Bares(reConfigPermission)
  BY TableMarks, Directories DEF reConfigPermission
<1> QED BY <1>1, <1>2, <1>3, <1>4, <1>5, <1>6, <1>7, <1>8, <1>9, <1>10, <1>11, <1>12

\* The tables that pdiNameMap has itself.
LEMMA OwnTables ==
    /\ Bares(Under(<<"/">>, {"CapacityUtilizationPercent"}))
    /\ Bares(Renamed(Nvidia, [SMUtilization |-> "SMUtilizationPercent"]))
    /\ Bares(Under(<<"/">>, {"MaxPowerWatts", "MinPowerWatts"}))
    /\ Bares(Renamed(<<"/">>, [CurrentBandwidth |-> "CurrentBandwidthGbps",
                               MaxBandwidth |-> "MaxBandwidthGbps"]))
    /\ Bares(Under(<<"/Status/">>, {"State"}))
    /\ Bares(Renamed(<<"/PowerLimitWatts/">>, [PowerCap |-> "SetPoint"]))
    /\ Singles(Under(<<"#", "/Oem/Nvidia/">>, {"MemorySpareChannelPresence"}))
    /\ Singles(Renamed(<<"#", "/Oem/Nvidia/">>, [Status |-> "EDPViolationState"]))
    /\ Singles(Under(<<"#", "/">>, {"ActiveWidth"}))
    /\ Singles(Under(<<"#", "/Oem/Nvidia/">>, {"PCIeReferenceClockEnabled"}))
    /\ Singles(Under(<<"#", "/Status/">>, {"Health"}))
    /\ Singles(Under(<<"#", "/Status/">>, {"HealthRollup"}))
<1>1. /\ Bares(Under(<<"/">>, {"CapacityUtilizationPercent"}))
      /\ Bares(Renamed(Nvidia, [SMUtilization |-> "SMUtilizationPercent"]))
      /\ Bares(Under(<<"/">>, {"MaxPowerWatts", "MinPowerWatts"}))
  BY TableMarks, Directories
<1>2. Bares(Renamed(<<"/">>, [CurrentBandwidth |-> "CurrentBandwidthGbps",
                              MaxBandwidth |-> "MaxBandwidthGbps"]))
  BY TableMarks, Directories
<1>3. /\ Bares(Under(<<"/Status/">>, {"State"}))
      /\ Bares(Renamed(<<"/PowerLimitWatts/">>, [PowerCap |-> "SetPoint"]))
  BY TableMarks, Directories
<1>4. /\ Singles(Under(<<"#", "/Oem/Nvidia/">>, {"MemorySpareChannelPresence"}))
      /\ Singles(Renamed(<<"#", "/Oem/Nvidia/">>, [Status |-> "EDPViolationState"]))
      /\ Singles(Under(<<"#", "/">>, {"ActiveWidth"}))
  BY TableMarks, Directories
<1>5. /\ Singles(Under(<<"#", "/Oem/Nvidia/">>, {"PCIeReferenceClockEnabled"}))
      /\ Singles(Under(<<"#", "/Status/">>, {"Health"}))
      /\ Singles(Under(<<"#", "/Status/">>, {"HealthRollup"}))
  BY TableMarks, Directories
<1> QED BY <1>1, <1>2, <1>3, <1>4, <1>5

\* The tables in which some suffixes have a mark.
LEMMA MixedTables ==
    /\ \A m \in DOMAIN processorPerfMap :
          IF m = "Value" THEN Single(processorPerfMap[m]) ELSE Bare(processorPerfMap[m])
    /\ \A m \in DOMAIN pcieECCMap :
          IF m \in {"PCIeType", "MaxLanes", "LanesInUse"} THEN Single(pcieECCMap[m])
          ELSE Bare(pcieECCMap[m])
<1>1. \A m \in DOMAIN processorPerfMap :
          IF m = "Value" THEN Single(processorPerfMap[m]) ELSE Bare(processorPerfMap[m])
  <2> DEFINE t == Under(<<"/">>, {"PowerLimitThrottleDuration", "ThermalLimitThrottleDuration"})
                  ++ Under(Nvidia,
                    {"AccumulatedSMUtilizationDuration", "AccumulatedGPUContextUtilizationDuration",
                     "GlobalSoftwareViolationThrottleDuration", "HardwareViolationThrottleDuration",
                     "PCIeTXBytes", "PCIeRXBytes"})
                  ++ Renamed(Nvidia, [ThrottleReason |-> "ThrottleReasons"])
             u == Renamed(<<"#", "/Oem/Nvidia/">>, [Value |-> "PowerBreakPerformanceState"])
  <2>1. Bares(t) /\ "Value" \notin DOMAIN t
    <3>1. Bares(t)
      BY TableMarks, Directories
    <3>2. "Value" \notin DOMAIN t
      BY DEF ++, Under, Renamed
    <3> QED BY <3>1, <3>2
  <2>2. Singles(u) /\ DOMAIN u = {"Value"}
    <3>1. Singles(u)
      BY TableMarks, Directories
    <3>2. DOMAIN u = {"Value"}
      BY DEF Renamed
    <3> QED BY <3>1, <3>2
  <2>3. processorPerfMap = t ++ u
    BY DEF processorPerfMap
  <2> HIDE DEF t, u
  <2> QED BY <2>1, <2>2, <2>3 DEF ++, Singles, Bares
<1>2. \A m \in DOMAIN pcieECCMap :
          IF m \in {"PCIeType", "MaxLanes", "LanesInUse"} THEN Single(pcieECCMap[m])
          ELSE Bare(pcieECCMap[m])
  <2> DEFINE n == [nonfeCount |-> "NonFatalErrorCount", feCount |-> "FatalErrorCount",
                   ceCount |-> "CorrectableErrorCount"]
                  ++ [m \in {"PCIeECC.ceCount"} |-> "CorrectableErrorCount"]
             t == Renamed(<<"/PCIeErrors/">>, n)
                  ++ Under(<<"/PCIeErrors/">>,
                        {"L0ToRecoveryCount", "NAKReceivedCount", "ReplayCount", "NAKSentCount",
                         "ReplayRolloverCount", "UnsupportedRequestCount"})
             u == Under(<<"#", "/PCIeInterface/">>, {"PCIeType", "MaxLanes", "LanesInUse"})
             v == Under(Nvidia, {"FramingErrorCount", "LinkDownedCount", "DLLPCRCErrorCount"})
  <2>1. Bares(t) /\ {"PCIeType", "MaxLanes", "LanesInUse"} \cap DOMAIN t = {}
    <3>1. Bares(Renamed(<<"/PCIeErrors/">>, n))
      <4>1. \A m \in DOMAIN n : n[m] # "#"
        BY DEF ++
      <4> HIDE DEF n
      <4> QED BY <4>1, TableMarks, Directories
    <3>2. DOMAIN n = {"nonfeCount", "feCount", "ceCount", "PCIeECC.ceCount"}
      BY DEF ++
    <3> HIDE DEF n
    <3>3. Bares(t)
      BY <3>1, TableMarks, Directories
    <3>4. {"PCIeType", "MaxLanes", "LanesInUse"} \cap DOMAIN t = {}
      BY <3>2 DEF ++, Under, Renamed
    <3> QED BY <3>3, <3>4
  <2>2. Singles(u) /\ DOMAIN u = {"PCIeType", "MaxLanes", "LanesInUse"}
    <3>1. Singles(u)
      BY TableMarks, Directories
    <3>2. DOMAIN u = {"PCIeType", "MaxLanes", "LanesInUse"}
      BY DEF Under
    <3> QED BY <3>1, <3>2
  <2>3. Bares(v)
    BY TableMarks, Directories
  <2>4. pcieECCMap = t ++ u ++ v
    BY DEF pcieECCMap
  <2> HIDE DEF t, u, v
  <2> QED BY <2>1, <2>2, <2>3, <2>4 DEF ++, Singles, Bares
<1> QED BY <1>1, <1>2

\* What a table knows.
LEMMA KnownIs ==
    \A iface, metric, I :
        <<iface, metric>> \in Known(I) <=> iface \in I /\ metric \in DOMAIN pdiNameMap[iface]
<1>1. TAKE iface, metric, I
<1>2. ASSUME <<iface, metric>> \in Known(I) PROVE iface \in I /\ metric \in DOMAIN pdiNameMap[iface]
  <2>1. PICK i \in I : <<iface, metric>> \in {i} \X DOMAIN pdiNameMap[i]
    BY <1>2 DEF Known
  <2> QED BY <2>1
<1>3. ASSUME iface \in I, metric \in DOMAIN pdiNameMap[iface] PROVE <<iface, metric>> \in Known(I)
  <2>1. <<iface, metric>> \in {iface} \X DOMAIN pdiNameMap[iface]
    BY <1>3
  <2> QED BY <1>3, <2>1 DEF Known
<1> QED BY <1>2, <1>3

\* The tables, by interface.
LEMMA Tables ==
    /\ \A i \in Marked : i \in DOMAIN pdiNameMap /\ Singles(pdiNameMap[i])
    /\ \A i \in Unmarked : i \in DOMAIN pdiNameMap /\ Bares(pdiNameMap[i])
    /\ {"ProcessorPerformance", "PCIeECC"} \subseteq DOMAIN pdiNameMap
    /\ pdiNameMap["ProcessorPerformance"] = processorPerfMap /\ pdiNameMap["PCIeECC"] = pcieECCMap
<1>1. \A i \in Marked : i \in DOMAIN pdiNameMap
  BY DEF Marked, pdiNameMap, ++
<1>2. \A i \in Unmarked : i \in DOMAIN pdiNameMap
  BY DEF Unmarked, pdiNameMap, ++
<1>3. ASSUME NEW i \in Marked PROVE Singles(pdiNameMap[i])
  <2>1. /\ pdiNameMap["PortInfo"] = portInfoInterfaceMap
        /\ pdiNameMap["PortState"] = portStateInterfaceMap
        /\ pdiNameMap["IBPort"] = ibPortInterfaceMap
        /\ pdiNameMap["EthPort"] = ethPortInterfaceMap
        /\ pdiNameMap["PortMetricsOem1"] = portMetricsOem1InterfaceMap
        /\ pdiNameMap["PortMetricsOem2"] = portMetricsOem2InterfaceMap
        /\ pdiNameMap["PortMetricsOem3"] = portMetricsOem3InterfaceMap
        /\ pdiNameMap["PortPacketCounters"] = portPacketCountersInterfaceMap
        /\ pdiNameMap["PCIeDevice"] = pcieDeviceMap
    BY DEF pdiNameMap, ++
  <2>2. /\ pdiNameMap["MemorySpareChannel"]
              = Under(<<"#", "/Oem/Nvidia/">>, {"MemorySpareChannelPresence"})
        /\ pdiNameMap["PowerSystemInputs"]
              = Renamed(<<"#", "/Oem/Nvidia/">>, [Status |-> "EDPViolationState"])
        /\ pdiNameMap["PortWidth"] = Under(<<"#", "/">>, {"ActiveWidth"})
        /\ pdiNameMap["PCIeRefClock"] = Under(<<"#", "/Oem/Nvidia/">>, {"PCIeReferenceClockEnabled"})
        /\ pdiNameMap["Health"] = Under(<<"#", "/Status/">>, {"Health"})
        /\ pdiNameMap["HealthRollup"] = Under(<<"#", "/Status/">>, {"HealthRollup"})
    BY DEF pdiNameMap, ++
  <2> QED BY <2>1, <2>2, PortTables, OwnTables DEF Marked
<1>4. ASSUME NEW i \in Unmarked PROVE Bares(pdiNameMap[i])
  <2>1. /\ pdiNameMap["NVLinkMetrics"] = nvLinkMetricsMap
        /\ pdiNameMap["GPMMetrics"] = gpmMetricsMap
        /\ pdiNameMap["ResetCounterMetrics"] = resetCountersMetricsMap
        /\ pdiNameMap["PCIeLaneError"] = pcIeLaneErrorMap
        /\ pdiNameMap["PCIeTransactionCounter"] = pcieTransactionCounterMap
        /\ pdiNameMap["MemoryECC"] = memoryECCMap
        /\ pdiNameMap["OperatingConfig"] = operatingConfigMap
        /\ pdiNameMap["Dimm"] = dimmMap
        /\ pdiNameMap["MemoryRowRemapping"] = memoryRowRemappingMap
        /\ pdiNameMap["PowerSmoothing"] = powerSmoothingInterfaceMap
        /\ pdiNameMap["CurrentPowerProfile"] = powerSmoothingCurrentPwrProfileInterfaceMap
        /\ pdiNameMap["InbandReconfigSettings"] = reConfigPermission
    BY DEF pdiNameMap, ++
  <2>2. /\ pdiNameMap["MemoryMetrics"] = Under(<<"/">>, {"CapacityUtilizationPercent"})
        /\ pdiNameMap["SMUtilization"] = Renamed(Nvidia, [SMUtilization |-> "SMUtilizationPercent"])
        /\ pdiNameMap["PowerLimit"] = Under(<<"/">>, {"MaxPowerWatts", "MinPowerWatts"})
        /\ pdiNameMap["Switch"] = Renamed(<<"/">>, [CurrentBandwidth |-> "CurrentBandwidthGbps",
                                                    MaxBandwidth |-> "MaxBandwidthGbps"])
        /\ pdiNameMap["OperationalStatus"] = Under(<<"/Status/">>, {"State"})
        /\ pdiNameMap["Power.Cap"] = Renamed(<<"/PowerLimitWatts/">>, [PowerCap |-> "SetPoint"])
    BY DEF pdiNameMap, ++
  <2> QED BY <2>1, <2>2, PlainTables, OwnTables DEF Unmarked
<1>5. /\ {"ProcessorPerformance", "PCIeECC"} \subseteq DOMAIN pdiNameMap
      /\ pdiNameMap["ProcessorPerformance"] = processorPerfMap /\ pdiNameMap["PCIeECC"] = pcieECCMap
  BY DEF pdiNameMap, ++
<1> QED BY <1>1, <1>2, <1>3, <1>4, <1>5

\* The suffix of a property, by what the tables know of it.
LEMMA SuffixMarks ==
    ASSUME NEW iface, NEW metric, NEW suffix, suffix = GetPropertySuffix(iface, metric)
    PROVE  /\ <<iface, metric>> \in Known(Marked) => Single(suffix)
           /\ <<iface, metric>> \in Known(Unmarked) => Bare(suffix)
           /\ <<iface, metric>> \in Known({"ProcessorPerformance"}) =>
                 IF metric = "Value" THEN Single(suffix) ELSE Bare(suffix)
           /\ <<iface, metric>> \in Known({"PCIeECC"}) =>
                 IF metric \in {"PCIeType", "MaxLanes", "LanesInUse"} THEN Single(suffix)
                 ELSE Bare(suffix)
<1>1. iface \in DOMAIN pdiNameMap /\ metric \in DOMAIN pdiNameMap[iface]
      => suffix = pdiNameMap[iface][metric]
  BY DEF GetPropertySuffix
<1>2. <<iface, metric>> \in Known(Marked) => Single(suffix)
  BY <1>1, KnownIs, Tables DEF Singles
<1>3. <<iface, metric>> \in Known(Unmarked) => Bare(suffix)
  BY <1>1, KnownIs, Tables DEF Bares
<1>4. <<iface, metric>> \in Known({"ProcessorPerformance"}) =>
          IF metric = "Value" THEN Single(suffix) ELSE Bare(suffix)
  BY <1>1, KnownIs, Tables, MixedTables
<1>5. <<iface, metric>> \in Known({"PCIeECC"}) =>
          IF metric \in {"PCIeType", "MaxLanes", "LanesInUse"} THEN Single(suffix) ELSE Bare(suffix)
  BY <1>1, KnownIs, Tables, MixedTables
<1> QED BY <1>2, <1>3, <1>4, <1>5

\* What a leaf begins with.
LEMMA Beginnings ==
    /\ Bare(<<>>) /\ \A a : a # "#" => Bare(<<a>>)
    /\ Single(<<"#">>) /\ \A a : a # "#" => Single(<<"#", a>>) /\ Single(<<a, "#">>)
    /\ \A a, b : a # "#" /\ b # "#" => Single(<<a, "#", b>>)
    /\ \A a, b, c : a # "#" /\ b # "#" /\ c # "#" => Single(<<a, "#", b, c>>)
    /\ \A a, b : a # "#" /\ b # "#" => Single(<<"#", a, b>>)
<1>1. IsText(<<>>)
  <2>1. <<>> \in Seq({})
    OBVIOUS
  <2> QED BY <2>1 DEF IsText
<1>2. \A a : IsText(<<a>>)
  <2>1. \A a : <<a>> \in Seq({a})
    OBVIOUS
  <2> QED BY <2>1 DEF IsText
<1>3. \A a, b : IsText(<<a, b>>)
  <2>1. \A a, b : <<a, b>> \in Seq({a, b})
    OBVIOUS
  <2> QED BY <2>1 DEF IsText
<1>4. \A a, b, c : IsText(<<a, b, c>>)
  <2>1. \A a, b, c : <<a, b, c>> \in Seq({a, b, c})
    OBVIOUS
  <2> QED BY <2>1 DEF IsText
<1>5. \A a, b, c, d : IsText(<<a, b, c, d>>)
  <2>1. \A a, b, c, d : <<a, b, c, d>> \in Seq({a, b, c, d})
    OBVIOUS
  <2> QED BY <2>1 DEF IsText
<1>6. Bare(<<>>) /\ \A a : a # "#" => Bare(<<a>>)
  BY <1>1, <1>2 DEF Bare
<1>7. Single(<<"#">>) /\ \A a : a # "#" => Single(<<"#", a>>) /\ Single(<<a, "#">>)
  BY <1>2, <1>3 DEF Single
<1>8. /\ \A a, b : a # "#" /\ b # "#" => Single(<<a, "#", b>>)
      /\ \A a, b : a # "#" /\ b # "#" => Single(<<"#", a, b>>)
  BY <1>4 DEF Single
<1>9. \A a, b, c : a # "#" /\ b # "#" /\ c # "#" => Single(<<a, "#", b, c>>)
  BY <1>5 DEF Single
<1> QED BY <1>6, <1>7, <1>8, <1>9

\* What is found nowhere has no URI; what else is found has a mark, or is a sensor's
\* own resource and has none.
OneIn(x, iface) == x = Nowhere \/ IF iface = "Sensor.Value" THEN Bare(x.leaf) ELSE Single(x.leaf)

\* A leaf with a mark, or without, wherever it is.
LEMMA LeafAt ==
    \A r, l, iface : (IF iface = "Sensor.Value" THEN Bare(l) ELSE Single(l)) => OneIn(At(r, l), iface)
BY DEF At, OneIn

\* No name has a mark.
LEMMA BareNames == \A n \in Seq(NameWords) : Bare(n)
<1>1. TAKE n \in Seq(NameWords)
<1>2. \A j \in DOMAIN n : n[j] \in NameWords
  OBVIOUS
<1>3. \A w \in NameWords : w # "#"
  BY WordsApart
<1> QED BY <1>2, <1>3 DEF Bare, IsText

\* The suffixes of a port.
LEMMA PortSuffix ==
    ASSUME NEW iface, NEW metric, <<iface, metric>> \in PortMetrics
    PROVE  Single(GetPropertySuffix(iface, metric)) /\ iface \in Marked
           /\ iface \notin {"Sensor.Value", "Metric.Value", "MemorySpareChannel", "PowerSystemInputs",
                            "ProcessorPerformance"}
           /\ (iface = "PortState" => metric \in {"LinkStatus", "LinkState"})
<1> DEFINE ports == {"PortInfo", "PortState", "PortWidth", "IBPort", "EthPort", "PortMetricsOem1",
                     "PortMetricsOem2", "PortMetricsOem3", "PortPacketCounters"}
<1>1. iface \in ports /\ metric \in DOMAIN pdiNameMap[iface]
  BY KnownIs DEF PortMetrics
<1>2. iface \in Marked
  BY <1>1 DEF Marked
<1>3. <<iface, metric>> \in Known(Marked)
  BY <1>1, <1>2, KnownIs
<1>4. iface = "PortState" => metric \in {"LinkStatus", "LinkState"}
  <2>1. pdiNameMap["PortState"] = portStateInterfaceMap
    BY DEF pdiNameMap, ++
  <2>2. DOMAIN portStateInterfaceMap = {"LinkStatus", "LinkState"}
    BY DEF portStateInterfaceMap, ++, Under, Renamed
  <2> QED BY <1>1, <2>1, <2>2
<1> QED BY <1>1, <1>2, <1>3, <1>4, SuffixMarks

\* What the paths of a CPU's metrics say has a mark.
LEMMA PathSuffixes ==
    ASSUME NEW p
    PROVE  /\ \A c \in CpuPort(p) : Single(<<"/Metrics", "#", "/Oem/Nvidia/", c.metric>>)
           /\ GetPropertySuffixFromPath(p) # <<>> =>
                 Single(<<"/ProcessorMetrics">> \o GetPropertySuffixFromPath(p))
<1>1. ASSUME NEW c \in CpuPort(p) PROVE Single(<<"/Metrics", "#", "/Oem/Nvidia/", c.metric>>)
  <2>1. c.metric \in {"PacketCRCErrors", "PacketReplayErrors", "BandwidthBytesPerSecond"}
    <3> DEFINE leaf == Filename(p)
               known == cpuPortOemMetricMappings
               found == {i \in DOMAIN known : Has(leaf, known[i][1])}
               k(w) == CHOOSE i \in DOMAIN leaf : leaf[i] = w /\ \A j \in 1 .. i - 1 : leaf[j] # w
    <3>1. PICK i \in found : c = [port |-> [leaf EXCEPT ![k(known[i][1])] = known[i][2]],
                                   metric |-> known[i][3]]
      <4> HIDE DEF leaf, k
      <4> QED BY Zenon DEF CpuPort, leaf, k
    <3>2. c.metric = known[i][3] /\ i \in DOMAIN known
      BY <3>1
    <3> QED BY <3>2 DEF cpuPortOemMetricMappings
  <2> QED BY <2>1, Beginnings
<1>2. ASSUME GetPropertySuffixFromPath(p) # <<>>
      PROVE  Single(<<"/ProcessorMetrics">> \o GetPropertySuffixFromPath(p))
  <2> DEFINE suffixes == <<<<"PowerBRKAssertionTime", "PowerBrakeAssertionDuration">>,
                           <<"PageRetirementCount", "MemoryPageRetirementCount">>,
                           <<"TjMaxDramIndex", "TjMaxDramIndex">>, <<"CpuUptime", "CPUUptime">>>>
             found    == {i \in DOMAIN suffixes : Mentions(p, suffixes[i][1])}
             first    == CHOOSE i \in found : \A j \in found : i <= j
  <2>1. found # {} /\ GetPropertySuffixFromPath(p) = <<"#", "/Oem/Nvidia/">> \o <<suffixes[first][2]>>
    BY <1>2, Zenon DEF GetPropertySuffixFromPath
  <2>2. found \subseteq Nat /\ found \subseteq DOMAIN suffixes
    OBVIOUS
  <2>3. first \in DOMAIN suffixes
    <3>1. \E i \in found : \A j \in found : i <= j
      <4> HIDE DEF found
      <4> QED BY <2>1, <2>2, Least
    <3> HIDE DEF found, suffixes
    <3> QED BY <2>2, <3>1
  <2>4. suffixes[first][2] # "#"
    <3> HIDE DEF first
    <3> QED BY <2>3
  <2> HIDE DEF first, suffixes, found
  <2>5. Single(<<"#", "/Oem/Nvidia/">> \o <<suffixes[first][2]>>)
    BY <2>4, Beginnings, MarkAlone
  <2> QED BY <2>1, <2>5, Beginnings, MarkAlone
<1> QED BY <1>1, <1>2

\* CpuProcessorMetrics.
LEMMA CpuProcessorMarks ==
    ASSUME NEW f, NEW p, NEW metric, NEW iface,
           <<iface, metric>> \in Reported["CpuProcessorMetrics"],
           iface = "Metric.Value" => CpuPort(p) # {} \/ GetPropertySuffixFromPath(p) # <<>>
    PROVE  OneIn(CpuProcessorAt(f, p, metric, iface), iface)
<1> DEFINE suffix == GetPropertySuffix(iface, metric)
<1>1. \/ <<iface, metric>> \in PortMetrics
      \/ iface = "Sensor.Value" \/ iface = "Metric.Value"
      \/ <<iface, metric>> \in {<<"MemorySpareChannel", "MemorySpareChannelPresence">>,
                                <<"PowerSystemInputs", "Status">>, <<"ProcessorPerformance", "Value">>}
  BY DEF Reported
<1>2. CASE iface = "Sensor.Value"
  <2>1. CpuProcessorAt(f, p, metric, iface) = At(Sensor(f), <<>>)
    BY <1>2 DEF CpuProcessorAt
  <2> QED BY <1>2, <2>1, LeafAt, Beginnings
<1>3. CASE iface = "Metric.Value"
  <2>1. CASE CpuPort(p) # {}
    <3> DEFINE c == CHOOSE x \in CpuPort(p) : TRUE
    <3>1. c \in CpuPort(p)
      BY <2>1
    <3>2. CpuProcessorAt(f, p, metric, iface)
            = At(Processor(f.device) \o Port(c.port), <<"/Metrics", "#", "/Oem/Nvidia/", c.metric>>)
      BY <1>3, <2>1, Zenon DEF CpuProcessorAt
    <3> HIDE DEF c
    <3> QED BY <1>3, <3>1, <3>2, PathSuffixes, LeafAt
  <2>2. CASE CpuPort(p) = {}
    <3>1. CpuProcessorAt(f, p, metric, iface)
            = At(Processor(f.device), <<"/ProcessorMetrics">> \o GetPropertySuffixFromPath(p))
      BY <1>3, <2>2 DEF CpuProcessorAt
    <3> QED BY <1>3, <2>2, <3>1, PathSuffixes, LeafAt
  <2> QED BY <2>1, <2>2
<1>4. CASE <<iface, metric>> \in {<<"MemorySpareChannel", "MemorySpareChannelPresence">>,
                                  <<"PowerSystemInputs", "Status">>, <<"ProcessorPerformance", "Value">>}
  <2>1. iface \in {"MemorySpareChannel", "PowerSystemInputs", "ProcessorPerformance"}
    BY <1>4
  <2>2. CpuProcessorAt(f, p, metric, iface) = At(Processor(f.device), <<"/ProcessorMetrics">> \o suffix)
    BY <2>1 DEF CpuProcessorAt
  <2>3. Single(suffix)
    <3>1. \/ <<iface, metric>> \in Known(Marked)
          \/ <<iface, metric>> \in Known({"ProcessorPerformance"}) /\ metric = "Value"
      <4>1. /\ pdiNameMap["MemorySpareChannel"]
                  = Under(<<"#", "/Oem/Nvidia/">>, {"MemorySpareChannelPresence"})
            /\ pdiNameMap["PowerSystemInputs"]
                  = Renamed(<<"#", "/Oem/Nvidia/">>, [Status |-> "EDPViolationState"])
        BY DEF pdiNameMap, ++
      <4>2. "MemorySpareChannelPresence" \in DOMAIN pdiNameMap["MemorySpareChannel"]
            /\ "Status" \in DOMAIN pdiNameMap["PowerSystemInputs"]
        BY <4>1 DEF Under, Renamed
      <4>3. "Value" \in DOMAIN pdiNameMap["ProcessorPerformance"]
        BY Tables DEF processorPerfMap, ++, Under, Renamed
      <4>4. {"MemorySpareChannel", "PowerSystemInputs"} \subseteq Marked
        BY DEF Marked
      <4> QED BY <1>4, <4>2, <4>3, <4>4, KnownIs
    <3> QED BY <3>1, SuffixMarks
  <2> HIDE DEF suffix
  <2> QED BY <2>1, <2>2, <2>3, LeafAt, Beginnings, MarkAlone
<1>5. CASE <<iface, metric>> \in PortMetrics
  <2>1. /\ Single(suffix) /\ (iface = "PortState" => metric \in {"LinkStatus", "LinkState"})
        /\ iface \notin {"Sensor.Value", "Metric.Value", "MemorySpareChannel", "PowerSystemInputs",
                         "ProcessorPerformance"}
    BY <1>5, PortSuffix
  <2> HIDE DEF suffix
  <2>2. CASE iface = "PortState"
    <3>1. CpuProcessorAt(f, p, metric, iface)
            = At(Processor(f.device) \o Port(f.subDevice),
                 <<"#", "/Status/", IF metric = "LinkStatus" THEN "Health" ELSE "State">>)
      BY <2>1, <2>2 DEF CpuProcessorAt
    <3> QED BY <2>2, <3>1, LeafAt, Beginnings
  <2>3. CASE iface # "PortState"
    <3>1. CpuProcessorAt(f, p, metric, iface) = At(Processor(f.device) \o Port(f.subDevice), suffix)
      BY <2>1, <2>3 DEF CpuProcessorAt, suffix
    <3> QED BY <2>1, <3>1, LeafAt
  <2> QED BY <2>2, <2>3
<1> QED BY <1>1, <1>2, <1>3, <1>4, <1>5

\* ProcessorMetrics.
LEMMA ProcessorMarks ==
    ASSUME NEW f, NEW p \in Seq(Seq(NameWords)), NEW metric, NEW iface,
           <<iface, metric>> \in Reported["ProcessorMetrics"]
    PROVE  OneIn(ProcessorAt(f, p, metric, iface), iface)
<1> DEFINE suffix == GetPropertySuffix(iface, metric)
           child == Filename(p)
           bare == {"MemoryECC", "OperationalStatus", "PowerLimit", "OperatingConfig",
                    "CurrentPowerProfile", "PowerSmoothing", "InbandReconfigSettings",
                    "Power.Cap", "SMUtilization"}
           link == iface = "PCIeECC" /\ metric \in {"PCIeType", "MaxLanes", "LanesInUse"}
<1>1. /\ iface \in bare \cup {"PCIeECC", "ProcessorPerformance"}
      /\ metric \in DOMAIN pdiNameMap[iface]
      /\ iface = "ProcessorPerformance" => metric # "Value"
  BY KnownIs DEF Reported
<1>2. iface # "Sensor.Value"
  BY <1>1
<1>3. IF link THEN Single(suffix) ELSE Bare(suffix)
  <2>1. CASE iface \in bare
    <3>1. <<iface, metric>> \in Known(Unmarked)
      BY <1>1, <2>1, KnownIs DEF Unmarked
    <3> QED BY <2>1, <3>1, SuffixMarks
  <2>2. CASE iface = "PCIeECC"
    BY <1>1, <2>2, KnownIs, SuffixMarks
  <2>3. CASE iface = "ProcessorPerformance"
    BY <1>1, <2>3, KnownIs, SuffixMarks
  <2> QED BY <1>1, <2>1, <2>2, <2>3
<1>4. Bare(child)
  BY PathNames, BareNames
<1> HIDE DEF suffix, child
<1>5. CASE link
  <2>1. ProcessorAt(f, p, metric, iface) = At(OwnChassis(child) \o PCIeDevice(child), suffix)
    BY <1>5 DEF ProcessorAt, suffix, child
  <2> QED BY <1>2, <1>3, <1>5, <2>1, LeafAt
<1>6. CASE ~link
  <2> DEFINE Marking == {<<"/ProcessorMetrics", "#", "/Oem/Nvidia">>,
                         <<"/ProcessorMetrics", "#", "/CacheMetricsTotal/LifeTime">>, <<"#">>,
                         <<"/Oem/Nvidia/PowerSmoothing", "#">>, <<"/EnvironmentMetrics", "#">>,
                         <<"/ProcessorMetrics", "#">>}
             kinds == {"/Oem/Nvidia/InbandReconfigPermissions/", "/Oem/Nvidia/DOEReconfigPermissions/"}
  <2>1. \/ \E part \in Marking, r \in {Processor(f.device), OwnChassis(f.device)} :
              ProcessorAt(f, p, metric, iface) = At(r, part \o suffix)
        \/ \E kind \in kinds : ProcessorAt(f, p, metric, iface)
              = At(Processor(GrandparentName(p)), <<"#", kind>> \o child \o suffix)
    BY <1>6 DEF ProcessorAt, suffix, child
  <2>2. Bare(suffix)
    BY <1>3, <1>6
  <2>3. \A part \in Marking : Single(part \o suffix)
    <3>1. \A part \in Marking : Single(part)
      BY Beginnings
    <3> HIDE DEF Marking
    <3> QED BY <2>2, <3>1, MarkAlone
  <2>4. ASSUME NEW kind \in kinds PROVE Single(<<"#", kind>> \o child \o suffix)
    <3> DEFINE a == <<"#", kind>>
    <3>1. Single(a)
      BY Beginnings
    <3> HIDE DEF a
    <3>2. Single(a \o child)
      BY <1>4, <3>1, MarkAlone
    <3>3. Single(a \o child \o suffix)
      BY <2>2, <3>2, MarkAlone
    <3> QED BY <3>3 DEF a
  <2> HIDE DEF Marking, kinds
  <2>5. ASSUME NEW part \in Marking, NEW r, ProcessorAt(f, p, metric, iface) = At(r, part \o suffix)
        PROVE  OneIn(ProcessorAt(f, p, metric, iface), iface)
    BY <1>2, <2>3, <2>5, LeafAt
  <2>6. ASSUME NEW kind \in kinds, ProcessorAt(f, p, metric, iface)
                  = At(Processor(GrandparentName(p)), <<"#", kind>> \o child \o suffix)
        PROVE  OneIn(ProcessorAt(f, p, metric, iface), iface)
    <3> DEFINE l == <<"#", kind>> \o child \o suffix
    <3>1. Single(l) /\ ProcessorAt(f, p, metric, iface) = At(Processor(GrandparentName(p)), l)
      BY <2>4, <2>6
    <3> HIDE DEF l
    <3> QED BY <1>2, <3>1, LeafAt
  <2> QED BY <2>1, <2>5, <2>6
<1> QED BY <1>5, <1>6

\* NVSwitchMetrics.
LEMMA SwitchMarks ==
    ASSUME NEW r, NEW metric, NEW iface, <<iface, metric>> \in Reported["NVSwitchMetrics"]
    PROVE  OneIn(At(r, SwitchPart(metric, iface) \o GetPropertySuffix(iface, metric)), iface)
<1> DEFINE suffix == GetPropertySuffix(iface, metric)
<1>1. /\ iface \in {"Switch", "MemoryECC", "PCIeECC"} /\ metric \in DOMAIN pdiNameMap[iface]
      /\ iface = "PCIeECC" => metric \notin {"PCIeType", "MaxLanes", "LanesInUse"}
  BY KnownIs DEF Reported, LinkMetrics
<1>2. Bare(suffix)
  <2>1. CASE iface \in {"Switch", "MemoryECC"}
    <3>1. <<iface, metric>> \in Known(Unmarked)
      BY <1>1, <2>1, KnownIs DEF Unmarked
    <3> QED BY <3>1, SuffixMarks
  <2>2. CASE iface = "PCIeECC"
    BY <1>1, <2>2, KnownIs, SuffixMarks
  <2> QED BY <1>1, <2>1, <2>2
<1>3. Single(SwitchPart(metric, iface))
  BY Beginnings, MarkAlone DEF SwitchPart
<1> HIDE DEF suffix
<1>4. Single(SwitchPart(metric, iface) \o suffix)
  BY <1>2, <1>3, MarkAlone
<1> QED BY <1>1, <1>4, LeafAt DEF suffix

\* MemoryMetrics.
LEMMA MemoryMarks ==
    ASSUME NEW r, NEW metric, NEW iface, <<iface, metric>> \in Reported["MemoryMetrics"]
    PROVE  OneIn(At(r, MemoryPart(metric, iface) \o GetPropertySuffix(iface, metric)), iface)
<1> DEFINE suffix == GetPropertySuffix(iface, metric)
<1>1. /\ iface \in {"Dimm", "MemoryECC", "MemoryMetrics", "MemoryRowRemapping"}
      /\ metric \in DOMAIN pdiNameMap[iface]
  BY KnownIs DEF Reported
<1>2. Bare(suffix)
  <2>1. <<iface, metric>> \in Known(Unmarked)
    BY <1>1, KnownIs DEF Unmarked
  <2> QED BY <2>1, SuffixMarks
<1>3. Single(MemoryPart(metric, iface))
  <2>1. iface = "MemoryMetrics" => metric = "CapacityUtilizationPercent"
    <3>1. pdiNameMap["MemoryMetrics"] = Under(<<"/">>, {"CapacityUtilizationPercent"})
      BY DEF pdiNameMap, ++
    <3> QED BY <1>1, <3>1 DEF Under
  <2>2. MemoryPart(metric, iface)
            \in {<<"#">>, <<"/MemoryMetrics", "#", "/LifeTime">>, <<"/MemoryMetrics", "#">>}
    BY <2>1 DEF MemoryPart
  <2> QED BY <2>2, Beginnings
<1> HIDE DEF suffix
<1>4. Single(MemoryPart(metric, iface) \o suffix)
  BY <1>2, <1>3, MarkAlone
<1> QED BY <1>1, <1>4, LeafAt DEF suffix

\* HealthMetrics.
LEMMA HealthMarks ==
    ASSUME NEW f, NEW p, NEW metric, NEW iface, <<iface, metric>> \in Reported["HealthMetrics"],
           iface = "OperationalStatus" => Mentions(p, "inventory_software")
    PROVE  OneIn(HealthAt(f, p, metric, iface), iface)
<1>1. \/ iface \in {"Health", "HealthRollup"} /\ metric \in DOMAIN pdiNameMap[iface]
      \/ iface = "OperationalStatus" /\ metric = "Functional"
  BY KnownIs DEF Reported
<1>2. CASE iface = "OperationalStatus" /\ metric = "Functional"
  <2>1. HealthAt(f, p, metric, iface)
          = At(In("/redfish/v1/UpdateService/SoftwareInventory/", f.device),
               <<"#", "/Status/", "State">>)
    BY <1>2 DEF HealthAt
  <2> QED BY <1>2, <2>1, Beginnings, LeafAt
<1>3. CASE iface \in {"Health", "HealthRollup"} /\ metric \in DOMAIN pdiNameMap[iface]
  <2>1. \E r : HealthAt(f, p, metric, iface) = At(r, GetPropertySuffix(iface, metric))
    BY <1>3 DEF HealthAt
  <2>2. <<iface, metric>> \in Known(Marked)
    BY <1>3, KnownIs DEF Marked
  <2>3. Single(GetPropertySuffix(iface, metric))
    BY <2>2, SuffixMarks
  <2> QED BY <1>3, <2>1, <2>3, LeafAt
<1> QED BY <1>1, <1>2, <1>3

\* Where a sensor that keeps to its namespace is found, whatever its names are.
LEMMA LocatedMarks ==
    ASSUME NEW f, NEW p \in Seq(Seq(NameWords)), NEW metric, NEW iface,
           f.ns \in DOMAIN Reported, <<iface, metric>> \in Reported[f.ns],
           iface = "Metric.Value" => CpuPort(p) # {} \/ GetPropertySuffixFromPath(p) # <<>>,
           f.ns = "HealthMetrics" /\ iface = "OperationalStatus" => Mentions(p, "inventory_software")
    PROVE  OneIn(Located(f, p, metric, iface), iface)
<1> DEFINE suffix == GetPropertySuffix(iface, metric)
<1>1. DOMAIN Reported =
        {"PlatformEnvironmentMetrics", "CpuProcessorMetrics", "ProcessorPortMetrics",
         "NVSwitchPortMetrics", "NetworkAdapterPortMetrics", "ProcessorPortGPMMetrics",
         "ProcessorMetrics", "ProcessorGPMMetrics", "ProcessorResetMetrics", "NVSwitchMetrics",
         "PCIeRetimerMetrics", "PCIeRetimerPortMetrics", "MemoryMetrics", "HealthMetrics"}
  BY DEF Reported
<1>2. \A r : Single(suffix) /\ iface # "Sensor.Value" => OneIn(At(r, suffix), iface)
  BY LeafAt
<1>3. \A r, l : Single(l) /\ Bare(suffix) /\ iface # "Sensor.Value" => OneIn(At(r, l \o suffix), iface)
  BY LeafAt, MarkAlone
<1> HIDE DEF suffix
<1>4. CASE f.ns = "PlatformEnvironmentMetrics"
  <2>1. iface = "Sensor.Value"
    BY <1>4 DEF Reported
  <2>2. Located(f, p, metric, iface) = At(Sensor(f), <<>>)
    BY <1>4 DEF Located
  <2> QED BY <2>1, <2>2, LeafAt, Beginnings
<1>5. CASE f.ns = "CpuProcessorMetrics"
  <2>1. Located(f, p, metric, iface) = CpuProcessorAt(f, p, metric, iface)
    BY <1>5 DEF Located
  <2> QED BY <1>5, <2>1, CpuProcessorMarks
<1>6. CASE f.ns \in {"ProcessorPortMetrics", "NVSwitchPortMetrics", "NetworkAdapterPortMetrics"}
  <2>1. <<iface, metric>> \in PortMetrics
    BY <1>6 DEF Reported
  <2>2. \E r : Located(f, p, metric, iface) = At(r, suffix)
    BY <1>6 DEF Located, suffix
  <2> QED BY <1>2, <2>1, <2>2, PortSuffix DEF suffix
<1>7. CASE f.ns \in {"ProcessorPortGPMMetrics", "ProcessorGPMMetrics", "ProcessorResetMetrics"}
  <2>1. /\ iface \in {"NVLinkMetrics", "GPMMetrics", "ResetCounterMetrics"}
        /\ metric \in DOMAIN pdiNameMap[iface]
    BY <1>7, KnownIs DEF Reported
  <2>2. <<iface, metric>> \in Known(Unmarked)
    BY <2>1, KnownIs DEF Unmarked
  <2>3. Bare(suffix)
    BY <2>2, SuffixMarks DEF suffix
  <2> DEFINE Marking == {<<"/Metrics", "#">>, <<"/ProcessorMetrics", "#">>,
                         <<"/Oem/Nvidia/ProcessorResetMetrics", "#">>}
  <2>4. \E r : \E l \in Marking : Located(f, p, metric, iface) = At(r, l \o suffix)
    BY <1>7 DEF Located, suffix
  <2>5. \A l \in Marking : Single(l)
    BY Beginnings
  <2> HIDE DEF Marking
  <2> QED BY <1>3, <2>1, <2>3, <2>4, <2>5
<1>8. CASE f.ns = "ProcessorMetrics"
  <2>1. Located(f, p, metric, iface) = ProcessorAt(f, p, metric, iface)
    BY <1>8 DEF Located
  <2> QED BY <1>8, <2>1, ProcessorMarks
<1>9. CASE f.ns = "NVSwitchMetrics"
  <2>1. Located(f, p, metric, iface)
          = At(Switch(f.device), SwitchPart(metric, iface) \o GetPropertySuffix(iface, metric))
    BY <1>9 DEF Located
  <2> QED BY <1>9, <2>1, SwitchMarks
<1>10. CASE f.ns = "PCIeRetimerMetrics"
  <2>1. iface \in {"PCIeDevice", "PCIeRefClock"} /\ <<iface, metric>> \in Known(Marked)
    BY <1>10, KnownIs DEF Reported, Marked
  <2>2. \E r : Located(f, p, metric, iface) = At(r, suffix)
    BY <1>10 DEF Located, suffix
  <2> QED BY <1>2, <2>1, <2>2, SuffixMarks DEF suffix
<1>11. CASE f.ns = "PCIeRetimerPortMetrics"
  <2>1. Located(f, p, metric, iface)
          = At(Retimer(f.device) \o Port(f.subDevice), RetimerPart(iface) \o suffix)
    BY <1>11 DEF Located, suffix
  <2> DEFINE r == Retimer(f.device) \o Port(f.subDevice)
  <2>2. CASE <<iface, metric>> \in PortMetrics
    <3>1. Single(suffix) /\ iface # "Sensor.Value" /\ iface \in Marked
      BY <2>2, PortSuffix DEF suffix
    <3>2. RetimerPart(iface) = <<>>
      BY <3>1 DEF RetimerPart, Marked
    <3>3. Single(RetimerPart(iface) \o suffix)
      BY <3>1, <3>2, Beginnings, MarkAlone
    <3> QED BY <2>1, <3>1, <3>3, LeafAt
  <2>3. CASE <<iface, metric>> \notin PortMetrics
    <3>1. /\ iface \in {"PCIeECC", "PCIeTransactionCounter", "PCIeLaneError"}
          /\ metric \in DOMAIN pdiNameMap[iface]
          /\ iface = "PCIeECC" => metric \notin {"PCIeType", "MaxLanes", "LanesInUse"}
      BY <1>11, <2>3, KnownIs DEF Reported, LinkMetrics
    <3>2. Bare(suffix)
      <4>1. CASE iface \in {"PCIeTransactionCounter", "PCIeLaneError"}
        <5>1. <<iface, metric>> \in Known(Unmarked)
          BY <3>1, <4>1, KnownIs DEF Unmarked
        <5> QED BY <5>1, SuffixMarks DEF suffix
      <4>2. CASE iface = "PCIeECC"
        BY <3>1, <4>2, KnownIs, SuffixMarks DEF suffix
      <4> QED BY <3>1, <4>1, <4>2
    <3>3. RetimerPart(iface) = <<"/Metrics", "#">>
      BY <3>1 DEF RetimerPart
    <3>4. Single(<<"/Metrics", "#">>)
      BY Beginnings
    <3> QED BY <1>3, <2>1, <3>1, <3>2, <3>3, <3>4
  <2> QED BY <2>2, <2>3
<1>12. CASE f.ns = "MemoryMetrics"
  <2>1. Located(f, p, metric, iface)
          = At(Memory(f.device), MemoryPart(metric, iface) \o GetPropertySuffix(iface, metric))
    BY <1>12 DEF Located
  <2> QED BY <1>12, <2>1, MemoryMarks
<1>13. CASE f.ns = "HealthMetrics"
  <2>1. Located(f, p, metric, iface) = HealthAt(f, p, metric, iface)
    BY <1>13 DEF Located
  <2> QED BY <1>13, <2>1, HealthMarks
<1> QED BY <1>1, <1>4, <1>5, <1>6, <1>7, <1>8, <1>9, <1>10, <1>11, <1>12, <1>13

\* A resource has none of a leaf's marks.
LEMMA MarksOfLeaf ==
    ASSUME NEW x, IsPlace(x), IsText(x.leaf)
    PROVE  \E n \in Nat : {k \in DOMAIN TextOf(x) : TextOf(x)[k] = "#"}
                            = {n + k : k \in {j \in DOMAIN x.leaf : x.leaf[j] = "#"}}
<1> DEFINE r == x.resource
           a == Texts(r)[Len(r)]
           l == x.leaf
           X == TextOf(x)
<1>1. a \in Seq(ResourceWords)
  BY TextsAre DEF AreTexts, IsPlace
<1>2. IsText(a) /\ IsText(l)
  BY <1>1 DEF IsText
<1>3. X = a \o l
  BY DEF TextOf
<1> HIDE DEF a, l, X
<1>4. /\ Len(a) \in Nat /\ Len(l) \in Nat /\ DOMAIN X = 1 .. Len(a) + Len(l)
      /\ DOMAIN l = 1 .. Len(l) /\ OneThenOther(X, a, l)
  BY <1>2, <1>3, JoinedTexts
<1>5. /\ \A i \in 1 .. Len(a) : X[i] # "#"
      /\ \A i \in 1 .. Len(l) : X[Len(a) + i] = l[i]
  <2>1. \A i \in 1 .. Len(a) : a[i] \in ResourceWords
    BY <1>1
  <2> QED BY <1>4, <2>1, WordsApart DEF OneThenOther
<1>6. ASSUME NEW k \in DOMAIN X, X[k] = "#"
      PROVE  \E j \in DOMAIN l : l[j] = "#" /\ k = Len(a) + j
  <2>1. k - Len(a) \in 1 .. Len(l) /\ k = Len(a) + (k - Len(a))
    BY <1>4, <1>5, <1>6
  <2> QED BY <1>4, <1>5, <1>6, <2>1
<1>7. ASSUME NEW j \in DOMAIN l, l[j] = "#" PROVE Len(a) + j \in DOMAIN X /\ X[Len(a) + j] = "#"
  BY <1>4, <1>5, <1>7
<1>8. {k \in DOMAIN X : X[k] = "#"} = {Len(a) + k : k \in {j \in DOMAIN l : l[j] = "#"}}
  BY <1>6, <1>7
<1> QED BY <1>4, <1>8 DEF X, l

\* Where a sensor may be found.
LEMMA PlacesMarked ==
    ASSUME PlainNames, InTheirNamespaces, NEW s \in Sensors, NEW x \in PlacesOf(s)
    PROVE  /\ IsPlace(x) /\ IsText(x.leaf)
           /\ IF s.iface = "Sensor.Value" THEN Bare(x.leaf) ELSE Single(x.leaf)
<1>0. PICK order \in Orders(Touched(s.path)) :
          \E f \in FieldsOf(s.path, s.prop, s.parent, order) : x = Located(f, s.path, s.prop, s.iface)
  BY DEF PlacesOf
<1>1. PICK f \in FieldsOf(s.path, s.prop, s.parent, order) : x = Located(f, s.path, s.prop, s.iface)
  BY <1>0
<1>2. /\ s.path \in Seq(Seq(NameWords))
      /\ f.device \in Seq(NameWords) /\ f.subDevice \in Seq(NameWords)
  BY PlainFields
<1>3. IsPlace(x)
  BY <1>1, <1>2, LocatedPlace
<1>4. f.ns \in Homes(s.path, s.prop)
  <2>1. Path(s.path)
    BY <1>2, PathNames
  <2> QED BY <2>1, Placed
<1>5. /\ f.ns \in DOMAIN Reported /\ <<s.iface, s.prop>> \in Reported[f.ns]
      /\ s.iface = "Metric.Value" => CpuPort(s.path) # {} \/ GetPropertySuffixFromPath(s.path) # <<>>
      /\ f.ns = "HealthMetrics" /\ s.iface = "OperationalStatus"
         => Mentions(s.path, "inventory_software")
  BY <1>4 DEF InTheirNamespaces, IsStatus
<1>6. OneIn(x, s.iface)
  BY <1>1, <1>2, <1>5, LocatedMarks
<1>7. x # Nowhere
  BY DEF PlacesOf
<1> QED BY <1>3, <1>6, <1>7 DEF OneIn, Bare, Single

\* OneFragment: what a namespace says of a leaf and what the table says of the property
\* have one mark between them, for each property of each interface that belongs in the
\* namespace, and the names that the rest of the URI is made with do not add another.
THEOREM OneMark ==
    ASSUME PlainNames, InTheirNamespaces, ListsHaveURI
    PROVE  Spec => []OneFragment
<1>1. ASSUME Registered, Elements, Made PROVE OneFragment
  <2>1. SUFFICES ASSUME NEW s \in DOMAIN shown, NEW i \in DOMAIN shown[s]
                 PROVE  LET marks == {k \in DOMAIN shown[s][i].uri : shown[s][i].uri[k] = "#"}
                        IN  Cardinality(marks) = IF s.iface = "Sensor.Value" THEN 0 ELSE 1
    BY DEF OneFragment
  <2>2. s \in DOMAIN fields /\ s \in Sensors
    BY <1>1 DEF Registered
  <2>3. PICK x \in PlacesOf(s) : shown[s][i].uri = TextOf(x)
    BY <1>1, <2>2, PlaceOfElement
  <2> DEFINE marks == {k \in DOMAIN TextOf(x) : TextOf(x)[k] = "#"}
             inLeaf == {j \in DOMAIN x.leaf : x.leaf[j] = "#"}
  <2>4. PICK n \in Nat : marks = {n + k : k \in inLeaf}
    BY <2>2, PlacesMarked, MarksOfLeaf
  <2>5. CASE s.iface = "Sensor.Value"
    <3>1. inLeaf = {}
      BY <2>2, <2>5, PlacesMarked DEF Bare
    <3>2. Cardinality(marks) = 0
      <4> HIDE DEF marks, inLeaf
      <4>1. marks = {}
        BY <2>4, <3>1
      <4> QED BY <4>1, FS_EmptySet
    <3> QED BY <2>3, <2>5, <3>2
  <2>6. CASE s.iface # "Sensor.Value"
    <3>1. \E k : inLeaf = {k}
      <4>1. PICK k \in DOMAIN x.leaf : \A j \in DOMAIN x.leaf : x.leaf[j] = "#" <=> j = k
        BY <2>2, <2>6, PlacesMarked DEF Single
      <4> QED BY <4>1
    <3>2. Cardinality(marks) = 1
      <4> HIDE DEF marks, inLeaf
      <4>1. PICK k : inLeaf = {k}
        BY <3>1
      <4>2. marks = {n + k}
        BY <2>4, <4>1
      <4> QED BY <4>2, FS_Singleton
    <3> QED BY <2>3, <2>6, <3>2
  <2> QED BY <2>5, <2>6
<1> QED BY <1>1, AlwaysMade, PTL

=============================================================================
