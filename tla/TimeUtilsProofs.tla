--------------------------- MODULE TimeUtilsProofs ---------------------------
(***************************************************************************)
(* What toDurationString and nanoSecToDurationString write is read back by *)
(* fromDurationString, for every duration.                                 *)
(*                                                                         *)
(* A text is taken apart from the left.  FormatWrites shows that it is     *)
(* P, days, T, hours, minutes and seconds joined from the right; PartReads *)
(* and SecondsRead show that each reader takes its own item off the front, *)
(* whether the item was printed or left out because it was zero, as no     *)
(* letter of an item occurs behind it.                                     *)
(***************************************************************************)
EXTENDS TimeUtils, CalendarProofs

\* What is counted so far, and the items of a text.
Times   == [1 .. 3 -> Int]
Letters == {"P", "D", "T", "H", "M", ".", "S"}
Item    == {<<c>> : c \in Letters} \cup {Number(n, w) : n \in Nat, w \in Nat}

\* No letter is the mark of a number.
LEMMA Items ==
    ASSUME NEW c \in Letters, NEW n \in Nat, NEW w \in Nat
    PROVE  <<c>> \in Item /\ Number(n, w) \in Item /\ <<c>>[1] = c /\ Number(n, w)[1] = "number"
           /\ Number(n, w)[2] = n /\ Number(n, w)[3] = w /\ c # "number"
BY DEF Letters, Item, Number

\* A number and its letter, as a text.
LEMMA Pair ==
    ASSUME NEW c \in Letters, NEW n \in Nat, NEW w \in Nat
    PROVE  LET p == <<Number(n, w), <<c>>>>
           IN  p \in Seq(Item) /\ Len(p) = 2 /\ p[1] = Number(n, w) /\ p[2] = <<c>>
BY Items

\* What is printed of an item is a text, whether it is zero or not.
LEMMA Parts ==
    ASSUME NEW c \in Letters, NEW n \in Nat
    PROVE  Part(n, c) \in Seq(Item)
<1>1. <<>> \in Seq(Item)
    OBVIOUS
<1>2. <<Number(n, 0), <<c>>>> \in Seq(Item)
    BY Pair
<1> QED BY <1>1, <1>2 DEF Part

\* A letter of a joined text is a letter of one of the two.
LEMMA HasJoin ==
    ASSUME NEW s \in Seq(Item), NEW t \in Seq(Item), NEW c
    PROVE  Has(s \o t, c) <=> Has(s, c) \/ Has(t, c)
<1> DEFINE u == s \o t
<1>1. /\ u \in Seq(Item)
      /\ Len(u) = Len(s) + Len(t)
      /\ \A i \in 1 .. Len(s) + Len(t) : u[i] = IF i <= Len(s) THEN s[i] ELSE t[i - Len(s)]
    BY ConcatProperties
<1> HIDE DEF u
<1>2. DOMAIN u = 1 .. Len(u) /\ DOMAIN s = 1 .. Len(s) /\ DOMAIN t = 1 .. Len(t)
    BY <1>1
<1>3. Len(s) \in Nat /\ Len(t) \in Nat
    OBVIOUS
<1>4. ASSUME Has(u, c) PROVE Has(s, c) \/ Has(t, c)
    <2>1. PICK i \in 1 .. Len(s) + Len(t) : u[i][1] = c
        BY <1>1, <1>2, <1>4 DEF Has
    <2>2. CASE i <= Len(s)
        <3>1. i \in DOMAIN s /\ u[i] = s[i]
            BY <1>1, <1>2, <2>2
        <3> QED BY <2>1, <3>1 DEF Has
    <2>3. CASE ~(i <= Len(s))
        <3>1. i - Len(s) \in DOMAIN t /\ u[i] = t[i - Len(s)]
            BY <1>1, <1>2, <1>3, <2>3
        <3> QED BY <2>1, <3>1 DEF Has
    <2> QED BY <2>2, <2>3
<1>5. ASSUME Has(s, c) PROVE Has(u, c)
    <2>1. PICK i \in 1 .. Len(s) : s[i][1] = c
        BY <1>2, <1>5 DEF Has
    <2>2. i \in DOMAIN u /\ u[i] = s[i]
        BY <1>1, <1>2, <1>3
    <2> QED BY <2>1, <2>2 DEF Has
<1>6. ASSUME Has(t, c) PROVE Has(u, c)
    <2>1. PICK i \in 1 .. Len(t) : t[i][1] = c
        BY <1>2, <1>6 DEF Has
    <2>2. i + Len(s) \in 1 .. Len(s) + Len(t) /\ ~(i + Len(s) <= Len(s)) /\ (i + Len(s)) - Len(s) = i
        BY <1>3
    <2>3. i + Len(s) \in DOMAIN u /\ u[i + Len(s)] = t[i]
        BY <1>1, <1>2, <2>2
    <2> QED BY <2>1, <2>3 DEF Has
<1> QED BY <1>4, <1>5, <1>6 DEF u

\* The letters of an item.
LEMMA HasLetter ==
    ASSUME NEW c \in Letters, NEW d \in Letters, NEW n \in Nat, NEW w \in Nat
    PROVE  /\ Has(<<<<c>>>>, d) <=> c = d
           /\ Has(<<Number(n, w), <<c>>>>, d) <=> c = d
           /\ Has(Part(n, c), d) <=> c = d /\ n > 0
           /\ ~Has(<<>>, d)
<1>1. Has(<<<<c>>>>, d) <=> c = d
    BY Items DEF Has
<1>2. \A v \in Nat : Has(<<Number(n, v), <<c>>>>, d) <=> c = d
    <2> TAKE v \in Nat
    <2> DEFINE p == <<Number(n, v), <<c>>>>
    <2>1. p[1][1] = "number" /\ p[2][1] = c
        BY Items
    <2>2. DOMAIN p = {1, 2}
        <3>1. DOMAIN p = 1 .. 2
            OBVIOUS
        <3> QED BY SMT, <3>1
    <2>3. d # "number"
        BY Items
    <2> HIDE DEF p
    <2>4. Has(p, d) <=> c = d
        BY <2>1, <2>2, <2>3 DEF Has
    <2> QED BY <2>4 DEF p
<1>3. ~Has(<<>>, d)
    BY DEF Has
<1>4. Has(Part(n, c), d) <=> c = d /\ n > 0
    BY <1>2, <1>3 DEF Part
<1> QED BY <1>1, <1>2, <1>3, <1>4

\* Of a text that begins with an item the number stands before its letter, and the
\* rest of the text after it.
LEMMA ReadItem ==
    ASSUME NEW c \in Letters, NEW n \in Nat, NEW w \in Nat, NEW rest \in Seq(Item)
    PROVE  LET text == <<Number(n, w), <<c>>>> \o rest
           IN  /\ Has(text, c)
               /\ Before(text, c) = <<Number(n, w)>>
               /\ After(text, c) = rest
<1> DEFINE p == <<Number(n, w), <<c>>>>
           u == p \o rest
           found(i) == u[i][1] = c /\ \A j \in 1 .. i - 1 : u[j][1] # c
<1>1. p \in Seq(Item) /\ Len(p) = 2 /\ p[1] = Number(n, w) /\ p[2] = <<c>>
    BY Pair
<1>2. p[1][1] # c /\ p[2][1] = c
    BY <1>1, Items
<1> HIDE DEF p
<1>3. /\ u \in Seq(Item)
      /\ Len(u) = Len(p) + Len(rest)
      /\ \A i \in 1 .. Len(p) + Len(rest) : u[i] = IF i <= Len(p) THEN p[i] ELSE rest[i - Len(p)]
    BY <1>1, ConcatProperties
<1>4. Len(rest) \in Nat
    OBVIOUS
<1>5. Has(u, c)
    <2>1. Has(p, c)
        BY HasLetter DEF p
    <2> QED BY <1>1, <2>1, HasJoin
<1> HIDE DEF u
<1>6. u[1] = p[1] /\ u[2] = p[2] /\ Len(u) = 2 + Len(rest) /\ DOMAIN u = 1 .. 2 + Len(rest)
    BY <1>1, <1>3, <1>4
<1>7. 2 \in DOMAIN u /\ found(2)
    BY <1>2, <1>4, <1>6
<1>8. ASSUME NEW i \in DOMAIN u, found(i) PROVE i = 2
    <2>1. i \in Int /\ i >= 1 /\ i # 1
        BY <1>2, <1>4, <1>6, <1>8
    <2>2. ~(i > 2)
        <3> SUFFICES ASSUME i > 2 PROVE FALSE
            OBVIOUS
        <3>1. 2 \in 1 .. i - 1
            BY <2>1
        <3> QED BY <1>2, <1>6, <1>8, <3>1
    <2> QED BY <2>1, <2>2
<1>9. (CHOOSE i \in DOMAIN u : found(i)) = 2
    BY <1>7, <1>8
<1>10. Before(u, c) = SubSeq(u, 1, 1)
    <2>1. Before(u, c) = SubSeq(u, 1, (CHOOSE i \in DOMAIN u : found(i)) - 1)
        BY DEF Before
    <2>2. 2 - 1 = 1
        BY SMT
    <2> HIDE DEF found
    <2> QED BY <1>9, <2>1, <2>2
<1>11. Before(u, c) = <<Number(n, w)>>
    <2> DEFINE v == SubSeq(u, 1, 1)
               b == <<Number(n, w)>>
    <2>1. v \in Seq(Item) /\ Len(v) = 1 /\ v[1] = u[1]
        BY <1>3, <1>4, <1>6
    <2>2. b \in Seq(Item) /\ Len(b) = 1 /\ b[1] = Number(n, w)
        <3> DEFINE x == Number(n, w)
        <3>1. x \in Item
            BY Items
        <3> HIDE DEF x
        <3>2. <<x>> \in Seq(Item) /\ Len(<<x>>) = 1 /\ <<x>>[1] = x
            BY <3>1
        <3> QED BY <3>2 DEF x
    <2>3. u[1] = Number(n, w)
        BY <1>1, <1>6
    <2> HIDE DEF v, b
    <2>4. \A i \in 1 .. Len(v) : v[i] = b[i]
        BY <2>1, <2>2, <2>3
    <2>5. v = b
        BY <2>1, <2>2, <2>4, SeqEqual
    <2> QED BY <1>10, <2>5 DEF v, b
<1>12. Len(Before(u, c)) = 1
    BY <1>11
<1>13. After(u, c) = SubSeq(u, 3, 2 + Len(rest))
    BY <1>6, <1>12 DEF After
<1>14. SubSeq(u, 3, 2 + Len(rest)) = rest
    <2> DEFINE v == SubSeq(u, 3, 2 + Len(rest))
    <2>1. v \in Seq(Item) /\ Len(v) = Len(rest) /\ \A i \in 1 .. Len(rest) : v[i] = u[i + 2]
        BY <1>3, <1>4, <1>6
    <2>2. ASSUME NEW i \in 1 .. Len(rest) PROVE v[i] = rest[i]
        <3>1. i + 2 \in 1 .. Len(p) + Len(rest) /\ ~(i + 2 <= Len(p)) /\ (i + 2) - Len(p) = i
            BY <1>1, <1>4
        <3>2. u[i + 2] = rest[i]
            BY <1>3, <3>1
        <3> QED BY <2>1, <3>2
    <2> HIDE DEF v
    <2>3. v = rest
        BY <2>1, <2>2, SeqEqual
    <2> QED BY <2>3 DEF v
<1> QED BY <1>5, <1>11, <1>13, <1>14 DEF u, p


\* A number that is printed with its letter.
Piece(n, w, c) == <<Number(n, w), <<c>>>>

OneNumber(b, n, w) == Len(b) = 1 /\ b[1] = Number(n, w)

\* ReadItem, without the tuples that make up the text.
LEMMA Pieces ==
    ASSUME NEW c \in Letters, NEW n \in Nat, NEW w \in Nat, NEW rest \in Seq(Item)
    PROVE  /\ Piece(n, w, c) \in Seq(Item)
           /\ \A d \in Letters : Has(Piece(n, w, c), d) <=> c = d
           /\ Has(Piece(n, w, c) \o rest, c)
           /\ OneNumber(Before(Piece(n, w, c) \o rest, c), n, w)
           /\ After(Piece(n, w, c) \o rest, c) = rest
<1>1. Piece(n, w, c) \in Seq(Item)
    BY Pair DEF Piece
<1>2. \A d \in Letters : Has(Piece(n, w, c), d) <=> c = d
    BY HasLetter DEF Piece
<1>3. /\ Has(Piece(n, w, c) \o rest, c)
      /\ Before(Piece(n, w, c) \o rest, c) = <<Number(n, w)>>
      /\ After(Piece(n, w, c) \o rest, c) = rest
    BY ReadItem DEF Piece
<1>4. Len(<<Number(n, w)>>) = 1 /\ <<Number(n, w)>>[1] = Number(n, w)
    OBVIOUS
<1>5. OneNumber(Before(Piece(n, w, c) \o rest, c), n, w)
    BY <1>3, <1>4 DEF OneNumber
<1> QED BY <1>1, <1>2, <1>3, <1>5

\* A text that is left to be read, and what has been read of it.
Reading(text, out) == [text |-> text, out |-> out]
Plus(o, k, x)      == [o EXCEPT ![k] = @ + x]

\* A text that is being read is not the answer for one that cannot be.
LEMMA Readings ==
    ASSUME NEW u, NEW o \in Times
    PROVE  Reading(u, o) # Bad /\ Reading(u, o).text = u /\ Reading(u, o).out = o
<1>1. DOMAIN o = 1 .. 3 /\ DOMAIN <<>> = {}
    BY DEF Times
<1> QED BY <1>1 DEF Bad, Reading

\* Adding to a count gives a count.
LEMMA Sums ==
    ASSUME NEW o \in Times, NEW k \in 1 .. 3, NEW x \in Int
    PROVE  Plus(o, k, x) \in Times /\ (x = 0 => Plus(o, k, x) = o)
BY DEF Plus, Times

\* An item in whole units is taken off the front of the text and counted.
LEMMA WholeReads ==
    ASSUME NEW c \in Letters, NEW n \in Nat, NEW rest \in Seq(Item), NEW o \in Times,
           NEW k \in 1 .. 3, NEW f \in Int
    PROVE  Whole(Reading(Piece(n, 0, c) \o rest, o), c, <<k, f>>) = Reading(rest, Plus(o, k, n * f))
<1> DEFINE u == Piece(n, 0, c) \o rest
           r == Reading(u, o)
           b == Before(u, c)
<1>1. Has(u, c) /\ OneNumber(b, n, 0) /\ After(u, c) = rest
    <2>1. 0 \in Nat
        OBVIOUS
    <2>2. Has(u, c)
        BY <2>1, Pieces
    <2>3. After(u, c) = rest
        BY <2>1, Pieces
    <2>4. OneNumber(b, n, 0)
        BY <2>1, Pieces
    <2> QED BY <2>2, <2>3, <2>4
<1> HIDE DEF u
<1>2. r # Bad /\ r.text = u /\ r.out = o
    BY Readings
<1>3. Len(b) = 1 /\ b[1] = Number(n, 0) /\ IsNumber(b[1]) /\ b[1][2] = n
    BY <1>1, Items DEF IsNumber, Number, OneNumber
<1> HIDE DEF b
<1>4. Whole(r, c, <<k, f>>) = [text |-> rest, out |-> [o EXCEPT ![k] = @ + n * f]]
    <2>1. <<k, f>>[1] = k /\ <<k, f>>[2] = f
        OBVIOUS
    <2> HIDE DEF r
    <2> QED BY <1>1, <1>2, <1>3, <2>1 DEF Whole, b
<1> QED BY <1>4 DEF u, Reading, Plus

\* An item that the text does not have is passed over.
LEMMA WholePasses ==
    ASSUME NEW c, NEW u, NEW o, NEW x, ~Has(u, c)
    PROVE  Whole(Reading(u, o), c, x) = Reading(u, o)
BY DEF Whole, Reading

\* An item is read back whether it was printed or, being zero, left out.
LEMMA PartReads ==
    ASSUME NEW c \in Letters, NEW n \in Nat, NEW rest \in Seq(Item), ~Has(rest, c),
           NEW o \in Times, NEW k \in 1 .. 3, NEW f \in Int
    PROVE  Whole(Reading(Part(n, c) \o rest, o), c, <<k, f>>) = Reading(rest, Plus(o, k, n * f))
<1>1. CASE n > 0
    <2>1. Part(n, c) = Piece(n, 0, c)
        BY <1>1 DEF Part, Piece
    <2> QED BY <2>1, WholeReads
<1>2. CASE n = 0
    <2>1. Part(n, c) \o rest = rest
        BY <1>2, ConcatEmptySeq DEF Part
    <2>2. n * f = 0 /\ 0 \in Int
        BY <1>2
    <2>3. Plus(o, k, n * f) = o
        BY <2>2, Sums
    <2> QED BY <2>1, <2>3, WholePasses
<1> QED BY <1>1, <1>2

\* What Format writes behind the whole minutes.
Seconds(s, frac, w) == <<Number(s, 0), <<".">>, Number(frac, w), <<"S">>>>

\* The whole ms of a fraction.
Millis(frac, w) == IF w = 3 THEN frac ELSE frac \div 1000000

\* Seconds with a fraction of three or nine digits are read back as seconds and ms.
LEMMA SecondsRead ==
    ASSUME NEW s \in Nat, NEW frac \in Nat, NEW w \in {3, 9}, NEW o \in Times
    PROVE  /\ Seconds(s, frac, w) \in Seq(Item)
           /\ \A c \in Letters : Has(Seconds(s, frac, w), c) <=> c \in {".", "S"}
           /\ Fraction(Whole(Reading(Seconds(s, frac, w), o), ".", <<2, 1>>))
              = Reading(<<>>, Plus(Plus(o, 2, s), 3, Millis(frac, w)))
<1> DEFINE p == Piece(s, 0, ".")
           q == Piece(frac, w, "S")
           u == Seconds(s, frac, w)
           o2 == Plus(o, 2, s)
           r == Reading(q, o2)
           ms == Millis(frac, w)
<1>1. w \in Nat /\ "." \in Letters /\ "S" \in Letters /\ <<>> \in Seq(Item)
    BY DEF Letters
<1>2. p \in Seq(Item) /\ q \in Seq(Item)
    BY <1>1, Pieces
<1>3. u = p \o q
    BY DEF Seconds, Piece
<1>4. u \in Seq(Item)
    BY <1>2, <1>3
<1>5. ASSUME NEW c \in Letters
      PROVE  Has(u, c) <=> c \in {".", "S"}
    <2>1. Has(p, c) <=> c = "."
        BY <1>1, <1>2, Pieces
    <2>2. Has(q, c) <=> c = "S"
        BY <1>1, <1>2, Pieces
    <2> HIDE DEF p, q, u
    <2>3. Has(u, c) <=> Has(p, c) \/ Has(q, c)
        BY <1>2, <1>3, HasJoin
    <2> QED BY <2>1, <2>2, <2>3
<1>6. Whole(Reading(u, o), ".", <<2, 1>>) = r
    <2>1. 2 \in 1 .. 3 /\ 1 \in Int /\ s * 1 = s
        OBVIOUS
    <2>2. Whole(Reading(p \o q, o), ".", <<2, 1>>) = Reading(q, Plus(o, 2, s * 1))
        BY <1>1, <1>2, <2>1, WholeReads
    <2> QED BY <1>3, <2>1, <2>2
<1>7. o2 \in Times
    BY Sums
<1>8. q \o <<>> = q
    BY <1>2, ConcatEmptySeq
<1>9. /\ Has(q, "S") /\ After(q, "S") = <<>>
      /\ OneNumber(Before(q, "S"), frac, w)
    <2> DEFINE e == <<>>
    <2>1. e \in Seq(Item)
        OBVIOUS
    <2> HIDE DEF e
    <2>2. Has(q \o e, "S")
        BY <1>1, <2>1, Pieces
    <2>3. After(q \o e, "S") = e
        BY <1>1, <2>1, Pieces
    <2>4. OneNumber(Before(q \o e, "S"), frac, w)
        BY <1>1, <2>1, Pieces
    <2> QED BY <1>8, <2>2, <2>3, <2>4 DEF e
<1> DEFINE b == Before(q, "S")
<1>10. b # <<>> /\ Len(b) = 1 /\ IsNumber(b[1]) /\ b[1][2] = frac /\ b[1][3] = w
    BY <1>1, <1>9, Items DEF IsNumber, Number, OneNumber
<1>11. (IF w > 3 THEN frac \div 10 ^ (w - 3) ELSE frac * 10 ^ (3 - w)) = ms
    <2>1. 10 ^ 0 = 1 /\ 10 ^ 6 = 1000000
        BY SMT
    <2>2. CASE w = 3
        <3>1. 3 - w = 0 /\ ~(w > 3)
            BY SMT, <2>2
        <3> QED BY SMT, <2>1, <2>2, <3>1 DEF Millis
    <2>3. CASE w = 9
        <3>1. w - 3 = 6 /\ w > 3
            BY SMT, <2>3
        <3> QED BY SMT, <2>1, <2>3, <3>1 DEF Millis
    <2> QED BY <2>2, <2>3
<1> HIDE DEF o2, q
<1>12. r # Bad /\ r.text = q /\ r.out = o2
    BY <1>7, Readings
<1> DEFINE t == IF w > 3 THEN frac \div 10 ^ (w - 3) ELSE frac * 10 ^ (3 - w)
<1>13. t = ms
    BY <1>11
<1> HIDE DEF b, t, ms
<1>14. Fraction(r) = [text |-> <<>>, out |-> [o2 EXCEPT ![3] = @ + t]]
    <2> HIDE DEF r
    <2> QED BY SMT, <1>9, <1>10, <1>12 DEF Fraction, b, t
<1>15. Fraction(r) = Reading(<<>>, Plus(o2, 3, ms))
    BY <1>13, <1>14 DEF Reading, Plus
<1> QED BY <1>4, <1>5, <1>6, <1>15 DEF ms, o2


\* The P and the T are taken off the front of the text.
LEMMA FirstLetter ==
    ASSUME NEW c \in Letters, NEW rest \in Seq(Item)
    PROVE  LET u == <<<<c>>>> \o rest
           IN  u \in Seq(Item) /\ u # <<>> /\ Head(u) = <<c>> /\ Tail(u) = rest
<1> DEFINE p == <<<<c>>>>
           u == p \o rest
<1>1. p \in Seq(Item) /\ Len(p) = 1 /\ p[1] = <<c>>
    <2> DEFINE x == <<c>>
    <2>1. x \in Item
        BY DEF Item
    <2> HIDE DEF x
    <2>2. <<x>> \in Seq(Item) /\ Len(<<x>>) = 1 /\ <<x>>[1] = x
        BY <2>1
    <2> QED BY <2>2 DEF x
<1> HIDE DEF p
<1>2. /\ u \in Seq(Item)
      /\ Len(u) = Len(p) + Len(rest)
      /\ \A i \in 1 .. Len(p) + Len(rest) : u[i] = IF i <= Len(p) THEN p[i] ELSE rest[i - Len(p)]
    BY <1>1, ConcatProperties
<1> HIDE DEF u
<1>3. Len(rest) \in Nat
    OBVIOUS
<1>4. Len(u) = 1 + Len(rest) /\ u # <<>> /\ u[1] = <<c>>
    BY <1>1, <1>2, <1>3
<1>5. Head(u) = <<c>>
    BY <1>2, <1>4
<1> DEFINE v == Tail(u)
<1>6. v \in Seq(Item) /\ Len(v) = Len(rest) /\ \A i \in 1 .. Len(rest) : v[i] = u[i + 1]
    BY <1>2, <1>3, <1>4
<1>7. ASSUME NEW i \in 1 .. Len(rest) PROVE v[i] = rest[i]
    <2>1. i + 1 \in 1 .. Len(p) + Len(rest) /\ ~(i + 1 <= Len(p)) /\ (i + 1) - Len(p) = i
        BY <1>1, <1>3
    <2>2. u[i + 1] = rest[i]
        BY <1>2, <2>1
    <2> QED BY <1>6, <2>2
<1> HIDE DEF v
<1>8. v = rest
    BY <1>6, <1>7, SeqEqual
<1> QED BY <1>2, <1>4, <1>5, <1>8 DEF u, p, v

\* A text of days, hours and minutes and what is behind them.
Written(days, hh, mm, x) ==
    <<<<"P">>>> \o (Part(days, "D") \o (<<<<"T">>>> \o (Part(hh, "H") \o (Part(mm, "M") \o x))))

\* The last step of Parse.
Remainder(m) ==
    LET s == IF Has(m.text, ".") /\ Has(m.text, "S")
             THEN Fraction(Whole(m, ".", <<2, 1>>))
             ELSE Whole(m, "S", <<2, 1>>)
    IN  IF s.text = <<>> THEN s ELSE Bad

\* What is counted of days, hours and minutes.
Counted(days, hh, mm) == Plus(Plus(Plus(<<0, 0, 0>>, 1, days), 2, hh * 3600), 2, mm * 60)

\* Parse reads days, hours and minutes and goes on with what is behind them.
LEMMA ParseReads ==
    ASSUME NEW days \in Nat, NEW hh \in Nat, NEW mm \in Nat, NEW x \in Seq(Item),
           \A c \in {"D", "T", "H", "M"} : ~Has(x, c)
    PROVE  Parse(Written(days, hh, mm, x)) = Remainder(Reading(x, Counted(days, hh, mm)))
<1> DEFINE D == Part(days, "D")
           T == <<<<"T">>>>
           H == Part(hh, "H")
           M == Part(mm, "M")
           x3 == M \o x
           x2 == H \o x3
           x1 == T \o x2
           x0 == D \o x1
           zero == <<0, 0, 0>>
           o1 == Plus(zero, 1, days)
           o2 == Plus(o1, 2, hh * 3600)
           o3 == Plus(o2, 2, mm * 60)
<1>1. "P" \in Letters /\ "D" \in Letters /\ "T" \in Letters /\ "H" \in Letters /\ "M" \in Letters
    BY DEF Letters
<1>2. D \in Seq(Item) /\ H \in Seq(Item) /\ M \in Seq(Item)
    BY <1>1, Parts
<1>3. x3 \in Seq(Item)
    BY <1>2
<1>4. x2 \in Seq(Item)
    <2> HIDE DEF x3, H
    <2> QED BY <1>2, <1>3
<1>5. x1 \in Seq(Item) /\ x1 # <<>> /\ Head(x1) = <<"T">> /\ Tail(x1) = x2
    <2> HIDE DEF x2
    <2> QED BY <1>1, <1>4, FirstLetter
<1>6. x0 \in Seq(Item)
    <2> HIDE DEF x1, D
    <2> QED BY <1>2, <1>5
<1> DEFINE text == <<<<"P">>>> \o x0
<1>7. text # <<>> /\ Head(text) = <<"P">> /\ Tail(text) = x0
    <2> HIDE DEF x0
    <2> QED BY <1>1, <1>6, FirstLetter
<1>8. Written(days, hh, mm, x) = text
    BY DEF Written
<1>9. zero \in Times /\ days \in Int /\ days * 1 = days
    BY DEF Times
<1>10. o1 \in Times
    BY <1>9, Sums
<1>11. o2 \in Times /\ hh * 3600 \in Int
    <2>1. hh * 3600 \in Int
        BY SMT
    <2> HIDE DEF o1
    <2> QED BY SMT, <1>10, <2>1, Sums
<1>12. Counted(days, hh, mm) = o3
    BY DEF Counted
<1>13. ~Has(x3, "H") /\ ~Has(x3, "T") /\ ~Has(x3, "D")
    <2>1. ~Has(M, "H") /\ ~Has(M, "T") /\ ~Has(M, "D")
        BY <1>1, HasLetter
    <2> HIDE DEF M
    <2> QED BY <1>2, <2>1, HasJoin
<1>14. ~Has(x1, "D")
    <2>1. ~Has(H, "D") /\ ~Has(T, "D")
        BY <1>1, HasLetter
    <2>2. ~Has(x2, "D")
        <3> HIDE DEF H, x3
        <3> QED BY <1>2, <1>3, <1>13, <2>1, HasJoin
    <2>3. T \in Seq(Item)
        <3> DEFINE t == <<"T">>
        <3>1. t \in Item
            BY <1>1 DEF Item
        <3> HIDE DEF t
        <3>2. <<t>> \in Seq(Item)
            BY <3>1
        <3> QED BY <3>2 DEF t
    <2> HIDE DEF T, x2
    <2> QED BY <1>4, <2>1, <2>2, <2>3, HasJoin
<1> HIDE DEF x0, x1, x2, x3, text, o1, o2, o3, zero, D, T, H, M
<1>15. Whole(Reading(x0, zero), "D", <<1, 1>>) = Reading(x1, o1)
    <2>1. 1 \in 1 .. 3 /\ 1 \in Int
        OBVIOUS
    <2>2. Whole(Reading(Part(days, "D") \o x1, zero), "D", <<1, 1>>) = Reading(x1, Plus(zero, 1, days * 1))
        BY <1>1, <1>5, <1>9, <1>14, <2>1, PartReads
    <2> QED BY <1>9, <2>2 DEF x0, D, o1
<1>16. Whole(Reading(x2, o1), "H", <<2, 3600>>) = Reading(x3, o2)
    <2>1. 2 \in 1 .. 3 /\ 3600 \in Int
        BY SMT
    <2>2. Whole(Reading(Part(hh, "H") \o x3, o1), "H", <<2, 3600>>) = Reading(x3, Plus(o1, 2, hh * 3600))
        BY SMT, <1>1, <1>3, <1>10, <1>13, <2>1, PartReads
    <2> QED BY SMT, <2>2 DEF x2, H, o2
<1>17. Whole(Reading(x3, o2), "M", <<2, 60>>) = Reading(x, o3)
    <2>1. 2 \in 1 .. 3 /\ 60 \in Int /\ ~Has(x, "M")
        BY SMT
    <2>2. Whole(Reading(Part(mm, "M") \o x, o2), "M", <<2, 60>>) = Reading(x, Plus(o2, 2, mm * 60))
        BY <1>1, <1>11, <2>1, PartReads
    <2> QED BY <2>2 DEF x3, M, o3
<1>18. Reading(x1, o1) # Bad /\ Reading(x1, o1).text = x1 /\ Reading(x1, o1).out = o1
    BY <1>10, Readings
<1>19. [Reading(x1, o1) EXCEPT !.text = Tail(@)] = Reading(x2, o1)
    BY <1>5 DEF Reading
<1> DEFINE d == Whole([text |-> Tail(text), out |-> <<0, 0, 0>>], "D", <<1, 1>>)
<1>20. d = Reading(x1, o1)
    BY <1>7, <1>15 DEF Reading, zero
<1>21. Parse(text) = Remainder(Whole(Whole([d EXCEPT !.text = Tail(@)], "H", <<2, 3600>>), "M", <<2, 60>>))
    <2>1. d # Bad /\ d.text # <<>> /\ Head(d.text) = <<"T">>
        BY <1>5, <1>18, <1>20
    <2> HIDE DEF d
    <2> QED BY ZenonT(240), <1>7, <2>1 DEF Parse, Remainder, d
<1> HIDE DEF d
<1>22. Parse(text) = Remainder(Reading(x, o3))
    <2> DEFINE e == [d EXCEPT !.text = Tail(@)]
    <2>1. e = Reading(x2, o1)
        BY <1>19, <1>20
    <2>2. Parse(text) = Remainder(Whole(Whole(e, "H", <<2, 3600>>), "M", <<2, 60>>))
        BY <1>21
    <2> HIDE DEF e
    <2>3. Whole(e, "H", <<2, 3600>>) = Reading(x3, o2)
        BY SMT, <1>16, <2>1
    <2>4. Whole(Whole(e, "H", <<2, 3600>>), "M", <<2, 60>>) = Reading(x, o3)
        BY SMT, <1>17, <2>3
    <2> QED BY SMT, <2>4, <2>2
<1> QED BY <1>8, <1>12, <1>22


\* The count adds up.
LEMMA Totals ==
    ASSUME NEW days \in Nat, NEW hh \in Nat, NEW mm \in Nat, NEW s \in Nat, NEW ms \in Nat
    PROVE  LET o == Counted(days, hh, mm)
           IN  /\ o \in Times
               /\ o = <<days, hh * 3600 + mm * 60, 0>>
               /\ Plus(Plus(o, 2, s), 3, ms) = <<days, hh * 3600 + mm * 60 + s, ms>>
<1> DEFINE a == hh * 3600
           b == mm * 60
<1>1. a \in Int /\ b \in Int
    BY SMT
<1> HIDE DEF a, b
<1>2. Plus(Plus(Plus(<<0, 0, 0>>, 1, days), 2, a), 2, b) = <<days, a + b, 0>>
    BY SMT, <1>1 DEF Plus
<1>3. Plus(Plus(<<days, a + b, 0>>, 2, s), 3, ms) = <<days, (a + b) + s, ms>>
    BY SMT, <1>1 DEF Plus
<1>4. <<days, a + b, 0>> \in Times
    BY SMT, <1>1 DEF Times
<1>5. Counted(days, hh, mm) = Plus(Plus(Plus(<<0, 0, 0>>, 1, days), 2, a), 2, b)
    BY DEF Counted, a, b
<1> QED BY SMT, <1>2, <1>3, <1>4, <1>5 DEF a, b

\* The parts of the seconds of a day.
Hours(secs)   == secs \div 3600
Minutes(secs) == (secs \div 60) % 60

\* Three texts are joined alike from the left and from the right.
LEMMA JoinAssociates ==
    ASSUME NEW x \in Seq(Item), NEW y \in Seq(Item), NEW z \in Seq(Item)
    PROVE  (x \o y) \o z = x \o (y \o z)
BY SMT

\* Format joins the items; behind the minutes stand the seconds, a zero, or nothing.
LEMMA FormatWrites ==
    ASSUME NEW days \in Nat, NEW secs \in Nat, NEW frac \in Nat, NEW w \in Nat
    PROVE  \/ /\ secs % 60 # 0 \/ frac # 0
              /\ Format(days, secs, frac, w) = Written(days, Hours(secs), Minutes(secs), Seconds(secs % 60, frac, w))
           \/ /\ secs % 60 = 0 /\ frac = 0
              /\ Format(days, secs, frac, w) = Written(days, Hours(secs), Minutes(secs), Piece(0, 0, "S"))
           \/ /\ secs % 60 = 0 /\ frac = 0
              /\ Format(days, secs, frac, w) = Written(days, Hours(secs), Minutes(secs), <<>>)
<1> DEFINE hh == secs \div 3600
           mm == (secs \div 60) % 60
           s  == secs % 60
           P == <<<<"P">>>>
           D == Part(days, "D")
           T == <<<<"T">>>>
           H == Part(hh, "H")
           M == Part(mm, "M")
           upper == P \o D \o T \o H \o M
<1>1. hh \in Nat /\ mm \in Nat /\ s \in Nat
    BY SMT
<1>2. "P" \in Letters /\ "D" \in Letters /\ "T" \in Letters /\ "H" \in Letters /\ "M" \in Letters /\ "S" \in Letters
    BY DEF Letters
<1>3. Format(days, secs, frac, w) =
        IF s # 0 \/ frac # 0 THEN upper \o Seconds(s, frac, w)
        ELSE IF upper = <<<<"P">>, <<"T">>>> THEN upper \o Piece(0, 0, "S")
        ELSE upper
    BY SMT DEF Format, Seconds, Piece
<1> HIDE DEF hh, mm, s
<1>4. D \in Seq(Item) /\ H \in Seq(Item) /\ M \in Seq(Item)
    BY <1>1, <1>2, Parts
<1>5. P \in Seq(Item) /\ T \in Seq(Item)
    <2> DEFINE p == <<"P">>
               t == <<"T">>
    <2>1. p \in Item /\ t \in Item
        BY <1>2 DEF Item
    <2> HIDE DEF p, t
    <2>2. <<p>> \in Seq(Item) /\ <<t>> \in Seq(Item)
        BY <2>1
    <2> QED BY <2>2 DEF p, t
<1>6. ASSUME NEW x \in Seq(Item)
      PROVE  upper \o x = Written(days, hh, mm, x)
    <2>1. Written(days, hh, mm, x) = P \o (D \o (T \o (H \o (M \o x))))
        BY DEF Written
    <2> HIDE DEF P, D, T, H, M
    <2> DEFINE PD  == P \o D
               PDT == PD \o T
               PDTH == PDT \o H
               x3 == M \o x
               x2 == H \o x3
               x1 == T \o x2
    <2>2. PD \in Seq(Item) /\ x3 \in Seq(Item)
        BY <1>4, <1>5
    <2> HIDE DEF PD, x3
    <2>3. PDT \in Seq(Item) /\ x2 \in Seq(Item)
        BY <1>4, <1>5, <2>2
    <2> HIDE DEF PDT, x2
    <2>4. PDTH \in Seq(Item) /\ x1 \in Seq(Item)
        BY <1>4, <1>5, <2>3
    <2> HIDE DEF PDTH, x1
    <2>5. (PDTH \o M) \o x = PDTH \o x3
        <3>1. PDTH \in Seq(Item) /\ M \in Seq(Item)
            BY <1>4, <2>4
        <3>2. (PDTH \o M) \o x = PDTH \o (M \o x)
            BY <3>1, JoinAssociates, Zenon
        <3> QED BY <3>2 DEF x3
    <2>6. PDTH \o x3 = PDT \o x2
        <3>1. PDT \in Seq(Item) /\ H \in Seq(Item) /\ x3 \in Seq(Item)
            BY <1>4, <2>2, <2>3
        <3>2. (PDT \o H) \o x3 = PDT \o (H \o x3)
            BY <3>1, JoinAssociates, Zenon
        <3> QED BY <3>2 DEF PDTH, x2
    <2>7. PDT \o x2 = PD \o x1
        <3>1. PD \in Seq(Item) /\ T \in Seq(Item) /\ x2 \in Seq(Item)
            BY <1>5, <2>2, <2>3
        <3>2. (PD \o T) \o x2 = PD \o (T \o x2)
            BY <3>1, JoinAssociates, Zenon
        <3> QED BY <3>2 DEF PDT, x1
    <2>8. PD \o x1 = P \o (D \o x1)
        <3>1. P \in Seq(Item) /\ D \in Seq(Item) /\ x1 \in Seq(Item)
            BY <1>4, <1>5, <2>4
        <3>2. (P \o D) \o x1 = P \o (D \o x1)
            BY <3>1, JoinAssociates, Zenon
        <3> QED BY <3>2 DEF PD
    <2>9. upper = PDTH \o M
        BY DEF PDTH, PDT, PD
    <2> QED BY <2>1, <2>5, <2>6, <2>7, <2>8, <2>9 DEF x1, x2, x3
<1>7. Seconds(s, frac, w) \in Seq(Item) /\ Piece(0, 0, "S") \in Seq(Item) /\ <<>> \in Seq(Item)
    <2>1. "." \in Letters /\ 0 \in Nat /\ <<>> \in Seq(Item)
        BY DEF Letters
    <2>2. Piece(s, 0, ".") \in Seq(Item) /\ Piece(frac, w, "S") \in Seq(Item) /\ Piece(0, 0, "S") \in Seq(Item)
        BY <1>1, <1>2, <2>1, Pieces
    <2>3. Seconds(s, frac, w) = Piece(s, 0, ".") \o Piece(frac, w, "S")
        BY DEF Seconds, Piece
    <2> QED BY <2>1, <2>2, <2>3
<1>8. upper \o <<>> = upper
    <2>1. upper \in Seq(Item)
        <3> HIDE DEF P, D, T, H, M
        <3> QED BY <1>4, <1>5
    <2> HIDE DEF upper
    <2> QED BY <2>1, ConcatEmptySeq
<1> HIDE DEF upper
<1>9. /\ upper \o Seconds(s, frac, w) = Written(days, hh, mm, Seconds(s, frac, w))
      /\ upper \o Piece(0, 0, "S") = Written(days, hh, mm, Piece(0, 0, "S"))
      /\ upper \o <<>> = Written(days, hh, mm, <<>>)
    BY <1>6, <1>7
<1>10. \/ (s # 0 \/ frac # 0) /\ Format(days, secs, frac, w) = Written(days, hh, mm, Seconds(s, frac, w))
       \/ s = 0 /\ frac = 0 /\ Format(days, secs, frac, w) = Written(days, hh, mm, Piece(0, 0, "S"))
       \/ s = 0 /\ frac = 0 /\ Format(days, secs, frac, w) = Written(days, hh, mm, <<>>)
    <2>1. CASE s # 0 \/ frac # 0
        BY <1>3, <1>9, <2>1
    <2>2. CASE s = 0 /\ frac = 0
        BY <1>3, <1>8, <1>9, <2>2
    <2> QED BY <2>1, <2>2
<1> QED BY <1>10 DEF hh, mm, s, Hours, Minutes

\* The letters of the other items are not among those of the seconds.
LEMMA Unread ==
    /\ "D" \in Letters /\ "T" \in Letters /\ "H" \in Letters /\ "M" \in Letters
    /\ "." \in Letters /\ "S" \in Letters /\ 0 \in Nat /\ <<>> \in Seq(Item)
    /\ \A c \in {"D", "T", "H", "M"} : c \in Letters /\ c # "." /\ c # "S"
BY DEF Letters

\* A duration that is printed and read back is the same, cut to whole ms: for every
\* number of days and seconds and every fraction, of three digits or nine.
THEOREM ReadsBack ==
    ASSUME NEW days \in Nat, NEW secs \in Nat, NEW frac \in Nat, NEW w \in {3, 9}
    PROVE  Parse(Format(days, secs, frac, w)) = Reading(<<>>, <<days, secs, Millis(frac, w)>>)
<1> DEFINE hh == Hours(secs)
           mm == Minutes(secs)
           s  == secs % 60
           ms == Millis(frac, w)
           o  == Counted(days, hh, mm)
           text == Format(days, secs, frac, w)
<1>1. hh \in Nat /\ mm \in Nat /\ s \in Nat /\ ms \in Nat /\ hh * 3600 + mm * 60 + s = secs
    BY SMT DEF Millis, Hours, Minutes
<1>2. \/ (s # 0 \/ frac # 0) /\ text = Written(days, hh, mm, Seconds(s, frac, w))
      \/ s = 0 /\ frac = 0 /\ text = Written(days, hh, mm, Piece(0, 0, "S"))
      \/ s = 0 /\ frac = 0 /\ text = Written(days, hh, mm, <<>>)
    BY FormatWrites
<1>3. frac = 0 => ms = 0
    BY SMT DEF Millis
<1> HIDE DEF hh, mm, s, ms, text
<1>4. o \in Times /\ o = <<days, hh * 3600 + mm * 60, 0>>
      /\ Plus(Plus(o, 2, s), 3, ms) = <<days, hh * 3600 + mm * 60 + s, ms>>
    BY <1>1, Totals
<1>5. Plus(Plus(o, 2, s), 3, ms) = <<days, secs, ms>>
    BY SMT, <1>1, <1>4
<1> HIDE DEF o
<1>6. CASE text = Written(days, hh, mm, Seconds(s, frac, w))
    <2> DEFINE x == Seconds(s, frac, w)
    <2>1. s \in Nat /\ o \in Times /\ frac \in Nat /\ w \in {3, 9}
        BY <1>1, <1>4
    <2>2. /\ x \in Seq(Item)
          /\ \A c \in Letters : Has(x, c) <=> c \in {".", "S"}
        BY <2>1, SecondsRead
    <2>3. Fraction(Whole(Reading(x, o), ".", <<2, 1>>)) = Reading(<<>>, Plus(Plus(o, 2, s), 3, ms))
        BY <2>1, SecondsRead DEF ms
    <2> HIDE DEF x
    <2>4. \A c \in {"D", "T", "H", "M"} : ~Has(x, c)
        BY <2>2, Unread
    <2>5. Has(x, ".") /\ Has(x, "S")
        BY <2>2, Unread
    <2>6. Parse(text) = Remainder(Reading(x, o))
        BY <1>1, <1>6, <2>2, <2>4, ParseReads DEF o, x
    <2>7. Reading(x, o).text = x /\ Reading(<<>>, <<days, secs, ms>>).text = <<>>
        BY DEF Reading
    <2>8. Remainder(Reading(x, o)) = Reading(<<>>, <<days, secs, ms>>)
        BY <1>5, <2>5, <2>7, <2>3 DEF Remainder
    <2> QED BY <2>6, <2>8 DEF text, ms
<1>7. ASSUME s = 0, frac = 0
      PROVE  o = <<days, secs, ms>>
    BY SMT, <1>1, <1>3, <1>4, <1>7
<1>8. CASE s = 0 /\ frac = 0 /\ text = Written(days, hh, mm, Piece(0, 0, "S"))
    <2> DEFINE x == Piece(0, 0, "S")
               e == <<>>
    <2>1. x \in Seq(Item) /\ \A c \in Letters : Has(x, c) <=> c = "S"
        BY Unread, Pieces
    <2>2. x \o e = x
        BY <2>1, ConcatEmptySeq
    <2>3. e \in Seq(Item)
        OBVIOUS
    <2> HIDE DEF e
    <2>4. Whole(Reading(x \o e, o), "S", <<2, 1>>) = Reading(e, Plus(o, 2, 0 * 1))
        <3>1. 2 \in 1 .. 3 /\ 1 \in Int
            OBVIOUS
        <3> QED BY <1>4, <2>3, <3>1, Unread, WholeReads
    <2> HIDE DEF x
    <2>5. Plus(o, 2, 0 * 1) = o
        <3>1. 0 * 1 = 0 /\ 0 \in Int /\ 2 \in 1 .. 3
            OBVIOUS
        <3> QED BY <1>4, <3>1, Sums
    <2>6. \A c \in {"D", "T", "H", "M"} : ~Has(x, c)
        BY <2>1, Unread
    <2>7. ~Has(x, ".")
        BY <2>1, Unread
    <2>8. Parse(text) = Remainder(Reading(x, o))
        BY <1>1, <1>8, <2>1, <2>6, ParseReads DEF o, x
    <2>9. Reading(x, o).text = x /\ Reading(e, o).text = <<>>
        BY DEF Reading, e
    <2>10. Remainder(Reading(x, o)) = Reading(e, o)
        BY <2>2, <2>4, <2>5, <2>7, <2>9 DEF Remainder
    <2> QED BY <1>7, <1>8, <2>8, <2>10 DEF text, ms, e
<1>9. CASE s = 0 /\ frac = 0 /\ text = Written(days, hh, mm, <<>>)
    <2> DEFINE x == <<>>
    <2>1. x \in Seq(Item) /\ \A c \in Letters : ~Has(x, c)
        BY Unread, HasLetter
    <2>2. Reading(x, o).text = <<>> /\ Reading(x, o).text = x
        BY DEF Reading
    <2>3. \A c \in {"D", "T", "H", "M"} : ~Has(x, c)
        BY <2>1, Unread
    <2>4. text = Written(days, hh, mm, x)
        BY <1>9
    <2>5. Parse(text) = Remainder(Reading(x, o))
        <3> HIDE DEF x
        <3> QED BY <1>1, <2>1, <2>3, <2>4, ParseReads DEF o
    <2>6. ~Has(x, ".") /\ ~Has(x, "S")
        BY <2>1, Unread
    <2> HIDE DEF x
    <2>7. Whole(Reading(x, o), "S", <<2, 1>>) = Reading(x, o)
        BY <2>6, WholePasses
    <2>8. Remainder(Reading(x, o)) = Reading(x, o)
        BY <2>2, <2>6, <2>7 DEF Remainder
    <2> QED BY <1>7, <1>9, <2>5, <2>8 DEF text, ms, x
<1> QED BY <1>2, <1>6, <1>8, <1>9

\* fromDurationString reads back what toDurationString wrote, for any set of amounts
\* and on every day of a walk of any length.
THEOREM MillisReadBack == Spec => []MillisRoundTrip
<1>1. Walk => MillisRoundTrip
    <2> SUFFICES ASSUME Walk, day >= 0, NEW a \in Amounts
                 PROVE  Parse(Format(day, a[1], a[2] \div 1000000, 3)).out = <<day, a[1], a[2] \div 1000000>>
        BY SMT DEF MillisRoundTrip
    <2> DEFINE ms == a[2] \div 1000000
    <2>1. day \in Nat /\ a[1] \in Nat /\ ms \in Nat
        BY SMT, AmountsAssumption DEF Walk
    <2> HIDE DEF ms
    <2>2. Parse(Format(day, a[1], ms, 3)) = Reading(<<>>, <<day, a[1], Millis(ms, 3)>>)
        <3>1. 3 \in {3, 9}
            OBVIOUS
        <3> QED BY <2>1, <3>1, ReadsBack
    <2>3. Millis(ms, 3) = ms
        BY SMT DEF Millis
    <2> QED BY <2>2, <2>3 DEF Reading, ms
<1> QED BY <1>1, WalkHolds, PTL

\* What nanoSecToDurationString wrote is read back as the whole ms in it.
THEOREM NanosReadBack == Spec => []NanosTruncate
<1>1. Walk => NanosTruncate
    <2> SUFFICES ASSUME Walk, day >= 0, NEW a \in Amounts
                 PROVE  Parse(Format(day, a[1], a[2], 9)).out = <<day, a[1], a[2] \div 1000000>>
        BY SMT DEF NanosTruncate
    <2>1. day \in Nat /\ a[1] \in Nat /\ a[2] \in Nat
        BY SMT, AmountsAssumption DEF Walk
    <2>2. Parse(Format(day, a[1], a[2], 9)) = Reading(<<>>, <<day, a[1], Millis(a[2], 9)>>)
        <3>1. 9 \in {3, 9}
            OBVIOUS
        <3> QED BY <2>1, <3>1, ReadsBack
    <2>3. Millis(a[2], 9) = a[2] \div 1000000
        BY SMT DEF Millis
    <2>4. Parse(Format(day, a[1], a[2], 9)).out = <<day, a[1], Millis(a[2], 9)>>
        BY <2>2 DEF Reading
    <2> QED BY SMT, <2>3, <2>4
<1> QED BY <1>1, WalkHolds, PTL

=============================================================================
