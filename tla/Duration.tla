------------------------------ MODULE Duration ------------------------------
(***************************************************************************)
(* The durations of the published readings: toDurationString,              *)
(* nanoSecToDurationString and fromDurationString of                       *)
(* src/lib/utils/time_utils.hpp.                                           *)
(*                                                                         *)
(* A duration is a triple of days, seconds of the day, and a fraction of a *)
(* second in ms or ns.  A text is a sequence of letters, each as <<letter>>,*)
(* and numbers, as <<"number", value, width in digits>>; the width counts  *)
(* behind a decimal point only.                                            *)
(***************************************************************************)
EXTENDS Integers, Sequences

\* No duration: nullopt of the whole, or an item that could not be read.
Bad == [text |-> <<>>, out |-> <<>>]

Number(n, width) == <<"number", n, width>>

\* What is printed as "nX", and only if n is not zero.
Part(n, letter) == IF n > 0 THEN <<Number(n, 0), <<letter>>>> ELSE <<>>

\* Slip: a fraction is printed behind whole seconds only.
FormatIfSeconds(days, secs, frac, width) ==
    LET s     == secs % 60
        upper == <<<<"P">>>> \o Part(days, "D") \o <<<<"T">>>>
                 \o Part(secs \div 3600, "H") \o Part((secs \div 60) % 60, "M")
    IN  IF s # 0 THEN upper \o <<Number(s, 0), <<".">>, Number(frac, width), <<"S">>>>
        ELSE IF upper = <<<<"P">>, <<"T">>>> THEN upper \o <<Number(0, 0), <<"S">>>>
        ELSE upper

\* toDurationString (3 digits of ms) and nanoSecToDurationString (9 of ns).
Format(days, secs, frac, width) ==
    LET s     == secs % 60
        upper == <<<<"P">>>> \o Part(days, "D") \o <<<<"T">>>>
                 \o Part(secs \div 3600, "H") \o Part((secs \div 60) % 60, "M")
    IN  IF s # 0 \/ frac # 0 THEN upper \o <<Number(s, 0), <<".">>, Number(frac, width), <<"S">>>>
        ELSE IF upper = <<<<"P">>, <<"T">>>> THEN upper \o <<Number(0, 0), <<"S">>>>
        ELSE upper

-----------------------------------------------------------------------------
(* fromDurationString.                                                     *)

IsNumber(x) == x[1] = "number"
Has(text, letter) == \E i \in DOMAIN text : text[i][1] = letter

Before(text, letter) ==
    SubSeq(text, 1, (CHOOSE i \in DOMAIN text :
        /\ text[i][1] = letter
        /\ \A j \in 1 .. i - 1 : text[j][1] # letter) - 1)

After(text, letter) == SubSeq(text, Len(Before(text, letter)) + 2, Len(text))

\* One item of a duration in whole units: absent, or exactly one number.
Whole(r, letter, unit) ==
    IF r = Bad \/ ~Has(r.text, letter) THEN r
    ELSE LET b == Before(r.text, letter)
         IN  IF Len(b) # 1 \/ ~IsNumber(b[1]) THEN Bad
             ELSE [text |-> After(r.text, letter),
                   out  |-> [r.out EXCEPT ![unit[1]] = @ + b[1][2] * unit[2]]]

\* Slip: the digits behind the point are taken for ms, however many they are.
FractionUnscaled(r) ==
    IF r = Bad \/ ~Has(r.text, "S") THEN r
    ELSE LET b == Before(r.text, "S")
         IN  IF b = <<>> \/ ~IsNumber(b[1]) \/ (Len(b) > 1 /\ b[1][3] < 3) THEN Bad
             ELSE [text |-> After(r.text, "S"), out |-> [r.out EXCEPT ![3] = @ + b[1][2]]]

\* The item behind the decimal point: of its digits the first three, which
\* count as ms.  What stands between a third digit and the S is passed over.
Fraction(r) ==
    IF r = Bad \/ ~Has(r.text, "S") THEN r
    ELSE LET b == Before(r.text, "S")
         IN  IF b = <<>> \/ ~IsNumber(b[1]) \/ (Len(b) > 1 /\ b[1][3] < 3) THEN Bad
             ELSE LET n == b[1][2]
                      w == b[1][3]
                      ms == IF w > 3 THEN n \div 10 ^ (w - 3) ELSE n * 10 ^ (3 - w)
                  IN  [text |-> After(r.text, "S"), out |-> [r.out EXCEPT ![3] = @ + ms]]

\* The duration of a text, nothing of it left unread, or Bad.
Parse(text) ==
    IF text = <<>> THEN [text |-> text, out |-> <<0, 0, 0>>]
    ELSE IF Head(text) # <<"P">> THEN Bad
    ELSE LET d == Whole([text |-> Tail(text), out |-> <<0, 0, 0>>], "D", <<1, 1>>)
         IN  IF d = Bad \/ d.text = <<>> THEN d
             ELSE IF Head(d.text) # <<"T">> THEN Bad
             ELSE LET h == Whole([d EXCEPT !.text = Tail(@)], "H", <<2, 3600>>)
                      m == Whole(h, "M", <<2, 60>>)
                      s == IF Has(m.text, ".") /\ Has(m.text, "S")
                           THEN Fraction(Whole(m, ".", <<2, 1>>))
                           ELSE Whole(m, "S", <<2, 1>>)
                  IN  IF s.text = <<>> THEN s ELSE Bad

=============================================================================
