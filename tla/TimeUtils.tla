----------------------------- MODULE TimeUtils ------------------------------
(***************************************************************************)
(* Dates and durations together.  The walk of Calendar counts the days of  *)
(* both: a day that is printed as a date, and as many days that are        *)
(* printed as a duration.                                                  *)
(***************************************************************************)
EXTENDS Calendar, Duration

CONSTANTS
    Amounts         \* bound: pairs of seconds and ns on top of the days

ASSUME AmountsAssumption == Amounts \subseteq Nat \X Nat

\* fromDurationString reads back what toDurationString wrote, whichever of the
\* parts are zero and left out.
MillisRoundTrip ==
    day >= 0 =>
        \A a \in Amounts :
            LET ms == a[2] \div 1000000
            IN  Parse(Format(day, a[1], ms, 3)).out = <<day, a[1], ms>>

\* What nanoSecToDurationString wrote (the throttle durations) is read back as
\* the whole ms in it: the nine digits are neither refused nor taken for ms.
NanosTruncate ==
    day >= 0 =>
        \A a \in Amounts :
            Parse(Format(day, a[1], a[2], 9)).out = <<day, a[1], a[2] \div 1000000>>

=============================================================================
