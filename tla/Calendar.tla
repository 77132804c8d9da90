------------------------------ MODULE Calendar ------------------------------
(***************************************************************************)
(* The date and time strings of the published readings: civilFromDays and  *)
(* toISO8061ExtendedStr of src/lib/utils/time_utils.hpp, next to a         *)
(* calendar that is turned by one day at a time.                           *)
(*                                                                         *)
(* A time is a number of days since 1970-01-01 and a rest of ticks, which  *)
(* is how the code splits it; of a time before the epoch both are          *)
(* negative or zero, as the division of C++ rounds to zero.  A string is   *)
(* the record of the numbers that are printed in it.                       *)
(***************************************************************************)
EXTENDS Integers, Sequences

CONSTANTS
    IntMax,         \* the largest int
    TicksPerSecond, \* 1, 1000 or 1000000: the three instantiations
    Rests,          \* bound: the ticks since midnight that are looked at
    Anchors,        \* the known dates to start from
    Span,           \* bound: days walked from an anchor
    Garbled         \* what padZeros makes of a negative number

TicksPerDay == 24 * 60 * 60 * TicksPerSecond

\* Dates that are known without the code: where time_t begins, and the last day
\* that is printed as itself.
KnownDates ==
    {[day |-> 0, date |-> <<1970, 1, 1>>], [day |-> 2932896, date |-> <<9999, 12, 31>>]}

ASSUME CalendarAssumption ==
    /\ IntMax \in Nat /\ IntMax >= 10000
    /\ TicksPerSecond \in {1, 1000, 1000000}
    /\ Anchors \subseteq KnownDates
    /\ Span \in Nat
    /\ Rests \subseteq -TicksPerDay + 1 .. TicksPerDay - 1
    /\ Garbled \notin Int

VARIABLES
    start,          \* the anchor of this behaviour
    day,            \* days since 1970-01-01
    date            \* the same day by the calendar: year, month, day of the month

vars == <<start, day, date>>

-----------------------------------------------------------------------------
(* The calendar.                                                           *)

Leap(y) == y % 4 = 0 /\ (y % 100 # 0 \/ y % 400 = 0)

MonthLength(y, m) ==
    CASE m = 2                -> IF Leap(y) THEN 29 ELSE 28
      [] m \in {4, 6, 9, 11}  -> 30
      [] OTHER                -> 31

Following(c) ==
    IF c[3] < MonthLength(c[1], c[2]) THEN <<c[1], c[2], c[3] + 1>>
    ELSE IF c[2] < 12 THEN <<c[1], c[2] + 1, 1>>
    ELSE <<c[1] + 1, 1, 1>>

Preceding(c) ==
    IF c[3] > 1 THEN <<c[1], c[2], c[3] - 1>>
    ELSE IF c[2] > 1 THEN <<c[1], c[2] - 1, MonthLength(c[1], c[2] - 1)>>
    ELSE <<c[1] - 1, 12, 31>>

Init ==
    /\ start \in Anchors
    /\ day = start.day
    /\ date = start.date

Tomorrow ==
    /\ day < start.day + Span
    /\ day' = day + 1
    /\ date' = Following(date)
    /\ UNCHANGED start

Yesterday ==
    /\ day > start.day - Span
    /\ day' = day - 1
    /\ date' = Preceding(date)
    /\ UNCHANGED start

Next == Tomorrow \/ Yesterday

Spec == Init /\ [][Next]_vars

-----------------------------------------------------------------------------
(* The code.                                                               *)

\* Division of C++, which rounds to zero.
Quotient(a, b) == IF a >= 0 THEN a \div b ELSE -((-a) \div b)

\* civilFromDays counts years from the first of March, in cycles of 400.  The cycle
\* of a day z of that count:
Era(z) == Quotient(IF z >= 0 THEN z ELSE z - 146096, 146097)

\* Slip: the last day of a cycle starts a year of its own.
YearOfEraNoEnd(doe) == (doe - doe \div 1460 + doe \div 36524) \div 365

\* The year of a day of the cycle, its day in the year, the month of that, and the
\* day of the year that a month begins with.
YearOfEra(doe) == (doe - doe \div 1460 + doe \div 36524 - doe \div 146096) \div 365

DayOfYear(doe) ==
    LET yoe == YearOfEra(doe)
    IN  doe - (365 * yoe + yoe \div 4 - yoe \div 100)

MonthOfYear(doy) == (5 * doy + 2) \div 153
MonthStart(mp)   == (153 * mp + 2) \div 5

\* Year, month and day of the month of a number of days since 1970-01-01.
CivilFromDays(days) ==
    LET z   == days + 719468
        doe == z - Era(z) * 146097
        doy == DayOfYear(doe)
        mp  == MonthOfYear(doy)
        m   == IF mp < 10 THEN mp + 3 ELSE mp - 9
    IN  <<YearOfEra(doe) + Era(z) * 400 + (IF m <= 2 THEN 1 ELSE 0), m,
          doy - MonthStart(mp) + 1>>

\* The year is kept in an int.
ToInt(n) == ((n + IntMax + 1) % (2 * (IntMax + 1))) - (IntMax + 1)

\* padZeros prints the low digits of a number that is not negative.
Padded(n, digits) == IF n < 0 THEN Garbled ELSE n % (10 ^ digits)

\* The time of day as it is printed.
Clock(rest) ==
    LET hr == Quotient(rest, 3600 * TicksPerSecond)
        r1 == rest - hr * 3600 * TicksPerSecond
        mt == Quotient(r1, 60 * TicksPerSecond)
        r2 == r1 - mt * 60 * TicksPerSecond
        se == Quotient(r2, TicksPerSecond)
    IN  <<Padded(hr, 2), Padded(mt, 2), Padded(se, 2), Padded(r2 - se * TicksPerSecond, 6)>>

\* Slip: beyond the last year the time of day goes on.
DateTimeGoesOn(d, rest) ==
    LET c    == CivilFromDays(d)
        year == ToInt(c[1])
    IN  IF year >= 10000 THEN <<9999, 12, 31>> \o Clock(rest)
        ELSE IF year < 1970 THEN <<1970, 1, 1>> \o Clock(0)
        ELSE <<Padded(year, 4), Padded(c[2], 2), Padded(c[3], 2)>> \o Clock(rest)

\* toISO8061ExtendedStr: date and time of day, kept within 1970 .. 9999.
DateTime(d, rest) ==
    LET c    == CivilFromDays(d)
        year == ToInt(c[1])
    IN  IF year >= 10000 THEN <<9999, 12, 31>> \o Clock(TicksPerDay - 1)
        ELSE IF year < 1970 THEN <<1970, 1, 1>> \o Clock(0)
        ELSE <<Padded(year, 4), Padded(c[2], 2), Padded(c[3], 2)>> \o Clock(rest)

-----------------------------------------------------------------------------
(* Properties.                                                             *)

Earlier(a, b) == \E i \in DOMAIN a : a[i] < b[i] /\ \A j \in 1 .. i - 1 : a[j] = b[j]

\* The arithmetic of civilFromDays is the Gregorian calendar, leap years of the
\* century and of the 400 year cycle included, before the epoch and after it.
CivilAgrees == CivilFromDays(day) = date

\* Strings order readings as their times do: of two times on this day or the
\* next, the later one never prints as the earlier, at the last day of 9999 and
\* beyond it neither.
LaterIsLater ==
    day >= 0 => \A r, s \in Rests \cap Nat :
        /\ r <= s => ~Earlier(DateTime(day, s), DateTime(day, r))
        /\ ~Earlier(DateTime(day + 1, s), DateTime(day, r))

\* "If the given |secondsSinceEpoch| is too large, we return the maximum
\* supported date" (time_utils.hpp:433-435).
TooLargeIsMaximum ==
    date[1] >= 10000 =>
        \A r \in Rests : DateTime(day, r) = <<9999, 12, 31>> \o Clock(TicksPerDay - 1)

=============================================================================
