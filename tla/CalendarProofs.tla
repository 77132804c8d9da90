--------------------------- MODULE CalendarProofs ---------------------------
(***************************************************************************)
(* The date arithmetic is the calendar, for every day and every length of  *)
(* the walk, and the strings made of it follow the order of time.          *)
(*                                                                         *)
(* The arithmetic divides; each lemma about it names the quotients as      *)
(* numbers bounded by linear inequations, from which the steps follow.     *)
(* From a cycle of 400 years (EraStep) to its years (YearOfCycle) to the   *)
(* months (Months), each with what the next day does to it, to NextDay:    *)
(* the date of the next day is the date that follows.                      *)
(***************************************************************************)
EXTENDS Calendar, SequenceTheorems, TLAPS

-----------------------------------------------------------------------------
\* The day as civilFromDays counts it, in its cycle of 400 years, and the year from March
\* and the day of that year that are found for it.
Z(n)   == n + 719468
Doe(n) == Z(n) - Era(Z(n)) * 146097
YearOf(n) == YearOfEra(Doe(n)) + 400 * Era(Z(n))
DayOf(n)  == DayOfYear(Doe(n))

\* Days before year y of a cycle.
Days(y) == 365 * y + y \div 4 - y \div 100 + y \div 400

\* The days of the year y that begins in March: February is of the next year.
YearLength(y) == IF Leap(y + 1) THEN 366 ELSE 365

\* Every day, before the epoch too, has its place in one cycle: doe is in [0, 146096].
LEMMA EraStep ==
    ASSUME NEW z \in Int
    PROVE  LET e == z - Era(z) * 146097
           IN  Era(z) \in Int /\ e \in Int /\ 0 <= e /\ e <= 146096
<1>1. CASE z >= 0
    <2> DEFINE q == z \div 146097
    <2>1. Era(z) = q
        BY SMT, <1>1 DEF Era, Quotient
    <2>2. q \in Int /\ 146097 * q <= z /\ z < 146097 * q + 146097
        BY SMT, <1>1
    <2> HIDE DEF q
    <2> QED BY SMT, <2>1, <2>2
<1>2. CASE ~(z >= 0)
    <2> DEFINE q == (146096 - z) \div 146097
    <2>1. Era(z) = -q
        BY SMT, <1>2 DEF Era, Quotient
    <2>2. q \in Int /\ 146097 * q <= 146096 - z /\ 146096 - z < 146097 * q + 146097
        BY SMT, <1>2
    <2> HIDE DEF q
    <2> QED BY SMT, <2>1, <2>2
<1> QED BY <1>1, <1>2

\* Days(y) with its quotients as numbers of their own.
Rounded(y) ==
    \E c, d, h \in Int :
        /\ 4 * c <= y /\ y < 4 * c + 4
        /\ 100 * d <= y /\ y < 100 * d + 100
        /\ 400 * h <= y /\ y < 400 * h + 400
        /\ Days(y) = 365 * y + c - d + h
        /\ y \div 4 = c /\ y \div 100 = d

\* What rounding down to whole years, centuries and cycles gives.
LEMMA Quotients == ASSUME NEW y \in Int PROVE Rounded(y)
<1>1. y \div 4 \in Int /\ 4 * (y \div 4) <= y /\ y < 4 * (y \div 4) + 4
    BY SMT
<1>2. y \div 100 \in Int /\ 100 * (y \div 100) <= y /\ y < 100 * (y \div 100) + 100
    BY SMT
<1>3. y \div 400 \in Int /\ 400 * (y \div 400) <= y /\ y < 400 * (y \div 400) + 400
    BY SMT
<1> QED BY <1>1, <1>2, <1>3 DEF Rounded, Days

\* What is known of the year of a day of the cycle.
YearFound(e) ==
    /\ YearOfEra(e) \in Int /\ 0 <= YearOfEra(e) /\ YearOfEra(e) <= 399
    /\ Days(YearOfEra(e)) \in Int /\ Days(YearOfEra(e) + 1) \in Int
    /\ Days(YearOfEra(e)) <= e /\ e < Days(YearOfEra(e) + 1)
    /\ DayOfYear(e) = e - Days(YearOfEra(e))

\* The quotients of YearOfEra find the year whose days hold the day, and never a
\* 400th year of the cycle: yoe is in [0, 399].
LEMMA YearOfCycle ==
    ASSUME NEW e \in Int, 0 <= e, e <= 146096
    PROVE  YearFound(e)
<1> DEFINE q1 == e \div 1460
           q2 == e \div 36524
           q3 == e \div 146096
           y  == YearOfEra(e)
<1>1. q1 \in Int /\ 1460 * q1 <= e /\ e < 1460 * q1 + 1460
    BY SMT
<1>2. q2 \in Int /\ 36524 * q2 <= e /\ e < 36524 * q2 + 36524
    BY SMT
<1>3. q3 \in Int /\ 146096 * q3 <= e /\ e < 146096 * q3 + 146096
    BY SMT
<1>4. y = (e - q1 + q2 - q3) \div 365
    BY SMT DEF YearOfEra
<1> HIDE DEF q1, q2, q3, y
<1>5. y \in Int /\ 365 * y <= e - q1 + q2 - q3 /\ e - q1 + q2 - q3 < 365 * y + 365
    BY SMT, <1>1, <1>2, <1>3, <1>4
<1>6. 0 <= y /\ y <= 399
    BY SMT, <1>1, <1>2, <1>3, <1>5
<1>7. Rounded(y)
    BY SMT, <1>5, Quotients
<1>8. PICK c, d, h \in Int :
        /\ 4 * c <= y /\ y < 4 * c + 4
        /\ 100 * d <= y /\ y < 100 * d + 100
        /\ 400 * h <= y /\ y < 400 * h + 400
        /\ Days(y) = 365 * y + c - d + h
        /\ y \div 4 = c /\ y \div 100 = d
    BY SMT, <1>7 DEF Rounded
<1>9. h = 0
    BY SMT, <1>5, <1>6, <1>8
<1>10. Days(y) <= e
    BY SMT, <1>1, <1>2, <1>3, <1>5, <1>6, <1>8, <1>9
<1>11. e < Days(y + 1) /\ Days(y + 1) \in Int
    <2> DEFINE x == y + 1
    <2>1. x \in Int /\ 1 <= x /\ x <= 400 /\ e - q1 + q2 - q3 < 365 * x
        BY SMT, <1>1, <1>2, <1>3, <1>5, <1>6
    <2> HIDE DEF x
    <2>2. Rounded(x)
        BY SMT, <2>1, Quotients
    <2>3. PICK c1, d1, h1 \in Int :
            /\ 4 * c1 <= x /\ x < 4 * c1 + 4
            /\ 100 * d1 <= x /\ x < 100 * d1 + 100
            /\ 400 * h1 <= x /\ x < 400 * h1 + 400
            /\ Days(x) = 365 * x + c1 - d1 + h1
            /\ x \div 4 = c1 /\ x \div 100 = d1
        BY SMT, <2>2 DEF Rounded
    <2>4. e < Days(x) /\ Days(x) \in Int
        BY SMT, <1>1, <1>2, <1>3, <2>1, <2>3
    <2> QED BY SMT, <2>4 DEF x
<1>12. DayOfYear(e) = e - Days(y)
    <2>1. DayOfYear(e) = e - (365 * y + c - d)
        BY SMT, <1>5, <1>8 DEF DayOfYear, y
    <2> QED BY SMT, <1>5, <1>8, <1>9, <2>1
<1>13. Days(y) \in Int
    BY SMT, <1>5, <1>8
<1> QED BY SMT, <1>5, <1>6, <1>10, <1>11, <1>12, <1>13 DEF y, YearFound

\* A year of the cycle is as long as the calendar says.
LEMMA YearLengths ==
    ASSUME NEW y \in Int, 0 <= y, y <= 399
    PROVE  Days(y + 1) = Days(y) + YearLength(y) /\ Days(y) \in Int
<1>1. y \in 0 .. 399
    BY SMT
<1> QED BY SMT, <1>1 DEF Days, YearLength, Leap

\* The years of a cycle begin in their order.
LEMMA DaysGrow ==
    ASSUME NEW x \in Int, 0 <= x, NEW z \in Int, x <= z, z <= 400
    PROVE  Days(x) <= Days(z)
<1>1. Rounded(z)
    BY SMT, Quotients
<1>2. Rounded(x)
    BY SMT, Quotients
<1>3. PICK c, d, h \in Int :
        /\ 4 * c <= z /\ z < 4 * c + 4
        /\ 100 * d <= z /\ z < 100 * d + 100
        /\ 400 * h <= z /\ z < 400 * h + 400
        /\ Days(z) = 365 * z + c - d + h
        /\ z \div 4 = c /\ z \div 100 = d
    BY SMT, <1>1 DEF Rounded
<1>4. PICK c1, d1, h1 \in Int :
        /\ 4 * c1 <= x /\ x < 4 * c1 + 4
        /\ 100 * d1 <= x /\ x < 100 * d1 + 100
        /\ 400 * h1 <= x /\ x < 400 * h1 + 400
        /\ Days(x) = 365 * x + c1 - d1 + h1
        /\ x \div 4 = c1 /\ x \div 100 = d1
    BY SMT, <1>2 DEF Rounded
<1> QED BY SMT, <1>3, <1>4

\* The next day of a cycle is the next of its year or the first of the next year.
LEMMA DayOfCycle ==
    ASSUME NEW e \in Int, 0 <= e, e <= 146095
    PROVE  \/ YearOfEra(e + 1) = YearOfEra(e) /\ DayOfYear(e + 1) = DayOfYear(e) + 1
           \/ YearOfEra(e + 1) = YearOfEra(e) + 1 /\ DayOfYear(e + 1) = 0 /\ e + 1 = Days(YearOfEra(e) + 1)
<1> DEFINE y == YearOfEra(e)
           z == YearOfEra(e + 1)
<1>1. YearFound(e) /\ YearFound(e + 1)
    BY SMT, YearOfCycle
<1>2. /\ y \in Int /\ 0 <= y /\ y <= 399 /\ Days(y) \in Int /\ Days(y + 1) \in Int
      /\ Days(y) <= e /\ e < Days(y + 1) /\ DayOfYear(e) = e - Days(y)
      /\ z \in Int /\ 0 <= z /\ z <= 399 /\ Days(z) \in Int /\ Days(z + 1) \in Int
      /\ Days(z) <= e + 1 /\ e + 1 < Days(z + 1) /\ DayOfYear(e + 1) = e + 1 - Days(z)
    BY SMT, <1>1 DEF YearFound
<1> HIDE DEF y, z
<1>3. Days(z + 1) = Days(z) + YearLength(z) /\ YearLength(z) \in {365, 366}
    BY SMT, <1>2, YearLengths DEF YearLength
<1>4. CASE z < y
    <2>1. Days(z + 1) <= Days(y)
        BY SMT, <1>1, <1>2, <1>4, DaysGrow
    <2> QED BY SMT, <1>1, <1>2, <1>3, <2>1
<1>5. CASE z = y
    <2> QED BY SMT, <1>1, <1>2, <1>3, <1>5 DEF y, z
<1>6. CASE z = y + 1
    <2>1. e + 1 = Days(y + 1)
        BY SMT, <1>1, <1>2, <1>3, <1>6
    <2> QED BY SMT, <1>1, <1>2, <1>3, <1>6, <2>1 DEF y, z
<1>7. CASE y + 1 < z
    <2>1. Days(y + 2) <= Days(z)
        BY SMT, <1>1, <1>2, <1>7, DaysGrow
    <2>2. Days(y + 2) = Days(y + 1) + YearLength(y + 1)
        BY SMT, <1>1, <1>2, <1>7, YearLengths
    <2>3. YearLength(y + 1) > 1 /\ YearLength(y + 1) \in Int
        BY SMT DEF YearLength
    <2> QED BY SMT, <1>1, <1>2, <1>3, <2>1, <2>2, <2>3
<1> QED BY SMT, <1>1, <1>2, <1>4, <1>5, <1>6, <1>7

-----------------------------------------------------------------------------
\* The leap years of one cycle are those of every cycle.
LEMMA LeapCycle ==
    ASSUME NEW y \in Int, NEW era \in Int
    PROVE  YearLength(y + 400 * era) = YearLength(y)
<1>1. (y + 400 * era + 1) % 400 = (y + 1) % 400
    BY SMT
<1>2. (y + 400 * era + 1) % 100 = (y + 1) % 100
    BY SMT
<1>3. (y + 400 * era + 1) % 4 = (y + 1) % 4
    BY SMT
<1> QED BY SMT, <1>1, <1>2, <1>3 DEF YearLength, Leap

\* The next day is the next of its year, or the first of the next year behind the
\* last day that the calendar gives the year, from one cycle to the next too.
LEMMA YearStep ==
    ASSUME NEW n \in Int
    PROVE  /\ YearOf(n) \in Int /\ DayOf(n) \in Int
           /\ 0 <= DayOf(n) /\ DayOf(n) < YearLength(YearOf(n))
           /\ \/ /\ YearOf(n + 1) = YearOf(n) /\ DayOf(n + 1) = DayOf(n) + 1
                 /\ DayOf(n) + 1 < YearLength(YearOf(n))
              \/ /\ YearOf(n + 1) = YearOf(n) + 1 /\ DayOf(n + 1) = 0
                 /\ DayOf(n) + 1 = YearLength(YearOf(n))
<1> DEFINE e == Doe(n)
           y == YearOfEra(e)
<1>1. /\ Era(Z(n)) \in Int /\ e \in Int /\ 0 <= e /\ e <= 146096 /\ n + 719468 = Era(Z(n)) * 146097 + e
    BY SMT, EraStep DEF Doe, Z
<1>2. /\ Era(Z(n + 1)) \in Int /\ Doe(n + 1) \in Int /\ 0 <= Doe(n + 1) /\ Doe(n + 1) <= 146096
      /\ n + 1 + 719468 = Era(Z(n + 1)) * 146097 + Doe(n + 1)
    BY SMT, EraStep DEF Doe, Z
<1> HIDE DEF e
<1>3. YearFound(e)
    BY SMT, <1>1, YearOfCycle
<1>4. y \in Int /\ 0 <= y /\ y <= 399 /\ Days(y) <= e /\ e < Days(y + 1) /\ DayOfYear(e) = e - Days(y)
    BY SMT, <1>3 DEF YearFound
<1> HIDE DEF y
<1>5. Days(y + 1) = Days(y) + YearLength(y) /\ Days(y) \in Int /\ YearLength(y) \in Int
    BY SMT, <1>4, YearLengths DEF YearLength
<1>6. YearOf(n) = y + 400 * Era(Z(n)) /\ DayOf(n) = DayOfYear(e) /\ YearLength(YearOf(n)) = YearLength(y)
    BY SMT, <1>1, <1>4, LeapCycle DEF YearOf, DayOf, e, y
<1>7. CASE e <= 146095
    <2>1. Era(Z(n + 1)) = Era(Z(n)) /\ Doe(n + 1) = e + 1
        BY SMT, <1>1, <1>2, <1>7
    <2>2. YearOf(n + 1) = YearOfEra(e + 1) + 400 * Era(Z(n)) /\ DayOf(n + 1) = DayOfYear(e + 1)
        BY SMT, <2>1 DEF YearOf, DayOf
    <2>3. \/ YearOfEra(e + 1) = y /\ DayOfYear(e + 1) = DayOfYear(e) + 1
          \/ YearOfEra(e + 1) = y + 1 /\ DayOfYear(e + 1) = 0 /\ e + 1 = Days(y + 1)
        BY SMT, <1>1, <1>7, DayOfCycle DEF y
    <2>4. CASE YearOfEra(e + 1) = y /\ DayOfYear(e + 1) = DayOfYear(e) + 1
        <3>1. YearFound(e + 1)
            BY SMT, <1>1, <1>7, YearOfCycle
        <3>2. Days(y) <= e + 1 /\ e + 1 < Days(y + 1)
            BY SMT, <2>4, <3>1 DEF YearFound
        <3> QED BY SMT, <1>1, <1>4, <1>5, <1>6, <2>2, <2>4, <3>2
    <2>5. CASE YearOfEra(e + 1) = y + 1 /\ DayOfYear(e + 1) = 0 /\ e + 1 = Days(y + 1)
        <3> QED BY SMT, <1>1, <1>4, <1>5, <1>6, <2>2, <2>5
    <2> QED BY SMT, <2>3, <2>4, <2>5
<1>8. CASE e = 146096
    <2>1. Era(Z(n + 1)) = Era(Z(n)) + 1 /\ Doe(n + 1) = 0
        BY SMT, <1>1, <1>2, <1>8
    <2>2. YearOfEra(0) = 0 /\ DayOfYear(0) = 0
        BY SMT DEF YearOfEra, DayOfYear
    <2>3. YearOfEra(146096) = 399 /\ DayOfYear(146096) = 365
        BY SMT DEF YearOfEra, DayOfYear
    <2>4. YearLength(399) = 366
        BY SMT DEF YearLength, Leap
    <2>5. y = 399 /\ DayOfYear(e) = 365
        BY SMT, <1>8, <2>3 DEF y
    <2>6. YearOf(n + 1) = 400 * (Era(Z(n)) + 1) /\ DayOf(n + 1) = 0
        BY SMT, <1>1, <2>1, <2>2 DEF YearOf, DayOf
    <2> QED BY SMT, <1>1, <1>6, <2>4, <2>5, <2>6
<1> QED BY SMT, <1>1, <1>7, <1>8

-----------------------------------------------------------------------------
\* Year, month and day of the month of a day f of the year y that begins in March.
Civil(y, f) ==
    LET mp == MonthOfYear(f)
        m  == IF mp < 10 THEN mp + 3 ELSE mp - 9
    IN  <<y + (IF m <= 2 THEN 1 ELSE 0), m, f - MonthStart(mp) + 1>>

\* civilFromDays puts the date together from the year and the day in it.
LEMMA CivilParts ==
    ASSUME NEW n \in Int
    PROVE  CivilFromDays(n) = Civil(YearOf(n), DayOf(n))
<1> DEFINE z   == n + 719468
           doe == z - Era(z) * 146097
           mp  == MonthOfYear(DayOfYear(doe))
           m   == IF mp < 10 THEN mp + 3 ELSE mp - 9
           one == IF m <= 2 THEN 1 ELSE 0
<1>1. CivilFromDays(n) = <<YearOfEra(doe) + Era(z) * 400 + one, m, DayOfYear(doe) - MonthStart(mp) + 1>>
    BY SMT DEF CivilFromDays
<1>2. YearOf(n) = YearOfEra(doe) + 400 * Era(z) /\ DayOf(n) = DayOfYear(doe)
    BY SMT DEF YearOf, DayOf, Doe, Z
<1>3. Era(z) \in Int /\ doe \in Int /\ 0 <= doe /\ doe <= 146096
    BY SMT, EraStep
<1>4. Civil(YearOf(n), DayOf(n)) = <<YearOf(n) + one, m, DayOf(n) - MonthStart(mp) + 1>>
    BY SMT, <1>2 DEF Civil
<1>5. YearFound(doe)
    BY SMT, <1>3, YearOfCycle
<1>6. YearOfEra(doe) \in Int
    BY SMT, <1>5 DEF YearFound
<1> DEFINE ye == YearOfEra(doe)
           er == Era(z)
<1>7. ye \in Int /\ er \in Int
    BY <1>3, <1>6
<1> HIDE DEF one, mp, m, doe, z, ye, er
<1>8. ye + er * 400 + one = ye + 400 * er + one
    BY SMT, <1>7
<1> QED BY SMT, <1>1, <1>2, <1>4, <1>8 DEF ye, er

\* The days of the year before each month, counted from March.
LEMMA MonthStarts ==
    /\ MonthStart(0) = 0    /\ MonthStart(1) = 31   /\ MonthStart(2) = 61
    /\ MonthStart(3) = 92   /\ MonthStart(4) = 122  /\ MonthStart(5) = 153
    /\ MonthStart(6) = 184  /\ MonthStart(7) = 214  /\ MonthStart(8) = 245
    /\ MonthStart(9) = 275  /\ MonthStart(10) = 306 /\ MonthStart(11) = 337
    /\ MonthStart(12) = 367
BY SMT DEF MonthStart

\* The month that is found is the one that holds the day: mp is in [0, 11].
LEMMA Months ==
    ASSUME NEW f \in Int, 0 <= f, f <= 365
    PROVE  /\ MonthOfYear(f) \in 0 .. 11
           /\ MonthStart(MonthOfYear(f)) <= f /\ f < MonthStart(MonthOfYear(f) + 1)
<1> DEFINE p == MonthOfYear(f)
<1>1. p \in Int /\ 153 * p <= 5 * f + 2 /\ 5 * f + 2 < 153 * p + 153
    BY SMT DEF MonthOfYear
<1> HIDE DEF p
<1>2. p \in 0 .. 11
    BY SMT, <1>1
<1>3. MonthStart(p) <= f /\ f < MonthStart(p + 1)
    BY SMT, <1>1, <1>2, MonthStarts
<1> QED BY <1>2, <1>3 DEF p

\* The next day is in the same month, or the first of the next one.
LEMMA MonthStep ==
    ASSUME NEW f \in Int, 0 <= f, f < 365
    PROVE  \/ MonthOfYear(f + 1) = MonthOfYear(f) /\ f + 1 < MonthStart(MonthOfYear(f) + 1)
           \/ MonthOfYear(f + 1) = MonthOfYear(f) + 1 /\ f + 1 = MonthStart(MonthOfYear(f) + 1)
<1> DEFINE p == MonthOfYear(f)
           q == MonthOfYear(f + 1)
<1>1. p \in 0 .. 11 /\ 153 * p <= 5 * f + 2 /\ 5 * f + 2 < 153 * p + 153
    BY SMT, Months DEF MonthOfYear
<1>2. q \in Int /\ 153 * q <= 5 * f + 7 /\ 5 * f + 7 < 153 * q + 153
    BY SMT DEF MonthOfYear
<1> HIDE DEF p, q
<1>3. q \in 0 .. 11 /\ (q = p \/ q = p + 1)
    BY SMT, <1>1, <1>2
<1>4. q = p => f + 1 < MonthStart(p + 1)
    BY SMT, <1>1, <1>2, MonthStarts
<1>5. q = p + 1 => f + 1 = MonthStart(p + 1)
    BY SMT, <1>1, <1>2, <1>3, MonthStarts
<1> QED BY <1>3, <1>4, <1>5 DEF p, q

\* A date of the calendar: m is in [1, 12] and d in [1, 31], and in its month.
Valid(c) ==
    /\ c \in Int \X Int \X Int
    /\ 1 <= c[2] /\ c[2] <= 12
    /\ 1 <= c[3] /\ c[3] <= MonthLength(c[1], c[2]) /\ c[3] <= 31

\* The length of a month p, of the year y that begins in March.
MonthEnd(y, p) == IF p = 11 THEN YearLength(y) ELSE MonthStart(p + 1)

\* The months of that year are as long as the calendar says.
LEMMA MonthLengths ==
    ASSUME NEW y \in Int, NEW p \in 0 .. 11,
           NEW m \in Int, m = (IF p < 10 THEN p + 3 ELSE p - 9)
    PROVE  MonthLength(y + (IF m <= 2 THEN 1 ELSE 0), m) = MonthEnd(y, p) - MonthStart(p)
<1>1. CASE p = 11
    BY SMT, <1>1, MonthStarts DEF MonthLength, MonthEnd, YearLength
<1>2. CASE p # 11
    BY SMT, <1>2, MonthStarts DEF MonthLength, MonthEnd
<1> QED BY <1>1, <1>2

\* What is put together of a year and a day of it is a date of the calendar.
LEMMA CivilValid ==
    ASSUME NEW y \in Int, NEW f \in Int, 0 <= f, f < YearLength(y)
    PROVE  Valid(Civil(y, f)) /\ f < MonthEnd(y, MonthOfYear(f)) /\ f <= 365
<1> DEFINE p == MonthOfYear(f)
           m == IF p < 10 THEN p + 3 ELSE p - 9
           w == IF m <= 2 THEN 1 ELSE 0
<1>1. f <= 365
    BY SMT DEF YearLength
<1>2. p \in 0 .. 11 /\ MonthStart(p) <= f /\ f < MonthStart(p + 1)
    BY SMT, <1>1, Months
<1>3. Civil(y, f) = <<y + w, m, f - MonthStart(p) + 1>>
    BY DEF Civil
<1> HIDE DEF p
<1>4. m \in Int /\ w \in Int /\ 1 <= m /\ m <= 12
    BY SMT, <1>2
<1>5. f < MonthEnd(y, p)
    BY SMT, <1>2 DEF MonthEnd
<1>6. MonthLength(y + w, m) = MonthEnd(y, p) - MonthStart(p)
    BY SMT, <1>2, <1>4, MonthLengths
<1>7. MonthStart(p) \in Int /\ f - MonthStart(p) + 1 <= 31 /\ MonthEnd(y, p) \in Int
    BY SMT, <1>2, MonthStarts DEF MonthEnd, YearLength
<1> HIDE DEF m, w
<1>8. Valid(<<y + w, m, f - MonthStart(p) + 1>>)
    BY SMT, <1>2, <1>4, <1>5, <1>6, <1>7 DEF Valid
<1> QED BY <1>1, <1>3, <1>5, <1>8 DEF p

\* Within a year that begins in March the next day has the date that follows.
LEMMA CivilNextDay ==
    ASSUME NEW y \in Int, NEW f \in Int, 0 <= f, f + 1 < YearLength(y)
    PROVE  Civil(y, f + 1) = Following(Civil(y, f))
<1> DEFINE p == MonthOfYear(f)
           q == MonthOfYear(f + 1)
           m == IF p < 10 THEN p + 3 ELSE p - 9
           w == IF m <= 2 THEN 1 ELSE 0
           k == IF q < 10 THEN q + 3 ELSE q - 9
           v == IF k <= 2 THEN 1 ELSE 0
           c == <<y + w, m, f - MonthStart(p) + 1>>
<1>1. f < 365
    BY SMT DEF YearLength
<1>2. p \in 0 .. 11 /\ q \in 0 .. 11 /\ MonthStart(p) <= f /\ f < MonthStart(p + 1)
    BY SMT, <1>1, Months
<1>3. Civil(y, f) = c /\ Civil(y, f + 1) = <<y + v, k, (f + 1) - MonthStart(q) + 1>>
    <2>1. Civil(y, f) = c
        BY DEF Civil
    <2>2. Civil(y, f + 1) = <<y + v, k, (f + 1) - MonthStart(q) + 1>>
        BY DEF Civil
    <2> QED BY <2>1, <2>2
<1>4. \/ q = p /\ f + 1 < MonthStart(p + 1)
      \/ q = p + 1 /\ f + 1 = MonthStart(p + 1)
    BY SMT, <1>1, MonthStep
<1> HIDE DEF p, q
<1>5. MonthLength(y + w, m) = MonthEnd(y, p) - MonthStart(p)
    BY SMT, <1>2, MonthLengths
<1>6. MonthStart(p) \in Int /\ MonthStart(p + 1) \in Int /\ MonthStart(q) \in Int
    BY SMT, <1>2, MonthStarts
<1>7. MonthEnd(y, p) \in Int /\ YearLength(y) \in Int
    BY SMT, <1>6 DEF MonthEnd, YearLength
<1>8. m \in Int /\ w \in Int /\ 1 <= m /\ m <= 12
    BY SMT, <1>2
<1>9. CASE q = p /\ f + 1 < MonthStart(p + 1)
    <2>1. f + 1 < MonthEnd(y, p)
        BY SMT, <1>9 DEF MonthEnd
    <2>2. c[3] < MonthLength(c[1], c[2])
        BY SMT, <1>5, <1>6, <1>7, <2>1
    <2>3. Following(c) = <<y + w, m, f - MonthStart(p) + 1 + 1>>
        BY <2>2 DEF Following
    <2>4. (f + 1) - MonthStart(q) + 1 = f - MonthStart(p) + 1 + 1
        BY SMT, <1>6, <1>9
    <2>5. k = m /\ v = w
        BY <1>9
    <2> QED BY <1>3, <2>3, <2>4, <2>5
<1>10. CASE q = p + 1 /\ f + 1 = MonthStart(p + 1)
    <2>1. p # 11 /\ MonthEnd(y, p) = f + 1
        BY SMT, <1>2, <1>10 DEF MonthEnd
    <2>2. ~(c[3] < MonthLength(c[1], c[2]))
        BY SMT, <1>5, <1>6, <1>7, <2>1
    <2>3. Following(c) = IF m < 12 THEN <<y + w, m + 1, 1>> ELSE <<y + w + 1, 1, 1>>
        BY <2>2 DEF Following
    <2>4. (f + 1) - MonthStart(q) + 1 = 1
        BY SMT, <1>6, <1>10
    <2>5. CASE p = 9
        <3>1. m = 12 /\ w = 0 /\ k = 1 /\ v = 1
            BY SMT, <1>10, <2>5
        <3>2. y + w + 1 = y + v
            BY SMT, <3>1
        <3>3. ~(m < 12)
            BY SMT, <3>1
        <3> QED BY SMT, <1>3, <2>3, <2>4, <3>1, <3>2, <3>3
    <2>6. CASE p # 9
        <3>1. m < 12 /\ k = m + 1 /\ v = w
            BY SMT, <1>2, <1>10, <2>1, <2>6
        <3> QED BY SMT, <1>3, <2>3, <2>4, <3>1
    <2> QED BY <2>5, <2>6
<1> QED BY <1>4, <1>9, <1>10

\* Behind the last of February comes the first of March.
LEMMA CivilNextYear ==
    ASSUME NEW y \in Int, NEW f \in Int, 0 <= f, f + 1 = YearLength(y)
    PROVE  Civil(y + 1, 0) = Following(Civil(y, f))
<1>1. MonthOfYear(f) = 11 /\ MonthOfYear(0) = 0
    BY SMT DEF YearLength, MonthOfYear
<1>2. Civil(y, f) = <<y + 1, 2, f - 337 + 1>> /\ Civil(y + 1, 0) = <<y + 1 + 0, 3, 1>>
    BY SMT, <1>1, MonthStarts DEF Civil
<1>3. ~(f - 337 + 1 < MonthLength(y + 1, 2))
    BY SMT DEF MonthLength, YearLength
<1>4. Following(<<y + 1, 2, f - 337 + 1>>) = <<y + 1, 3, 1>>
    BY SMT, <1>3 DEF Following
<1> QED BY SMT, <1>2, <1>4

\* Preceding undoes Following.
LEMMA BackAgain ==
    ASSUME NEW c, Valid(c)
    PROVE  Preceding(Following(c)) = c
<1>1. PICK y \in Int, m \in Int, d \in Int : c = <<y, m, d>>
    BY DEF Valid
<1>2. 1 <= m /\ m <= 12 /\ 1 <= d /\ d <= MonthLength(y, m)
    BY <1>1 DEF Valid
<1>3. MonthLength(y, m) \in Int
    BY SMT DEF MonthLength
<1>4. CASE d < MonthLength(y, m)
    <2>1. Following(c) = <<y, m, d + 1>>
        BY <1>1, <1>4 DEF Following
    <2> QED BY SMT, <1>1, <1>2, <2>1 DEF Preceding
<1>5. CASE d = MonthLength(y, m) /\ m < 12
    <2>1. Following(c) = <<y, m + 1, 1>>
        BY SMT, <1>1, <1>3, <1>5 DEF Following
    <2>2. Preceding(<<y, m + 1, 1>>) = <<y, m + 1 - 1, MonthLength(y, m + 1 - 1)>>
        BY SMT, <1>2 DEF Preceding
    <2>3. m + 1 - 1 = m
        BY SMT
    <2> QED BY <1>1, <1>5, <2>1, <2>2, <2>3
<1>6. CASE d = MonthLength(y, m) /\ m = 12
    <2>1. Following(c) = <<y + 1, 1, 1>>
        BY SMT, <1>1, <1>3, <1>6 DEF Following
    <2>2. d = 31
        BY SMT, <1>6 DEF MonthLength
    <2> QED BY SMT, <1>1, <1>6, <2>1, <2>2 DEF Preceding
<1> QED BY SMT, <1>2, <1>3, <1>4, <1>5, <1>6

\* civilFromDays gives the next day the date that follows, the day before the date
\* that precedes, and no day a date that is not in the calendar.
THEOREM NextDay ==
    ASSUME NEW n \in Int
    PROVE  /\ CivilFromDays(n + 1) = Following(CivilFromDays(n))
           /\ CivilFromDays(n - 1) = Preceding(CivilFromDays(n))
           /\ Valid(CivilFromDays(n))
<1>1. ASSUME NEW k \in Int
      PROVE  CivilFromDays(k + 1) = Following(CivilFromDays(k)) /\ Valid(CivilFromDays(k))
    <2> DEFINE y == YearOf(k)
               f == DayOf(k)
    <2>1. /\ y \in Int /\ f \in Int /\ 0 <= f /\ f < YearLength(y)
          /\ \/ YearOf(k + 1) = y /\ DayOf(k + 1) = f + 1 /\ f + 1 < YearLength(y)
             \/ YearOf(k + 1) = y + 1 /\ DayOf(k + 1) = 0 /\ f + 1 = YearLength(y)
        BY YearStep
    <2>2. CivilFromDays(k) = Civil(y, f)
        BY CivilParts
    <2>3. CivilFromDays(k + 1) = Civil(YearOf(k + 1), DayOf(k + 1))
        BY SMT, CivilParts
    <2> HIDE DEF y, f
    <2>4. Civil(YearOf(k + 1), DayOf(k + 1)) = Following(Civil(y, f))
        <3>1. CASE YearOf(k + 1) = y /\ DayOf(k + 1) = f + 1 /\ f + 1 < YearLength(y)
            BY <2>1, <3>1, CivilNextDay
        <3>2. CASE YearOf(k + 1) = y + 1 /\ DayOf(k + 1) = 0 /\ f + 1 = YearLength(y)
            BY <2>1, <3>2, CivilNextYear
        <3> QED BY <2>1, <3>1, <3>2
    <2>5. Valid(Civil(y, f))
        BY <2>1, CivilValid
    <2> QED BY <2>2, <2>3, <2>4, <2>5
<1>2. n - 1 \in Int /\ n - 1 + 1 = n
    BY SMT
<1>3. CivilFromDays(n) = Following(CivilFromDays(n - 1)) /\ Valid(CivilFromDays(n - 1))
    BY <1>1, <1>2
<1> QED BY <1>1, <1>3, BackAgain

-----------------------------------------------------------------------------
\* civilFromDays gives the known days their dates.
LEMMA Known ==
    ASSUME NEW a \in KnownDates
    PROVE  a.day \in Int /\ a.date = CivilFromDays(a.day)
<1>1. CivilFromDays(0) = <<1970, 1, 1>>
    <2>1. Era(719468) = 4
        BY SMT DEF Era, Quotient
    <2>2. YearOfEra(135080) = 369
        BY SMT DEF YearOfEra
    <2>3. DayOfYear(135080) = 306
        BY SMT, <2>2 DEF DayOfYear
    <2>4. MonthOfYear(306) = 10 /\ MonthStart(10) = 306
        BY SMT DEF MonthOfYear, MonthStart
    <2>5. 0 + 719468 = 719468 /\ 719468 - 4 * 146097 = 135080
        BY SMT
    <2> QED BY SMT, <2>1, <2>2, <2>3, <2>4, <2>5 DEF CivilFromDays
<1>2. CivilFromDays(2932896) = <<9999, 12, 31>>
    <2>1. Era(3652364) = 24
        BY SMT DEF Era, Quotient
    <2>2. YearOfEra(146036) = 399
        BY SMT DEF YearOfEra
    <2>3. DayOfYear(146036) = 305
        BY SMT, <2>2 DEF DayOfYear
    <2>4. MonthOfYear(305) = 9 /\ MonthStart(9) = 275
        BY SMT DEF MonthOfYear, MonthStart
    <2>5. 2932896 + 719468 = 3652364 /\ 3652364 - 24 * 146097 = 146036
        BY SMT
    <2> QED BY SMT, <2>1, <2>2, <2>3, <2>4, <2>5 DEF CivilFromDays
<1> QED BY SMT, <1>1, <1>2 DEF KnownDates

\* The walk stays near its start, and its date is the one that is computed.
Walk ==
    /\ start \in Anchors
    /\ day \in Int
    /\ start.day - Span <= day /\ day <= start.day + Span
    /\ date = CivilFromDays(day)

\* Walk is an invariant: each step of the calendar is a step of the arithmetic.
LEMMA WalkHolds == Spec => []Walk
<1> USE CalendarAssumption
<1>1. Init => Walk
    <2> SUFFICES ASSUME Init PROVE Walk
        OBVIOUS
    <2>1. start.day \in Int /\ start.date = CivilFromDays(start.day)
        BY SMT, Known DEF Init
    <2> QED BY SMT, <2>1 DEF Init, Walk
<1>2. Walk /\ [Next]_vars => Walk'
    <2> SUFFICES ASSUME Walk, [Next]_vars PROVE Walk'
        OBVIOUS
    <2>1. start.day \in Int
        BY SMT, Known DEF Walk
    <2>2. CASE Tomorrow
        <3>1. CivilFromDays(day + 1) = Following(CivilFromDays(day))
            BY NextDay DEF Walk
        <3> QED BY SMT, <2>1, <2>2, <3>1 DEF Walk, Tomorrow
    <2>3. CASE Yesterday
        <3>1. CivilFromDays(day - 1) = Preceding(CivilFromDays(day))
            BY NextDay DEF Walk
        <3> QED BY SMT, <2>1, <2>3, <3>1 DEF Walk, Yesterday
    <2>4. CASE UNCHANGED vars
        BY <2>4 DEF Walk, vars
    <2> QED BY <2>2, <2>3, <2>4 DEF Next
<1> QED BY <1>1, <1>2, PTL DEF Spec

\* The arithmetic of civilFromDays is the Gregorian calendar, on every day of a walk
\* of any length from either known date.
THEOREM ArithmeticIsCalendar == Spec => []CivilAgrees
<1>1. Walk => CivilAgrees
    BY DEF Walk, CivilAgrees
<1> QED BY <1>1, WalkHolds, PTL

-----------------------------------------------------------------------------
\* The int that the year is kept in holds the years of the walk.
YearsFit == Span + 4000000 <= 365 * IntMax

\* From the epoch on no year is before 1970, and a year has 365 days at least.
LEMMA YearBounds ==
    ASSUME NEW n \in Int, 0 <= n
    PROVE  /\ CivilFromDays(n)[1] \in Int /\ 1970 <= CivilFromDays(n)[1]
           /\ 365 * CivilFromDays(n)[1] <= n + 719468 + 365
<1> DEFINE era == Era(Z(n))
           e   == Doe(n)
           y   == YearOfEra(e)
           p   == MonthOfYear(DayOf(n))
           m   == IF p < 10 THEN p + 3 ELSE p - 9
           w   == IF m <= 2 THEN 1 ELSE 0
<1>1. era \in Int /\ e \in Int /\ 0 <= e /\ e <= 146096 /\ n + 719468 = era * 146097 + e
    BY SMT, EraStep DEF Doe, Z
<1> HIDE DEF era, e
<1>2. YearFound(e)
    BY SMT, <1>1, YearOfCycle
<1>3. /\ y \in Int /\ 0 <= y /\ y <= 399 /\ Days(y) \in Int
      /\ Days(y) <= e /\ e < Days(y + 1) /\ DayOfYear(e) = e - Days(y)
    BY SMT, <1>2 DEF YearFound
<1>4. YearOf(n) = y + 400 * era /\ DayOf(n) = DayOfYear(e)
    BY DEF YearOf, DayOf, era, e
<1>5. CivilFromDays(n) = <<YearOf(n) + w, m, DayOf(n) - MonthStart(p) + 1>>
    BY CivilParts DEF Civil
<1>6. CivilFromDays(n)[1] = YearOf(n) + w
    BY <1>5
<1>7. DayOf(n) \in Int /\ 0 <= DayOf(n) /\ DayOf(n) <= 365
    BY SMT, YearStep DEF YearLength
<1>8. p \in Int /\ (DayOf(n) >= 306 => p >= 10) /\ p <= 11
    BY SMT, <1>7 DEF MonthOfYear
<1> HIDE DEF y, p
<1>9. w \in 0 .. 1 /\ (p >= 10 => w = 1)
    BY SMT, <1>8
<1> HIDE DEF m, w
<1>10. Rounded(y)
    BY SMT, <1>3, Quotients
<1>11. 365 * y <= e
    <2>1. PICK c, d, h \in Int :
            /\ 4 * c <= y /\ y < 4 * c + 4
            /\ 100 * d <= y /\ y < 100 * d + 100
            /\ 400 * h <= y /\ y < 400 * h + 400
            /\ Days(y) = 365 * y + c - d + h
            /\ y \div 4 = c /\ y \div 100 = d
        BY SMT, <1>10 DEF Rounded
    <2>2. c - d + h >= 0
        BY SMT, <1>3, <2>1
    <2> QED BY SMT, <1>1, <1>3, <2>1, <2>2
<1>12. era >= 4
    BY SMT, <1>1
<1>13. 365 * (YearOf(n) + w) <= n + 719468 + 365
    BY SMT, <1>1, <1>3, <1>4, <1>9, <1>11, <1>12
<1>14. CASE era >= 5
    BY SMT, <1>1, <1>3, <1>4, <1>6, <1>9, <1>13, <1>14
<1>15. CASE era = 4
    <2>1. e >= 135080
        BY SMT, <1>1, <1>15
    <2>2. Days(369) = 134774
        BY SMT DEF Days
    <2>3. y >= 369
        <3> SUFFICES ASSUME y < 369 PROVE FALSE
            BY SMT, <1>3
        <3> DEFINE x == y + 1
        <3>1. x \in Int /\ 0 <= x /\ x <= 369
            BY SMT, <1>3
        <3>2. e < Days(x)
            BY <1>3
        <3> HIDE DEF x
        <3>3. Days(x) <= Days(369)
            BY SMT, <3>1, DaysGrow
        <3>4. Rounded(x)
            BY SMT, <3>1, Quotients
        <3>5. Days(x) \in Int
            BY SMT, <3>1, <3>4 DEF Rounded
        <3> QED BY SMT, <1>1, <2>1, <2>2, <3>2, <3>3, <3>5
    <2>4. y = 369 => DayOf(n) >= 306
        BY SMT, <1>1, <1>3, <1>4, <2>1, <2>2
    <2>5. 1970 <= YearOf(n) + w
        BY SMT, <1>3, <1>4, <1>8, <1>9, <1>15, <2>3, <2>4
    <2> QED BY SMT, <1>1, <1>3, <1>4, <1>6, <1>9, <1>13, <1>15, <2>5
<1> QED BY SMT, <1>1, <1>12, <1>14, <1>15

\* An int keeps a year that fits.
LEMMA IntHolds ==
    ASSUME NEW y \in Int, 0 <= y, y <= IntMax
    PROVE  ToInt(y) = y
BY SMT, CalendarAssumption DEF ToInt

\* Before the epoch no year is beyond 9999.
LEMMA EarlyYears ==
    ASSUME NEW n \in Int, n < 0
    PROVE  CivilFromDays(n)[1] < 10000
<1> DEFINE era == Era(Z(n))
           e   == Doe(n)
           y   == YearOfEra(e)
           p   == MonthOfYear(DayOf(n))
           m   == IF p < 10 THEN p + 3 ELSE p - 9
           w   == IF m <= 2 THEN 1 ELSE 0
<1>1. era \in Int /\ e \in Int /\ 0 <= e /\ e <= 146096 /\ n + 719468 = era * 146097 + e
    BY SMT, EraStep DEF Doe, Z
<1> HIDE DEF era, e
<1>2. YearFound(e)
    BY SMT, <1>1, YearOfCycle
<1>3. y \in Int /\ y <= 399
    BY SMT, <1>2 DEF YearFound
<1>4. YearOf(n) = y + 400 * era
    BY DEF YearOf, era, e
<1>5. CivilFromDays(n) = <<YearOf(n) + w, m, DayOf(n) - MonthStart(p) + 1>>
    BY CivilParts DEF Civil
<1>6. CivilFromDays(n)[1] = YearOf(n) + w
    BY <1>5
<1>7. w \in 0 .. 1
    OBVIOUS
<1> HIDE DEF y, w
<1> QED BY SMT, <1>1, <1>3, <1>4, <1>6, <1>7

\* "If the given |secondsSinceEpoch| is too large, we return the maximum supported
\* date" (time_utils.hpp:433-435), as long as the year fits in an int.
THEOREM BeyondIsMaximum ==
    ASSUME YearsFit
    PROVE  Spec => []TooLargeIsMaximum
<1>1. Walk => TooLargeIsMaximum
    <2> SUFFICES ASSUME Walk, date[1] >= 10000, NEW r \in Rests
                 PROVE  DateTime(day, r) = <<9999, 12, 31>> \o Clock(TicksPerDay - 1)
        BY DEF TooLargeIsMaximum
    <2> USE CalendarAssumption
    <2>1. start.day \in Int /\ start.day <= 2932896
        BY SMT DEF Walk, KnownDates
    <2>2. day \in Int /\ day <= 2932896 + Span
        BY SMT, <2>1 DEF Walk
    <2>3. date[1] = CivilFromDays(day)[1] /\ CivilFromDays(day)[1] \in Int
        BY SMT, <2>2, NextDay DEF Walk, Valid
    <2>4. 0 <= day
        BY SMT, <2>2, <2>3, EarlyYears
    <2>5. 365 * CivilFromDays(day)[1] <= day + 719468 + 365
        BY SMT, <2>2, <2>4, YearBounds
    <2>6. CivilFromDays(day)[1] <= IntMax
        BY SMT, <2>2, <2>3, <2>5 DEF YearsFit
    <2>7. ToInt(CivilFromDays(day)[1]) = CivilFromDays(day)[1]
        BY SMT, <2>3, <2>6, IntHolds
    <2> QED BY SMT, <2>3, <2>7 DEF DateTime
<1> QED BY <1>1, WalkHolds, PTL

-----------------------------------------------------------------------------
\* What a division that rounds down leaves.
LEMMA QuotientBounds ==
    ASSUME NEW a \in Int, 0 <= a, NEW b \in Int, 0 < b
    PROVE  LET q == Quotient(a, b)
           IN  q \in Int /\ b * q <= a /\ a < b * q + b
BY SMT DEF Quotient

\* The limits of two, four and six digits.
LEMMA Powers == 10 ^ 2 = 100 /\ 10 ^ 4 = 10000 /\ 10 ^ 6 = 1000000
BY SMT

\* Hours, minutes, seconds and ticks of the tick r of a day.
Hands(r, h, m, s, f) ==
    /\ 0 <= h /\ h <= 23 /\ 0 <= m /\ m <= 59 /\ 0 <= s /\ s <= 59
    /\ 0 <= f /\ f < TicksPerSecond
    /\ r = ((h * 60 + m) * 60 + s) * TicksPerSecond + f

\* Every tick of a day is printed as its hours, minutes, seconds and ticks, and none of
\* these loses a digit.
LEMMA ClockHands ==
    ASSUME NEW r \in Int, 0 <= r, r < TicksPerDay
    PROVE  \E h, m, s, f \in Int : Hands(r, h, m, s, f) /\ Clock(r) = <<h, m, s, f>>
<1> DEFINE t  == TicksPerSecond
           hr == Quotient(r, 3600 * t)
           r1 == r - hr * 3600 * t
           mt == Quotient(r1, 60 * t)
           r2 == r1 - mt * 60 * t
           se == Quotient(r2, t)
           f  == r2 - se * t
<1>1. t \in {1, 1000, 1000000} /\ r < 86400 * t
    BY SMT, CalendarAssumption DEF TicksPerDay
<1>2. hr \in Int /\ 3600 * t * hr <= r /\ r < 3600 * t * hr + 3600 * t
    BY SMT, <1>1, QuotientBounds
<1>3. Clock(r) = <<Padded(hr, 2), Padded(mt, 2), Padded(se, 2), Padded(f, 6)>>
    BY SMT DEF Clock
<1> HIDE DEF hr, t
<1>4. r1 \in Int /\ 0 <= r1 /\ r1 < 3600 * t
    BY SMT, <1>1, <1>2
<1> HIDE DEF r1
<1>5. mt \in Int /\ 60 * t * mt <= r1 /\ r1 < 60 * t * mt + 60 * t
    BY SMT, <1>1, <1>4, QuotientBounds
<1> HIDE DEF mt
<1>6. r2 \in Int /\ 0 <= r2 /\ r2 < 60 * t
    BY SMT, <1>1, <1>4, <1>5
<1> HIDE DEF r2
<1>7. se \in Int /\ t * se <= r2 /\ r2 < t * se + t
    BY SMT, <1>1, <1>6, QuotientBounds
<1> HIDE DEF se
<1>8. f \in Int /\ 0 <= f /\ f < t
    BY SMT, <1>1, <1>6, <1>7
<1>9. 0 <= hr /\ hr <= 23 /\ 0 <= mt /\ mt <= 59 /\ 0 <= se /\ se <= 59
    BY SMT, <1>1, <1>2, <1>4, <1>5, <1>6, <1>7
<1>10. r = ((hr * 60 + mt) * 60 + se) * t + f
    BY SMT, <1>1, <1>2, <1>5, <1>7, <1>8 DEF r1, r2
<1> HIDE DEF f
<1>11. Padded(hr, 2) = hr /\ Padded(mt, 2) = mt /\ Padded(se, 2) = se /\ Padded(f, 6) = f
    BY SMT, <1>1, <1>2, <1>5, <1>7, <1>8, <1>9, Powers DEF Padded
<1> QED BY SMT, <1>2, <1>3, <1>5, <1>7, <1>8, <1>9, <1>10, <1>11 DEF Hands, t

\* The order of texts of seven numbers.
Sooner(a1, a2, a3, a4, a5, a6, a7, b1, b2, b3, b4, b5, b6, b7) ==
    \/ a1 < b1
    \/ a1 = b1 /\ a2 < b2
    \/ a1 = b1 /\ a2 = b2 /\ a3 < b3
    \/ a1 = b1 /\ a2 = b2 /\ a3 = b3 /\ a4 < b4
    \/ a1 = b1 /\ a2 = b2 /\ a3 = b3 /\ a4 = b4 /\ a5 < b5
    \/ a1 = b1 /\ a2 = b2 /\ a3 = b3 /\ a4 = b4 /\ a5 = b5 /\ a6 < b6
    \/ a1 = b1 /\ a2 = b2 /\ a3 = b3 /\ a4 = b4 /\ a5 = b5 /\ a6 = b6 /\ a7 < b7

\* Earlier, spelled out for the seven numbers of a string.
LEMMA EarlierIsSooner ==
    ASSUME NEW a1 \in Int, NEW a2 \in Int, NEW a3 \in Int, NEW a4 \in Int,
           NEW a5 \in Int, NEW a6 \in Int, NEW a7 \in Int,
           NEW b1 \in Int, NEW b2 \in Int, NEW b3 \in Int, NEW b4 \in Int,
           NEW b5 \in Int, NEW b6 \in Int, NEW b7 \in Int,
           Earlier(<<a1, a2, a3, a4, a5, a6, a7>>, <<b1, b2, b3, b4, b5, b6, b7>>)
    PROVE  Sooner(a1, a2, a3, a4, a5, a6, a7, b1, b2, b3, b4, b5, b6, b7)
<1> DEFINE a == <<a1, a2, a3, a4, a5, a6, a7>>
           b == <<b1, b2, b3, b4, b5, b6, b7>>
<1>1. PICK i \in DOMAIN a : a[i] < b[i] /\ \A j \in 1 .. i - 1 : a[j] = b[j]
    BY DEF Earlier
<1>2. /\ a[1] = a1 /\ a[2] = a2 /\ a[3] = a3 /\ a[4] = a4 /\ a[5] = a5 /\ a[6] = a6 /\ a[7] = a7
      /\ b[1] = b1 /\ b[2] = b2 /\ b[3] = b3 /\ b[4] = b4 /\ b[5] = b5 /\ b[6] = b6 /\ b[7] = b7
    BY SMT
<1>3. i \in {1, 2, 3, 4, 5, 6, 7}
    BY SMT, <1>1
<1> HIDE DEF a, b
<1>4. i \in Int /\ (1 < i => a[1] = b[1]) /\ (2 < i => a[2] = b[2]) /\ (3 < i => a[3] = b[3])
      /\ (4 < i => a[4] = b[4]) /\ (5 < i => a[5] = b[5]) /\ (6 < i => a[6] = b[6])
    BY SMT, <1>1, <1>3
<1> QED BY SMT, <1>1, <1>2, <1>3, <1>4 DEF Sooner

\* The numbers that are printed of tick r of a day n.
Printed(n, r, y, mo, d, h, m, s, f) ==
    \/ y <= 9999 /\ CivilFromDays(n) = <<y, mo, d>> /\ Hands(r, h, m, s, f)
    \/ /\ CivilFromDays(n)[1] >= 10000 /\ y = 9999 /\ mo = 12 /\ d = 31
       /\ Hands(TicksPerDay - 1, h, m, s, f)

\* A date and a time of day in one string.
LEMMA Joined ==
    ASSUME NEW a1 \in Int, NEW a2 \in Int, NEW a3 \in Int,
           NEW a4 \in Int, NEW a5 \in Int, NEW a6 \in Int, NEW a7 \in Int
    PROVE  <<a1, a2, a3>> \o <<a4, a5, a6, a7>> = <<a1, a2, a3, a4, a5, a6, a7>>
<1> DEFINE s == <<a1, a2, a3>>
           t == <<a4, a5, a6, a7>>
           u == <<a1, a2, a3, a4, a5, a6, a7>>
<1>1. s \in Seq(Int) /\ t \in Seq(Int) /\ u \in Seq(Int) /\ Len(s) = 3 /\ Len(t) = 4 /\ Len(u) = 7
    BY SMT
<1>2. /\ s[1] = a1 /\ s[2] = a2 /\ s[3] = a3 /\ t[1] = a4 /\ t[2] = a5 /\ t[3] = a6 /\ t[4] = a7
      /\ u[1] = a1 /\ u[2] = a2 /\ u[3] = a3 /\ u[4] = a4 /\ u[5] = a5 /\ u[6] = a6 /\ u[7] = a7
    BY SMT
<1> HIDE DEF s, t, u
<1>3. /\ s \o t \in Seq(Int)
      /\ Len(s \o t) = Len(s) + Len(t)
      /\ \A i \in 1 .. Len(s) + Len(t) : (s \o t)[i] = IF i <= Len(s) THEN s[i] ELSE t[i - Len(s)]
    BY <1>1, ConcatProperties
<1> DEFINE v == s \o t
<1> HIDE DEF v
<1>4. v \in Seq(Int) /\ Len(v) = 7
    BY SMT, <1>1, <1>3 DEF v
<1>5. ASSUME NEW i \in 1 .. 7
      PROVE  v[i] = u[i]
    <2>1. i \in 1 .. Len(s) + Len(t)
        BY SMT, <1>1
    <2>2. v[i] = IF i <= Len(s) THEN s[i] ELSE t[i - Len(s)]
        BY <1>3, <2>1 DEF v
    <2>3. v[i] = IF i <= 3 THEN s[i] ELSE t[i - 3]
        BY <1>1, <2>2
    <2>4. i \in {1, 2, 3, 4, 5, 6, 7}
        BY SMT
    <2> QED BY SMT, <1>2, <2>3, <2>4
<1>6. v = u
    BY <1>1, <1>4, <1>5, SeqEqual
<1> QED BY <1>6 DEF s, t, u, v

\* A time since the epoch is printed as its date and time of day, or as the last tick
\* of 9999.
LEMMA DateTimePrinted ==
    ASSUME NEW n \in Int, 0 <= n, CivilFromDays(n)[1] <= IntMax,
           NEW r \in Int, 0 <= r, r < TicksPerDay
    PROVE  \E y, mo, d, h, m, s, f \in Int :
              /\ DateTime(n, r) = <<y, mo, d, h, m, s, f>>
              /\ Printed(n, r, y, mo, d, h, m, s, f)
<1>1. Valid(CivilFromDays(n))
    BY NextDay
<1>2. PICK y \in Int, mo \in Int, d \in Int : CivilFromDays(n) = <<y, mo, d>>
    BY <1>1 DEF Valid
<1>3. 1970 <= y /\ y <= IntMax /\ 1 <= mo /\ mo <= 12 /\ 1 <= d /\ d <= 31
    BY SMT, <1>1, <1>2, YearBounds DEF Valid
<1>4. ToInt(y) = y
    BY SMT, <1>3, IntHolds
<1>5. CASE y >= 10000
    <2>1. TicksPerDay - 1 \in Int /\ 0 <= TicksPerDay - 1 /\ TicksPerDay - 1 < TicksPerDay
        BY SMT, CalendarAssumption DEF TicksPerDay
    <2>2. PICK h, m, s, f \in Int :
              Hands(TicksPerDay - 1, h, m, s, f) /\ Clock(TicksPerDay - 1) = <<h, m, s, f>>
        BY <2>1, ClockHands
    <2>3. DateTime(n, r) = <<9999, 12, 31>> \o Clock(TicksPerDay - 1)
        BY SMT, <1>2, <1>4, <1>5 DEF DateTime
    <2>4. <<9999, 12, 31>> \o <<h, m, s, f>> = <<9999, 12, 31, h, m, s, f>>
        BY SMT, Joined
    <2>5. Clock(TicksPerDay - 1) = <<h, m, s, f>>
        BY SMT, <2>2
    <2> DEFINE last == <<9999, 12, 31>>
               text == <<9999, 12, 31, h, m, s, f>>
    <2> HIDE DEF last, text
    <2>6. DateTime(n, r) = last \o Clock(TicksPerDay - 1) /\ last \o <<h, m, s, f>> = text
        BY SMT, <2>3, <2>4 DEF last, text
    <2>7. DateTime(n, r) = text
        BY <2>5, <2>6
    <2>8. DateTime(n, r) = <<9999, 12, 31, h, m, s, f>>
        BY SMT, <2>7 DEF text
    <2>9. Printed(n, r, 9999, 12, 31, h, m, s, f)
        BY SMT, <1>2, <1>5, <2>2 DEF Printed
    <2> QED BY SMT, <2>8, <2>9
<1>6. CASE y < 10000
    <2>1. PICK h, m, s, f \in Int : Hands(r, h, m, s, f) /\ Clock(r) = <<h, m, s, f>>
        BY ClockHands
    <2>2. Padded(y, 4) = y /\ Padded(mo, 2) = mo /\ Padded(d, 2) = d
        BY SMT, <1>3, <1>6, Powers DEF Padded
    <2>3. DateTime(n, r) = <<y, mo, d>> \o Clock(r)
        BY SMT, <1>2, <1>3, <1>4, <1>6, <2>2 DEF DateTime
    <2>4. DateTime(n, r) = <<y, mo, d, h, m, s, f>>
        <3>1. <<y, mo, d>> \o <<h, m, s, f>> = <<y, mo, d, h, m, s, f>>
            BY Joined
        <3> DEFINE a == <<y, mo, d>>
                   b == <<h, m, s, f>>
                   c == <<y, mo, d, h, m, s, f>>
        <3>2. DateTime(n, r) = a \o Clock(r) /\ Clock(r) = b /\ a \o b = c
            BY <2>1, <2>3, <3>1
        <3> HIDE DEF a, b, c
        <3>3. DateTime(n, r) = c
            BY <3>2
        <3> QED BY <3>3 DEF c
    <2>5. Printed(n, r, y, mo, d, h, m, s, f)
        BY SMT, <1>2, <1>6, <2>1 DEF Printed
    <2> QED BY <2>4, <2>5
<1> QED BY SMT, <1>3, <1>5, <1>6

\* The order of two times of day.
Ahead(h2, m2, s2, f2, h, m, s, f) ==
    \/ h2 < h
    \/ h2 = h /\ m2 < m
    \/ h2 = h /\ m2 = m /\ s2 < s
    \/ h2 = h /\ m2 = m /\ s2 = s /\ f2 < f

\* A later tick of a day has no earlier time of day.
LEMMA HandsAdvance ==
    ASSUME NEW r \in Int, NEW q \in Int, r <= q,
           NEW h \in Int, NEW m \in Int, NEW s \in Int, NEW f \in Int, Hands(r, h, m, s, f),
           NEW h2 \in Int, NEW m2 \in Int, NEW s2 \in Int, NEW f2 \in Int, Hands(q, h2, m2, s2, f2)
    PROVE  ~Ahead(h2, m2, s2, f2, h, m, s, f)
<1>1. CASE TicksPerSecond = 1
    BY SMT, <1>1 DEF Hands, Ahead
<1>2. CASE TicksPerSecond = 1000
    BY SMT, <1>2 DEF Hands, Ahead
<1>3. CASE TicksPerSecond = 1000000
    BY SMT, <1>3 DEF Hands, Ahead
<1> QED BY SMT, <1>1, <1>2, <1>3, CalendarAssumption

\* Of two times of one day the later is not printed as the earlier.
LEMMA SameDay ==
    ASSUME NEW n \in Int, 0 <= n, CivilFromDays(n)[1] <= IntMax,
           NEW r \in Int, 0 <= r, r <= TicksPerDay - 1,
           NEW q \in Int, 0 <= q, q <= TicksPerDay - 1, r <= q
    PROVE  ~Earlier(DateTime(n, q), DateTime(n, r))
<1>1. TicksPerDay \in Int
    BY SMT, CalendarAssumption DEF TicksPerDay
<1>2. r < TicksPerDay /\ q < TicksPerDay
    BY SMT, <1>1
<1>3. PICK y, mo, d, h, m, s, f \in Int :
        DateTime(n, r) = <<y, mo, d, h, m, s, f>> /\ Printed(n, r, y, mo, d, h, m, s, f)
    BY <1>2, DateTimePrinted
<1>4. PICK y2, mo2, d2, h2, m2, s2, f2 \in Int :
        DateTime(n, q) = <<y2, mo2, d2, h2, m2, s2, f2>> /\ Printed(n, q, y2, mo2, d2, h2, m2, s2, f2)
    BY <1>2, DateTimePrinted
<1>5. y = y2 /\ mo = mo2 /\ d = d2
    BY SMT, <1>3, <1>4 DEF Printed
<1>6. \/ Hands(r, h, m, s, f) /\ Hands(q, h2, m2, s2, f2)
      \/ Hands(TicksPerDay - 1, h, m, s, f) /\ Hands(TicksPerDay - 1, h2, m2, s2, f2)
    BY SMT, <1>3, <1>4 DEF Printed
<1>7. ~Ahead(h2, m2, s2, f2, h, m, s, f)
    <2>1. CASE Hands(r, h, m, s, f) /\ Hands(q, h2, m2, s2, f2)
        BY <2>1, HandsAdvance
    <2>2. CASE Hands(TicksPerDay - 1, h, m, s, f) /\ Hands(TicksPerDay - 1, h2, m2, s2, f2)
        <3>1. TicksPerDay - 1 \in Int /\ TicksPerDay - 1 <= TicksPerDay - 1
            BY SMT, <1>1
        <3> QED BY <2>2, <3>1, HandsAdvance
    <2> QED BY <1>6, <2>1, <2>2
<1>8. ~Sooner(y2, mo2, d2, h2, m2, s2, f2, y, mo, d, h, m, s, f)
    BY SMT, <1>5, <1>7 DEF Sooner, Ahead
<1> QED BY <1>3, <1>4, <1>8, EarlierIsSooner

\* A time of the next day is not printed before one of this day, beyond 9999 neither.
LEMMA DayAfter ==
    ASSUME NEW n \in Int, 0 <= n,
           CivilFromDays(n)[1] <= IntMax, CivilFromDays(n + 1)[1] <= IntMax,
           NEW r \in Int, 0 <= r, r <= TicksPerDay - 1,
           NEW q \in Int, 0 <= q, q <= TicksPerDay - 1
    PROVE  ~Earlier(DateTime(n + 1, q), DateTime(n, r))
<1>1. TicksPerDay \in Int
    BY SMT, CalendarAssumption DEF TicksPerDay
<1>2. r < TicksPerDay /\ q < TicksPerDay
    BY SMT, <1>1
<1>3. PICK y, mo, d, h, m, s, f \in Int :
        DateTime(n, r) = <<y, mo, d, h, m, s, f>> /\ Printed(n, r, y, mo, d, h, m, s, f)
    BY <1>2, DateTimePrinted
<1> DEFINE k == n + 1
<1>4. k \in Int /\ 0 <= k /\ CivilFromDays(k)[1] <= IntMax
    BY SMT
<1>5. CivilFromDays(k) = Following(CivilFromDays(n)) /\ Valid(CivilFromDays(n)) /\ Valid(CivilFromDays(k))
    BY <1>4, NextDay
<1> HIDE DEF k
<1>6. PICK y2, mo2, d2, h2, m2, s2, f2 \in Int :
        DateTime(k, q) = <<y2, mo2, d2, h2, m2, s2, f2>> /\ Printed(k, q, y2, mo2, d2, h2, m2, s2, f2)
    BY <1>2, <1>4, DateTimePrinted
<1>7. PICK c \in Int, cm \in Int, cd \in Int : CivilFromDays(n) = <<c, cm, cd>>
    BY <1>5 DEF Valid
<1>8. /\ 1 <= cm /\ cm <= 12 /\ 1 <= cd /\ cd <= 31
      /\ \/ CivilFromDays(k) = <<c, cm, cd + 1>>
         \/ cm < 12 /\ CivilFromDays(k) = <<c, cm + 1, 1>>
         \/ CivilFromDays(k) = <<c + 1, 1, 1>>
    BY SMT, <1>5, <1>7 DEF Following, Valid
<1>9. ~Sooner(y2, mo2, d2, h2, m2, s2, f2, y, mo, d, h, m, s, f)
    <2>1. CASE c >= 10000
        <3>1. /\ y = 9999 /\ mo = 12 /\ d = 31 /\ Hands(TicksPerDay - 1, h, m, s, f)
              /\ y2 = 9999 /\ mo2 = 12 /\ d2 = 31 /\ Hands(TicksPerDay - 1, h2, m2, s2, f2)
            BY SMT, <1>3, <1>6, <1>7, <1>8, <2>1 DEF Printed
        <3>2. TicksPerDay - 1 \in Int /\ TicksPerDay - 1 <= TicksPerDay - 1
            BY SMT, <1>1
        <3>3. ~Ahead(h2, m2, s2, f2, h, m, s, f)
            <4>1. Hands(TicksPerDay - 1, h, m, s, f) /\ Hands(TicksPerDay - 1, h2, m2, s2, f2)
                BY SMT, <3>1
            <4> QED BY <3>2, <4>1, HandsAdvance
        <3> QED BY SMT, <3>1, <3>3 DEF Sooner, Ahead
    <2>2. CASE c < 10000
        <3>1. y = c /\ mo = cm /\ d = cd /\ Hands(r, h, m, s, f)
            BY SMT, <1>3, <1>7, <2>2 DEF Printed
        <3>2. CASE CivilFromDays(k)[1] >= 10000
            <4>1. y2 = 9999 /\ mo2 = 12 /\ d2 = 31 /\ Hands(TicksPerDay - 1, h2, m2, s2, f2)
                BY SMT, <1>6, <3>2 DEF Printed
            <4>2. r <= TicksPerDay - 1 /\ TicksPerDay - 1 \in Int
                BY SMT, <1>1
            <4>3. ~Ahead(h2, m2, s2, f2, h, m, s, f)
                <5>1. Hands(r, h, m, s, f) /\ Hands(TicksPerDay - 1, h2, m2, s2, f2)
                    BY SMT, <3>1, <4>1
                <5> QED BY <4>2, <5>1, HandsAdvance
            <4> QED BY SMT, <1>8, <2>2, <3>1, <4>1, <4>3 DEF Sooner, Ahead
        <3>3. CASE CivilFromDays(k)[1] < 10000
            <4>1. CivilFromDays(k) = <<y2, mo2, d2>>
                BY SMT, <1>6, <1>5, <3>3 DEF Printed, Valid
            <4> QED BY SMT, <1>8, <3>1, <4>1 DEF Sooner, Ahead
        <3>4. CivilFromDays(k)[1] \in Int
            BY <1>5 DEF Valid
        <3> QED BY SMT, <3>2, <3>3, <3>4
    <2> QED BY SMT, <2>1, <2>2
<1>10. ~Earlier(DateTime(k, q), DateTime(n, r))
    <2>1. DateTime(n, r) = <<y, mo, d, h, m, s, f>> /\ DateTime(k, q) = <<y2, mo2, d2, h2, m2, s2, f2>>
        BY <1>3, <1>6
    <2> QED BY <1>9, <2>1, EarlierIsSooner
<1> QED BY <1>10 DEF k

\* Strings order readings as their times do, at the limit of 9999 too, for every tick
\* length and every time of day, as long as the year fits in an int.
THEOREM LaterPrintsLater ==
    ASSUME YearsFit
    PROVE  Spec => []LaterIsLater
<1>1. Walk => LaterIsLater
    <2> SUFFICES ASSUME Walk, day >= 0, NEW r \in Rests, NEW q \in Rests, r >= 0, q >= 0
                 PROVE  /\ r <= q => ~Earlier(DateTime(day, q), DateTime(day, r))
                        /\ ~Earlier(DateTime(day + 1, q), DateTime(day, r))
        BY SMT DEF LaterIsLater
    <2> USE CalendarAssumption
    <2>1. start.day \in Int /\ start.day <= 2932896
        BY SMT DEF Walk, KnownDates
    <2>2. day \in Int /\ day <= 2932896 + Span /\ Span \in Nat /\ IntMax \in Int
        BY SMT, <2>1 DEF Walk
    <2>3. ASSUME NEW n \in Int, 0 <= n, n <= day + 1
          PROVE  CivilFromDays(n)[1] <= IntMax
        <3>1. CivilFromDays(n)[1] \in Int /\ 365 * CivilFromDays(n)[1] <= n + 719468 + 365
            BY SMT, <2>3, YearBounds
        <3> QED BY SMT, <2>2, <2>3, <3>1 DEF YearsFit
    <2>4. TicksPerDay \in Int
        BY SMT DEF TicksPerDay
    <2>5. r \in Int /\ q \in Int /\ r <= TicksPerDay - 1 /\ q <= TicksPerDay - 1 /\ 0 <= r /\ 0 <= q
        BY SMT, <2>4
    <2>6. CivilFromDays(day)[1] <= IntMax /\ CivilFromDays(day + 1)[1] <= IntMax /\ 0 <= day
        BY SMT, <2>2, <2>3
    <2>7. r <= q => ~Earlier(DateTime(day, q), DateTime(day, r))
        BY <2>2, <2>5, <2>6, SameDay
    <2>8. ~Earlier(DateTime(day + 1, q), DateTime(day, r))
        BY <2>2, <2>5, <2>6, DayAfter
    <2> QED BY <2>7, <2>8
<1> QED BY <1>1, WalkHolds, PTL

=============================================================================
