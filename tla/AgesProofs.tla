------------------------------ MODULE AgesProofs ------------------------------
(***************************************************************************)
(* Theorems about Ages, for every second of any number of years, every day *)
(* of publication and every time zone: TLC looks at the times around the   *)
(* places where a text changes, the proofs at all of them.                 *)
(***************************************************************************)
EXTENDS Ages, WellFoundedInduction, TLAPS

\* now is the time of a screen, or of the publication.
TypeOK ==
    /\ now \in {0} \cup Instants
    /\ offset \in Offsets
    /\ calendar \in Calendars

-----------------------------------------------------------------------------
(* Whole units of a time.                                                  *)

Unit == {Minute, Hour, Day, Week}

LEMMA Units == Minute = 60 /\ Hour = 3600 /\ Day = 86400 /\ Week = 604800
    BY SMT DEF Minute, Hour, Day, Week

\* The units grow.
LEMMA UnitsOrdered ==
    /\ Unit \subseteq Nat
    /\ 60 = Minute /\ Minute < Hour /\ Hour < Day /\ Day < Week
    BY Units, SMT DEF Unit

\* The whole units of a time, as a time.
Floor(d, u) == (d \div u) * u

\* A count of units is the largest that fits.
LEMMA FloorShape ==
    ASSUME NEW d \in Nat, NEW u \in Unit
    PROVE  /\ d \div u \in Nat
           /\ Floor(d, u) \in Nat
           /\ Floor(d, u) <= d /\ d < Floor(d, u) + u
           /\ d < (d \div u + 1) * u
           /\ d >= u => d \div u > 0 /\ Floor(d, u) >= u
           /\ d < u => d \div u = 0
<1>1. CASE u = 60
    BY <1>1, SMT DEF Floor
<1>2. CASE u = 3600
    BY <1>2, SMT DEF Floor
<1>3. CASE u = 86400
    BY <1>3, SMT DEF Floor
<1>4. CASE u = 604800
    BY <1>4, SMT DEF Floor
<1> QED BY <1>1, <1>2, <1>3, <1>4, Units, SMT DEF Unit

\* Whole units of a later time are no fewer.
LEMMA FloorGrows ==
    ASSUME NEW d \in Nat, NEW e \in Nat, d <= e, NEW u \in Unit
    PROVE  Floor(d, u) <= Floor(e, u)
<1>1. CASE u = 60
    BY <1>1, SMT DEF Floor
<1>2. CASE u = 3600
    BY <1>2, SMT DEF Floor
<1>3. CASE u = 86400
    BY <1>3, SMT DEF Floor
<1>4. CASE u = 604800
    BY <1>4, SMT DEF Floor
<1> QED BY <1>1, <1>2, <1>3, <1>4, Units, SMT DEF Unit

\* A time that has come is counted in whole units.
LEMMA TruncatedPast ==
    ASSUME NEW d \in Nat, NEW u \in Unit
    PROVE  Truncated(d, u) = d \div u
    BY SMT DEF Truncated

\* Fewer of a unit than make the next.
LEMMA UnitsFit ==
    ASSUME NEW d \in Nat
    PROVE  /\ d \div Minute < 60 <=> d < Hour
           /\ d \div Hour < 24 <=> d < Day
           /\ d < Week => (d \div Day) % 7 = d \div Day
           /\ d < Day => (d \div Hour) % 24 = d \div Hour
           /\ d < Hour => (d \div Minute) % 60 = d \div Minute
           /\ d < Minute => d % 60 = d
<1>1. d \div 60 < 60 <=> d < 3600
    BY SMT
<1>2. d \div 3600 < 24 <=> d < 86400
    BY SMT
<1>3. d < 604800 => (d \div 86400) % 7 = d \div 86400
    BY SMT
<1>4. d < 86400 => (d \div 3600) % 24 = d \div 3600
    BY SMT
<1>5. d < 3600 => (d \div 60) % 60 = d \div 60
    BY SMT
<1>6. d < 60 => d % 60 = d
    BY SMT
<1> QED BY <1>1, <1>2, <1>3, <1>4, <1>5, <1>6, Units, SMT

\* What a text claims.
LEMMA TextShape ==
    ASSUME NEW n, NEW u
    PROVE  /\ Claims(Text(n, u)) = n * u
           /\ Text(n, u).claims = n * u /\ Text(n, u).ends = (n + 1) * u
    BY DEF Claims, Text

\* Whole units are told truly.
LEMMA WholeTells ==
    ASSUME NEW d \in Nat, NEW u \in Unit
    PROVE  /\ Claims(Text(d \div u, u)) = Floor(d, u)
           /\ Tells(Text(d \div u, u), d)
<1>1. /\ Claims(Text(d \div u, u)) = Floor(d, u)
      /\ Text(d \div u, u).claims = Floor(d, u)
      /\ Text(d \div u, u).ends = (d \div u + 1) * u
    BY TextShape DEF Floor
<1> QED BY <1>1, FloorShape DEF Tells

-----------------------------------------------------------------------------
(* The text of the News tab.                                               *)

\* What Date.toString chooses: whole minutes, hours or days.
ToStringUnit(d) == IF d < Hour THEN Minute ELSE IF d < Day THEN Hour ELSE Day

LEMMA ToStringPast ==
    ASSUME NEW d \in Nat
    PROVE  /\ ToStringUnit(d) \in Unit
           /\ ToString(d) = Text(d \div ToStringUnit(d), ToStringUnit(d))
           /\ Claims(ToString(d)) = Floor(d, ToStringUnit(d))
           /\ Tells(ToString(d), d)
<1>1. ToStringUnit(d) \in Unit
    BY DEF ToStringUnit, Unit
<1>2. ToString(d) = Text(d \div ToStringUnit(d), ToStringUnit(d))
    <2>1. /\ Truncated(d, Minute) = d \div Minute
          /\ Truncated(d, Hour) = d \div Hour
          /\ Truncated(d, Day) = d \div Day
        BY TruncatedPast DEF Unit
    <2> QED BY <2>1, UnitsFit DEF ToString, ToStringUnit
<1> QED BY <1>1, <1>2, WholeTells

\* West of Greenwich an article may be told to come in some minutes.
LEMMA ToStringFuture ==
    ASSUME NEW d \in Int, d < 0
    PROVE  Claims(ToString(d)) = -Floor(-d, Minute) /\ -d \in Nat
<1>1. -d \in Nat /\ ~(d >= 0)
    OBVIOUS
<1>2. Minute \in Unit /\ Minute \in Nat
    BY UnitsOrdered DEF Unit
<1>3. Truncated(d, Minute) = -((-d) \div Minute)
    BY <1>1 DEF Truncated
<1>4. (-d) \div Minute \in Nat
    BY <1>1, <1>2, FloorShape
<1>5. ToString(d) = Text(-((-d) \div Minute), Minute)
    BY <1>3, <1>4 DEF ToString
<1> QED BY <1>1, <1>2, <1>4, <1>5, TextShape DEF Floor

\* A later time is not told as a smaller one.
LEMMA ToStringGrows ==
    ASSUME NEW d \in Int, NEW e \in Int, d <= e
    PROVE  Claims(ToString(d)) <= Claims(ToString(e))
<1>1. CASE d >= 0
    <2>1. d \in Nat /\ e \in Nat
        BY <1>1
    <2> DEFINE u == ToStringUnit(d)
               v == ToStringUnit(e)
    <2>2. u \in Unit /\ v \in Unit
        BY <2>1, ToStringPast
    <2>3. CASE u = v
        BY <2>1, <2>2, <2>3, ToStringPast, FloorGrows
    <2>4. CASE u # v
        <3>1. d < v /\ v <= e
            BY <2>1, <2>4, UnitsOrdered DEF ToStringUnit, Unit
        <3>2. Floor(d, u) <= d /\ Floor(e, v) >= v
            BY <2>1, <2>2, <3>1, FloorShape
        <3>3. Floor(d, u) \in Nat /\ Floor(e, v) \in Nat /\ v \in Nat
            BY <2>1, <2>2, FloorShape, UnitsOrdered
        <3> HIDE DEF u, v
        <3>4. Floor(d, u) <= Floor(e, v)
            BY <2>1, <3>1, <3>2, <3>3
        <3> QED BY <2>1, <3>4, ToStringPast DEF u, v
    <2> QED BY <2>3, <2>4
<1>2. CASE d < 0 /\ e >= 0
    <2>1. e \in Nat /\ -d \in Nat /\ Minute \in Unit
        BY <1>2 DEF Unit
    <2>2. Claims(ToString(e)) \in Nat
        BY <2>1, ToStringPast, FloorShape
    <2>3. Claims(ToString(d)) = -Floor(-d, Minute) /\ Floor(-d, Minute) \in Nat
        BY <1>2, <2>1, ToStringFuture, FloorShape
    <2> QED BY <2>2, <2>3
<1>3. CASE d < 0 /\ e < 0
    <2>1. -d \in Nat /\ -e \in Nat /\ -e <= -d /\ Minute \in Unit
        BY <1>3 DEF Unit
    <2>2. Floor(-e, Minute) <= Floor(-d, Minute)
        BY <2>1, FloorGrows
    <2>3. Floor(-e, Minute) \in Nat /\ Floor(-d, Minute) \in Nat
        BY <2>1, FloorShape
    <2>4. /\ Claims(ToString(d)) = -Floor(-d, Minute)
          /\ Claims(ToString(e)) = -Floor(-e, Minute)
        BY <1>3, ToStringFuture
    <2> QED BY <2>2, <2>3, <2>4
<1> QED BY <1>1, <1>2, <1>3

-----------------------------------------------------------------------------
(* The text of the other screens.                                          *)

\* A set of numbers has a least one.
LEMMA LeastNumber ==
    ASSUME NEW T \in SUBSET Nat, T # {}
    PROVE  \E x \in T : \A y \in T : x <= y
<1> DEFINE R == OpToRel(<, Nat)
<1>1. IsWellFoundedOn(R, Nat)
    BY NatLessThanWellFounded
<1>2. \A x, y \in Nat : x < y => <<x, y>> \in R
    BY DEF OpToRel
<1> HIDE DEF R
<1>3. PICK x \in T : \A y \in T : ~(<<y, x>> \in R)
    BY <1>1, WFMin
<1>4. \A y \in T : y \in Nat /\ x \in Nat /\ ~(y < x)
    BY <1>2, <1>3
<1> QED BY <1>4

\* The months the calendar knows, the first of which is longer than a week.
Last == 12 * Years
Month == Anniversary(1)

LEMMA YearsShape == Years \in Nat /\ Years > 0 /\ Last \in Nat /\ Last >= 12
    BY AgesAssumption, SMT DEF Last

\* The days of the calendar, at least 28 to a month.
LEMMA CalendarShape ==
    ASSUME TypeOK
    PROVE  /\ calendar[0] = 0
           /\ \A k \in 0..Last : calendar[k] \in Nat
           /\ \A j, k \in 0..Last : j <= k => calendar[j] + 28 * (k - j) <= calendar[k]
<1>1. calendar \in [0..Last -> Nat]
    BY AgesAssumption DEF TypeOK, Last
<1>2. /\ calendar[0] = 0
      /\ \A j, k \in 0..Last : j <= k => calendar[j] + 28 * (k - j) <= calendar[k]
    BY AgesAssumption DEF TypeOK, Last
<1> QED BY <1>1, <1>2

\* Anniversaries come one after the other.
LEMMA AnniversaryShape ==
    ASSUME TypeOK
    PROVE  /\ Anniversary(0) = 0
           /\ \A k \in 0..Last : Anniversary(k) \in Nat
           /\ \A j, k \in 0..Last : j <= k => Anniversary(j) <= Anniversary(k)
           /\ Last * 28 * Day <= Anniversary(Last)
           /\ Month \in Nat /\ Week < Month
<1>1. calendar[0] = 0 /\ Day = 86400 /\ Week = 604800 /\ Last \in Nat /\ Last >= 12
    BY CalendarShape, Units, YearsShape
<1>2. ASSUME NEW k \in 0..Last
      PROVE  calendar[k] \in Nat /\ Anniversary(k) = calendar[k] * 86400
    BY <1>1, CalendarShape DEF Anniversary
<1>3. ASSUME NEW j \in 0..Last, NEW k \in 0..Last, j <= k
      PROVE  calendar[j] + 28 * (k - j) <= calendar[k]
    BY <1>3, CalendarShape
<1>4. 0 \in 0..Last /\ 1 \in 0..Last /\ Last \in 0..Last
    BY <1>1
<1>5. ASSUME NEW j \in 0..Last, NEW k \in 0..Last, j <= k
      PROVE  Anniversary(j) <= Anniversary(k)
    <2>1. calendar[j] <= calendar[k]
        BY <1>2, <1>3, <1>5
    <2> QED BY <1>2, <2>1
<1>6. 28 * Last <= calendar[Last] /\ 28 <= calendar[1]
    BY <1>1, <1>3, <1>4
<1> QED BY <1>1, <1>2, <1>4, <1>5, <1>6 DEF Month

\* Every time the calendar reaches lies in one month.
LEMMA WholeMonthsShape ==
    ASSUME TypeOK, NEW d \in Nat, d < Anniversary(Last)
    PROVE  /\ WholeMonths(d) \in 0..(Last - 1)
           /\ WholeMonths(d) + 1 \in 0..Last /\ WholeMonths(d) \in 0..Last
           /\ Anniversary(WholeMonths(d)) <= d
           /\ d < Anniversary(WholeMonths(d) + 1)
<1> DEFINE T == {k \in 1..Last : d < Anniversary(k)}
<1>1. Last \in Nat /\ Last \in 1..Last
    BY YearsShape
<1>2. Last \in T /\ T \in SUBSET Nat
    BY <1>1
<1>3. PICK x \in T : \A y \in T : x <= y
    BY <1>2, LeastNumber
<1>4. x \in 1..Last /\ d < Anniversary(x)
    BY <1>3
<1>5. x - 1 \in 0..(Last - 1) /\ x - 1 \in 0..Last /\ (x - 1) + 1 = x
    BY <1>1, <1>4
<1>6. Anniversary(x - 1) <= d
    <2>1. CASE x = 1
        BY <2>1, AnniversaryShape
    <2>2. CASE x # 1
        <3>1. x - 1 \in 1..Last /\ ~(x <= x - 1)
            BY <1>1, <1>4, <2>2
        <3>2. ~(d < Anniversary(x - 1))
            BY <1>3, <3>1
        <3>3. Anniversary(x - 1) \in Nat
            BY <1>5, AnniversaryShape
        <3> QED BY <3>2, <3>3
    <2> QED BY <2>1, <2>2
<1>7. \E k \in 0..(Last - 1) : Anniversary(k) <= d /\ d < Anniversary(k + 1)
    BY <1>4, <1>5, <1>6
<1>8. /\ WholeMonths(d) \in 0..(Last - 1)
      /\ Anniversary(WholeMonths(d)) <= d
      /\ d < Anniversary(WholeMonths(d) + 1)
    BY <1>7 DEF WholeMonths, Last
<1> QED BY <1>1, <1>8

\* Whole months of a later time are no fewer.
LEMMA WholeMonthsGrow ==
    ASSUME TypeOK, NEW d \in Nat, NEW e \in Nat, d <= e, e < Anniversary(Last)
    PROVE  WholeMonths(d) <= WholeMonths(e)
<1> DEFINE m == WholeMonths(d)
           n == WholeMonths(e)
<1>1. d < Anniversary(Last) /\ Last \in Nat
    <2>1. Last \in 0..Last
        BY YearsShape
    <2>2. Anniversary(Last) \in Nat
        BY <2>1, AnniversaryShape
    <2> QED BY <2>2, YearsShape
<1>2. /\ m \in 0..Last /\ n \in 0..Last /\ n + 1 \in 0..Last
      /\ Anniversary(m) <= d /\ e < Anniversary(n + 1)
    BY <1>1, WholeMonthsShape
<1> HIDE DEF m, n
<1>3. ASSUME n + 1 <= m PROVE FALSE
    <2>1. Anniversary(n + 1) <= Anniversary(m)
        BY <1>2, <1>3, AnniversaryShape
    <2>2. Anniversary(n + 1) \in Nat /\ Anniversary(m) \in Nat
        BY <1>2, AnniversaryShape
    <2> QED BY <1>2, <2>1, <2>2
<1>4. m <= n
    BY <1>1, <1>2, <1>3
<1> QED BY <1>4 DEF m, n

\* The first month is the one before the first anniversary.
LEMMA FirstMonth ==
    ASSUME TypeOK, NEW d \in Nat, d < Anniversary(Last)
    PROVE  d < Month <=> WholeMonths(d) = 0
<1>1. /\ WholeMonths(d) \in 0..Last /\ Last \in Nat
      /\ Anniversary(WholeMonths(d)) <= d
      /\ d < Anniversary(WholeMonths(d) + 1)
    BY WholeMonthsShape, YearsShape
<1>2. CASE WholeMonths(d) = 0
    BY <1>1, <1>2 DEF Month
<1>3. CASE WholeMonths(d) # 0
    <2>1. 1 <= WholeMonths(d) /\ 1 \in 0..Last
        BY <1>1, <1>3, YearsShape
    <2>2. Month <= Anniversary(WholeMonths(d)) /\ Month \in Nat
          /\ Anniversary(WholeMonths(d)) \in Nat
        BY <1>1, <2>1, AnniversaryShape DEF Month
    <2> QED BY <1>1, <1>3, <2>2
<1> QED BY <1>2, <1>3

\* How many months a text in months or years stands for.
Told(m) == IF m \div 12 > 0 THEN 12 * (m \div 12) ELSE m
Untold(m) == IF m \div 12 > 0 THEN 12 * (m \div 12 + 1) ELSE m + 1

LEMMA ToldShape ==
    ASSUME NEW m \in 0..(Last - 1)
    PROVE  /\ Told(m) \in 0..Last /\ Untold(m) \in 0..Last
           /\ Told(m) <= m /\ m + 1 <= Untold(m)
           /\ m > 0 => Told(m) > 0
           /\ m \div 12 \in Nat
           /\ ~(m \div 12 > 0) => m % 12 = m
<1>1. m \in Nat /\ m < 12 * Years /\ Years \in Nat /\ Last = 12 * Years
    BY YearsShape DEF Last
<1>2. /\ m \div 12 \in Nat /\ 12 * (m \div 12) <= m /\ m < 12 * (m \div 12 + 1)
      /\ (~(m \div 12 > 0) => m % 12 = m)
    BY <1>1, SMT
<1>3. m \div 12 < Years
    BY <1>1, <1>2, SMT
<1>4. 12 * (m \div 12 + 1) <= Last
    BY <1>1, <1>2, <1>3, SMT
<1> QED BY <1>1, <1>2, <1>4, SMT DEF Told, Untold

\* A later month is not told as a smaller number of months.
LEMMA ToldGrows ==
    ASSUME NEW m \in Nat, NEW n \in Nat, m <= n
    PROVE  Told(m) <= Told(n)
    BY SMT DEF Told

\* What Date.relativelyFormatted chooses for a time between a minute and a
\* month: whole units of the largest kind that fits.
RelativeUnit(d) ==
    IF d >= Week THEN Week
    ELSE IF d >= Day THEN Day
    ELSE IF d >= Hour THEN Hour ELSE Minute

LEMMA RelativelyPast ==
    ASSUME TypeOK, NEW d \in Nat, d < Anniversary(Last)
    PROVE  /\ d >= Month =>
                 LET m == WholeMonths(d) IN
                 RelativelyFormatted(d) = [claims |-> Anniversary(Told(m)),
                                           ends |-> Anniversary(Untold(m))]
           /\ d < Month /\ d >= Minute =>
                 RelativelyFormatted(d)
                     = Text(d \div RelativeUnit(d), RelativeUnit(d))
           /\ d < Minute /\ d > 30 => RelativelyFormatted(d) = Text(d, 1)
           /\ d <= 30 => RelativelyFormatted(d) = Text(0, Minute)
<1> DEFINE c == Components(d)
           m == WholeMonths(d)
<1>1. Month \in Nat /\ Week < Month
    BY AnniversaryShape
<1>2. /\ c.year = m \div 12 /\ c.month = m % 12
      /\ m \in 0..(Last - 1) /\ Last \in Nat
    BY WholeMonthsShape, YearsShape DEF Components
<1>3. ASSUME d < Month
      PROVE  /\ c.year = 0 /\ c.month = 0
             /\ c.week = d \div Week
             /\ c.day = (d \div Day) % 7
             /\ c.hour = (d \div Hour) % 24
             /\ c.minute = (d \div Minute) % 60
             /\ c.second = d % 60
    <2>1. m = 0 /\ d - Anniversary(m) = d
        BY <1>3, FirstMonth, AnniversaryShape
    <2>2. 0 \div 12 = 0 /\ 0 % 12 = 0
        BY SMT
    <2> QED BY <2>1, <2>2 DEF Components
<1>4. RelativelyFormatted(d) =
        IF c.year > 0 THEN YearText(c.year)
        ELSE IF c.month > 0 THEN MonthText(c.month)
        ELSE IF c.week > 0 THEN Text(c.week, Week)
        ELSE IF c.day > 0 THEN Text(c.day, Day)
        ELSE IF c.hour > 0 THEN Text(c.hour, Hour)
        ELSE IF c.minute > 0 THEN Text(c.minute, Minute)
        ELSE IF c.second > 30 THEN Text(c.second, 1)
        ELSE Text(0, Minute)
    <2>1. ~(d < 0)
        OBVIOUS
    <2> QED BY <2>1 DEF RelativelyFormatted, JustNow
<1> HIDE DEF c, m
<1>5. \A u \in Unit : (d >= u => d \div u > 0) /\ (d < u => d \div u = 0)
    BY FloorShape
<1>6. 60 = Minute /\ Minute < Hour /\ Hour < Day /\ Day < Week
      /\ Minute \in Nat /\ Hour \in Nat /\ Day \in Nat /\ Week \in Nat
    BY UnitsOrdered DEF Unit
<1>7. d < Week /\ d < Month => c.year = 0 /\ c.month = 0 /\ c.week = 0
                                  /\ c.day = d \div Day
    BY <1>3, <1>5, UnitsFit DEF Unit
<1>8. d < Day /\ d < Month => c.day = 0 /\ c.hour = d \div Hour
    <2>1. d < Day => d < Week /\ d \div Day = 0
        BY <1>5, <1>6 DEF Unit
    <2>2. d < Day => (d \div Hour) % 24 = d \div Hour
        BY UnitsFit
    <2> QED BY <1>3, <1>7, <2>1, <2>2
<1>9. d < Hour /\ d < Month => c.hour = 0 /\ c.minute = d \div Minute
    <2>1. d < Hour => d < Day /\ d \div Hour = 0
        BY <1>5, <1>6 DEF Unit
    <2>2. d < Hour => (d \div Minute) % 60 = d \div Minute
        BY UnitsFit
    <2> QED BY <1>3, <1>8, <2>1, <2>2
<1>10. d < Minute /\ d < Month => c.minute = 0 /\ c.second = d
    <2>1. d < Minute => d < Hour /\ d \div Minute = 0
        BY <1>5, <1>6 DEF Unit
    <2>2. d < Minute => d % 60 = d
        BY UnitsFit
    <2> QED BY <1>3, <1>9, <2>1, <2>2
<1>11. CASE d >= Month
    <2>1. m # 0
        BY <1>1, <1>11, FirstMonth DEF m
    <2>2. CASE m \div 12 > 0
        <3>1. RelativelyFormatted(d) = YearText(m \div 12)
            BY <1>2, <1>4, <2>2
        <3>2. Told(m) = 12 * (m \div 12) /\ Untold(m) = 12 * (m \div 12 + 1)
            BY <2>2 DEF Told, Untold
        <3>3. RelativelyFormatted(d) = [claims |-> Anniversary(Told(m)),
                                        ends |-> Anniversary(Untold(m))]
            BY <3>1, <3>2 DEF YearText
        <3> QED BY <1>1, <1>6, <1>11, <3>3 DEF m
    <2>3. CASE ~(m \div 12 > 0)
        <3>1. m % 12 = m /\ Told(m) = m /\ Untold(m) = m + 1
            BY <1>2, <2>3, ToldShape DEF Told, Untold
        <3>2. RelativelyFormatted(d) = MonthText(m)
            BY <1>2, <1>4, <2>1, <2>3, <3>1
        <3>3. RelativelyFormatted(d) = [claims |-> Anniversary(Told(m)),
                                        ends |-> Anniversary(Untold(m))]
            BY <3>1, <3>2 DEF MonthText
        <3> QED BY <1>1, <1>6, <1>11, <3>3 DEF m
    <2> QED BY <2>2, <2>3
<1>12. CASE d < Month /\ d >= Week
    <2>1. c.year = 0 /\ c.month = 0 /\ c.week = d \div Week /\ c.week > 0
        BY <1>3, <1>5, <1>12 DEF Unit
    <2> QED BY <1>1, <1>4, <1>6, <1>12, <2>1 DEF RelativeUnit
<1>13. CASE d < Week /\ d >= Day
    <2>1. c.day > 0
        BY <1>1, <1>5, <1>6, <1>7, <1>13 DEF Unit
    <2> QED BY <1>1, <1>4, <1>6, <1>7, <1>13, <2>1 DEF RelativeUnit
<1>14. CASE d < Day /\ d >= Hour
    <2>1. c.hour > 0
        BY <1>1, <1>5, <1>6, <1>8, <1>14 DEF Unit
    <2> QED BY <1>1, <1>4, <1>6, <1>7, <1>8, <1>14, <2>1 DEF RelativeUnit
<1>15. CASE d < Hour /\ d >= Minute
    <2>1. c.minute > 0
        BY <1>1, <1>5, <1>6, <1>9, <1>15 DEF Unit
    <2> QED BY <1>1, <1>4, <1>6, <1>7, <1>8, <1>9, <1>15, <2>1 DEF RelativeUnit
<1>16. CASE d < Minute
    BY <1>1, <1>4, <1>6, <1>7, <1>8, <1>9, <1>10, <1>16
<1> QED BY <1>1, <1>6, <1>11, <1>12, <1>13, <1>14, <1>15, <1>16

\* What it claims.
LEMMA RelativelyClaims ==
    ASSUME TypeOK, NEW d \in Nat, d < Anniversary(Last)
    PROVE  /\ d >= Month => Claims(RelativelyFormatted(d))
                                = Anniversary(Told(WholeMonths(d)))
           /\ d < Month /\ d >= Minute =>
                 Claims(RelativelyFormatted(d)) = Floor(d, RelativeUnit(d))
           /\ d < Minute /\ d > 30 => Claims(RelativelyFormatted(d)) = d
           /\ d <= 30 => Claims(RelativelyFormatted(d)) = 0
<1>1. Minute \in Nat /\ d * 1 = d /\ 0 * Minute = 0
    BY UnitsOrdered DEF Unit
<1>2. RelativeUnit(d) \in Unit
    BY DEF RelativeUnit, Unit
<1>3. d >= Month =>
          Claims(RelativelyFormatted(d)) = Anniversary(Told(WholeMonths(d)))
    BY RelativelyPast DEF Claims
<1>4. /\ d < Month /\ d >= Minute =>
             Claims(RelativelyFormatted(d)) = Floor(d, RelativeUnit(d))
      /\ d < Minute /\ d > 30 => Claims(RelativelyFormatted(d)) = d
      /\ d <= 30 => Claims(RelativelyFormatted(d)) = 0
    BY <1>1, <1>2, RelativelyPast, TextShape, WholeTells
<1> QED BY <1>3, <1>4

\* Date.relativelyFormatted tells every time the calendar reaches truly.
LEMMA RelativelyTells ==
    ASSUME TypeOK, NEW d \in Nat, d < Anniversary(Last)
    PROVE  Tells(RelativelyFormatted(d), d)
<1>1. Month \in Nat /\ 60 = Minute
    BY AnniversaryShape, UnitsOrdered
<1>2. CASE d >= Month
    <2> DEFINE m == WholeMonths(d)
    <2>1. /\ RelativelyFormatted(d).claims = Anniversary(Told(m))
          /\ RelativelyFormatted(d).ends = Anniversary(Untold(m))
        BY <1>2, RelativelyPast
    <2>2. /\ m \in 0..(Last - 1) /\ m \in 0..Last /\ m + 1 \in 0..Last
          /\ Anniversary(m) <= d /\ d < Anniversary(m + 1)
        BY WholeMonthsShape
    <2> HIDE DEF m
    <2>3. /\ Told(m) \in 0..Last /\ Untold(m) \in 0..Last
          /\ Told(m) <= m /\ m + 1 <= Untold(m)
        BY <2>2, ToldShape
    <2>4. /\ Anniversary(Told(m)) <= Anniversary(m)
          /\ Anniversary(m + 1) <= Anniversary(Untold(m))
          /\ Anniversary(Told(m)) \in Nat /\ Anniversary(m) \in Nat
          /\ Anniversary(Untold(m)) \in Nat /\ Anniversary(m + 1) \in Nat
        BY <2>2, <2>3, AnniversaryShape
    <2> QED BY <2>1, <2>2, <2>4 DEF Tells
<1>3. CASE d < Month /\ d >= Minute
    <2>1. RelativeUnit(d) \in Unit
        BY DEF RelativeUnit, Unit
    <2> QED BY <1>3, <2>1, RelativelyPast, WholeTells
<1>4. CASE d < Minute /\ d > 30
    <2>1. RelativelyFormatted(d).claims = d * 1
          /\ RelativelyFormatted(d).ends = (d + 1) * 1
        BY <1>4, RelativelyPast, TextShape
    <2> QED BY <2>1 DEF Tells
<1>5. CASE d <= 30
    <2>1. RelativelyFormatted(d).claims = 0 * 60
          /\ RelativelyFormatted(d).ends = (0 + 1) * 60
        BY <1>1, <1>5, RelativelyPast, TextShape
    <2> QED BY <1>5, <2>1 DEF Tells
<1> QED BY <1>1, <1>2, <1>3, <1>4, <1>5

\* It never claims more than has passed.
LEMMA RelativelyBound ==
    ASSUME TypeOK, NEW d \in Nat, d < Anniversary(Last)
    PROVE  /\ Claims(RelativelyFormatted(d)) \in Nat
           /\ Claims(RelativelyFormatted(d)) <= d
<1>1. Month \in Nat /\ Minute = 60
    BY AnniversaryShape, UnitsOrdered
<1>2. RelativeUnit(d) \in Unit
    BY DEF RelativeUnit, Unit
<1>3. Floor(d, RelativeUnit(d)) \in Nat /\ Floor(d, RelativeUnit(d)) <= d
    BY <1>2, FloorShape
<1>4. ASSUME d >= Month
      PROVE  /\ Claims(RelativelyFormatted(d)) \in Nat
             /\ Claims(RelativelyFormatted(d)) <= d
    <2> DEFINE m == WholeMonths(d)
    <2>1. Claims(RelativelyFormatted(d)) = Anniversary(Told(m))
        BY <1>4, RelativelyClaims
    <2>2. m \in 0..(Last - 1) /\ m \in 0..Last /\ Anniversary(m) <= d
        BY WholeMonthsShape
    <2> HIDE DEF m
    <2>3. Told(m) \in 0..Last /\ Told(m) <= m
        BY <2>2, ToldShape
    <2>4. Anniversary(Told(m)) <= Anniversary(m)
          /\ Anniversary(Told(m)) \in Nat /\ Anniversary(m) \in Nat
        BY <2>2, <2>3, AnniversaryShape
    <2> QED BY <2>1, <2>2, <2>4
<1> QED BY <1>1, <1>3, <1>4, RelativelyClaims

\* A later time is not told as a smaller one, though every component but the
\* first goes back to 0 at the end of its unit.
LEMMA RelativelyGrows ==
    ASSUME TypeOK, NEW d \in Int, NEW e \in Int, d <= e, e < Anniversary(Last)
    PROVE  Claims(RelativelyFormatted(d)) <= Claims(RelativelyFormatted(e))
<1>1. Month \in Nat /\ Minute = 60 /\ Week < Month /\ Anniversary(Last) \in Nat
    <2>1. Last \in 0..Last
        BY YearsShape
    <2> QED BY <2>1, AnniversaryShape, UnitsOrdered
<1>2. CASE d >= 0
    <2>1. d \in Nat /\ e \in Nat /\ d < Anniversary(Last)
        BY <1>1, <1>2
    <2> DEFINE u == RelativeUnit(d)
               v == RelativeUnit(e)
    <2>2. u \in Unit /\ v \in Unit
        BY DEF RelativeUnit, Unit
    <2>3. /\ Claims(RelativelyFormatted(d)) \in Nat
          /\ Claims(RelativelyFormatted(d)) <= d
        BY <2>1, RelativelyBound
    <2>4. CASE e >= Month
        <3> DEFINE m == WholeMonths(d)
                   n == WholeMonths(e)
        <3>1. Claims(RelativelyFormatted(e)) = Anniversary(Told(n))
            BY <2>1, <2>4, RelativelyClaims
        <3>2. m \in 0..(Last - 1) /\ n \in 0..(Last - 1) /\ m <= n
            BY <2>1, WholeMonthsShape, WholeMonthsGrow
        <3>3. n # 0
            BY <1>1, <2>1, <2>4, FirstMonth
        <3>4. d >= Month =>
                  Claims(RelativelyFormatted(d)) = Anniversary(Told(m))
            BY <2>1, RelativelyClaims
        <3> HIDE DEF m, n
        <3>5. /\ Told(m) \in 0..Last /\ Told(n) \in 0..Last /\ Told(n) > 0
              /\ Told(m) <= Told(n) /\ 1 \in 0..Last
            <4>1. m \in Nat /\ n \in Nat /\ n > 0 /\ 1 \in 0..Last
                BY <3>2, <3>3, YearsShape
            <4> QED BY <3>2, <4>1, ToldShape, ToldGrows
        <3>6. /\ Anniversary(Told(m)) <= Anniversary(Told(n))
              /\ Month <= Anniversary(Told(n)) /\ Anniversary(Told(n)) \in Nat
            BY <3>5, AnniversaryShape DEF Month
        <3>7. CASE d >= Month
            BY <3>1, <3>4, <3>6, <3>7
        <3>8. CASE d < Month
            BY <1>1, <2>1, <2>3, <3>1, <3>6, <3>8
        <3> QED BY <1>1, <2>1, <3>7, <3>8
    <2>5. CASE e < Month /\ e >= Minute
        <3>1. Claims(RelativelyFormatted(e)) = Floor(e, v)
            BY <2>1, <2>5, RelativelyClaims
        <3>2. CASE d >= Minute /\ u = v
            <4>1. Claims(RelativelyFormatted(d)) = Floor(d, u)
                BY <1>1, <2>1, <2>5, <3>2, RelativelyClaims
            <4> QED BY <2>1, <2>2, <3>1, <3>2, <4>1, FloorGrows
        <3>3. CASE d < Minute \/ u # v
            <4>1. d < v /\ v <= e
                BY <2>1, <2>5, <3>3, UnitsOrdered DEF RelativeUnit, Unit
            <4>2. Floor(e, v) >= v /\ Floor(e, v) \in Nat /\ v \in Nat
                BY <2>1, <2>2, <4>1, FloorShape, UnitsOrdered
            <4> HIDE DEF v
            <4> QED BY <2>1, <2>3, <3>1, <4>1, <4>2
        <3> QED BY <1>1, <2>1, <3>2, <3>3
    <2>6. CASE e < Minute
        <3>1. /\ d > 30 => Claims(RelativelyFormatted(d)) = d
              /\ d <= 30 => Claims(RelativelyFormatted(d)) = 0
            BY <1>1, <2>1, <2>6, RelativelyClaims
        <3>2. /\ e > 30 => Claims(RelativelyFormatted(e)) = e
              /\ e <= 30 => Claims(RelativelyFormatted(e)) = 0
            BY <1>1, <2>1, <2>6, RelativelyClaims
        <3> QED BY <2>1, <3>1, <3>2
    <2> QED BY <1>1, <2>1, <2>4, <2>5, <2>6
<1>3. CASE d < 0
    <2>1. 0 * Minute = 0
        BY <1>1
    <2>2. \A x \in Int : x < 0 => Claims(RelativelyFormatted(x)) = 0
        BY <2>1, TextShape DEF RelativelyFormatted, JustNow
    <2>3. CASE e < 0
        BY <1>3, <2>2, <2>3
    <2>4. CASE e >= 0
        <3>1. e \in Nat
            BY <2>4
        <3> QED BY <1>3, <2>2, <3>1, RelativelyBound
    <2> QED BY <2>3, <2>4
<1> QED BY <1>2, <1>3

-----------------------------------------------------------------------------
(* The theorems.                                                           *)

LEMMA InitType == Init => TypeOK
    BY DEF Init, TypeOK

LEMMA TypeStep == TypeOK /\ [Next]_vars => TypeOK'
    BY DEF TypeOK, Next, Later, Travel, vars

LEMMA Interval ==
    ASSUME NEW lo \in Int, NEW hi \in Int, NEW t \in lo..hi
    PROVE  t \in Int /\ lo <= t /\ t <= hi
    OBVIOUS

\* The bounds of the constants.
LEMMA ConstantsShape ==
    /\ \A t \in Instants :
          /\ t \in Nat
          /\ \A z \in Offsets : t < Last * 28 * Day /\ t + z < Last * 28 * Day
    /\ \A z \in Offsets : z \in Int /\ z <= 50400
<1> DEFINE all == 12 * Years * 28 * Day
           hi == all - 14 * Hour - 1
           west == -12 * Hour
           east == 14 * Hour
<1>1. all \in Nat /\ west \in Int /\ east \in Int /\ east = 50400
      /\ hi = all - east - 1
    BY YearsShape, Units, SMT
<1>2. Instants \subseteq 0..hi /\ Offsets \subseteq west..east
    BY AgesAssumption
<1>3. Last * 28 * Day = all
    BY DEF Last
<1> HIDE DEF all, hi, west, east
<1>4. ASSUME NEW z \in Offsets PROVE z \in Int /\ z <= east /\ z <= 50400
    <2>1. z \in west..east
        BY <1>2
    <2> QED BY <1>1, <2>1, Interval
<1>5. ASSUME NEW t \in Instants PROVE t \in Nat /\ t <= hi
    <2>1. t \in 0..hi
        BY <1>2
    <2>2. hi \in Int
        BY <1>1
    <2>3. t \in Int /\ 0 <= t /\ t <= hi
        BY <2>1, <2>2, Interval
    <2> QED BY <2>3
<1>6. ASSUME NEW t \in Instants, NEW z \in Offsets
      PROVE  t < all /\ t + z < all
    <2>1. t \in Nat /\ t <= all - east - 1 /\ z \in Int /\ z <= east
        BY <1>1, <1>4, <1>5
    <2> QED BY <1>1, <2>1, SMT
<1> QED BY <1>3, <1>4, <1>5, <1>6

\* Times and time zones are what the screens can meet.
LEMMA TypeShape ==
    ASSUME TypeOK
    PROVE  /\ now \in Nat /\ offset \in Int
           /\ now + offset < Anniversary(Last)
<1>1. Last * 28 * Day <= Anniversary(Last) /\ Anniversary(Last) \in Nat
    <2>1. Last \in 0..Last
        BY YearsShape
    <2> QED BY <2>1, AnniversaryShape
<1>2. /\ Last * 28 * Day \in Nat /\ Last * 28 * Day = Last * 2419200
      /\ Last \in Nat /\ Last >= 12
    BY YearsShape, Units, SMT
<1>3. offset \in Int /\ offset <= 50400
    BY ConstantsShape DEF TypeOK
<1>4. now \in Nat /\ now + offset < Last * 28 * Day
    <2>1. CASE now = 0
        BY <1>2, <1>3, <2>1, SMT
    <2>2. CASE now \in Instants
        BY <2>2, ConstantsShape DEF TypeOK
    <2> QED BY <2>1, <2>2 DEF TypeOK
<1>5. now + offset \in Int
    BY <1>3, <1>4
<1> QED BY <1>1, <1>2, <1>3, <1>4, <1>5, SMT

\* At Greenwich both texts are true at every second, whatever the day of
\* publication makes of the lengths of the months.
THEOREM AgesTrueAtGreenwich == Spec => []TrueAtGreenwich
<1>1. TypeOK => TrueAtGreenwich
    <2> SUFFICES ASSUME TypeOK, offset = 0
                 PROVE  /\ Tells(ToString(Difference), now)
                        /\ Tells(RelativelyFormatted(Difference), now)
        BY DEF TrueAtGreenwich
    <2>1. Difference = now /\ now \in Nat /\ now < Anniversary(Last)
        BY TypeShape DEF Difference
    <2> QED BY <2>1, ToStringPast, RelativelyTells
<1> QED BY <1>1, InitType, TypeStep, PTL DEF Spec

LEMMA YoungerStep ==
    ASSUME TypeOK, TypeOK', [Next]_vars, offset' = offset
    PROVE  /\ Claims(ToString(Difference')) >= Claims(ToString(Difference))
           /\ Claims(RelativelyFormatted(Difference)')
                  >= Claims(RelativelyFormatted(Difference))
<1>1. now \in Nat /\ now' \in Nat /\ offset \in Int
    BY TypeShape, ConstantsShape DEF TypeOK
<1>2. now <= now' /\ calendar' = calendar
    BY <1>1 DEF Next, Later, Travel, vars
<1>3. \A a, b \in Nat, z \in Int :
         a <= b => a + z \in Int /\ b + z \in Int /\ a + z <= b + z
    OBVIOUS
<1>4. Difference \in Int /\ Difference' \in Int /\ Difference <= Difference'
    BY <1>1, <1>2, <1>3 DEF Difference
<1>5. RelativelyFormatted(Difference)' = RelativelyFormatted(Difference')
    BY <1>2 DEF RelativelyFormatted, Components, WholeMonths, YearText, MonthText,
                Anniversary
<1>6. Claims(ToString(Difference)) <= Claims(ToString(Difference'))
    BY <1>4, ToStringGrows
<1>7. Claims(RelativelyFormatted(Difference))
          <= Claims(RelativelyFormatted(Difference'))
    <2>1. Difference' < Anniversary(Last)
        <3>1. CASE now' = now
            BY <3>1, TypeShape DEF Difference
        <3>2. CASE now' # now
            <4>1. now' \in Instants
                BY <3>2 DEF Next, Later, Travel, vars
            <4>2. now' + offset < Last * 28 * Day
                BY <4>1, ConstantsShape DEF TypeOK
            <4>3. Last \in 0..Last /\ Last * 28 * Day \in Nat
                BY YearsShape, Units, SMT
            <4>4. Last * 28 * Day <= Anniversary(Last) /\ Anniversary(Last) \in Nat
                BY <4>3, AnniversaryShape
            <4>5. Difference' = now' + offset
                BY DEF Difference
            <4> QED BY <1>4, <4>2, <4>3, <4>4, <4>5
        <3> QED BY <3>1, <3>2
    <2> QED BY <1>4, <2>1, RelativelyGrows
<1> QED BY <1>5, <1>6, <1>7

\* No article gets younger while the device stays in its time zone, be the zone
\* east or west of Greenwich.
THEOREM AgesNeverYounger == Spec => NeverYounger
<1>1. TypeOK /\ TypeOK' /\ [Next]_vars =>
          [offset' = offset =>
              /\ Claims(ToString(Difference')) >= Claims(ToString(Difference))
              /\ Claims(RelativelyFormatted(Difference)')
                     >= Claims(RelativelyFormatted(Difference))]_vars
    BY YoungerStep
<1> QED BY <1>1, InitType, TypeStep, PTL DEF Spec, NeverYounger
=============================================================================
