---------------------------------- MODULE Ages ----------------------------------
(***************************************************************************)
(* The age of an article as the screens tell it: Date.toString on the News *)
(* tab, Date.relativelyFormatted on the detail screen, in the favorites    *)
(* and in the search results.  Times are in seconds since the article was  *)
(* published.  The calendar gives the whole months since then, twelve of   *)
(* which are a year, and of the remainder the weeks, days, hours, minutes  *)
(* and seconds.                                                            *)
(***************************************************************************)
EXTENDS Integers

CONSTANTS
    Instants,     \* bound: the times at which the screens are looked at
    Offsets,      \* the time zones, by their offset to GMT
    Years,        \* bound: how long the screens are looked at
    Calendars     \* per day of publication: the days to the same day of each
                  \* later month, or to its last day if it has no such day

Minute == 60
Hour == 60 * Minute
Day == 24 * Hour
Week == 7 * Day

ASSUME AgesAssumption ==
    /\ Years \in Nat \ {0}
    /\ Calendars \subseteq [0..(12 * Years) -> Nat]
    /\ \A c \in Calendars :
          /\ c[0] = 0
          /\ \A j, k \in 0..(12 * Years) : j <= k => c[j] + 28 * (k - j) <= c[k]
    /\ Instants \subseteq 0..(12 * Years * 28 * Day - 14 * Hour - 1)
    /\ Offsets \subseteq (-12 * Hour)..(14 * Hour)

VARIABLES
    now,         \* Date()
    offset,      \* TimeZone.current.secondsFromGMT()
    calendar     \* Calendar, from the day of publication

vars == <<now, offset, calendar>>

Init ==
    /\ now = 0
    /\ offset \in Offsets
    /\ calendar \in Calendars

-----------------------------------------------------------------------------
(* The texts: a count of a unit, which is true from the time that many     *)
(* units have passed until one more has.                                   *)

\* The time since publication, with currentDate for the present.
Difference == now + offset

\* Int(_) of a quotient: towards zero.
Truncated(d, unit) == IF d >= 0 THEN d \div unit ELSE -((-d) \div unit)

Text(n, unit) == [claims |-> n * unit, ends |-> (n + 1) * unit]

ToString(d) ==
    IF Truncated(d, Minute) < 60 THEN Text(Truncated(d, Minute), Minute)
    ELSE IF Truncated(d, Hour) < 24 THEN Text(Truncated(d, Hour), Hour)
    ELSE Text(Truncated(d, Day), Day)

\* The same day k months later; the whole months of a time.
Anniversary(k) == calendar[k] * Day
WholeMonths(d) ==
    CHOOSE k \in 0..(12 * Years - 1) :
        Anniversary(k) <= d /\ d < Anniversary(k + 1)

MonthText(n) == [claims |-> Anniversary(n), ends |-> Anniversary(n + 1)]
YearText(n) == [claims |-> Anniversary(12 * n), ends |-> Anniversary(12 * (n + 1))]

\* dateComponents(_:from:to:) of a time that has come.
Components(d) ==
    LET months == WholeMonths(d)
        rest == d - Anniversary(months)
    IN  [year |-> months \div 12,
         month |-> months % 12,
         week |-> rest \div Week,
         day |-> (rest \div Day) % 7,
         hour |-> (rest \div Hour) % 24,
         minute |-> (rest \div Minute) % 60,
         second |-> rest % 60]

JustNow == Text(0, Minute)

\* Mutant: months are not looked at.
RelativelyWithoutMonths(d) ==
    LET c == Components(d) IN
    IF d < 0 THEN JustNow
    ELSE IF c.year > 0 THEN YearText(c.year)
    ELSE IF c.week > 0 THEN Text(c.week, Week)
    ELSE IF c.day > 0 THEN Text(c.day, Day)
    ELSE IF c.hour > 0 THEN Text(c.hour, Hour)
    ELSE IF c.minute > 0 THEN Text(c.minute, Minute)
    ELSE IF c.second > 30 THEN Text(c.second, 1)
    ELSE JustNow
\* Mutant: years are looked at after months.
RelativelyMonthsFirst(d) ==
    LET c == Components(d) IN
    IF d < 0 THEN JustNow
    ELSE IF c.month > 0 THEN MonthText(c.month)
    ELSE IF c.year > 0 THEN YearText(c.year)
    ELSE IF c.week > 0 THEN Text(c.week, Week)
    ELSE IF c.day > 0 THEN Text(c.day, Day)
    ELSE IF c.hour > 0 THEN Text(c.hour, Hour)
    ELSE IF c.minute > 0 THEN Text(c.minute, Minute)
    ELSE IF c.second > 30 THEN Text(c.second, 1)
    ELSE JustNow
\* The first component that is there; "yesterday" is one day.  None is positive
\* for a date in the future.
RelativelyFormatted(d) ==
    LET c == Components(d) IN
    IF d < 0 THEN JustNow
    ELSE IF c.year > 0 THEN YearText(c.year)
    ELSE IF c.month > 0 THEN MonthText(c.month)
    ELSE IF c.week > 0 THEN Text(c.week, Week)
    ELSE IF c.day > 0 THEN Text(c.day, Day)
    ELSE IF c.hour > 0 THEN Text(c.hour, Hour)
    ELSE IF c.minute > 0 THEN Text(c.minute, Minute)
    ELSE IF c.second > 30 THEN Text(c.second, 1)
    ELSE JustNow

-----------------------------------------------------------------------------

\* The screens are looked at later.
Later ==
    /\ now' \in Instants
    /\ now' > now
    /\ UNCHANGED <<offset, calendar>>

\* The device is taken to another time zone.
Travel ==
    /\ offset' \in Offsets
    /\ UNCHANGED <<now, calendar>>

Next == Later \/ Travel

Spec == Init /\ [][Next]_vars

-----------------------------------------------------------------------------
(* Properties.                                                             *)

Claims(text) == text.claims
Tells(text, age) == text.claims <= age /\ age < text.ends

\* At Greenwich both texts are true: the age has passed the count told and not
\* yet the next.  Elsewhere the time zone is added to an absolute time, and they
\* are not.
TrueAtGreenwich ==
    offset = 0 =>
        /\ Tells(ToString(Difference), now)
        /\ Tells(RelativelyFormatted(Difference), now)

\* Unless the device travels, no article gets younger: the components are
\* remainders of each other, and the text must not go back where a unit ends.
NeverYounger ==
    [][offset' = offset =>
           /\ Claims(ToString(Difference')) >= Claims(ToString(Difference))
           /\ Claims(RelativelyFormatted(Difference)')
                  >= Claims(RelativelyFormatted(Difference))]_vars
=============================================================================
