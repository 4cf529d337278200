--------------------------------- MODULE MCAges ---------------------------------
(* Times around every place where a text changes.                          *)
EXTENDS Ages, FiniteSetsExt

Around(t) == {t - 1, t, t + 1}

\* Where units begin, and the middle and the end of some.
Edges ==
    {1, 30, 31, 45, Minute, 90, 2 * Minute, 59 * Minute, Hour, 90 * Minute,
     5 * Hour, 7 * Hour, 12 * Hour, 23 * Hour, Day, 36 * Hour, 2 * Day, 6 * Day,
     Week, 2 * Week}
Days ==
    {28, 29, 30, 31, 32, 35, 40, 58, 59, 60, 89, 334, 335, 364, 365, 366, 393, 394,
     395, 396, 425, 729, 730, 731, 800}
AppInstants == UNION {Around(t) : t \in Edges \cup {n * Day : n \in Days}}

\* New York, Greenwich, Hanoi and Kathmandu.
AppOffsets == {-5 * Hour, 0, 7 * Hour, 5 * Hour + 45 * Minute}

\* The months from January 2019 on, and the days before each.
DaysIn(k) ==
    IF k = 13 THEN 29
    ELSE <<31, 28, 31, 30, 31, 30, 31, 31, 30, 31, 30, 31>>[(k % 12) + 1]
DaysBefore(k) == MapThenSumSet(DaysIn, 0..(k - 1))

From(month, day) ==
    [k \in 0..(12 * Years) |->
        DaysBefore(month + k) + Min({day, DaysIn(month + k)})
            - (DaysBefore(month) + day)]

\* Published on the first or the last day of January 2019, the last of September,
\* or the day of February 2020 that no other year has.
AppCalendars == {From(0, 1), From(0, 31), From(8, 30), From(13, 29)}
=============================================================================
