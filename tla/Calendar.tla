------------------------------ MODULE Calendar ------------------------------
(***************************************************************************)
(* The dates of Python's datetime module, as the digests use them: a day is*)
(* its proleptic Gregorian ordinal (date.toordinal: 1 January of year 1 is *)
(* day 1, a Monday), so that timedelta(days=n) is addition.                *)
(***************************************************************************)
EXTENDS Integers

IsLeap(y) == y % 4 = 0 /\ (y % 100 # 0 \/ y % 400 = 0)

\* Days before 1 January of year y.
DaysBeforeYear(y) ==
    365 * (y - 1) + (y - 1) \div 4 - (y - 1) \div 100 + (y - 1) \div 400

\* Days before the first of month m in year y; m = 13 gives the year's length.
DaysBeforeMonth(y, m) ==
    <<0, 31, 59, 90, 120, 151, 181, 212, 243, 273, 304, 334, 365>>[m]
      + IF m > 2 /\ IsLeap(y) THEN 1 ELSE 0

\* date(y, m, d) and its attributes year, month and day.
Date(y, m, d) == DaysBeforeYear(y) + DaysBeforeMonth(y, m) + d

YearOf(n) ==
    CHOOSE y \in (n - 1) \div 366 + 1 .. (n - 1) \div 365 + 1 :
      DaysBeforeYear(y) < n /\ n <= DaysBeforeYear(y + 1)

MonthOf(n) ==
    LET y == YearOf(n)
        d == n - DaysBeforeYear(y) IN
    CHOOSE m \in 1..12 : DaysBeforeMonth(y, m) < d /\ d <= DaysBeforeMonth(y, m + 1)

DayOf(n) == LET y == YearOf(n) IN
            n - DaysBeforeYear(y) - DaysBeforeMonth(y, MonthOf(n))

\* date.weekday(): Monday is 0.
Weekday(n) == (n - 1) % 7

=============================================================================
