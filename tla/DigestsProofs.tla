---------------------------- MODULE DigestsProofs ----------------------------
(***************************************************************************)
(* Proofs about Digests, for every day of the calendar, every index and    *)
(* every choice of enabled digests.  A mail is a function of the day and   *)
(* the index (MailOK), so most of this is about the operators: the         *)
(* calendar, the windows, the moodboards, the streak and the highlights.   *)
(***************************************************************************)
EXTENDS Digests, TLAPS, FiniteSetTheorems, WellFoundedInduction

-----------------------------------------------------------------------------
(* Numbers *)

\* Induction on the natural numbers, for a set (the library's theorem is about
\* an operator, which the provers cannot instantiate).
LEMMA Induction ==
    ASSUME NEW T, 0 \in T, \A n \in Nat : n \in T => n + 1 \in T
    PROVE  \A n \in Nat : n \in T
<1>. DEFINE Less == OpToRel(<, Nat)
<1>1. IsWellFoundedOn(Less, Nat)
  BY NatLessThanWellFounded
<1>2. \A m, n \in Nat : m < n => <<m, n>> \in Less
  BY DEF OpToRel
<1>. HIDE DEF Less
<1>3. SUFFICES ASSUME Nat \ T # {} PROVE FALSE
  OBVIOUS
<1>4. PICK n \in Nat \ T : \A m \in Nat \ T : ~(<<m, n>> \in Less)
  BY <1>1, <1>3, WFMin
<1>5. n - 1 \in Nat \ T
  BY <1>4
<1>6. <<n - 1, n>> \in Less
  BY <1>2, <1>5
<1>. QED
  BY <1>4, <1>5, <1>6

-----------------------------------------------------------------------------
(* The calendar *)

LEMMA YearType == \A y \in Int : DaysBeforeYear(y) \in Int
BY DEF DaysBeforeYear

\* The length of a year.
LEMMA YearLength ==
    ASSUME NEW y \in Int
    PROVE  DaysBeforeYear(y + 1) = DaysBeforeYear(y) + (IF IsLeap(y) THEN 366 ELSE 365)
BY DEF DaysBeforeYear, IsLeap

LEMMA YearMonotone ==
    ASSUME NEW x \in Int, NEW y \in Int, x < y
    PROVE  DaysBeforeYear(x + 1) <= DaysBeforeYear(y)
BY DEF DaysBeforeYear

LEMMA YearRange ==
    ASSUME NEW y \in Nat \ {0}
    PROVE  /\ 365 * (y - 1) <= DaysBeforeYear(y)
           /\ DaysBeforeYear(y) <= 366 * (y - 1)
BY DEF DaysBeforeYear

InYear(n, y) == DaysBeforeYear(y) < n /\ n <= DaysBeforeYear(y + 1)

LEMMA YearExists == \A n \in Nat : n # 0 => \E y \in Nat \ {0} : InYear(n, y)
<1>. DEFINE T == {n \in Nat : n # 0 => \E y \in Nat \ {0} : InYear(n, y)}
<1>1. 0 \in T
  OBVIOUS
<1>2. ASSUME NEW n \in Nat, n \in T PROVE n + 1 \in T
  <2>1. CASE n = 0
    <3>1. InYear(1, 1)
      BY DEF InYear, DaysBeforeYear
    <3>. QED
      BY <2>1, <3>1
  <2>2. CASE n # 0
    <3>1. PICK y \in Nat \ {0} : InYear(n, y)
      BY <1>2, <2>2
    <3>2. InYear(n + 1, y) \/ InYear(n + 1, y + 1)
      BY <3>1, YearType, YearLength DEF InYear
    <3>. QED
      BY <3>2
  <2>. QED
    BY <2>1, <2>2
<1>. HIDE DEF T
<1>3. \A n \in Nat : n \in T
  BY <1>1, <1>2, Induction
<1>. QED
  BY <1>3 DEF T

LEMMA YearUnique ==
    ASSUME NEW n \in Int, NEW x \in Int, NEW y \in Int, InYear(n, x), InYear(n, y)
    PROVE  x = y
<1>1. ~(x < y)
  BY YearMonotone, YearType DEF InYear
<1>2. ~(y < x)
  BY YearMonotone, YearType DEF InYear
<1>. QED
  BY <1>1, <1>2

\* date.year
LEMMA YearOfDay ==
    ASSUME NEW n \in Nat \ {0}
    PROVE  YearOf(n) \in Nat \ {0} /\ InYear(n, YearOf(n))
<1>1. PICK y \in Nat \ {0} : InYear(n, y)
  BY YearExists
<1>2. 365 * (y - 1) < n /\ n <= 366 * y
  <2>1. y + 1 \in Nat \ {0}
    OBVIOUS
  <2>. QED
    BY <1>1, <2>1, YearRange, YearType DEF InYear
<1>3. y \in (n - 1) \div 366 + 1 .. (n - 1) \div 365 + 1
  BY <1>2
<1>4. YearOf(n) \in (n - 1) \div 366 + 1 .. (n - 1) \div 365 + 1 /\ InYear(n, YearOf(n))
  BY <1>1, <1>3 DEF YearOf, InYear
<1>. QED
  BY <1>4

LEMMA YearIs ==
    ASSUME NEW n \in Nat \ {0}, NEW y \in Int, InYear(n, y)
    PROVE  YearOf(n) = y
BY YearOfDay, YearUnique

\* The days before each month of a year.
LEMMA MonthTable ==
    ASSUME NEW y \in Int
    PROVE  LET leap == IF IsLeap(y) THEN 1 ELSE 0 IN
           /\ DaysBeforeMonth(y, 1) = 0
           /\ DaysBeforeMonth(y, 2) = 31
           /\ DaysBeforeMonth(y, 3) = 59 + leap
           /\ DaysBeforeMonth(y, 4) = 90 + leap
           /\ DaysBeforeMonth(y, 5) = 120 + leap
           /\ DaysBeforeMonth(y, 6) = 151 + leap
           /\ DaysBeforeMonth(y, 7) = 181 + leap
           /\ DaysBeforeMonth(y, 8) = 212 + leap
           /\ DaysBeforeMonth(y, 9) = 243 + leap
           /\ DaysBeforeMonth(y, 10) = 273 + leap
           /\ DaysBeforeMonth(y, 11) = 304 + leap
           /\ DaysBeforeMonth(y, 12) = 334 + leap
           /\ DaysBeforeMonth(y, 13) = 365 + leap
BY DEF DaysBeforeMonth

LEMMA MonthType ==
    ASSUME NEW y, y \in Int, NEW m, m \in 1..13
    PROVE  DaysBeforeMonth(y, m) \in Int /\ 0 <= DaysBeforeMonth(y, m) /\ DaysBeforeMonth(y, m) <= 366
<1>1. m \in {1, 2, 3, 4, 5, 6, 7, 8, 9, 10, 11, 12, 13}
  OBVIOUS
<1>. QED
  BY <1>1, MonthTable

LEMMA MonthLength ==
    ASSUME NEW y, y \in Int, NEW m, m \in 1..12
    PROVE  DaysBeforeMonth(y, m) + 28 <= DaysBeforeMonth(y, m + 1)
<1>1. m \in {1, 2, 3, 4, 5, 6, 7, 8, 9, 10, 11, 12}
  OBVIOUS
<1>. QED
  BY <1>1, MonthTable

LEMMA MonthMonotone ==
    \A y \in Int : \A m \in 1..12, k \in 1..13 : m < k => DaysBeforeMonth(y, m + 1) <= DaysBeforeMonth(y, k)
<1>. SUFFICES ASSUME NEW y \in Int, NEW m \in 1..12
              PROVE  \A k \in 1..13 : m < k => DaysBeforeMonth(y, m + 1) <= DaysBeforeMonth(y, k)
  OBVIOUS
<1>. DEFINE D(k) == DaysBeforeMonth(y, k)
            T == {n \in Nat : m + 1 + n <= 13 => D(m + 1) <= D(m + 1 + n)}
<1>0. (\A k \in 1..13 : D(k) \in Int) /\ \A k \in 1..12 : D(k) <= D(k + 1)
  <2>1. ASSUME NEW k \in 1..13 PROVE D(k) \in Int
    BY MonthType
  <2>2. ASSUME NEW k \in 1..12 PROVE D(k) <= D(k + 1)
    <3>1. k \in 1..13 /\ k + 1 \in 1..13
      OBVIOUS
    <3>. QED
      BY <3>1, <2>1, MonthLength
  <2>. QED
    BY <2>1, <2>2
<1>. HIDE DEF D
<1>1. 0 \in T
  BY <1>0
<1>2. ASSUME NEW n \in Nat, n \in T PROVE n + 1 \in T
  <2>. SUFFICES ASSUME m + 1 + (n + 1) <= 13 PROVE D(m + 1) <= D(m + 1 + (n + 1))
    OBVIOUS
  <2>1. m + 1 + n \in 1..12 /\ D(m + 1) <= D(m + 1 + n) /\ m + 1 + (n + 1) = (m + 1 + n) + 1
    BY <1>2
  <2>2. D(m + 1 + n) <= D((m + 1 + n) + 1)
    BY <1>0, <2>1
  <2>3. D(m + 1) \in Int /\ D(m + 1 + n) \in Int /\ D((m + 1 + n) + 1) \in Int
    BY <1>0, <2>1
  <2>. QED
    BY <2>1, <2>2, <2>3
<1>. HIDE DEF T
<1>3. \A n \in Nat : n \in T
  BY <1>1, <1>2, Induction
<1>4. ASSUME NEW k \in 1..13, m < k PROVE D(m + 1) <= D(k)
  <2>1. k - (m + 1) \in T /\ m + 1 + (k - (m + 1)) = k
    BY <1>3, <1>4
  <2>. QED
    BY <2>1 DEF T
<1>. QED
  BY <1>4 DEF D

\* Day n is in month m of year y.
InMonth(n, y, m) == Date(y, m, 1) <= n /\ n < Date(y, m + 1, 1)

LEMMA DateType ==
    ASSUME NEW y, y \in Int, NEW m, m \in 1..13, NEW d, d \in Int
    PROVE  /\ Date(y, m, d) \in Int
           /\ Date(y, m, d) = DaysBeforeYear(y) + DaysBeforeMonth(y, m) + d
BY YearType, MonthType DEF Date

LEMMA NextYear ==
    ASSUME NEW y \in Int
    PROVE  /\ Date(y, 13, 1) = Date(y + 1, 1, 1)
           /\ Date(y, 1, 1) = DaysBeforeYear(y) + 1
           /\ Date(y, 12, 31) = DaysBeforeYear(y + 1)
BY YearType, YearLength, MonthTable DEF Date

LEMMA MonthInYear ==
    ASSUME NEW n \in Int, NEW y \in Int, NEW m \in 1..12, InMonth(n, y, m)
    PROVE  InYear(n, y)
<1>1. DaysBeforeMonth(y, 13) = DaysBeforeYear(y + 1) - DaysBeforeYear(y)
  BY MonthTable, YearLength, YearType
<1>2. DaysBeforeMonth(y, m + 1) <= DaysBeforeMonth(y, 13)
  BY MonthMonotone
<1>3. DaysBeforeMonth(y, m + 1) \in Int /\ DaysBeforeMonth(y, m) \in Nat
  BY MonthType
<1>. QED
  BY <1>1, <1>2, <1>3, YearType DEF InMonth, InYear, Date

LEMMA MonthExists ==
    ASSUME NEW n \in Int, NEW y \in Int, InYear(n, y)
    PROVE  \E m \in 1..12 : InMonth(n, y, m)
<1>. DEFINE D(k) == DaysBeforeMonth(y, k)
            d == n - DaysBeforeYear(y)
<1>1. \A i \in 1..13 : D(i) \in Int
  BY MonthType
<1>2. D(1) < d /\ d <= D(13) /\ d \in Int
  BY MonthTable, YearLength, YearType DEF InYear
<1>3. \E m \in 1..12 : D(m) < d /\ d <= D(m + 1)
  <2>. HIDE DEF D, d
  <2>1. \/ (D(1) < d /\ d <= D(2)) \/ (D(2) < d /\ d <= D(3)) \/ (D(3) < d /\ d <= D(4))
        \/ (D(4) < d /\ d <= D(5)) \/ (D(5) < d /\ d <= D(6)) \/ (D(6) < d /\ d <= D(7))
        \/ (D(7) < d /\ d <= D(8)) \/ (D(8) < d /\ d <= D(9)) \/ (D(9) < d /\ d <= D(10))
        \/ (D(10) < d /\ d <= D(11)) \/ (D(11) < d /\ d <= D(12)) \/ (D(12) < d /\ d <= D(13))
    BY <1>1, <1>2
  <2>. QED
    BY <2>1
<1>. QED
  BY <1>1, <1>3, YearType DEF InMonth, Date

LEMMA MonthUnique ==
    ASSUME NEW n \in Int, NEW y \in Int, NEW m \in 1..12, NEW k \in 1..12, InMonth(n, y, m), InMonth(n, y, k)
    PROVE  m = k
<1>1. /\ DaysBeforeYear(y) \in Int
      /\ {DaysBeforeMonth(y, m), DaysBeforeMonth(y, k),
          DaysBeforeMonth(y, m + 1), DaysBeforeMonth(y, k + 1)} \subseteq Int
  BY MonthType, YearType
<1>2. /\ m < k => DaysBeforeMonth(y, m + 1) <= DaysBeforeMonth(y, k)
      /\ k < m => DaysBeforeMonth(y, k + 1) <= DaysBeforeMonth(y, m)
  BY MonthMonotone
<1>3. ~(m < k) /\ ~(k < m)
  BY <1>1, <1>2 DEF InMonth, Date
<1>. QED
  BY <1>3

\* date.month
LEMMA MonthOfDay ==
    ASSUME NEW n \in Nat \ {0}
    PROVE  MonthOf(n) \in 1..12 /\ InMonth(n, YearOf(n), MonthOf(n))
<1>. DEFINE y == YearOf(n)
            P(m) == DaysBeforeMonth(y, m) < n - DaysBeforeYear(y) /\ n - DaysBeforeYear(y) <= DaysBeforeMonth(y, m + 1)
<1>1. y \in Int /\ InYear(n, y)
  BY YearOfDay
<1>. HIDE DEF y
<1>2. \A m \in 1..12 : P(m) <=> InMonth(n, y, m)
  BY <1>1, YearType, MonthType DEF InMonth, Date
<1>3. \E m \in 1..12 : P(m)
  BY <1>1, <1>2, MonthExists
<1>4. MonthOf(n) = CHOOSE m \in 1..12 : P(m)
  BY DEF MonthOf, y
<1>5. MonthOf(n) \in 1..12 /\ P(MonthOf(n))
  <2>. HIDE DEF P
  <2>. QED
    BY <1>3, <1>4
<1>. QED
  BY <1>2, <1>5 DEF y

\* A day of the calendar has one year, month and day.
LEMMA CalendarDay ==
    ASSUME NEW n \in Nat \ {0}, NEW y \in Int, NEW m \in 1..12, InMonth(n, y, m)
    PROVE  YearOf(n) = y /\ MonthOf(n) = m /\ DayOf(n) = n - Date(y, m, 1) + 1
<1>1. YearOf(n) = y
  BY MonthInYear, YearIs
<1>2. MonthOf(n) = m
  BY <1>1, MonthOfDay, MonthUnique
<1>. QED
  BY <1>1, <1>2, YearType, MonthType DEF DayOf, Date

-----------------------------------------------------------------------------
(* Periods *)

Days == Nat \ {0}

LEMMA MonthStarts ==
    ASSUME NEW n \in Days, NEW y \in Int, NEW m \in 1..12, InMonth(n, y, m)
    PROVE  StartsPeriod("monthly", n) <=> n = Date(y, m, 1)
<1>1. DayOf(n) = n - Date(y, m, 1) + 1
  BY CalendarDay DEF Days
<1>2. Date(y, m, 1) \in Int
  BY DateType
<1>. QED
  BY <1>1, <1>2 DEF StartsPeriod, Days

LEMMA YearStarts ==
    ASSUME NEW n \in Days, NEW y \in Int, InYear(n, y)
    PROVE  StartsPeriod("yearly", n) <=> n = Date(y, 1, 1)
<1>0. /\ DaysBeforeYear(y) \in Int /\ DaysBeforeMonth(y, 1) = 0 /\ DaysBeforeMonth(y, 2) = 31
      /\ Date(y, 1, 1) = DaysBeforeYear(y) + 1 /\ Date(y, 2, 1) = DaysBeforeYear(y) + 32
  BY YearType, MonthTable DEF Date
<1>1. ASSUME StartsPeriod("yearly", n) PROVE n = Date(y, 1, 1)
  <2>1. DayOf(n) = 1 /\ MonthOf(n) = 1
    BY <1>1 DEF StartsPeriod
  <2>2. YearOf(n) = y
    BY YearIs DEF Days
  <2>3. InMonth(n, y, 1)
    BY <2>1, <2>2, MonthOfDay DEF Days
  <2>4. DayOf(n) = n - Date(y, 1, 1) + 1
    BY <2>3, CalendarDay DEF Days
  <2>. QED
    BY <1>0, <2>1, <2>4 DEF Days
<1>2. ASSUME n = Date(y, 1, 1) PROVE StartsPeriod("yearly", n)
  <2>1. InMonth(n, y, 1)
    BY <1>0, <1>2 DEF InMonth
  <2>2. MonthOf(n) = 1 /\ DayOf(n) = n - Date(y, 1, 1) + 1
    BY <2>1, CalendarDay DEF Days
  <2>. QED
    BY <1>0, <1>2, <2>2 DEF StartsPeriod, Days
<1>. QED
  BY <1>1, <1>2

\* What a digest's window is, by kind.
IsWeek(w) == \E s \in Days : Weekday(s) = 0 /\ w = WeekFrom(s)
IsMonth(w) == \E y \in Days, m \in 1..12 : w = Month(y, m)
IsYear(w) == \E y \in Days : w = Year(y)

IsWindow(kind, w) == \/ kind = "weekly" /\ IsWeek(w)
                     \/ kind = "monthly" /\ IsMonth(w)
                     \/ kind = "yearly" /\ IsYear(w)

\* The ends of a month and of a year.
LEMMA MonthEnds ==
    ASSUME NEW y \in Days, NEW m \in 1..12
    PROVE  /\ Month(y, m) = [from |-> Date(y, m, 1), to |-> Date(y, m + 1, 1) - 1]
           /\ Date(y, m, 1) \in Days /\ Date(y, m + 1, 1) \in Days
           /\ Date(y, m, 1) + 28 <= Date(y, m + 1, 1)
<1>0. y \in Nat \ {0} /\ y \in Int
  BY DEF Days
<1>1. DaysBeforeYear(y) \in Int /\ DaysBeforeYear(y) >= 0
  BY <1>0, YearRange, YearType
<1>2. /\ DaysBeforeMonth(y, m) \in Int /\ 0 <= DaysBeforeMonth(y, m)
      /\ DaysBeforeMonth(y, m + 1) \in Int
      /\ DaysBeforeMonth(y, m) + 28 <= DaysBeforeMonth(y, m + 1)
  BY <1>0, MonthType, MonthLength
<1>3. CASE m = 12
  <2>1. y + (m \div 12) = y + 1 /\ (m % 12) + 1 = 1
    BY <1>0, <1>3
  <2>2. Date(y, 13, 1) = Date(y + 1, 1, 1)
    BY <1>0, NextYear
  <2>. QED
    BY <1>0, <1>1, <1>2, <1>3, <2>1, <2>2 DEF Month, Date, Days
<1>4. CASE m # 12
  <2>1. y + (m \div 12) = y /\ (m % 12) + 1 = m + 1
    BY <1>0, <1>4
  <2>. QED
    BY <1>0, <1>1, <1>2, <2>1 DEF Month, Date, Days
<1>. QED
  BY <1>3, <1>4

LEMMA YearEnds ==
    ASSUME NEW y \in Days
    PROVE  /\ Year(y) = [from |-> DaysBeforeYear(y) + 1, to |-> DaysBeforeYear(y + 1)]
           /\ DaysBeforeYear(y) \in Nat /\ DaysBeforeYear(y + 1) \in Nat
           /\ DaysBeforeYear(y) + 365 <= DaysBeforeYear(y + 1)
           /\ DaysBeforeYear(y + 1) <= DaysBeforeYear(y) + 366
<1>0. y \in Nat \ {0} /\ y \in Int
  BY DEF Days
<1>1. DaysBeforeYear(y) \in Int /\ DaysBeforeYear(y) >= 0 /\ DaysBeforeYear(y + 1) \in Int
  BY <1>0, YearRange, YearType
<1>2. DaysBeforeYear(y + 1) = DaysBeforeYear(y) + (IF IsLeap(y) THEN 366 ELSE 365)
  BY <1>0, YearLength
<1>3. Date(y, 1, 1) = DaysBeforeYear(y) + 1 /\ Date(y, 12, 31) = DaysBeforeYear(y + 1)
  BY <1>0, NextYear
<1>. QED
  BY <1>1, <1>2, <1>3 DEF Year

Whole(kind, w) ==
    /\ w.from \in Days /\ w.to \in Days /\ w.from <= w.to
    /\ StartsPeriod(kind, w.from) /\ StartsPeriod(kind, w.to + 1)
    /\ \A n \in w.from + 1 .. w.to : ~StartsPeriod(kind, n)

\* A window is a period from its first day to its last.
LEMMA WindowIsWhole ==
    ASSUME NEW kind, NEW w, IsWindow(kind, w)
    PROVE  Whole(kind, w)
<1>1. CASE kind = "weekly" /\ IsWeek(w)
  <2>1. PICK s \in Days : Weekday(s) = 0 /\ w = WeekFrom(s)
    BY <1>1 DEF IsWeek
  <2>2. w.from = s /\ w.to = s + 6
    BY <2>1 DEF WeekFrom
  <2>. QED
    BY <1>1, <2>1, <2>2 DEF Whole, StartsPeriod, Weekday, Days
<1>2. CASE kind = "monthly" /\ IsMonth(w)
  <2>1. PICK y \in Days, m \in 1..12 : w = Month(y, m)
    BY <1>2 DEF IsMonth
  <2>2. /\ w.from = Date(y, m, 1) /\ w.to = Date(y, m + 1, 1) - 1
        /\ Date(y, m, 1) \in Days /\ Date(y, m + 1, 1) \in Days
        /\ Date(y, m, 1) + 28 <= Date(y, m + 1, 1)
    BY <2>1, MonthEnds
  <2>3. ASSUME NEW n \in Days, Date(y, m, 1) <= n, n < Date(y, m + 1, 1)
        PROVE  StartsPeriod("monthly", n) <=> n = Date(y, m, 1)
    BY <2>3, MonthStarts DEF InMonth, Days
  <2>4. StartsPeriod("monthly", Date(y, m + 1, 1))
    <3>1. CASE m = 12
      <4>1. y + 1 \in Days /\ y \in Int
        BY DEF Days
      <4>2. Date(y, m + 1, 1) = Date(y + 1, 1, 1)
        BY <3>1, <4>1, NextYear
      <4>3. Date(y + 1, 1, 1) \in Days /\ Date(y + 1, 1, 1) + 28 <= Date(y + 1, 2, 1) /\ Date(y + 1, 2, 1) \in Days
        BY <4>1, MonthEnds
      <4>4. InMonth(Date(y + 1, 1, 1), y + 1, 1)
        BY <4>3 DEF InMonth, Days
      <4>. QED
        BY <4>1, <4>2, <4>3, <4>4, MonthStarts DEF Days
    <3>2. CASE m # 12
      <4>1. /\ m + 1 \in 1..12 /\ Date(y, m + 1, 1) + 28 <= Date(y, (m + 1) + 1, 1)
            /\ Date(y, (m + 1) + 1, 1) \in Days
        BY <3>2, MonthEnds
      <4>2. InMonth(Date(y, m + 1, 1), y, m + 1)
        BY <2>2, <4>1 DEF InMonth, Days
      <4>. QED
        BY <2>2, <4>1, <4>2, MonthStarts DEF Days
    <3>. QED
      BY <3>1, <3>2
  <2>. QED
    BY <1>2, <2>2, <2>3, <2>4 DEF Whole, Days
<1>3. CASE kind = "yearly" /\ IsYear(w)
  <2>1. PICK y \in Days : w = Year(y)
    BY <1>3 DEF IsYear
  <2>2. /\ w.from = DaysBeforeYear(y) + 1 /\ w.to = DaysBeforeYear(y + 1)
        /\ DaysBeforeYear(y) \in Nat /\ DaysBeforeYear(y + 1) \in Nat
        /\ DaysBeforeYear(y) + 365 <= DaysBeforeYear(y + 1)
    BY <2>1, YearEnds
  <2>3. y \in Int /\ y + 1 \in Days /\ y + 1 \in Int
    BY DEF Days
  <2>4. Date(y, 1, 1) = DaysBeforeYear(y) + 1 /\ Date(y + 1, 1, 1) = DaysBeforeYear(y + 1) + 1
    BY <2>3, NextYear
  <2>5. ASSUME NEW n \in Days, DaysBeforeYear(y) < n, n <= DaysBeforeYear(y + 1)
        PROVE  StartsPeriod("yearly", n) <=> n = DaysBeforeYear(y) + 1
    BY <2>3, <2>4, <2>5, YearStarts DEF InYear
  <2>6. StartsPeriod("yearly", DaysBeforeYear(y + 1) + 1)
    <3>1. DaysBeforeYear(y + 1) + 365 <= DaysBeforeYear((y + 1) + 1) /\ DaysBeforeYear((y + 1) + 1) \in Nat
      BY <2>3, YearEnds
    <3>2. InYear(DaysBeforeYear(y + 1) + 1, y + 1)
      BY <2>2, <3>1 DEF InYear
    <3>. QED
      BY <2>2, <2>3, <2>4, <3>2, YearStarts DEF Days
  <2>. QED
    BY <1>3, <2>2, <2>5, <2>6 DEF Whole, Days
<1>. QED
  BY <1>1, <1>2, <1>3 DEF IsWindow

-----------------------------------------------------------------------------
(* Windows *)

\* The days of datetime that have a year before them.
Dated == {n \in Int : Date(2, 1, 1) <= n}

LEMMA SecondYear == Date(2, 1, 1) = 366
BY DEF Date, DaysBeforeYear, DaysBeforeMonth

\* The year and month of such a day.
LEMMA DatedDay ==
    ASSUME NEW n \in Dated
    PROVE  /\ n \in Days /\ n >= 366
           /\ YearOf(n) \in Days /\ YearOf(n) - 1 \in Days /\ InYear(n, YearOf(n))
           /\ MonthOf(n) \in 1..12 /\ InMonth(n, YearOf(n), MonthOf(n))
<1>1. n \in Nat \ {0} /\ n >= 366
  BY SecondYear DEF Dated
<1>2. YearOf(n) \in Nat \ {0} /\ InYear(n, YearOf(n)) /\ MonthOf(n) \in 1..12
      /\ InMonth(n, YearOf(n), MonthOf(n))
  BY <1>1, YearOfDay, MonthOfDay
<1>3. YearOf(n) # 1
  <2>1. DaysBeforeYear(1 + 1) = 365
    BY DEF DaysBeforeYear
  <2>. QED
    BY <1>1, <1>2, <2>1 DEF InYear
<1>. QED
  BY <1>1, <1>2, <1>3 DEF Days

LEMMA WindowShape ==
    ASSUME NEW kind \in Kinds, NEW n \in Dated
    PROVE  IsWindow(kind, Previous(kind, n)) /\ IsWindow(kind, Current(kind, n))
<1>. DEFINE y == YearOf(n)
            m == MonthOf(n)
<1>0. n \in Days /\ n >= 366 /\ y \in Days /\ y - 1 \in Days /\ m \in 1..12
  BY DatedDay
<1>. HIDE DEF y, m
<1>1. CASE kind = "weekly"
  <2>1. /\ n - (7 + Weekday(n)) \in Days /\ Weekday(n - (7 + Weekday(n))) = 0
        /\ n - Weekday(n) \in Days /\ Weekday(n - Weekday(n)) = 0
    BY <1>0 DEF Weekday, Days
  <2>2. IsWeek(PreviousWeek(n)) /\ IsWeek(WeekFrom(n - Weekday(n)))
    BY <2>1 DEF IsWeek, PreviousWeek
  <2>. QED
    BY <1>1, <2>2 DEF IsWindow, Previous, Current
<1>2. CASE kind = "monthly"
  <2>1. Previous(kind, n) = IF m > 1 THEN Month(y, m - 1) ELSE Month(y - 1, 12)
    BY <1>2 DEF Previous, PreviousMonth, y, m
  <2>2. Current(kind, n) = Month(y, m)
    BY <1>2 DEF Current, y, m
  <2>3. m > 1 => m - 1 \in 1..12
    BY <1>0
  <2>. QED
    BY <1>0, <1>2, <2>1, <2>2, <2>3 DEF IsWindow, IsMonth
<1>3. CASE kind = "yearly"
  BY <1>0, <1>3 DEF IsWindow, Previous, Current, IsYear, y
<1>. QED
  BY <1>1, <1>2, <1>3 DEF Kinds

\* The period after the window of a scheduled digest is today's.
LEMMA PreviousIsLast ==
    ASSUME NEW kind \in Kinds, NEW n \in Dated
    PROVE  LET w == Previous(kind, n) IN
           /\ w.to < n
           /\ \A k \in w.to + 2 .. n : ~StartsPeriod(kind, k)
<1>. DEFINE y == YearOf(n)
            m == MonthOf(n)
            w == Previous(kind, n)
<1>0. /\ n \in Days /\ n >= 366 /\ y \in Days /\ y - 1 \in Days /\ m \in 1..12
      /\ InYear(n, y) /\ InMonth(n, y, m)
  BY DatedDay
<1>. HIDE DEF y, m
<1>1. CASE kind = "weekly"
  <2>1. w = WeekFrom(n - (7 + Weekday(n)))
    BY <1>1 DEF Previous, PreviousWeek
  <2>. QED
    BY <1>0, <1>1, <2>1 DEF WeekFrom, StartsPeriod, Weekday, Days
<1>2. CASE kind = "monthly"
  <2>1. w.to = Date(y, m, 1) - 1
    <3>1. CASE m > 1
      <4>1. w = Month(y, m - 1) /\ m - 1 \in 1..12 /\ (m - 1) + 1 = m
        BY <1>0, <1>2, <3>1 DEF Previous, PreviousMonth, y, m
      <4>. QED
        BY <1>0, <4>1, MonthEnds
    <3>2. CASE ~(m > 1)
      <4>1. w = Month(y - 1, 12) /\ m = 1 /\ y - 1 \in Int /\ (y - 1) + 1 = y
        BY <1>0, <1>2, <3>2 DEF Previous, PreviousMonth, y, m, Days
      <4>2. Date(y - 1, 13, 1) = Date(y, 1, 1)
        BY <4>1, NextYear
      <4>3. w.to = Date(y - 1, 12 + 1, 1) - 1
        BY <1>0, <4>1, MonthEnds
      <4>. QED
        BY <4>1, <4>2, <4>3
    <3>. QED
      BY <3>1, <3>2
  <2>2. Date(y, m, 1) \in Days /\ Date(y, m, 1) <= n /\ n < Date(y, m + 1, 1) /\ Date(y, m + 1, 1) \in Days
    BY <1>0, MonthEnds DEF InMonth
  <2>3. ASSUME NEW k \in Date(y, m, 1) + 1 .. n PROVE ~StartsPeriod("monthly", k)
    <3>1. k \in Days /\ InMonth(k, y, m) /\ k # Date(y, m, 1) /\ y \in Int
      BY <1>0, <2>2 DEF InMonth, Days
    <3>. QED
      BY <1>0, <3>1, MonthStarts
  <2>. QED
    BY <1>0, <1>2, <2>1, <2>2, <2>3 DEF Days
<1>3. CASE kind = "yearly"
  <2>1. w = Year(y - 1) /\ (y - 1) + 1 = y /\ y \in Int
    BY <1>0, <1>3 DEF Previous, y, Days
  <2>2. w.to = DaysBeforeYear(y) /\ DaysBeforeYear(y) \in Nat /\ Date(y, 1, 1) = DaysBeforeYear(y) + 1
    BY <1>0, <2>1, YearEnds, NextYear
  <2>3. DaysBeforeYear(y + 1) \in Nat
    BY <1>0, YearEnds
  <2>4. ASSUME NEW k \in DaysBeforeYear(y) + 2 .. n PROVE ~StartsPeriod("yearly", k)
    <3>1. k \in Days /\ InYear(k, y) /\ k # Date(y, 1, 1)
      BY <1>0, <2>2, <2>3 DEF InYear, Days
    <3>. QED
      BY <2>1, <3>1, YearStarts
  <2>. QED
    BY <1>0, <1>3, <2>2, <2>4 DEF InYear, Days
<1>. QED
  BY <1>1, <1>2, <1>3 DEF Kinds

-----------------------------------------------------------------------------
(* Behaviours *)

\* What the index can hold.
IndexOK ==
    /\ DOMAIN rows \subseteq Int
    /\ \A n \in DOMAIN rows : /\ IsFiniteSet(rows[n].tags)
                              /\ rows[n].media \in Seq({"photo", "video"})

\* The last digest is about today, or about the period before today's.
MailOK ==
    mail # None => \E k \in Kinds : \/ mail = Digest(k, Previous(k, today), TRUE)
                                    \/ mail = Digest(k, Current(k, today), FALSE)

DigestInv ==
    /\ today \in Dated /\ until \in Int /\ today <= until
    /\ due \subseteq Enabled
    /\ upto \in [Kinds -> Int \cup {None}] /\ missed \in [Kinds -> 0..MaxMisses]
    /\ IndexOK /\ MailOK

LEMMA InitDigest == Init => DigestInv
<1>. SUFFICES ASSUME Init PROVE DigestInv
  OBVIOUS
<1>1. PICK s \in Scenarios : today = s.first /\ until = s.last /\ rows = s.rows
  BY DEF Init
<1>2. today \in Dated /\ until \in Int /\ today <= until /\ IndexOK
  BY <1>1, ConstantsAssumption DEF Dated, IndexOK
<1>3. due \subseteq Enabled /\ mail = None
  BY DEF Init, Triggers
<1>4. upto \in [Kinds -> Int \cup {None}] /\ missed \in [Kinds -> 0..MaxMisses]
  BY ConstantsAssumption DEF Init
<1>. QED
  BY <1>2, <1>3, <1>4 DEF DigestInv, MailOK

LEMMA DigestStep == DigestInv /\ [Next]_vars => DigestInv'
<1>. SUFFICES ASSUME DigestInv, [Next]_vars PROVE DigestInv'
  OBVIOUS
<1>. USE DEF DigestInv
<1>1. ASSUME NEW k \in Kinds, Tick(k) PROVE DigestInv'
  <2>1. Previous(k, today).to \in Int
    BY WindowShape, WindowIsWhole DEF Whole, Days
  <2>2. upto' \in [Kinds -> Int \cup {None}] /\ missed' \in [Kinds -> 0..MaxMisses]
    BY <1>1, <2>1, ConstantsAssumption DEF Tick
  <2>3. MailOK'
    BY <1>1 DEF Tick, MailOK, Digest, DaysInRange, ListEntriesInRange
  <2>. QED
    BY <1>1, <2>2, <2>3 DEF Tick, IndexOK
<1>2. ASSUME NEW k \in Kinds, Miss(k) PROVE DigestInv'
  <2>1. missed' \in [Kinds -> 0..MaxMisses]
    BY <1>2, ConstantsAssumption DEF Miss
  <2>2. MailOK'
    BY <1>2 DEF Miss, MailOK, Digest, DaysInRange, ListEntriesInRange
  <2>. QED
    BY <1>2, <2>1, <2>2 DEF Miss, IndexOK
<1>3. ASSUME NEW k \in Kinds, SendTest(k) PROVE DigestInv'
  <2>1. MailOK'
    BY <1>3 DEF SendTest, MailOK, Digest, DaysInRange, ListEntriesInRange
  <2>. QED
    BY <1>3, <2>1 DEF SendTest, IndexOK
<1>4. CASE Midnight
  <2>1. today + 1 \in Dated /\ today + 1 <= until
    BY <1>4, SecondYear DEF Midnight, Dated
  <2>2. due' \subseteq Enabled
    BY <1>4 DEF Midnight, Triggers
  <2>. QED
    BY <1>4, <2>1, <2>2 DEF Midnight, MailOK, IndexOK
<1>5. CASE UNCHANGED vars
  BY <1>5 DEF vars, MailOK, IndexOK, Digest, DaysInRange, ListEntriesInRange
<1>. QED
  BY <1>1, <1>2, <1>3, <1>4, <1>5 DEF Next

LEMMA DigestInvariance == Spec => []DigestInv
BY InitDigest, DigestStep, PTL DEF Spec

LEMMA DigestFields ==
    ASSUME NEW k, NEW w, NEW s
    PROVE  Digest(k, w, s).kind = k /\ Digest(k, w, s).window = w /\ Digest(k, w, s).scheduled = s
<1>1. PICK b : Digest(k, w, s) = [kind |-> k, window |-> w, scheduled |-> s, body |-> b]
  BY DEF Digest
<1>. QED
  BY <1>1

\* What a mail is.
LEMMA MailIs ==
    ASSUME DigestInv, mail # None
    PROVE  /\ mail = Digest(mail.kind, mail.window, mail.scheduled)
           /\ mail.kind \in Kinds /\ mail.scheduled \in BOOLEAN
           /\ IsWindow(mail.kind, mail.window) /\ Whole(mail.kind, mail.window)
           /\ mail.scheduled => mail.window = Previous(mail.kind, today)
<1>1. PICK k \in Kinds : \/ mail = Digest(k, Previous(k, today), TRUE)
                         \/ mail = Digest(k, Current(k, today), FALSE)
  BY DEF DigestInv, MailOK
<1>2. /\ \/ mail.window = Previous(k, today) /\ mail.scheduled = TRUE
         \/ mail.window = Current(k, today) /\ mail.scheduled = FALSE
      /\ mail.kind = k /\ mail = Digest(k, mail.window, mail.scheduled)
  <2>1. ASSUME NEW w, NEW s, mail = Digest(k, w, s)
        PROVE  /\ mail.window = w /\ mail.scheduled = s /\ mail.kind = k
               /\ mail = Digest(k, mail.window, mail.scheduled)
    <3>1. mail.window = w /\ mail.scheduled = s /\ mail.kind = k
      BY <2>1, DigestFields
    <3>. QED
      BY <2>1, <3>1
  <2>2. CASE mail = Digest(k, Previous(k, today), TRUE)
    BY <2>1, <2>2, Zenon
  <2>3. CASE mail = Digest(k, Current(k, today), FALSE)
    BY <2>1, <2>3, Zenon
  <2>. QED
    BY <1>1, <2>2, <2>3
<1>3. IsWindow(k, mail.window) /\ Whole(k, mail.window)
  BY <1>2, WindowShape, WindowIsWhole DEF DigestInv
<1>. QED
  BY <1>2, <1>3

\* A scheduled digest is about the last whole period, on whatever day its
\* trigger fires (app.py:123-173).
THEOREM WindowsAreLast == Spec => []WindowIsLastWholePeriod
<1>1. DigestInv => WindowIsLastWholePeriod
  <2>. SUFFICES ASSUME DigestInv, mail # None, mail.scheduled
                PROVE  LET w == mail.window IN
                       /\ StartsPeriod(mail.kind, w.from) /\ StartsPeriod(mail.kind, w.to + 1)
                       /\ w.to < today
                       /\ \A n \in (w.from + 1 .. w.to) \cup (w.to + 2 .. today) :
                            ~StartsPeriod(mail.kind, n)
    BY DEF WindowIsLastWholePeriod
  <2>1. mail.kind \in Kinds /\ Whole(mail.kind, mail.window) /\ mail.window = Previous(mail.kind, today)
    BY MailIs
  <2>2. /\ mail.window.to < today
        /\ \A n \in mail.window.to + 2 .. today : ~StartsPeriod(mail.kind, n)
    BY <2>1, PreviousIsLast DEF DigestInv
  <2>. QED
    BY <2>1, <2>2 DEF Whole
<1>. QED
  BY <1>1, DigestInvariance, PTL

-----------------------------------------------------------------------------
(* One digest after the other *)

\* The window of a trigger begins where that of the trigger before it ended.
LEMMA TriggersTile ==
    ASSUME NEW k \in Kinds, NEW t \in Dated, NEW n \in Dated, t < n, FiresOn(k, t), FiresOn(k, n),
           \A i \in t + 1 .. n - 1 : ~FiresOn(k, i)
    PROVE  Previous(k, n).from = Previous(k, t).to + 1
<1>0. t \in Days /\ n \in Days /\ t \in Int /\ n \in Int
  BY DatedDay DEF Days
<1>1. CASE k = "weekly"
  <2>1. Weekday(t) = WeeklyDay /\ Weekday(n) = WeeklyDay /\ WeeklyDay \in 0..6
    BY <1>1, ConstantsAssumption DEF FiresOn
  <2>2. ~FiresOn(k, t + 7) \/ n <= t + 7
    BY <1>0
  <2>3. FiresOn(k, t + 7)
    BY <1>0, <1>1, <2>1 DEF FiresOn, Weekday
  <2>4. n = t + 7
    BY <1>0, <2>1, <2>2, <2>3 DEF Weekday
  <2>5. /\ Previous(k, n).from = n - (7 + WeeklyDay)
        /\ Previous(k, t).to = t - (7 + WeeklyDay) + 6
    BY <1>1, <2>1 DEF Previous, PreviousWeek, WeekFrom
  <2>. QED
    BY <1>0, <2>1, <2>4, <2>5
<1>2. CASE k # "weekly"
  <2>. DEFINE u == Previous(k, t)
              w == Previous(k, n)
  <2>1. \A i \in Int : FiresOn(k, i) <=> StartsPeriod(k, i)
    BY <1>2 DEF FiresOn, StartsPeriod, Kinds
  <2>2. /\ Whole(k, u) /\ u.to < t /\ \A i \in u.to + 2 .. t : ~StartsPeriod(k, i)
        /\ Whole(k, w) /\ w.to < n /\ \A i \in w.to + 2 .. n : ~StartsPeriod(k, i)
    BY WindowShape, WindowIsWhole, PreviousIsLast
  <2>. HIDE DEF u, w
  <2>3. u.to = t - 1 /\ w.to = n - 1
    BY <1>0, <2>1, <2>2 DEF Whole, Days
  <2>4. ~(w.from < t) /\ ~(t < w.from)
    BY <1>0, <2>1, <2>2, <2>3 DEF Whole, Days
  <2>. QED
    BY <1>0, <2>2, <2>3, <2>4 DEF Whole, Days, u, w
<1>. QED
  BY <1>1, <1>2

\* t is the day of the last trigger of kind k that was dealt with.
LastTrigger(k, t) ==
    /\ t \in Dated /\ t <= today /\ FiresOn(k, t)
    /\ k \in due => t < today
    /\ \A n \in t + 1 .. today : FiresOn(k, n) => n = today /\ k \in due

\* The digests told the days up to those of the last trigger, unless some
\* triggers came to nothing.
TileOK(k) ==
    upto[k] # None =>
      /\ k \in Enabled
      /\ \E t \in Dated : /\ LastTrigger(k, t)
                          /\ upto[k] <= Previous(k, t).to
                          /\ missed[k] = 0 <=> upto[k] = Previous(k, t).to

TileInv == DigestInv /\ due \subseteq Triggers(today) /\ \A k \in Kinds : TileOK(k)

\* The trigger that fires today, after the last one.
LEMMA TriggerAfterLast ==
    ASSUME TileInv, NEW k \in Kinds, k \in due, upto[k] # None
    PROVE  LET w == Previous(k, today) IN
           /\ upto[k] \in Int /\ w.from \in Int /\ w.to \in Int /\ w.from <= w.to
           /\ w.from > upto[k]
           /\ missed[k] = 0 <=> w.from = upto[k] + 1
<1>. DEFINE w == Previous(k, today)
<1>1. PICK t \in Dated : /\ LastTrigger(k, t)
                         /\ upto[k] <= Previous(k, t).to
                         /\ missed[k] = 0 <=> upto[k] = Previous(k, t).to
  BY DEF TileInv, TileOK
<1>2. FiresOn(k, today) /\ today \in Dated /\ t < today
  BY <1>1 DEF TileInv, DigestInv, Triggers, LastTrigger
<1>3. \A i \in t + 1 .. today - 1 : ~FiresOn(k, i)
  BY <1>1, <1>2 DEF LastTrigger, Dated
<1>4. FiresOn(k, t)
  BY <1>1 DEF LastTrigger
<1>5. w.from = Previous(k, t).to + 1
  BY <1>2, <1>3, <1>4, TriggersTile
<1>6. upto[k] \in Int /\ w.from \in Int /\ w.to \in Int /\ w.from <= w.to /\ Previous(k, t).to \in Int
  BY <1>2, WindowShape, WindowIsWhole DEF Whole, Days, TileInv, DigestInv
<1>. QED
  BY <1>1, <1>5, <1>6

\* After it is dealt with, it is the last one.
LEMMA DealtWith ==
    ASSUME TileInv, NEW k \in Kinds, k \in due, due' = due \ {k}, UNCHANGED today
    PROVE  LastTrigger(k, today)'
BY DEF TileInv, DigestInv, LastTrigger, Triggers, Dated

LEMMA TileFrame ==
    ASSUME TileInv, NEW k \in Kinds, upto'[k] = upto[k], missed'[k] = missed[k],
           UNCHANGED today, k \in due <=> k \in due'
    PROVE  TileOK(k)'
BY DEF TileInv, TileOK, LastTrigger

LEMMA TileStep == TileInv /\ [Next]_vars => TileInv'
<1>. SUFFICES ASSUME TileInv, [Next]_vars PROVE TileInv'
  OBVIOUS
<1>0. DigestInv' /\ upto \in [Kinds -> Int \cup {None}] /\ missed \in [Kinds -> 0..MaxMisses] /\ MaxMisses \in Nat
  BY DigestStep, ConstantsAssumption DEF TileInv, DigestInv
<1>1. ASSUME NEW k \in Kinds, Tick(k) PROVE TileInv'
  <2>1. \A o \in Kinds \ {k} : TileOK(o)'
    BY <1>0, <1>1, TileFrame DEF Tick
  <2>2. TileOK(k)'
    <3>1. /\ upto'[k] = Previous(k, today).to /\ missed'[k] = 0 /\ k \in Enabled /\ today' = today
          /\ k \in due /\ due' = due \ {k}
      BY <1>0, <1>1 DEF Tick, TileInv, DigestInv
    <3>2. Previous(k, today).to \in Int /\ today \in Dated
      BY WindowShape, WindowIsWhole DEF Whole, Days, TileInv, DigestInv
    <3>. QED
      BY <3>1, <3>2, DealtWith DEF TileOK
  <2>. QED
    BY <1>0, <1>1, <2>1, <2>2 DEF TileInv, Tick
<1>2. ASSUME NEW k \in Kinds, Miss(k) PROVE TileInv'
  <2>1. \A o \in Kinds \ {k} : TileOK(o)'
    BY <1>0, <1>2, TileFrame DEF Miss
  <2>2. TileOK(k)'
    <3>. SUFFICES ASSUME upto[k] # None PROVE TileOK(k)'
      BY <1>2 DEF TileOK, Miss
    <3>1. /\ upto'[k] = upto[k] /\ missed'[k] = missed[k] + 1 /\ k \in Enabled /\ today' = today
          /\ k \in due /\ due' = due \ {k} /\ missed[k] \in Nat
      BY <1>0, <1>2 DEF Miss, TileInv, DigestInv
    <3>2. /\ today \in Dated /\ upto[k] < Previous(k, today).to
      BY <3>1, TriggerAfterLast DEF TileInv, DigestInv
    <3>3. LastTrigger(k, today)'
      BY <3>1, DealtWith
    <3>4. upto[k] \in Int /\ Previous(k, today).to \in Int
      BY <3>1, TriggerAfterLast
    <3>. QED
      BY <3>1, <3>2, <3>3, <3>4 DEF TileOK
  <2>. QED
    BY <1>0, <1>2, <2>1, <2>2 DEF TileInv, Miss
<1>3. ASSUME NEW k \in Kinds, SendTest(k) PROVE TileInv'
  <2>1. \A o \in Kinds : TileOK(o)'
    BY <1>3, TileFrame DEF SendTest
  <2>. QED
    BY <1>0, <1>3, <2>1 DEF TileInv, SendTest
<1>4. CASE Midnight
  <2>1. ASSUME NEW k \in Kinds, upto[k] # None PROVE TileOK(k)'
    <3>1. k \in Enabled
      BY <2>1 DEF TileInv, TileOK
    <3>2. PICK t \in Dated : /\ LastTrigger(k, t)
                             /\ upto[k] <= Previous(k, t).to
                             /\ missed[k] = 0 <=> upto[k] = Previous(k, t).to
      BY <2>1 DEF TileInv, TileOK
    <3>3. today \in Int /\ t \in Int /\ today' = today + 1 /\ due = {} /\ due' = Triggers(today + 1)
      BY <1>4 DEF Midnight, TileInv, DigestInv, Dated
    <3>4. \A n \in t + 1 .. today + 1 : FiresOn(k, n) => n = today + 1 /\ k \in due'
      BY <3>1, <3>2, <3>3 DEF LastTrigger, Triggers
    <3>5. LastTrigger(k, t)'
      BY <3>2, <3>3, <3>4 DEF LastTrigger
    <3>. QED
      BY <1>4, <3>1, <3>2, <3>5 DEF TileOK, Midnight
  <2>2. \A k \in Kinds : TileOK(k)'
    BY <1>4, <2>1 DEF TileOK, Midnight
  <2>. QED
    BY <1>0, <1>4, <2>2 DEF TileInv, Midnight
<1>5. CASE UNCHANGED vars
  <2>1. \A o \in Kinds : TileOK(o)'
    BY <1>5, TileFrame DEF vars
  <2>. QED
    BY <1>0, <1>5, <2>1 DEF TileInv, vars
<1>. QED
  BY <1>1, <1>2, <1>3, <1>4, <1>5 DEF Next

\* Each scheduled digest begins on the day after the one before it ended,
\* unless a trigger in between came to nothing; then those days are in none
\* (app.py:117-177).
THEOREM DigestsFollowEachOther == Spec => DigestsTile
<1>. DEFINE A == \A k \in Kinds : upto[k] # None /\ upto'[k] # upto[k] =>
                   /\ mail'.window.from > upto[k]
                   /\ missed[k] = 0 <=> mail'.window.from = upto[k] + 1
<1>1. Init => TileInv
  <2>1. Init => due \subseteq Triggers(today) /\ \A k \in Kinds : TileOK(k)
    BY DEF Init, TileOK
  <2>. QED
    BY <2>1, InitDigest DEF TileInv
<1>2. TileInv /\ [Next]_vars => A
  <2>. SUFFICES ASSUME TileInv, [Next]_vars, NEW k \in Kinds, upto[k] # None, upto'[k] # upto[k]
                PROVE  /\ mail'.window.from > upto[k]
                       /\ missed[k] = 0 <=> mail'.window.from = upto[k] + 1
    OBVIOUS
  <2>1. Tick(k)
    <3>1. \A o \in Kinds : Tick(o) => o = k
      BY DEF Tick, TileInv, DigestInv
    <3>. QED
      BY <3>1 DEF Next, Miss, SendTest, Midnight, vars
  <2>2. mail'.window = Previous(k, today) /\ k \in due
    <3>1. mail' = Digest(k, Previous(k, today), TRUE) /\ k \in due
      BY <2>1 DEF Tick
    <3>2. PICK s : s = TRUE
      OBVIOUS
    <3>3. Digest(k, Previous(k, today), s).window = Previous(k, today)
      BY DigestFields
    <3>. QED
      BY <3>1, <3>2, <3>3
  <2>. QED
    BY <2>2, TriggerAfterLast
<1>. HIDE DEF A
<1>3. TileInv /\ [Next]_vars => [A]_vars
  BY <1>2
<1>4. Spec => [][A]_vars
  BY <1>1, <1>3, TileStep, PTL DEF Spec
<1>. QED
  BY <1>4 DEF A, DigestsTile

-----------------------------------------------------------------------------
(* Moodboards *)

\* The day in row r (a week) and column c (a weekday) of a grid from a Monday.
GridDay(start, r, c) == start + 7 * (r - 1) + c - 1

LEMMA GridDays ==
    ASSUME NEW start \in Int, Weekday(start) = 0
    PROVE  /\ \A r \in Int, c \in 1..7 : GridDay(start, r, c) \in Int /\ Weekday(GridDay(start, r, c)) = c - 1
           /\ \A k \in Nat, n \in Int : start <= n /\ n < start + 7 * k =>
                \E r \in 1..k, c \in 1..7 : n = GridDay(start, r, c)
<1>1. ASSUME NEW r \in Int, NEW c \in 1..7
      PROVE  GridDay(start, r, c) \in Int /\ Weekday(GridDay(start, r, c)) = c - 1
  BY DEF GridDay, Weekday
<1>2. ASSUME NEW k \in Nat, NEW n \in Int, start <= n, n < start + 7 * k
      PROVE  \E r \in 1..k, c \in 1..7 : n = GridDay(start, r, c)
  <2>. DEFINE r == (n - start) \div 7 + 1
              c == ((n - start) % 7) + 1
  <2>1. r \in 1..k /\ c \in 1..7 /\ n = GridDay(start, r, c)
    BY <1>2 DEF GridDay
  <2>. QED
    BY <2>1
<1>. QED
  BY <1>1, <1>2

LEMMA MondayBefore ==
    ASSUME NEW n \in Int
    PROVE  /\ n - Weekday(n) \in Int /\ Weekday(n - Weekday(n)) = 0
           /\ n - 6 <= n - Weekday(n) /\ n - Weekday(n) <= n
BY DEF Weekday

\* Cells with different days, one for each day from a to b.
LEMMA EachDayOnce ==
    ASSUME NEW inside, NEW day, NEW a \in Int, NEW b \in Int, a <= b,
           \A p \in inside : day[p] \in a..b,
           \A p, q \in inside : day[p] = day[q] => p = q,
           \A n \in a..b : \E p \in inside : day[p] = n
    PROVE  Cardinality(inside) = b - a + 1
<1>. DEFINE f == [n \in a..b |-> CHOOSE p \in inside : day[p] = n]
<1>1. \A n \in a..b : f[n] \in inside /\ day[f[n]] = n
  OBVIOUS
<1>. HIDE DEF f
<1>2. f \in [a..b -> inside]
  BY <1>1 DEF f
<1>3. f \in Bijection(a..b, inside)
  <2>1. \A n, m \in a..b : f[n] = f[m] => n = m
    BY <1>1
  <2>2. \A p \in inside : \E n \in a..b : f[n] = p
    BY <1>1
  <2>. QED
    BY <1>2, <2>1, <2>2 DEF Bijection, Injection, Surjection, IsInjective
<1>4. IsFiniteSet(a..b) /\ Cardinality(a..b) = b - a + 1
  BY FS_Interval
<1>5. Cardinality(inside) = Cardinality(a..b)
  BY <1>3, <1>4, FS_Bijection DEF ExistsBijection
<1>. QED
  BY <1>4, <1>5

\* What the property says of a grid.
GridOK(kind, w, grid) ==
    LET inside == {p \in DOMAIN grid : grid[p].inside} IN
    /\ {grid[p].date : p \in inside} = w.from .. w.to
    /\ Cardinality(inside) = w.to - w.from + 1
    /\ \A p \in DOMAIN grid :
         /\ (IF kind = "yearly" THEN p[1] ELSE p[2]) = Weekday(grid[p].date) + 1
         /\ grid[p].mood = IF p \in inside THEN Mood(grid[p].date) ELSE None

\* Its cells show different days, each of the window among them, in the place
\* of their weekday.
GridFits(kind, w, grid) ==
    /\ w.from \in Int /\ w.to \in Int /\ w.from <= w.to
    /\ \A p \in DOMAIN grid :
         /\ grid[p].date \in Int
         /\ (IF kind = "yearly" THEN p[1] ELSE p[2]) = Weekday(grid[p].date) + 1
         /\ grid[p].inside <=> w.from <= grid[p].date /\ grid[p].date <= w.to
         /\ grid[p].mood = IF grid[p].inside THEN Mood(grid[p].date) ELSE None
    /\ \A p, q \in DOMAIN grid : grid[p].date = grid[q].date => p = q
    /\ \A n \in w.from .. w.to : \E p \in DOMAIN grid : grid[p].date = n

LEMMA GridOKWhen ==
    ASSUME NEW kind, NEW w, NEW grid, GridFits(kind, w, grid)
    PROVE  GridOK(kind, w, grid)
<1>. DEFINE inside == {p \in DOMAIN grid : grid[p].inside}
            day == [p \in inside |-> grid[p].date]
<1>0. PICK a \in Int, b \in Int : a = w.from /\ b = w.to /\ a <= b
  BY DEF GridFits
<1>1. \A p \in inside : day[p] = grid[p].date /\ day[p] \in a..b
  BY <1>0 DEF GridFits
<1>2. \A p, q \in inside : day[p] = day[q] => p = q
  BY <1>1 DEF GridFits
<1>3. \A n \in a..b : \E p \in inside : day[p] = n
  BY <1>0, <1>1 DEF GridFits
<1>. HIDE DEF day, inside
<1>4. {grid[p].date : p \in inside} = a..b
  BY <1>1, <1>3
<1>5. Cardinality(inside) = b - a + 1
  BY <1>0, <1>1, <1>2, <1>3, EachDayOnce
<1>. QED
  BY <1>0, <1>4, <1>5 DEF GridOK, GridFits, inside

\* by_date.get(n), of what the query found.
LEMMA MoodInRange ==
    ASSUME NEW a \in Int, NEW b \in Int, NEW n \in Int
    PROVE  MoodOn(DaysInRange(a, b), n) = IF a <= n /\ n <= b THEN Mood(n) ELSE None
<1>1. DOMAIN DaysInRange(a, b) = (a..b) \cap DOMAIN rows
  BY DEF DaysInRange, ListEntriesInRange
<1>2. n \in DOMAIN DaysInRange(a, b) => DaysInRange(a, b)[n].mood = rows[n].mood
  BY DEF DaysInRange
<1>. QED
  BY <1>1, <1>2 DEF MoodOn, Mood

\* The cells of k weeks from the Monday start: R[p] is the week of cell p, C[p]
\* its day of the week.
WeekGrid(kind, w, grid, start, k, R, C) ==
    /\ w.from \in Int /\ w.to \in Int /\ w.from <= w.to
    /\ start \in Int /\ Weekday(start) = 0 /\ start <= w.from
    /\ k \in Nat /\ w.to < start + 7 * k
    /\ \A p \in DOMAIN grid :
         /\ R[p] \in 1..k /\ C[p] \in 1..7
         /\ C[p] = IF kind = "yearly" THEN p[1] ELSE p[2]
         /\ grid[p].date = GridDay(start, R[p], C[p])
         /\ grid[p].inside <=> w.from <= grid[p].date /\ grid[p].date <= w.to
         /\ grid[p].mood = IF grid[p].inside THEN Mood(grid[p].date) ELSE None
    /\ \A p, q \in DOMAIN grid : R[p] = R[q] /\ C[p] = C[q] => p = q
    /\ \A r \in 1..k, c \in 1..7 : \E p \in DOMAIN grid : R[p] = r /\ C[p] = c

LEMMA WeeksFit ==
    ASSUME NEW kind, NEW w, NEW grid, NEW start, NEW k, NEW R, NEW C,
           WeekGrid(kind, w, grid, start, k, R, C)
    PROVE  GridFits(kind, w, grid)
<1>1. start \in Int /\ Weekday(start) = 0 /\ k \in Nat
  BY DEF WeekGrid
<1>2. /\ \A r \in Int, c \in 1..7 : GridDay(start, r, c) \in Int /\ Weekday(GridDay(start, r, c)) = c - 1
      /\ \A n \in Int : start <= n /\ n < start + 7 * k =>
           \E r \in 1..k, c \in 1..7 : n = GridDay(start, r, c)
  BY <1>1, GridDays
<1>3. ASSUME NEW p \in DOMAIN grid
      PROVE  /\ grid[p].date \in Int
             /\ (IF kind = "yearly" THEN p[1] ELSE p[2]) = Weekday(grid[p].date) + 1
  <2>1. PICK r \in Int, c \in 1..7 : r = R[p] /\ c = C[p] /\ grid[p].date = GridDay(start, r, c)
    BY DEF WeekGrid
  <2>2. Weekday(GridDay(start, r, c)) = c - 1 /\ GridDay(start, r, c) \in Int
    BY <1>2
  <2>3. C[p] = IF kind = "yearly" THEN p[1] ELSE p[2]
    BY DEF WeekGrid
  <2>. QED
    BY <2>1, <2>2, <2>3
<1>4. ASSUME NEW p \in DOMAIN grid, NEW q \in DOMAIN grid, grid[p].date = grid[q].date
      PROVE  p = q
  <2>1. PICK r \in Int, c \in 1..7 : r = R[p] /\ c = C[p] /\ grid[p].date = GridDay(start, r, c)
    BY DEF WeekGrid
  <2>2. PICK s \in Int, d \in 1..7 : s = R[q] /\ d = C[q] /\ grid[q].date = GridDay(start, s, d)
    BY DEF WeekGrid
  <2>3. GridDay(start, r, c) = GridDay(start, s, d)
    BY <1>4, <2>1, <2>2
  <2>4. r = s /\ c = d
    BY <1>1, <2>3 DEF GridDay
  <2>. QED
    BY <2>1, <2>2, <2>4 DEF WeekGrid
<1>5. ASSUME NEW n \in w.from .. w.to PROVE \E p \in DOMAIN grid : grid[p].date = n
  <2>1. n \in Int /\ start <= n /\ n < start + 7 * k
    BY DEF WeekGrid
  <2>2. PICK r \in 1..k, c \in 1..7 : n = GridDay(start, r, c)
    BY <1>2, <2>1
  <2>3. PICK p \in DOMAIN grid : R[p] = r /\ C[p] = c
    BY DEF WeekGrid
  <2>. QED
    BY <2>2, <2>3 DEF WeekGrid
<1>. QED
  BY <1>3, <1>4, <1>5 DEF GridFits, WeekGrid

LEMMA WeeklyFits ==
    ASSUME NEW s \in Days, Weekday(s) = 0
    PROVE  LET w == WeekFrom(s) IN
           GridFits("weekly", w, WeeklyBoard(w.from, DaysInRange(w.from, w.to)))
<1>. DEFINE w == WeekFrom(s)
            days == DaysInRange(s, s + 6)
            P == {1} \X (1..7)
            grid == [p \in P |-> Cell(s + p[2] - 1, TRUE, days)]
            R == [p \in P |-> p[1]]
            C == [p \in P |-> p[2]]
<1>1. w.from = s /\ w.to = s + 6 /\ s \in Int /\ s + 6 \in Int
  BY DEF WeekFrom, Days
<1>2. \A p \in P : p[1] = 1 /\ p[2] \in 1..7
  OBVIOUS
<1>3. \A p, q \in P : p[1] = q[1] /\ p[2] = q[2] => p = q
  OBVIOUS
<1>4. \A c \in 1..7 : <<1, c>> \in P /\ <<1, c>>[1] = 1 /\ <<1, c>>[2] = c
  OBVIOUS
<1>. HIDE DEF P, days
<1>5. ASSUME NEW p \in P
      PROVE  /\ grid[p].date = GridDay(s, 1, p[2])
             /\ grid[p].inside /\ s <= grid[p].date /\ grid[p].date <= s + 6
             /\ grid[p].mood = Mood(grid[p].date)
  <2>1. PICK n : n = s + p[2] - 1
    OBVIOUS
  <2>2. n \in Int /\ s <= n /\ n <= s + 6 /\ n = GridDay(s, 1, p[2])
    BY <1>1, <1>2, <2>1 DEF GridDay
  <2>3. MoodOn(days, n) = Mood(n)
    BY <1>1, <2>2, MoodInRange DEF days
  <2>. QED
    BY <2>1, <2>2, <2>3 DEF Cell
<1>. HIDE DEF grid
<1>6. DOMAIN grid = P /\ DOMAIN R = P /\ DOMAIN C = P
  BY DEF grid
<1>7. WeekGrid("weekly", w, grid, s, 1, R, C)
  BY <1>1, <1>2, <1>3, <1>4, <1>5, <1>6 DEF WeekGrid
<1>8. GridFits("weekly", w, grid)
  BY <1>7, WeeksFit
<1>9. WeeklyBoard(s, days) = grid
  BY DEF WeeklyBoard, grid, P
<1>. QED
  BY <1>1, <1>8, <1>9 DEF days

LEMMA MonthShort ==
    ASSUME NEW y, y \in Int, NEW m, m \in 1..12
    PROVE  DaysBeforeMonth(y, m + 1) <= DaysBeforeMonth(y, m) + 31
<1>1. m \in {1, 2, 3, 4, 5, 6, 7, 8, 9, 10, 11, 12}
  OBVIOUS
<1>. QED
  BY <1>1, MonthTable

\* The cells of monthly_moodboard_grid.
LEMMA MonthlyCells ==
    ASSUME NEW y, NEW m, NEW days
    PROVE  LET w == Month(y, m)
               start == w.from - Weekday(w.from)
               grid == MonthlyGrid(y, m, days) IN
           /\ DOMAIN grid = (1..6) \X (1..7)
           /\ \A p \in (1..6) \X (1..7) :
                /\ grid[p].date = GridDay(start, p[1], p[2])
                /\ grid[p].inside = (w.from <= grid[p].date /\ grid[p].date <= w.to)
                /\ grid[p].mood = MoodOn(days, grid[p].date)
BY DEF MonthlyGrid, Rows, Cell, GridDay

\* The six weeks that hold a month.
LEMMA MonthWeeks ==
    ASSUME NEW y \in Days, NEW m \in 1..12
    PROVE  LET w == Month(y, m)
               start == w.from - Weekday(w.from) IN
           /\ w.from \in Days /\ w.to \in Int /\ w.from + 27 <= w.to
           /\ w.from = Date(y, m, 1) /\ w.to = Date(y, m + 1, 1) - 1
           /\ start \in Int /\ Weekday(start) = 0 /\ start <= w.from
           /\ w.to < start + 42
<1>. DEFINE w == Month(y, m)
<1>1. /\ w.from = Date(y, m, 1) /\ w.to = Date(y, m + 1, 1) - 1
      /\ Date(y, m, 1) \in Days /\ Date(y, m + 1, 1) \in Days
      /\ Date(y, m, 1) + 28 <= Date(y, m + 1, 1)
  BY MonthEnds
<1>2. Date(y, m + 1, 1) <= Date(y, m, 1) + 31
  <2>1. y \in Int /\ DaysBeforeYear(y) \in Int
    BY YearType DEF Days
  <2>2. /\ DaysBeforeMonth(y, m) \in Int /\ DaysBeforeMonth(y, m + 1) \in Int
        /\ DaysBeforeMonth(y, m + 1) <= DaysBeforeMonth(y, m) + 31
    BY <2>1, MonthType, MonthShort
  <2>. QED
    BY <2>1, <2>2 DEF Date
<1>. HIDE DEF w
<1>. SUFFICES /\ w.from \in Days /\ w.to \in Int /\ w.from + 27 <= w.to
              /\ w.from - Weekday(w.from) \in Int /\ Weekday(w.from - Weekday(w.from)) = 0
              /\ w.from - Weekday(w.from) <= w.from
              /\ w.to < w.from - Weekday(w.from) + 42
  BY <1>1 DEF w
<1>3. PICK a \in Int, b \in Int : a = w.from /\ b = w.to /\ a \in Days /\ a + 27 <= b /\ b <= a + 30
  BY <1>1, <1>2 DEF Days
<1>4. a - Weekday(a) \in Int /\ Weekday(a - Weekday(a)) = 0 /\ a - 6 <= a - Weekday(a) /\ a - Weekday(a) <= a
  BY MondayBefore
<1>5. b < a - Weekday(a) + 42
  BY <1>3, <1>4
<1>. QED
  BY <1>3, <1>4, <1>5

LEMMA MonthlyFits ==
    ASSUME NEW y \in Days, NEW m \in 1..12
    PROVE  LET w == Month(y, m) IN
           GridFits("monthly", w, MonthlyGrid(y, m, DaysInRange(w.from, w.to)))
<1>. DEFINE w == Month(y, m)
            start == w.from - Weekday(w.from)
            days == DaysInRange(w.from, w.to)
            P == (1..6) \X (1..7)
            R == [p \in P |-> p[1]]
            C == [p \in P |-> p[2]]
            grid == MonthlyGrid(y, m, days)
<1>1. /\ w.from \in Int /\ w.to \in Int /\ w.from <= w.to
      /\ start \in Int /\ Weekday(start) = 0 /\ start <= w.from
      /\ w.to < start + 7 * 6
  <2>1. /\ w.from \in Days /\ w.to \in Int /\ w.from + 27 <= w.to
        /\ start \in Int /\ Weekday(start) = 0 /\ start <= w.from
        /\ w.to < start + 42
    BY MonthWeeks
  <2>. HIDE DEF w, start
  <2>. QED
    BY <2>1 DEF Days
<1>2. /\ DOMAIN grid = P
      /\ \A p \in P : /\ grid[p].date = GridDay(start, p[1], p[2])
                      /\ grid[p].inside = (w.from <= grid[p].date /\ grid[p].date <= w.to)
                      /\ grid[p].mood = MoodOn(days, grid[p].date)
  BY MonthlyCells
<1>3. \A p \in P : p[1] \in 1..6 /\ p[2] \in 1..7
  OBVIOUS
<1>p. \A p, q \in P : p[1] = q[1] /\ p[2] = q[2] => p = q
  OBVIOUS
<1>c. \A r \in 1..6, c \in 1..7 : <<r, c>> \in P /\ <<r, c>>[1] = r /\ <<r, c>>[2] = c
  OBVIOUS
<1>. HIDE DEF w, start, P, grid, days
<1>4. ASSUME NEW p \in P
      PROVE  grid[p].mood = IF grid[p].inside THEN Mood(grid[p].date) ELSE None
  <2>1. PICK n : n = grid[p].date
    OBVIOUS
  <2>2. n \in Int
    BY <1>1, <1>2, <1>3, <2>1 DEF GridDay
  <2>3. MoodOn(days, n) = IF w.from <= n /\ n <= w.to THEN Mood(n) ELSE None
    BY <1>1, <2>2, MoodInRange DEF days
  <2>. QED
    BY <1>2, <2>1, <2>3
<1>5. /\ DOMAIN R = P /\ DOMAIN C = P /\ \A p \in P : R[p] = p[1] /\ C[p] = p[2]
  OBVIOUS
<1>. HIDE DEF R, C
<1>6. WeekGrid("monthly", w, grid, start, 6, R, C)
  <2>0. ASSUME NEW r \in 1..6, NEW c \in 1..7 PROVE \E p \in P : R[p] = r /\ C[p] = c
    <3>1. <<r, c>> \in P /\ R[<<r, c>>] = r /\ C[<<r, c>>] = c
      BY <1>c, <1>5
    <3>. QED
      BY <3>1
  <2>1. \A p, q \in P : R[p] = R[q] /\ C[p] = C[q] => p = q
    BY <1>p, <1>5
  <2>2. \A p \in P : R[p] \in 1..6 /\ C[p] \in 1..7 /\ grid[p].date = GridDay(start, R[p], C[p])
    BY <1>2, <1>3, <1>5
  <2>. QED
    <3>1. \A p \in P : /\ C[p] = IF "monthly" = "yearly" THEN p[1] ELSE p[2]
                       /\ grid[p].inside <=> w.from <= grid[p].date /\ grid[p].date <= w.to
      BY <1>2, <1>5
    <3>2. DOMAIN grid = P
      BY <1>2
    <3>. QED
      BY <1>1, <1>4, <2>0, <2>1, <2>2, <3>1, <3>2 DEF WeekGrid
<1>7. GridFits("monthly", w, grid)
  BY <1>6, WeeksFit
<1>. QED
  BY <1>7 DEF w, grid, days

LEMMA YearlyFits ==
    ASSUME NEW y \in Days
    PROVE  LET w == Year(y) IN
           GridFits("yearly", w, YearlyGrid(y, DaysInRange(w.from, w.to)))
<1>. DEFINE w == Year(y)
            start == w.from - Weekday(w.from)
            weeks == (w.to - start) \div 7 + 1
            days == DaysInRange(w.from, w.to)
            P == (1..7) \X (1..weeks)
            R == [p \in P |-> p[2]]
            C == [p \in P |-> p[1]]
            grid == YearlyGrid(y, days)
<1>1. PICK a \in Int, b \in Int : a = w.from /\ b = w.to /\ a <= b
  BY YearEnds
<1>2. start = a - Weekday(a)
  BY <1>1
<1>3. start \in Int /\ Weekday(start) = 0 /\ start <= a
  BY <1>2, MondayBefore
<1>4. /\ DOMAIN grid = P
      /\ \A p \in P : /\ grid[p].date = GridDay(start, p[2], p[1])
                      /\ grid[p].inside = (w.from <= grid[p].date /\ grid[p].date <= w.to)
                      /\ grid[p].mood = IF grid[p].inside THEN MoodOn(days, grid[p].date) ELSE None
  BY DEF YearlyGrid, GridDay
<1>5. \A p \in P : p[1] \in 1..7 /\ p[2] \in 1..weeks
  OBVIOUS
<1>6. \A p, q \in P : p[1] = q[1] /\ p[2] = q[2] => p = q
  OBVIOUS
<1>7. \A r \in 1..weeks, c \in 1..7 : <<c, r>> \in P /\ <<c, r>>[1] = c /\ <<c, r>>[2] = r
  OBVIOUS
<1>. HIDE DEF w, start, P, grid, days
<1>8. weeks \in Nat /\ b < start + 7 * weeks
  BY <1>1, <1>3
<1>9. /\ DOMAIN R = P /\ DOMAIN C = P /\ \A p \in P : R[p] = p[2] /\ C[p] = p[1]
  OBVIOUS
<1>. HIDE DEF R, C, weeks
<1>10. ASSUME NEW p \in P
       PROVE  grid[p].mood = IF grid[p].inside THEN Mood(grid[p].date) ELSE None
  <2>1. PICK n : n = grid[p].date
    OBVIOUS
  <2>2. n \in Int
    BY <1>3, <1>4, <1>5, <1>8, <2>1 DEF GridDay
  <2>3. MoodOn(days, n) = IF a <= n /\ n <= b THEN Mood(n) ELSE None
    BY <1>1, <2>2, MoodInRange DEF days
  <2>. QED
    BY <1>1, <1>4, <2>1, <2>3
<1>11. WeekGrid("yearly", w, grid, start, weeks, R, C)
  <2>1. ASSUME NEW r \in 1..weeks, NEW c \in 1..7 PROVE \E p \in P : R[p] = r /\ C[p] = c
    <3>1. <<c, r>> \in P /\ R[<<c, r>>] = r /\ C[<<c, r>>] = c
      BY <1>7, <1>9
    <3>. QED
      BY <3>1
  <2>2. \A p, q \in P : R[p] = R[q] /\ C[p] = C[q] => p = q
    BY <1>6, <1>9
  <2>3. \A p \in P : R[p] \in 1..weeks /\ C[p] \in 1..7 /\ grid[p].date = GridDay(start, R[p], C[p])
    BY <1>4, <1>5, <1>9
  <2>4. \A p \in P : /\ C[p] = IF "yearly" = "yearly" THEN p[1] ELSE p[2]
                     /\ grid[p].inside <=> w.from <= grid[p].date /\ grid[p].date <= w.to
    BY <1>4, <1>9
  <2>5. DOMAIN grid = P /\ w.from \in Int /\ w.to \in Int /\ w.from <= w.to /\ start <= w.from
        /\ w.to < start + 7 * weeks
    BY <1>1, <1>3, <1>4, <1>8
  <2>. QED
    BY <1>3, <1>8, <1>10, <2>1, <2>2, <2>3, <2>4, <2>5 DEF WeekGrid
<1>12. GridFits("yearly", w, grid)
  BY <1>11, WeeksFit
<1>. QED
  BY <1>12 DEF w, grid, days

\* The year, and the month, of a window's first day.
LEMMA FirstDay ==
    ASSUME NEW y \in Days
    PROVE  /\ YearOf(Year(y).from) = y
           /\ \A m \in 1..12 : YearOf(Month(y, m).from) = y /\ MonthOf(Month(y, m).from) = m
<1>0. y \in Int
  BY DEF Days
<1>1. YearOf(Year(y).from) = y
  <2>1. PICK n : n = Year(y).from
    OBVIOUS
  <2>2. n \in Nat \ {0} /\ InYear(n, y)
    BY <2>1, YearEnds DEF InYear
  <2>. QED
    BY <1>0, <2>1, <2>2, YearIs
<1>2. ASSUME NEW m \in 1..12 PROVE YearOf(Month(y, m).from) = y /\ MonthOf(Month(y, m).from) = m
  <2>1. PICK n : n = Month(y, m).from
    OBVIOUS
  <2>2. /\ n = Date(y, m, 1) /\ n \in Days /\ Date(y, m + 1, 1) \in Days
        /\ n + 28 <= Date(y, m + 1, 1)
    BY <2>1, MonthEnds
  <2>3. n \in Nat \ {0} /\ InMonth(n, y, m)
    BY <2>2 DEF InMonth, Days
  <2>. QED
    BY <1>0, <2>1, <2>3, CalendarDay
<1>. QED
  BY <1>1, <1>2

\* The parts of each kind of digest.
LEMMA BodyOf ==
    ASSUME NEW w, NEW s
    PROVE  LET days == DaysInRange(w.from, w.to)
               y == YearOf(w.from) IN
           /\ Digest("weekly", w, s).body = WeeklyDigest(w.from, days)
           /\ Digest("monthly", w, s).body = MonthlyDigest(y, MonthOf(w.from), days)
           /\ Digest("yearly", w, s).body = YearlyDigest(y, days)
BY DEF Digest

\* In the moodboard of a digest every day of its window has one cell, in the
\* place of its weekday, with its mood (moodboard.py:35-99).
THEOREM GridsShowEachDayOnce == Spec => []GridShowsEachDayOnce
<1>1. ASSUME DigestInv, mail # None PROVE GridOK(mail.kind, mail.window, mail.body.grid)
  <2>1. PICK k, w, s : k = mail.kind /\ w = mail.window /\ s = mail.scheduled
    OBVIOUS
  <2>2. mail = Digest(k, w, s) /\ IsWindow(k, w)
    BY <1>1, <2>1, MailIs
  <2>3. CASE k = "weekly" /\ IsWeek(w)
    <3>1. PICK n \in Days : Weekday(n) = 0 /\ w = WeekFrom(n)
      BY <2>3 DEF IsWeek
    <3>2. GridFits("weekly", w, WeeklyBoard(w.from, DaysInRange(w.from, w.to)))
      BY <3>1, WeeklyFits
    <3>3. mail.body = WeeklyDigest(w.from, DaysInRange(w.from, w.to))
      BY <2>2, <2>3, BodyOf
    <3>4. mail.body.grid = WeeklyBoard(w.from, DaysInRange(w.from, w.to))
      BY <3>3 DEF WeeklyDigest
    <3>. QED
      BY <2>1, <2>3, <3>2, <3>4, GridOKWhen
  <2>4. CASE k = "monthly" /\ IsMonth(w)
    <3>1. PICK y \in Days, m \in 1..12 : w = Month(y, m)
      BY <2>4 DEF IsMonth
    <3>2. GridFits("monthly", w, MonthlyGrid(y, m, DaysInRange(w.from, w.to)))
      BY <3>1, MonthlyFits
    <3>3. mail.body = MonthlyDigest(y, m, DaysInRange(w.from, w.to))
      BY <2>2, <2>4, <3>1, BodyOf, FirstDay
    <3>4. mail.body.grid = MonthlyGrid(y, m, DaysInRange(w.from, w.to))
      BY <3>3 DEF MonthlyDigest
    <3>. QED
      BY <2>1, <2>4, <3>2, <3>4, GridOKWhen
  <2>5. CASE k = "yearly" /\ IsYear(w)
    <3>1. PICK y \in Days : w = Year(y)
      BY <2>5 DEF IsYear
    <3>2. GridFits("yearly", w, YearlyGrid(y, DaysInRange(w.from, w.to)))
      BY <3>1, YearlyFits
    <3>3. mail.body = YearlyDigest(y, DaysInRange(w.from, w.to))
      BY <2>2, <2>5, <3>1, BodyOf, FirstDay
    <3>4. mail.body.grid = YearlyGrid(y, DaysInRange(w.from, w.to))
      BY <3>3 DEF YearlyDigest
    <3>. QED
      BY <2>1, <2>5, <3>2, <3>4, GridOKWhen
  <2>. QED
    BY <2>2, <2>3, <2>4, <2>5 DEF IsWindow
<1>2. DigestInv => GridShowsEachDayOnce
  BY <1>1 DEF GridShowsEachDayOnce, GridOK
<1>. QED
  BY <1>2, DigestInvariance, PTL

-----------------------------------------------------------------------------
(* The calendar page *)

\* The calendar page of the month of today has a cell for today, and shows the
\* mood of every day that it has a cell for (routes_browse.py:84-101).
THEOREM CalendarPagesAreWhole == Spec => []CalendarPageIsWhole
<1>1. ASSUME DigestInv PROVE CalendarPageIsWhole
  <2>. DEFINE P == (1..6) \X (1..7)
  <2>1. PICK y \in Days, m \in 1..12 : y = YearOf(today) /\ m = MonthOf(today) /\ InMonth(today, y, m)
    BY <1>1, DatedDay DEF DigestInv
  <2>2. PICK w : w = Month(y, m)
    OBVIOUS
  <2>3. PICK a : a = w.from
    OBVIOUS
  <2>4. PICK start : start = a - Weekday(a)
    OBVIOUS
  <2>5. /\ a = Date(y, m, 1) /\ w.to = Date(y, m + 1, 1) - 1 /\ w.to \in Int /\ a \in Days
        /\ start \in Int /\ Weekday(start) = 0 /\ start <= a /\ w.to < start + 42
    BY <2>2, <2>3, <2>4, MonthWeeks
  <2>6. PICK days : days = DaysInRange(start, start + 41)
    OBVIOUS
  <2>7. PICK grid : grid = MonthlyGrid(y, m, days)
    OBVIOUS
  <2>8. /\ DOMAIN grid = P
        /\ \A p \in P : /\ grid[p].date = GridDay(start, p[1], p[2])
                        /\ grid[p].inside = (a <= grid[p].date /\ grid[p].date <= w.to)
                        /\ grid[p].mood = MoodOn(days, grid[p].date)
    BY <2>2, <2>3, <2>4, <2>7, MonthlyCells
  <2>9. CalendarPage(YearOf(today), MonthOf(today)) = grid
    BY <2>1, <2>4, <2>5, <2>6, <2>7 DEF CalendarPage, PageDays
  <2>10. \A p \in P : p[1] \in 1..6 /\ p[2] \in 1..7
    OBVIOUS
  <2>11. \A r \in 1..6, c \in 1..7 : <<r, c>> \in P /\ <<r, c>>[1] = r /\ <<r, c>>[2] = c
    OBVIOUS
  <2>. HIDE DEF P
  <2>12. ASSUME NEW p \in P PROVE grid[p].mood = Mood(grid[p].date)
    <3>1. PICK n : n = grid[p].date
      OBVIOUS
    <3>2. n \in Int /\ start <= n /\ n <= start + 41
      BY <2>5, <2>8, <2>10, <3>1 DEF GridDay
    <3>3. MoodOn(days, n) = IF start <= n /\ n <= start + 41 THEN Mood(n) ELSE None
      BY <2>5, <2>6, <3>2, MoodInRange
    <3>. QED
      BY <2>8, <3>1, <3>2, <3>3
  <2>13. \E p \in P : grid[p].date = today /\ grid[p].inside
    <3>1. today \in Int /\ a <= today /\ today <= w.to
      <4>1. Date(y, m + 1, 1) \in Days
        BY MonthEnds
      <4>. QED
        BY <1>1, <2>1, <2>5, <4>1 DEF DigestInv, Dated, InMonth, Days
    <3>2. PICK r \in 1..6, c \in 1..7 : today = GridDay(start, r, c)
      <4>1. start <= today /\ today < start + 7 * 6
        BY <2>5, <3>1 DEF Days
      <4>2. \A k \in Nat, n \in Int : start <= n /\ n < start + 7 * k =>
              \E r \in 1..k, c \in 1..7 : n = GridDay(start, r, c)
        BY <2>5, GridDays
      <4>3. 6 \in Nat
        OBVIOUS
      <4>. QED
        BY <3>1, <4>1, <4>2, <4>3
    <3>3. PICK p \in P : p[1] = r /\ p[2] = c
      BY <2>11
    <3>4. grid[p].date = today
      BY <2>8, <3>2, <3>3
    <3>. QED
      BY <2>8, <3>1, <3>4
  <2>. QED
    BY <2>8, <2>9, <2>12, <2>13 DEF CalendarPageIsWhole
<1>. QED
  BY <1>1, DigestInvariance, PTL

-----------------------------------------------------------------------------
(* The longest streak *)

LEMMA Least ==
    ASSUME NEW T, T \subseteq Nat, T # {}
    PROVE  \E n \in T : \A m \in T : n <= m
<1>. DEFINE Less == OpToRel(<, Nat)
<1>1. IsWellFoundedOn(Less, Nat)
  BY NatLessThanWellFounded
<1>2. \A m, n \in Nat : m < n => <<m, n>> \in Less
  BY DEF OpToRel
<1>. HIDE DEF Less
<1>3. PICK n \in T : \A m \in T : ~(<<m, n>> \in Less)
  BY <1>1, WFMin
<1>4. ASSUME NEW m \in T PROVE n <= m
  <2>1. ~(m < n)
    BY <1>2, <1>3
  <2>. QED
    BY <2>1
<1>. QED
  BY <1>4

LEMMA MaxOf ==
    ASSUME NEW S, NEW b \in Int, S # {}, \A x \in S : x \in Int /\ x <= b
    PROVE  Max(S) \in S /\ \A x \in S : x <= Max(S)
<1>. DEFINE T == {n \in Nat : b - n \in S}
<1>1. T # {} /\ T \subseteq Nat
  <2>1. PICK x \in S : x \in Int /\ x <= b
    OBVIOUS
  <2>2. b - x \in Nat /\ b - (b - x) = x
    BY <2>1
  <2>3. b - x \in T
    BY <2>1, <2>2
  <2>. QED
    BY <2>3
<1>2. PICK n \in T : \A m \in T : n <= m
  <2>. HIDE DEF T
  <2>. QED
    BY <1>1, Least
<1>3. b - n \in S /\ n \in Nat
  OBVIOUS
<1>4. ASSUME NEW x \in S PROVE b - n >= x
  <2>1. x \in Int /\ b - x \in Nat /\ b - (b - x) = x
    OBVIOUS
  <2>2. b - x \in T
    BY <2>1
  <2>3. n <= b - x
    BY <1>2, <2>2
  <2>. QED
    BY <1>3, <2>1, <2>3
<1>5. Max(S) \in S /\ \A x \in S : Max(S) >= x
  BY <1>3, <1>4 DEF Max
<1>. QED
  BY <1>5

LEMMA MinOf ==
    ASSUME NEW S, NEW a \in Int, S # {}, \A x \in S : x \in Int /\ a <= x
    PROVE  Min(S) \in S /\ \A x \in S : Min(S) <= x
<1>. DEFINE T == {n \in Nat : a + n \in S}
<1>1. T # {} /\ T \subseteq Nat
  <2>1. PICK x \in S : x \in Int /\ a <= x
    OBVIOUS
  <2>2. x - a \in Nat /\ a + (x - a) = x
    BY <2>1
  <2>3. x - a \in T
    BY <2>1, <2>2
  <2>. QED
    BY <2>3
<1>2. PICK n \in T : \A m \in T : n <= m
  <2>. HIDE DEF T
  <2>. QED
    BY <1>1, Least
<1>3. a + n \in S /\ n \in Nat
  OBVIOUS
<1>4. ASSUME NEW x \in S PROVE a + n <= x
  <2>1. x \in Int /\ x - a \in Nat /\ a + (x - a) = x
    OBVIOUS
  <2>2. x - a \in T
    BY <2>1
  <2>. QED
    BY <1>2, <1>3, <2>1, <2>2
<1>. QED
  BY <1>3, <1>4 DEF Min

\* cur[n] of _longest_streak: the days since the last one without an entry.
Reaches(dates, cur) == cur = [n \in dates |-> IF n - 1 \in dates THEN cur[n - 1] + 1 ELSE 1]

LEMMA StreakExists ==
    ASSUME NEW dates, NEW a \in Int, NEW b \in Int, dates \subseteq a..b
    PROVE  \E cur : Reaches(dates, cur)
<1>. DEFINE Gaps(n) == {x \in a - 1 .. n - 1 : x \notin dates}
            g == [n \in dates |-> n - Max(Gaps(n))]
<1>1. ASSUME NEW n \in dates
      PROVE  Max(Gaps(n)) \in Gaps(n) /\ \A x \in Gaps(n) : x <= Max(Gaps(n))
  <2>1. n \in Int /\ a - 1 \in Gaps(n)
    OBVIOUS
  <2>2. n - 1 \in Int /\ Gaps(n) # {} /\ \A x \in Gaps(n) : x \in Int /\ x <= n - 1
    BY <2>1
  <2>. HIDE DEF Gaps
  <2>. QED
    BY <2>2, MaxOf
<1>2. ASSUME NEW n \in dates, n - 1 \in dates PROVE g[n] = g[n - 1] + 1
  <2>1. Gaps(n) = Gaps(n - 1) /\ n \in Int
    BY <1>2
  <2>2. Max(Gaps(n - 1)) \in Int
    BY <1>1, <1>2
  <2>3. g[n] = n - Max(Gaps(n - 1)) /\ g[n - 1] = (n - 1) - Max(Gaps(n - 1))
    BY <1>2, <2>1
  <2>. HIDE DEF g, Gaps
  <2>. QED
    BY <2>1, <2>2, <2>3
<1>3. ASSUME NEW n \in dates, n - 1 \notin dates PROVE g[n] = 1
  <2>1. n \in Int /\ n - 1 \in Gaps(n)
    BY <1>3
  <2>2. Max(Gaps(n)) = n - 1
    BY <1>1, <2>1
  <2>3. g[n] = n - Max(Gaps(n))
    OBVIOUS
  <2>. HIDE DEF g, Gaps
  <2>. QED
    BY <2>1, <2>2, <2>3
<1>4. DOMAIN g = dates /\ g = [n \in dates |-> g[n]]
  OBVIOUS
<1>. HIDE DEF g
<1>5. g = [n \in dates |-> IF n - 1 \in dates THEN g[n - 1] + 1 ELSE 1]
  BY <1>2, <1>3, <1>4
<1>. QED
  BY <1>5 DEF Reaches

\* Its value on day n: the run that ends on n, and no longer one.
LEMMA StreakReaches ==
    ASSUME NEW dates, NEW a \in Int, NEW b \in Int, dates \subseteq a..b,
           NEW cur, Reaches(dates, cur)
    PROVE  \A n \in dates : /\ cur[n] \in Nat \ {0} /\ cur[n] <= n - a + 1
                            /\ n - cur[n] + 1 .. n \subseteq dates /\ n - cur[n] \notin dates
<1>. DEFINE P(n) == /\ cur[n] \in Nat \ {0} /\ cur[n] <= n - a + 1
                    /\ \A x \in n - cur[n] + 1 .. n : x \in dates
                    /\ n - cur[n] \notin dates
            T == {k \in Nat : a + k \in dates => P(a + k)}
<1>0. \A n \in dates : /\ n \in Int /\ a <= n
                       /\ cur[n] = IF n - 1 \in dates THEN cur[n - 1] + 1 ELSE 1
  BY DEF Reaches
<1>1. ASSUME NEW n \in dates, n - 1 \notin dates PROVE P(n)
  <2>1. cur[n] = 1 /\ n \in Int /\ a <= n
    BY <1>0, <1>1
  <2>. QED
    BY <1>1, <2>1
<1>2. ASSUME NEW n \in dates, n - 1 \in dates, P(n - 1) PROVE P(n)
  <2>1. PICK c \in Nat \ {0} : c = cur[n - 1]
    BY <1>2
  <2>2. cur[n] = c + 1 /\ n \in Int /\ a <= n
    BY <1>0, <1>2, <2>1
  <2>3. /\ c <= (n - 1) - a + 1
        /\ \A x \in (n - 1) - c + 1 .. n - 1 : x \in dates
        /\ (n - 1) - c \notin dates
    BY <1>2, <2>1
  <2>4. c + 1 <= n - a + 1 /\ n - (c + 1) \notin dates
    <3>1. n - (c + 1) = (n - 1) - c
      BY <2>2
    <3>. QED
      BY <2>2, <2>3, <3>1
  <2>5. \A x \in n - (c + 1) + 1 .. n : x \in dates
    BY <1>2, <2>2, <2>3
  <2>. QED
    BY <2>2, <2>4, <2>5
<1>. HIDE DEF P
<1>3. 0 \in T
  <2>1. a + 0 = a /\ a - 1 \notin dates
    BY <1>0
  <2>. QED
    BY <1>1, <2>1
<1>4. ASSUME NEW k \in Nat, k \in T PROVE k + 1 \in T
  <2>. SUFFICES ASSUME a + (k + 1) \in dates PROVE P(a + (k + 1))
    OBVIOUS
  <2>1. (a + (k + 1)) - 1 = a + k
    OBVIOUS
  <2>. QED
    BY <1>1, <1>2, <1>4, <2>1
<1>. HIDE DEF T
<1>5. \A k \in Nat : k \in T
  BY <1>3, <1>4, Induction
<1>6. ASSUME NEW n \in dates PROVE P(n)
  <2>1. n - a \in T /\ a + (n - a) = n
    BY <1>0, <1>5
  <2>. QED
    BY <2>1 DEF T
<1>. QED
  BY <1>6 DEF P

\* _longest_streak, of the dates from day a to day b.
LEMMA LongestStreakIs ==
    ASSUME NEW dates, NEW a \in Int, NEW b \in Int, dates \subseteq a..b
    PROVE  LET k == LongestStreak(dates) IN
           /\ k \in Nat
           /\ k > 0 => \E n \in dates : n .. n + k - 1 \subseteq dates
           /\ ~\E n \in dates : n .. n + k \subseteq dates
<1>. DEFINE cur == CHOOSE g : g = [n \in dates |-> IF n - 1 \in dates THEN g[n - 1] + 1 ELSE 1]
<1>1. Reaches(dates, cur)
  BY StreakExists DEF Reaches
<1>2. LongestStreak(dates) = IF dates = {} THEN 0 ELSE Max({cur[n] : n \in dates})
  BY DEF LongestStreak
<1>. HIDE DEF cur
<1>3. \A n \in dates : /\ n \in Int /\ n <= b /\ cur[n] \in Nat \ {0} /\ cur[n] <= n - a + 1
                       /\ n - cur[n] + 1 .. n \subseteq dates /\ n - cur[n] \notin dates
  <2>1. \A n \in dates : /\ cur[n] \in Nat \ {0} /\ cur[n] <= n - a + 1
                         /\ n - cur[n] + 1 .. n \subseteq dates /\ n - cur[n] \notin dates
    BY <1>1, StreakReaches
  <2>2. \A n \in dates : n \in Int /\ n <= b
    OBVIOUS
  <2>. QED
    BY <2>1, <2>2
<1>4. CASE dates = {}
  BY <1>2, <1>4
<1>5. CASE dates # {}
  <2>. DEFINE S == {cur[n] : n \in dates}
  <2>0. ASSUME NEW n \in dates PROVE cur[n] \in Int /\ cur[n] <= b - a + 1
    BY <1>3
  <2>1. S # {} /\ b - a + 1 \in Int /\ \A x \in S : x \in Int /\ x <= b - a + 1
    <3>1. S # {}
      BY <1>5
    <3>2. ASSUME NEW x \in S PROVE x \in Int /\ x <= b - a + 1
      <4>1. PICK n \in dates : x = cur[n]
        OBVIOUS
      <4>. QED
        BY <2>0, <4>1
    <3>. HIDE DEF S
    <3>. QED
      BY <3>1, <3>2
  <2>2. PICK k : k = LongestStreak(dates)
    OBVIOUS
  <2>3. k \in S /\ \A x \in S : x <= k
    <3>. HIDE DEF S
    <3>1. k = Max(S)
      BY <1>2, <1>5, <2>2 DEF S
    <3>. QED
      BY <2>1, <3>1, MaxOf
  <2>4. PICK n \in dates : k = cur[n]
    BY <2>3
  <2>5. k \in Nat \ {0} /\ n \in Int /\ n - k + 1 \in dates /\ n - k + 1 .. (n - k + 1) + k - 1 \subseteq dates
    BY <1>3, <2>4
  <2>6. ASSUME NEW e \in dates, e .. e + k \subseteq dates PROVE FALSE
    <3>1. e \in Int /\ e + k \in dates
      BY <1>3, <2>5, <2>6
    <3>2. cur[e + k] <= k /\ cur[e + k] \in Nat \ {0} /\ (e + k) - cur[e + k] \notin dates
      BY <1>3, <2>3, <3>1
    <3>3. (e + k) - cur[e + k] \in e .. e + k
      BY <2>5, <3>1, <3>2
    <3>. QED
      BY <2>6, <3>2, <3>3
  <2>. QED
    BY <2>2, <2>5, <2>6
<1>. QED
  BY <1>4, <1>5

\* The longest streak of a yearly digest is the length of some run of days of
\* the year that all have entries, and of no longer one (yearly.py:69-81).
THEOREM StreaksAreLongest == Spec => []StreakIsLongest
<1>1. ASSUME DigestInv PROVE StreakIsLongest
  <2>. SUFFICES ASSUME mail # None, mail.kind = "yearly"
                PROVE  LET written == (mail.window.from .. mail.window.to) \cap DOMAIN rows
                           Run(length) == \E n \in written :
                                            n .. n + length - 1 \subseteq written IN
                       /\ mail.body.streak > 0 => Run(mail.body.streak)
                       /\ ~Run(mail.body.streak + 1)
    BY DEF StreakIsLongest
  <2>1. PICK w, s : w = mail.window /\ s = mail.scheduled
    OBVIOUS
  <2>2. mail = Digest("yearly", w, s) /\ w.from \in Int /\ w.to \in Int
    BY <1>1, <2>1, MailIs DEF Whole, Days
  <2>3. PICK a, b, dates : a \in Int /\ b \in Int /\ a = w.from /\ b = w.to /\ dates = (a..b) \cap DOMAIN rows
    BY <2>2
  <2>4. DOMAIN DaysInRange(w.from, w.to) = dates
    BY <2>3 DEF DaysInRange, ListEntriesInRange
  <2>5. mail.body = YearlyDigest(YearOf(w.from), DaysInRange(w.from, w.to))
    BY <2>2, BodyOf
  <2>6. mail.body.streak = LongestStreak(dates)
    BY <2>4, <2>5 DEF YearlyDigest
  <2>7. PICK k : k = LongestStreak(dates)
    OBVIOUS
  <2>8. /\ k \in Nat
        /\ k > 0 => \E n \in dates : n .. n + k - 1 \subseteq dates
        /\ ~\E n \in dates : n .. n + k \subseteq dates
    BY <2>3, <2>7, LongestStreakIs
  <2>9. ~\E n \in dates : n .. n + (k + 1) - 1 \subseteq dates
    <3>1. \A n \in dates : n + (k + 1) - 1 = n + k
      BY <2>3, <2>8
    <3>. QED
      BY <2>8, <3>1
  <2>10. (mail.window.from .. mail.window.to) \cap DOMAIN rows = dates /\ mail.body.streak = k
    BY <2>1, <2>3, <2>6, <2>7
  <2>. QED
    BY <2>8, <2>9, <2>10
<1>. QED
  BY <1>1, DigestInvariance, PTL

-----------------------------------------------------------------------------
(* The highlights of a month *)

Before(set, n) == {o \in set : o < n}

LEMMA FiniteDays ==
    ASSUME NEW a \in Int, NEW b \in Int, NEW set, set \subseteq a..b
    PROVE  IsFiniteSet(set) /\ Cardinality(set) \in Nat
<1>1. IsFiniteSet(a..b)
  BY FS_Interval
<1>2. IsFiniteSet(set)
  BY <1>1, FS_Subset
<1>. QED
  BY <1>2, FS_CardinalityType

LEMMA SmallerSet ==
    ASSUME NEW S, IsFiniteSet(S), NEW T, T \subseteq S
    PROVE  Cardinality(T) \in Nat /\ Cardinality(T) <= Cardinality(S)
BY FS_Subset, FS_CardinalityType

\* The k earliest days of a set are at most k, and exactly k when one of the
\* set is not among them; that one comes after them.
LEMMA EarliestAre ==
    ASSUME NEW a \in Int, NEW b \in Int, NEW set, set \subseteq a..b, NEW k \in Nat
    PROVE  /\ Earliest(set, k) \subseteq set
           /\ Cardinality(Earliest(set, k)) \in Nat /\ Cardinality(Earliest(set, k)) <= k
           /\ \A n \in set \ Earliest(set, k) :
                /\ Cardinality(Earliest(set, k)) = k
                /\ \A h \in Earliest(set, k) : h < n
<1>. DEFINE E == {n \in set : Cardinality(Before(set, n)) < k}
<1>0. E = Earliest(set, k) /\ E \subseteq set
  BY DEF Earliest, Before
<1>1. IsFiniteSet(set) /\ IsFiniteSet(E) /\ Cardinality(E) \in Nat
  BY FiniteDays
<1>2. ASSUME NEW n \in set
      PROVE  n \in Int /\ Cardinality(Before(set, n)) \in Nat /\ IsFiniteSet(Before(set, n))
  <2>1. n \in Int
    OBVIOUS
  <2>2. Before(set, n) \subseteq set
    BY DEF Before
  <2>3. Before(set, n) \subseteq a..b
    BY <2>2
  <2>. QED
    BY <2>1, <2>3, FiniteDays
<1>3. \A n \in set : n \in E <=> Cardinality(Before(set, n)) < k
  OBVIOUS
<1>. HIDE DEF E
<1>4. Cardinality(E) <= k
  <2>1. CASE E = {}
    BY <2>1, FS_EmptySet
  <2>2. CASE E # {}
    <3>1. \A x \in E : x \in Int /\ x <= b
      BY <1>0
    <3>2. PICK h \in E : \A x \in E : x <= h
      BY <2>2, <3>1, MaxOf
    <3>3. h \in set /\ Cardinality(Before(set, h)) < k /\ Cardinality(Before(set, h)) \in Nat
      BY <1>0, <1>2, <1>3
    <3>4. E \ {h} \subseteq Before(set, h)
      <4>1. ASSUME NEW x \in E, x # h PROVE x < h
        BY <3>1, <3>2, <4>1
      <4>. QED
        BY <1>0, <4>1 DEF Before
    <3>5. Cardinality(E \ {h}) <= Cardinality(Before(set, h))
      BY <1>2, <3>3, <3>4, SmallerSet
    <3>6. Cardinality(E \ {h}) = Cardinality(E) - 1
      BY <1>1, FS_RemoveElement
    <3>. QED
      BY <1>1, <3>3, <3>5, <3>6
  <2>. QED
    BY <2>1, <2>2
<1>5. ASSUME NEW n \in set, NEW h \in E, n <= h PROVE n \in E
  <2>1. h \in set
    BY <1>0
  <2>2. Before(set, n) \subseteq Before(set, h)
    <3>1. ASSUME NEW o \in set, o < n PROVE o < h
      <4>1. o \in Int /\ n \in Int /\ h \in Int
        BY <1>2, <2>1
      <4>. QED
        BY <1>5, <3>1, <4>1
    <3>. QED
      BY <3>1 DEF Before
  <2>3. Cardinality(Before(set, n)) <= Cardinality(Before(set, h))
    BY <1>2, <2>1, <2>2, SmallerSet
  <2>. QED
    BY <1>2, <1>3, <2>1, <2>3
<1>6. ASSUME NEW n \in set \ E PROVE \A h \in E : h < n
  BY <1>0, <1>2, <1>5
<1>7. ASSUME NEW n \in set \ E PROVE k <= Cardinality(E)
  <2>. DEFINE late == set \ E
  <2>1. late # {} /\ \A x \in late : x \in Int /\ a <= x
    OBVIOUS
  <2>2. PICK m \in late : \A x \in late : m <= x
    <3>. HIDE DEF late
    <3>. QED
      BY <2>1, MinOf
  <2>3. Before(set, m) \subseteq E
    <3>1. ASSUME NEW o \in Before(set, m), o \notin E PROVE FALSE
      <4>1. o \in late /\ o < m /\ o \in Int /\ m \in Int
        BY <1>2, <2>1, <3>1 DEF Before
      <4>2. m <= o
        BY <2>2, <4>1
      <4>. QED
        BY <4>1, <4>2
    <3>. QED
      BY <3>1
  <2>4. Cardinality(Before(set, m)) <= Cardinality(E)
    BY <1>1, <2>3, SmallerSet
  <2>5. ~(Cardinality(Before(set, m)) < k) /\ Cardinality(Before(set, m)) \in Nat
    BY <1>2, <1>3
  <2>. QED
    BY <1>1, <2>4, <2>5
<1>. QED
  BY <1>0, <1>1, <1>4, <1>6, <1>7

\* So a set of at least k days has k earliest ones.
LEMMA EarliestEnough ==
    ASSUME NEW a \in Int, NEW b \in Int, NEW set, set \subseteq a..b, NEW k \in Nat,
           Cardinality(set) >= k
    PROVE  Cardinality(Earliest(set, k)) = k
<1>1. CASE set \subseteq Earliest(set, k)
  <2>1. Earliest(set, k) = set
    BY <1>1, EarliestAre
  <2>2. Cardinality(Earliest(set, k)) \in Nat /\ Cardinality(Earliest(set, k)) <= k
    BY EarliestAre
  <2>. QED
    BY <2>1, <2>2
<1>2. CASE ~(set \subseteq Earliest(set, k))
  BY <1>2, EarliestAre
<1>. QED
  BY <1>1, <1>2

\* What the property says of the days chosen.
Better(days, chosen) ==
    LET rare == HasRareTag(days)
        Rank(n) == IF n \in HasPhoto(days)
                   THEN IF n \in rare THEN 3 ELSE 2
                   ELSE IF n \in rare THEN 1 ELSE 0 IN
    /\ chosen \subseteq DOMAIN days /\ Cardinality(chosen) <= 4
    /\ \A n \in DOMAIN days \ chosen, h \in chosen : n < h => Rank(n) < Rank(h)
    /\ \A n \in HasPhoto(days) \ chosen :
         /\ Cardinality(chosen) = 4
         /\ \A h \in chosen : Rank(h) > 0
         /\ \/ \A h \in chosen : h < n
            \/ \A h \in chosen : Rank(h) = 3

\* select_highlights
LEMMA HighlightsAreBetter ==
    ASSUME NEW a \in Int, NEW b \in Int, NEW days, DOMAIN days \subseteq a..b
    PROVE  Better(days, Highlights(days))
<1>. DEFINE all == DOMAIN days
            photo == HasPhoto(days)
            rare == HasRareTag(days)
            chosen == IF Cardinality(photo \cap rare) >= 4 THEN photo \cap rare
                      ELSE IF Cardinality(photo \cup rare) >= 4 THEN photo \cup rare
                      ELSE IF photo # {} THEN photo ELSE all
            high == Earliest(chosen, 4)
            Rank(n) == IF n \in photo
                       THEN IF n \in rare THEN 3 ELSE 2
                       ELSE IF n \in rare THEN 1 ELSE 0
<1>1. Highlights(days) = high
  BY DEF Highlights, Target
<1>2. photo \subseteq all /\ rare \subseteq all /\ all \subseteq a..b
  BY DEF HasPhoto, HasRareTag
<1>3. SUFFICES /\ high \subseteq all /\ Cardinality(high) <= 4
               /\ \A n \in all \ high, h \in high : n < h => Rank(n) < Rank(h)
               /\ \A n \in photo \ high :
                    /\ Cardinality(high) = 4
                    /\ \A h \in high : Rank(h) > 0
                    /\ \/ \A h \in high : h < n
                       \/ \A h \in high : Rank(h) = 3
  BY <1>1 DEF Better
<1>4. chosen \subseteq all
  BY <1>2
<1>. HIDE DEF all, photo, rare
<1>5. chosen \subseteq a..b
  BY <1>2, <1>4
<1>6. /\ high \subseteq chosen /\ Cardinality(high) \in Nat /\ Cardinality(high) <= 4
      /\ \A n \in chosen \ high : Cardinality(high) = 4 /\ \A h \in high : h < n
  <2>1. 4 \in Nat
    OBVIOUS
  <2>. HIDE DEF chosen
  <2>2. /\ Earliest(chosen, 4) \subseteq chosen
        /\ Cardinality(Earliest(chosen, 4)) \in Nat /\ Cardinality(Earliest(chosen, 4)) <= 4
        /\ \A n \in chosen \ Earliest(chosen, 4) :
             /\ Cardinality(Earliest(chosen, 4)) = 4
             /\ \A h \in Earliest(chosen, 4) : h < n
    BY <1>5, <2>1, EarliestAre
  <2>. QED
    BY <2>2
<1>7. Cardinality(chosen) >= 4 => Cardinality(high) = 4
  <2>. HIDE DEF chosen
  <2>. QED
    BY <1>5, EarliestEnough
<1>. HIDE DEF high
<1>8. ASSUME NEW n \in all \ high, NEW h \in high, n < h PROVE n \notin chosen /\ h \in chosen
  <2>1. n \in Int /\ h \in Int
    BY <1>2, <1>4, <1>6
  <2>. QED
    BY <1>6, <1>8, <2>1
<1>9. ASSUME NEW n \in all, NEW h \in chosen, n \notin chosen PROVE Rank(n) < Rank(h)
  BY <1>9
<1>10. ASSUME NEW n \in photo \ high
       PROVE  /\ Cardinality(high) = 4
              /\ \A h \in high : Rank(h) > 0
              /\ \/ \A h \in high : h < n
                 \/ \A h \in high : Rank(h) = 3
  <2>1. CASE n \in chosen
    <3>1. Cardinality(high) = 4 /\ \A h \in high : h < n
      BY <1>6, <1>10, <2>1
    <3>2. \A h \in chosen : Rank(h) > 0
      BY <1>10
    <3>. QED
      BY <1>6, <3>1, <3>2
  <2>2. CASE n \notin chosen
    <3>1. Cardinality(photo \cap rare) >= 4 /\ chosen = photo \cap rare
      BY <1>2, <1>10, <2>2
    <3>2. \A h \in chosen : Rank(h) = 3
      BY <3>1
    <3>3. Cardinality(high) = 4
      BY <1>7, <3>1
    <3>. QED
      BY <1>6, <3>2, <3>3
  <2>. QED
    BY <2>1, <2>2
<1>. QED
  BY <1>4, <1>6, <1>8, <1>9, <1>10

\* At most four days of a month are highlights, and a day that is passed over
\* has less to show (monthly.py:56-90).
THEOREM HighlightsAreTheBest == Spec => []HighlightsBetterThanPassedOver
<1>1. ASSUME DigestInv, mail # None, mail.kind = "monthly"
      PROVE  Better(DaysInRange(mail.window.from, mail.window.to), mail.body.highlights)
  <2>1. PICK w, s : w = mail.window /\ s = mail.scheduled
    OBVIOUS
  <2>2. mail = Digest("monthly", w, s) /\ w.from \in Int /\ w.to \in Int
    BY <1>1, <2>1, MailIs DEF Whole, Days
  <2>3. PICK a, b, days : a \in Int /\ b \in Int /\ a = w.from /\ b = w.to /\ days = DaysInRange(w.from, w.to)
    BY <2>2
  <2>4. DOMAIN days \subseteq a..b
    BY <2>3 DEF DaysInRange, ListEntriesInRange
  <2>5. mail.body = MonthlyDigest(YearOf(w.from), MonthOf(w.from), days)
    BY <2>2, <2>3, BodyOf
  <2>6. mail.body.highlights = Highlights(days)
    BY <2>5 DEF MonthlyDigest
  <2>7. Better(days, Highlights(days))
    BY <2>3, <2>4, HighlightsAreBetter
  <2>. QED
    BY <2>1, <2>3, <2>6, <2>7
<1>2. DigestInv => HighlightsBetterThanPassedOver
  BY <1>1 DEF HighlightsBetterThanPassedOver, Better
<1>. QED
  BY <1>2, DigestInvariance, PTL

-----------------------------------------------------------------------------
(* The photos of a year *)

\* Of some days, one has the most tags, or is the first of those that do.
LEMMA MostTaggedIs ==
    ASSUME NEW a \in Int, NEW b \in Int, NEW days, NEW set, set # {}, set \subseteq a..b,
           \A n \in set : IsFiniteSet(days[n].tags)
    PROVE  MostTagged(days, set) \in set
<1>. DEFINE C == [n \in set |-> Cardinality(days[n].tags)]
            Beats(n, o) == C[o] < C[n] \/ (C[o] = C[n] /\ n < o)
            T == {k \in Nat : (\E n \in set : n < a + k) =>
                    \E n \in set : n < a + k /\ \A o \in set \ {n} : o < a + k => Beats(n, o)}
<1>1. \A n \in set : C[n] \in Nat /\ C[n] = Cardinality(days[n].tags) /\ n \in Int /\ a <= n /\ n <= b
  <2>1. ASSUME NEW n \in set PROVE Cardinality(days[n].tags) \in Nat
    BY FS_CardinalityType
  <2>. QED
    BY <2>1
<1>. HIDE DEF C
<1>2. 0 \in T
  BY <1>1
<1>3. ASSUME NEW k \in Nat, k \in T PROVE k + 1 \in T
  <2>. SUFFICES ASSUME \E n \in set : n < a + (k + 1)
                PROVE  \E n \in set : n < a + (k + 1) /\ \A o \in set \ {n} : o < a + (k + 1) => Beats(n, o)
    OBVIOUS
  <2>1. CASE \E n \in set : n < a + k
    <3>1. PICK n \in set : n < a + k /\ \A o \in set \ {n} : o < a + k => Beats(n, o)
      BY <1>3, <2>1
    <3>2. CASE \E x \in set : x = a + k /\ C[n] < C[x]
      <4>1. PICK x \in set : x = a + k /\ C[n] < C[x]
        BY <3>2
      <4>2. \A o \in set \ {x} : o < a + (k + 1) => Beats(x, o)
        BY <1>1, <3>1, <4>1
      <4>. QED
        BY <1>1, <4>1, <4>2
    <3>3. CASE ~\E x \in set : x = a + k /\ C[n] < C[x]
      <4>1. \A o \in set \ {n} : o < a + (k + 1) => Beats(n, o)
        BY <1>1, <3>1, <3>3
      <4>. QED
        BY <1>1, <3>1, <4>1
    <3>. QED
      BY <3>2, <3>3
  <2>2. CASE ~\E n \in set : n < a + k
    <3>1. PICK n \in set : n = a + k
      BY <1>1, <2>2
    <3>2. \A o \in set \ {n} : ~(o < a + (k + 1))
      BY <1>1, <2>2, <3>1
    <3>. QED
      BY <1>1, <3>1, <3>2
  <2>. QED
    BY <2>1, <2>2
<1>. HIDE DEF T
<1>4. \A k \in Nat : k \in T
  BY <1>2, <1>3, Induction
<1>5. \E n \in set : \A o \in set \ {n} : Beats(n, o)
  <2>1. a <= b
    <3>1. PICK n \in set : n \in Int /\ a <= n /\ n <= b
      BY <1>1
    <3>. QED
      BY <3>1
  <2>2. b - a + 1 \in T
    BY <1>4, <2>1
  <2>3. \A n \in set : n < a + (b - a + 1)
    BY <1>1
  <2>. QED
    BY <2>2, <2>3 DEF T
<1>6. PICK n \in set : \A o \in set \ {n} :
        \/ Cardinality(days[o].tags) < Cardinality(days[n].tags)
        \/ Cardinality(days[o].tags) = Cardinality(days[n].tags) /\ n < o
  BY <1>1, <1>5
<1>. QED
  BY <1>6 DEF MostTagged

\* The thumbnail of a day that has one is a photo of that day.
LEMMA FirstPhotoIs ==
    ASSUME NEW media \in Seq({"photo", "video"}), FirstPhoto(media) # 0
    PROVE  FirstPhoto(media) \in 1..Len(media) /\ media[FirstPhoto(media)] = "photo"
<1>. DEFINE photos == {i \in 1..Len(media) : media[i] = "photo"}
<1>1. photos # {} /\ FirstPhoto(media) = Min(photos)
  BY DEF FirstPhoto
<1>2. 1 \in Int /\ \A x \in photos : x \in Int /\ 1 <= x
  OBVIOUS
<1>3. Min(photos) \in photos
  <2>. HIDE DEF photos
  <2>. QED
    BY <1>1, <1>2, MinOf
<1>. QED
  BY <1>1, <1>3

\* _one_photo_per_month, of what the query found from day a to day b.
LEMMA PhotosArePhotos ==
    ASSUME IndexOK, NEW a \in Days, NEW b \in Int
    PROVE  LET photos == OnePhotoPerMonth(DaysInRange(a, b)) IN
           /\ DOMAIN photos \subseteq 1..12
           /\ \A m \in DOMAIN photos :
                /\ photos[m].date \in DOMAIN rows
                /\ photos[m].photo \in 1..Len(rows[photos[m].date].media)
<1>. DEFINE days == DaysInRange(a, b)
            C == HasPhoto(days)
            photos == OnePhotoPerMonth(days)
            Of(m) == {x \in C : MonthOf(x) = m}
<1>1. \A n \in DOMAIN days : /\ n \in a..b /\ n \in DOMAIN rows
                             /\ days[n].tags = rows[n].tags
                             /\ days[n].photo = FirstPhoto(rows[n].media)
  BY DEF DaysInRange, ListEntriesInRange
<1>. HIDE DEF days
<1>2. \A n \in C : n \in DOMAIN days /\ days[n].photo # 0
  BY DEF HasPhoto
<1>3. /\ DOMAIN photos = {MonthOf(n) : n \in C}
      /\ \A m \in DOMAIN photos : /\ photos[m].date = MostTagged(days, Of(m))
                                  /\ photos[m].photo = days[MostTagged(days, Of(m))].photo
  BY DEF OnePhotoPerMonth, PhotosOf
<1>. HIDE DEF C, photos
<1>4. ASSUME NEW n \in C PROVE MonthOf(n) \in 1..12
  <2>1. n \in Nat \ {0}
    BY <1>1, <1>2 DEF Days
  <2>. QED
    BY <2>1, MonthOfDay
<1>5. ASSUME NEW m \in DOMAIN photos PROVE MostTagged(days, Of(m)) \in C
  <2>1. Of(m) # {} /\ Of(m) \subseteq C
    BY <1>3
  <2>2. Of(m) \subseteq a..b /\ \A n \in Of(m) : IsFiniteSet(days[n].tags)
    BY <1>1, <1>2, <2>1 DEF IndexOK
  <2>3. a \in Int
    BY DEF Days
  <2>. HIDE DEF Of
  <2>4. MostTagged(days, Of(m)) \in Of(m)
    BY <2>1, <2>2, <2>3, MostTaggedIs
  <2>. QED
    BY <2>1, <2>4
<1>6. ASSUME NEW n \in C PROVE n \in DOMAIN rows /\ days[n].photo \in 1..Len(rows[n].media)
  <2>1. /\ n \in DOMAIN rows /\ days[n].photo = FirstPhoto(rows[n].media)
        /\ FirstPhoto(rows[n].media) # 0
    BY <1>1, <1>2
  <2>2. rows[n].media \in Seq({"photo", "video"})
    BY <2>1 DEF IndexOK
  <2>. QED
    BY <2>1, <2>2, FirstPhotoIs
<1>7. DOMAIN photos \subseteq 1..12
  BY <1>3, <1>4
<1>8. ASSUME NEW m \in DOMAIN photos
      PROVE  /\ photos[m].date \in DOMAIN rows
             /\ photos[m].photo \in 1..Len(rows[photos[m].date].media)
  BY <1>3, <1>5, <1>6
<1>. QED
  BY <1>7, <1>8 DEF photos, days

\* Every state is well formed; the photos of a yearly digest are photos, of
\* days of the index (_one_photo_per_month, yearly.py).
THEOREM TypeCorrect == Spec => []TypeOK
<1>1. ASSUME DigestInv, mail # None, mail.kind = "yearly"
      PROVE  /\ DOMAIN mail.body.photos \subseteq 1..12
             /\ \A m \in DOMAIN mail.body.photos :
                  /\ mail.body.photos[m].date \in DOMAIN rows
                  /\ mail.body.photos[m].photo \in 1..Len(rows[mail.body.photos[m].date].media)
  <2>1. PICK w, s : w = mail.window /\ s = mail.scheduled
    OBVIOUS
  <2>2. mail = Digest("yearly", w, s) /\ w.from \in Days /\ w.to \in Int
    BY <1>1, <2>1, MailIs DEF Whole, Days
  <2>3. mail.body = YearlyDigest(YearOf(w.from), DaysInRange(w.from, w.to))
    BY <2>2, BodyOf
  <2>4. mail.body.photos = OnePhotoPerMonth(DaysInRange(w.from, w.to))
    BY <2>3 DEF YearlyDigest
  <2>5. PICK photos : photos = mail.body.photos
    OBVIOUS
  <2>6. /\ DOMAIN photos \subseteq 1..12
        /\ \A m \in DOMAIN photos :
             /\ photos[m].date \in DOMAIN rows
             /\ photos[m].photo \in 1..Len(rows[photos[m].date].media)
    BY <1>1, <2>2, <2>4, <2>5, PhotosArePhotos DEF DigestInv
  <2>. QED
    BY <2>5, <2>6
<1>2. DigestInv => TypeOK
  <2>. SUFFICES ASSUME DigestInv PROVE TypeOK
    OBVIOUS
  <2>1. mail # None => mail.kind \in Kinds /\ mail.scheduled \in BOOLEAN
    BY MailIs
  <2>2. /\ today \in Int /\ until \in Int /\ today <= until
        /\ due \subseteq Enabled
        /\ \A k \in Kinds : upto[k] \in Int \cup {None} /\ missed[k] \in 0..MaxMisses
    BY DEF DigestInv, Dated
  <2>. QED
    BY <1>1, <2>1, <2>2 DEF TypeOK
<1>. QED
  BY <1>2, DigestInvariance, PTL

=============================================================================
