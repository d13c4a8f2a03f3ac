------------------------------- MODULE Digests -------------------------------
(***************************************************************************)
(* The weekly, monthly and yearly digests: the ticks of app.py choose a    *)
(* window of days from today's date, digest_jobs.py reads the index for it *)
(* and digest/ makes the mail: a moodboard, sections or highlights, the    *)
(* year's longest streak and photos.  The dev buttons of the admin page    *)
(* send the digest of the current period.  A trigger that comes while the  *)
(* app is down or busy, and a mail that is refused, is not made good.      *)
(***************************************************************************)
EXTENDS Calendar, Sequences, FiniteSets, FiniteSetsExt

CONSTANTS
    WeeklyDay,   \* weekday on which [schedule].weekly_digest fires
    Enabled,     \* the digests [digests] enables
    Scenarios,   \* bound: first day, last day and index of a behaviour
    MaxMisses,   \* bound: triggers that come to nothing
    DevMode,     \* is environment "dev"?
    TestDays,    \* bound: the days on which its buttons are pressed
    None

VARIABLES
    today,       \* date.today()
    rows,        \* rows[n]: mood, tags and media the index has of day n
    until,       \* bound: the last day of the behaviour
    due,         \* the digests whose trigger fires today, still to run
    mail,        \* the last digest mailed today
    upto,        \* upto[k]: last day of the last scheduled digest of kind k
    missed       \* missed[k]: triggers of kind k since, that sent nothing

vars == <<today, rows, until, due, mail, upto, missed>>

Kinds == {"weekly", "monthly", "yearly"}

\* What the index can hold, and days whose last year is a year of datetime.
ASSUME ConstantsAssumption ==
    /\ WeeklyDay \in 0..6 /\ Enabled \subseteq Kinds
    /\ MaxMisses \in Nat /\ None \notin Int
    /\ \A s \in Scenarios :
         /\ {s.first, s.last} \subseteq Int /\ Date(2, 1, 1) <= s.first /\ s.first <= s.last
         /\ DOMAIN s.rows \subseteq Int
         /\ \A n \in DOMAIN s.rows : /\ IsFiniteSet(s.rows[n].tags)
                                     /\ s.rows[n].media \in Seq({"photo", "video"})

-----------------------------------------------------------------------------
(* Reading the index *)

\* The thumbnail of a day: the place of its first photo in display order, 0
\* when it has no media or only videos.
FirstPhoto(media) ==
    LET photos == {i \in 1..Len(media) : media[i] = "photo"}
    IN  IF photos = {} THEN 0 ELSE Min(photos)

ListEntriesInRange(a, b) == (a..b) \cap DOMAIN rows

\* days_in_range: what a digest is told of the days from a to b.
DaysInRange(a, b) ==
    [n \in ListEntriesInRange(a, b) |->
       [mood |-> rows[n].mood, tags |-> rows[n].tags,
        photo |-> FirstPhoto(rows[n].media)]]

\* by_date.get(n)
MoodOn(days, n) == IF n \in DOMAIN days THEN days[n].mood ELSE None

-----------------------------------------------------------------------------
(* Windows *)

WeekFrom(start) == [from |-> start, to |-> start + 6]

Month(y, m) == [from |-> Date(y, m, 1),
                to |-> Date(y + (m \div 12), (m % 12) + 1, 1) - 1]

Year(y) == [from |-> Date(y, 1, 1), to |-> Date(y, 12, 31)]

\* Mutant: the seven days before today.
SevenDays(n) == WeekFrom(n - 7)

\* Mutant: January's digest is about December of the same year.
SameYear(n) == Month(YearOf(n), IF MonthOf(n) > 1 THEN MonthOf(n) - 1 ELSE 12)

\* The windows of the scheduled digests: the period before today's.
PreviousWeek(n) == WeekFrom(n - (7 + Weekday(n)))

PreviousMonth(n) == IF MonthOf(n) > 1 THEN Month(YearOf(n), MonthOf(n) - 1)
                                      ELSE Month(YearOf(n) - 1, 12)

Previous(kind, n) == CASE kind = "weekly"  -> PreviousWeek(n)
                       [] kind = "monthly" -> PreviousMonth(n)
                       [] kind = "yearly"  -> Year(YearOf(n) - 1)

\* The window of a dev button: today's period.
Current(kind, n) ==
    CASE kind = "weekly"  -> WeekFrom(n - Weekday(n))
      [] kind = "monthly" -> Month(YearOf(n), MonthOf(n))
      [] kind = "yearly"  -> Year(YearOf(n))

-----------------------------------------------------------------------------
(* Contents *)

Cell(n, inside, days) == [date |-> n, inside |-> inside, mood |-> MoodOn(days, n)]

\* weekly_moodboard: one row, seven cells.
WeeklyBoard(start, days) ==
    [p \in {1} \X (1..7) |-> Cell(start + p[2] - 1, TRUE, days)]

\* Mutant: as many rows as most months need.
FiveRows == 5
Rows == 6

\* monthly_moodboard_grid: rows are weeks, columns Monday to Sunday.
MonthlyGrid(y, m, days) ==
    LET month == Month(y, m)
        start == month.from - Weekday(month.from) IN
    [p \in (1..Rows) \X (1..7) |->
       LET n == start + 7 * (p[1] - 1) + p[2] - 1 IN
       Cell(n, month.from <= n /\ n <= month.to, days)]

\* yearly_moodboard_grid: rows are weekdays, columns weeks until the one that
\* holds 31 December.
YearlyGrid(y, days) ==
    LET year == Year(y)
        start == year.from - Weekday(year.from)
        weeks == (year.to - start) \div 7 + 1 IN
    [p \in (1..7) \X (1..weeks) |->
       LET n == start + 7 * (p[2] - 1) + p[1] - 1
           inYear == year.from <= n /\ n <= year.to IN
       [date |-> n, inside |-> inYear,
        mood |-> IF inYear THEN MoodOn(days, n) ELSE None]]

\* select_highlights, and the days its passes prefer.
Target == 4

HasPhoto(days) == {n \in DOMAIN days : days[n].photo # 0}

RareTags(days) ==
    LET Uses(t) == Cardinality({n \in DOMAIN days : t \in days[n].tags}) IN
    {t \in UNION {days[n].tags : n \in DOMAIN days} : Uses(t) < 3}

HasRareTag(days) ==
    {n \in DOMAIN days : days[n].tags \cap RareTags(days) # {}}

Earliest(set, k) == {n \in set : Cardinality({o \in set : o < n}) < k}

\* Mutant: the second pass takes every day.
AnyDay(days) ==
    Earliest(IF Cardinality(HasPhoto(days) \cap HasRareTag(days)) >= Target
             THEN HasPhoto(days) \cap HasRareTag(days) ELSE DOMAIN days, Target)

Highlights(days) ==
    LET both == HasPhoto(days) \cap HasRareTag(days)
        either == HasPhoto(days) \cup HasRareTag(days)
        chosen == IF Cardinality(both) >= Target THEN both
                  ELSE IF Cardinality(either) >= Target THEN either
                  ELSE IF HasPhoto(days) # {} THEN HasPhoto(days)
                  ELSE DOMAIN days
    IN Earliest(chosen, Target)

\* Mutant: a gap does not end the streak.
NeverReset(dates) == Cardinality(dates)

\* _longest_streak: cur counts the days of the streak that reaches day n.
LongestStreak(dates) ==
    LET cur[n \in dates] == IF n - 1 \in dates THEN cur[n - 1] + 1 ELSE 1
    IN IF dates = {} THEN 0 ELSE Max({cur[n] : n \in dates})

\* The day with the most tags, the first of them.
MostTagged(days, set) ==
    LET Tags(n) == Cardinality(days[n].tags) IN
    CHOOSE n \in set : \A o \in set \ {n} :
      Tags(o) < Tags(n) \/ (Tags(o) = Tags(n) /\ n < o)

PhotosOf(days, candidates) ==
    [m \in {MonthOf(n) : n \in candidates} |->
       LET n == MostTagged(days, {x \in candidates : MonthOf(x) = m}) IN
       [date |-> n, photo |-> days[n].photo]]

\* Mutant: days without a photo are not skipped.
AnyDayOfMonth(days) == PhotosOf(days, DOMAIN days)

\* _one_photo_per_month
OnePhotoPerMonth(days) == PhotosOf(days, HasPhoto(days))

\* Counter.most_common(1): among equals, the first one met by date.
TopMood(days) ==
    LET Of(m) == {n \in DOMAIN days : days[n].mood = m}
        First(m) == CHOOSE n \in Of(m) : \A o \in Of(m) : n <= o
        moods == {days[n].mood : n \in DOMAIN days} \ {None}
    IN IF moods = {} THEN None
       ELSE CHOOSE m \in moods : \A o \in moods \ {m} :
              \/ Cardinality(Of(o)) < Cardinality(Of(m))
              \/ Cardinality(Of(o)) = Cardinality(Of(m)) /\ First(m) < First(o)

\* build_weekly_digest, build_monthly_digest, build_yearly_digest.
WeeklyDigest(start, days) ==
    [grid |-> WeeklyBoard(start, days), sections |-> days]

MonthlyDigest(y, m, days) ==
    [grid |-> MonthlyGrid(y, m, days),
     entries |-> Cardinality(DOMAIN days), mood |-> TopMood(days),
     highlights |-> Highlights(days)]

YearlyDigest(y, days) ==
    [grid |-> YearlyGrid(y, days),
     entries |-> Cardinality(DOMAIN days), mood |-> TopMood(days),
     streak |-> LongestStreak(DOMAIN days), photos |-> OnePhotoPerMonth(days)]

\* run_weekly_digest, run_monthly_digest, run_yearly_digest.
Digest(kind, window, scheduled) ==
    LET days == DaysInRange(window.from, window.to)
        y == YearOf(window.from) IN
    [kind |-> kind, window |-> window, scheduled |-> scheduled,
     body |-> CASE kind = "weekly"  -> WeeklyDigest(window.from, days)
                [] kind = "monthly" -> MonthlyDigest(y, MonthOf(window.from), days)
                [] kind = "yearly"  -> YearlyDigest(y, days)]

\* Mutant: the query covers five weeks.
FiveWeeks == 35

\* The days from the first of the calendar page's grid to the last: six weeks.
PageDays == 42

\* The calendar page
CalendarPage(y, m) ==
    LET start == Date(y, m, 1) - Weekday(Date(y, m, 1)) IN
    MonthlyGrid(y, m, DaysInRange(start, start + PageDays - 1))

-----------------------------------------------------------------------------
(* Behaviour *)

\* The triggers of the shipped configuration.
FiresOn(kind, n) == CASE kind = "weekly"  -> Weekday(n) = WeeklyDay
                      [] kind = "monthly" -> DayOf(n) = 1
                      [] kind = "yearly"  -> DayOf(n) = 1 /\ MonthOf(n) = 1

Triggers(n) == {k \in Enabled : FiresOn(k, n)}

Init ==
    /\ \E s \in Scenarios : today = s.first /\ until = s.last /\ rows = s.rows
    /\ due = Triggers(today)
    /\ mail = None
    /\ upto = [k \in Kinds |-> None]
    /\ missed = [k \in Kinds |-> 0]

\* _weekly_tick, _monthly_tick, _yearly_tick.
Tick(k) ==
    /\ k \in due
    /\ due' = due \ {k}
    /\ LET window == Previous(k, today) IN
       /\ mail' = Digest(k, window, TRUE)
       /\ upto' = [upto EXCEPT ![k] = window.to]
    /\ missed' = [missed EXCEPT ![k] = 0]
    /\ UNCHANGED <<today, rows, until>>

\* The app is down at the time of the trigger, or the mail is refused; the job
\* is not run again.
Miss(k) ==
    /\ k \in due /\ missed[k] < MaxMisses
    /\ due' = due \ {k}
    /\ missed' = [missed EXCEPT ![k] = @ + 1]
    /\ UNCHANGED <<today, rows, until, mail, upto>>

\* admin_test_send_digest
SendTest(k) ==
    /\ DevMode /\ today \in TestDays
    /\ mail' = Digest(k, Current(k, today), FALSE)
    /\ UNCHANGED <<today, rows, until, due, upto, missed>>

Midnight ==
    /\ due = {} /\ today < until
    /\ today' = today + 1
    /\ due' = Triggers(today + 1)
    /\ mail' = None
    /\ UNCHANGED <<rows, until, upto, missed>>

Next == \/ \E k \in Kinds : Tick(k) \/ Miss(k) \/ SendTest(k)
        \/ Midnight

Spec == Init /\ [][Next]_vars

-----------------------------------------------------------------------------
(* Properties *)

\* Every state is well formed; the photos of a yearly digest are photos, of
\* days of the year (_one_photo_per_month).
TypeOK ==
    /\ today \in Int /\ until \in Int /\ today <= until
    /\ due \subseteq Enabled
    /\ \A k \in Kinds : upto[k] \in Int \cup {None} /\ missed[k] \in 0..MaxMisses
    /\ mail # None => mail.kind \in Kinds /\ mail.scheduled \in BOOLEAN
    /\ mail # None /\ mail.kind = "yearly" =>
         /\ DOMAIN mail.body.photos \subseteq 1..12
         /\ \A m \in DOMAIN mail.body.photos :
              /\ mail.body.photos[m].date \in DOMAIN rows
              /\ mail.body.photos[m].photo \in 1..Len(rows[mail.body.photos[m].date].media)

\* Does a period of this kind begin on day n?
StartsPeriod(kind, n) == CASE kind = "weekly"  -> Weekday(n) = 0
                           [] kind = "monthly" -> DayOf(n) = 1
                           [] kind = "yearly"  -> DayOf(n) = 1 /\ MonthOf(n) = 1

\* A scheduled digest is about the last week, month or year that is over,
\* whole, on whatever day of the next one its trigger fires (app.py:123-173,
\* digest_jobs.py:28,49,70): no other period begins between its first day and
\* its last, nor after the day that follows it.
WindowIsLastWholePeriod ==
    mail # None /\ mail.scheduled =>
      LET w == mail.window IN
      /\ StartsPeriod(mail.kind, w.from) /\ StartsPeriod(mail.kind, w.to + 1)
      /\ w.to < today
      /\ \A n \in (w.from + 1 .. w.to) \cup (w.to + 2 .. today) :
           ~StartsPeriod(mail.kind, n)

\* The scheduled digests of a kind tell every day once: each begins on the day
\* after the one before it ended, or later when triggers in between came to
\* nothing; those periods are in no digest, for no trigger is made up for.
DigestsTile ==
    [][\A k \in Kinds : upto[k] # None /\ upto'[k] # upto[k] =>
         /\ mail'.window.from > upto[k]
         /\ missed[k] = 0 <=> mail'.window.from = upto[k] + 1]_vars

\* The mood of day n in the index.
Mood(n) == IF n \in DOMAIN rows THEN rows[n].mood ELSE None

\* In the moodboard of a digest every day of its window has one cell, in the
\* row or column of its weekday, with its mood; the cells that pad the grid
\* show none (moodboard.py:35-99).
GridShowsEachDayOnce ==
    mail # None =>
      LET grid == mail.body.grid
          inside == {p \in DOMAIN grid : grid[p].inside}
          w == mail.window IN
      /\ {grid[p].date : p \in inside} = w.from .. w.to
      /\ Cardinality(inside) = w.to - w.from + 1
      /\ \A p \in DOMAIN grid :
           /\ (IF mail.kind = "yearly" THEN p[1] ELSE p[2])
                = Weekday(grid[p].date) + 1
           /\ grid[p].mood = IF p \in inside THEN Mood(grid[p].date) ELSE None

\* The longest streak of a yearly digest is the length of some run of days of
\* the year that all have entries, and of no longer one (yearly.py:69-81).
StreakIsLongest ==
    mail # None /\ mail.kind = "yearly" =>
      LET written == (mail.window.from .. mail.window.to) \cap DOMAIN rows
          Run(length) == \E n \in written :
                           n .. n + length - 1 \subseteq written IN
      /\ mail.body.streak > 0 => Run(mail.body.streak)
      /\ ~Run(mail.body.streak + 1)

\* At most four days of a month are highlights (monthly.py:56-90).  A day
\* before one of them is passed over only when it has less to show, and a day
\* with a photo is left out only for four days that have a photo or a rare
\* tag, and that come first or have both.
HighlightsBetterThanPassedOver ==
    mail # None /\ mail.kind = "monthly" =>
      LET days == DaysInRange(mail.window.from, mail.window.to)
          chosen == mail.body.highlights
          rare == HasRareTag(days)
          Rank(n) == IF n \in HasPhoto(days)
                     THEN IF n \in rare THEN 3 ELSE 2
                     ELSE IF n \in rare THEN 1 ELSE 0 IN
      /\ chosen \subseteq DOMAIN days /\ Cardinality(chosen) <= 4
      /\ \A n \in DOMAIN days \ chosen, h \in chosen : n < h => Rank(n) < Rank(h)
      /\ \A n \in HasPhoto(days) \ chosen :
           /\ Cardinality(chosen) = 4
           /\ \A h \in chosen : Rank(h) > 0
           /\ \/ \A h \in chosen : h < n
              \/ \A h \in chosen : Rank(h) = 3

\* The calendar page shows the mood of every day it has a cell for, those of
\* the neighbouring months included (routes_browse.py:84-101).
CalendarPageIsWhole ==
    LET grid == CalendarPage(YearOf(today), MonthOf(today)) IN
    /\ \E p \in DOMAIN grid : grid[p].date = today /\ grid[p].inside
    /\ \A p \in DOMAIN grid : grid[p].mood = Mood(grid[p].date)

=============================================================================
