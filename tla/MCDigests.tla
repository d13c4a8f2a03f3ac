------------------------------ MODULE MCDigests ------------------------------
(***************************************************************************)
(* Behaviours of the digests: two turns of the year and the year between   *)
(* them, the turn of a year of 54 weeks, every month with five entries of  *)
(* a few kinds, every set of entries in the last days of a year.           *)
(***************************************************************************)
EXTENDS Digests

CONSTANTS Good, Bad

Row(mood, tags, media) == [mood |-> mood, tags |-> tags, media |-> media]

From(first, last, index) == [first |-> first, last |-> last, rows |-> index]

\* Entries on the ends of weeks, months and years and on every ninth day; one
\* day in four has no mood, one in three a photo after a video.
Diary(first, last) ==
    [n \in {x \in first..last : x % 9 = 0 \/ DayOf(x) = 1 \/ DayOf(x + 1) = 1} |->
       Row(IF n % 4 = 0 THEN None ELSE IF n % 2 = 0 THEN Good ELSE Bad,
           {n % 5, n % 7},
           IF n % 3 = 0 THEN <<"video", "photo">>
           ELSE IF n % 3 = 1 THEN <<"video">> ELSE <<>>)]

LongFamily ==
    {From(Date(2023, 12, 17), Date(2025, 1, 2),
          Diary(Date(2023, 12, 4), Date(2025, 1, 2))),
     From(Date(2040, 12, 30), Date(2041, 1, 1),
          Diary(Date(2040, 1, 1), Date(2041, 1, 1)))}

\* Five days, each with one of three tags (the first day's is 1, the next new
\* one 2) and with or without a photo.
First == Date(2024, 2, 10)
Tagging == {f \in [First .. First + 4 -> 1..3] :
              \A n \in First .. First + 4 :
                f[n] = 1 \/ \E o \in First .. n - 1 : f[o] >= f[n] - 1}

HighlightFamily ==
    {From(Date(2024, 3, 1), Date(2024, 3, 1),
          [n \in First .. First + 4 |->
             Row(Good, {f[n]}, IF n \in photos THEN <<"photo">> ELSE <<>>)]) :
       f \in Tagging, photos \in SUBSET (First .. First + 4)}

StreakFamily ==
    {From(Date(2025, 1, 1), Date(2025, 1, 1), [n \in set |-> Row(Bad, {}, <<>>)]) :
       set \in SUBSET (Date(2024, 12, 23) .. Date(2024, 12, 31))}

\* Every eleventh day of the walks, so every day of the week, and their ends.
MCTestDays ==
    {n \in Date(2023, 12, 17) .. Date(2025, 1, 2) : n % 11 = 0}
      \cup {Date(2024, 12, 31), Date(2025, 1, 2), Date(2040, 12, 31)}

MCScenarios == LongFamily \cup HighlightFamily \cup StreakFamily

=============================================================================
