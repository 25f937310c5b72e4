------------------------------- MODULE GmTime -------------------------------
(***************************************************************************)
(* time_gmtime (core/dfs_time.cpp): the date of a second since 1970 by     *)
(* Gauss' formula, against the calendar itself.  The behaviour walks       *)
(* through the days one by one and keeps the date by the rules a calendar  *)
(* is made by (lengths of months, leap years, days of the week); the       *)
(* operator computes each date from the number of the day alone.           *)
(*                                                                         *)
(* A time is given by its day and the second of the day, which is what the *)
(* code splits it into first.  LastDay is the last full day that the 32    *)
(* bits of n can hold; no intermediate value below reaches 2^31.           *)
(***************************************************************************)
EXTENDS Integers

CONSTANTS
  LastDay,    \* bound: at most 2^32 \div 86400 - 1, a day in February 2106
  Second      \* seconds of the day that are tried on each day

ASSUME GmAssumption ==
  /\ LastDay \in Nat /\ LastDay <= 49709
  /\ \A s \in Second : s \in Nat /\ s < 86400

VARIABLES
  day,        \* days since 1 January 1970
  date        \* the date of that day by the calendar

gt_vars == <<day, date>>

Leap(year) == year % 4 = 0 /\ (year % 100 # 0 \/ year % 400 = 0)

\* The year, counted from March, that the formula guesses for a day since
\* 1 March of 1 BC.
gauss_year(days) == ((days + 2) * 400) \div (365 * 400 + 100 - 4 + 1)

\* Days before 1 March of a year.
days_before(year) == 365 * year + year \div 4 - year \div 100 + year \div 400

\* Mutant of day_of_year: the leap day is forgotten when a day goes back.
day_of_year_no_leap(days, guess) ==
  LET yday == days - days_before(guess)
  IN  IF yday < 0 THEN 365 + yday ELSE yday

\* The day within the year, which is the one before for a last day of February
\* that the guess has moved too far.
day_of_year(days, guess) ==
  LET yday == days - days_before(guess)
      leap == IF Leap(guess) THEN 1 ELSE 0
  IN  IF yday < 0 THEN 365 + leap + yday ELSE yday

\* time_gmtime
time_gmtime(d, s) ==
  LET days  == d - (31 + 28) + 719527
      guess == gauss_year(days)
      yday  == day_of_year(days, guess)
      year  == IF days < days_before(guess) THEN guess - 1 ELSE guess
      mon   == ((yday + 31) * 10) \div 306
  IN  [tm_wday |-> (4 + d) % 7,
       tm_mday |-> yday - ((367 * mon) \div 12 - 30) + 1,
       tm_mon  |-> IF yday >= 306 THEN mon - 10 ELSE mon + 2,
       tm_year |-> IF yday >= 306 THEN year + 1 ELSE year,
       tm_hour |-> s \div 3600,
       tm_min  |-> (s % 3600) \div 60,
       tm_sec  |-> (s % 3600) % 60]

-----------------------------------------------------------------------------
MonthDays(year, mon) ==
  CASE mon = 2 -> IF Leap(year) THEN 29 ELSE 28
    [] mon \in {4, 6, 9, 11} -> 30
    [] OTHER -> 31

\* 1 January 1970 was a Thursday.
GtInit ==
  /\ day = 0
  /\ date = [year |-> 1970, mon |-> 1, mday |-> 1, wday |-> 4]

Tomorrow ==
  LET last == date.mday = MonthDays(date.year, date.mon)
  IN  [year |-> IF last /\ date.mon = 12 THEN date.year + 1 ELSE date.year,
       mon  |-> IF last THEN (date.mon % 12) + 1 ELSE date.mon,
       mday |-> IF last THEN 1 ELSE date.mday + 1,
       wday |-> (date.wday + 1) % 7]

GtNext ==
  /\ day < LastDay
  /\ day' = day + 1
  /\ date' = Tomorrow

GtSpec == GtInit /\ [][GtNext]_gt_vars

-----------------------------------------------------------------------------
\* time_gmtime gives the calendar's date and the time of day for every day
\* from 1970 to the end of 32-bit time, at the boundaries of hours and minutes:
\* the adjustment of days by 2 and the case of a negative yday always fit.
GmtimeIsCalendar ==
  \A s \in Second :
    LET tm == time_gmtime(day, s)
    IN  /\ tm.tm_year = date.year /\ tm.tm_mon = date.mon
        /\ tm.tm_mday = date.mday /\ tm.tm_wday = date.wday
        /\ tm.tm_hour * 3600 + tm.tm_min * 60 + tm.tm_sec = s
        /\ tm.tm_hour \in 0 .. 23 /\ tm.tm_min \in 0 .. 59 /\ tm.tm_sec \in 0 .. 59
=============================================================================
