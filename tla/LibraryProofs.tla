--------------------------- MODULE LibraryProofs ----------------------------
(***************************************************************************)
(* Parts of the library that do not interact. The calendar, for every day  *)
(* that 32 bits of seconds reach: time_gmtime gives the date that counting *)
(* from 1970 gives. The cached clock, for any number of threads and        *)
(* readers, any table of slots and any precision: the clock never goes     *)
(* back, the text of the log is fresh and stable while it is published.    *)
(* The hash table, for any set of links and keys: a lookup finds the link  *)
(* of its key that joined last.                                            *)
(***************************************************************************)
EXTENDS GmTime, TimeSlots, HashTable, BasicFacts, SequenceTheorems

\* A year from March to February is as long as the leap year in it makes it.
LEMMA YearLength ==
  ASSUME NEW y \in Nat
  PROVE  days_before(y + 1) = days_before(y) + 365 + (IF Leap(y + 1) THEN 1 ELSE 0)
<1> DEFINE f == (y + 1) % 4
           h == (y + 1) % 100
           g == (y + 1) % 400
<1>1. /\ (y + 1) \div 4 = y \div 4 + (IF f = 0 THEN 1 ELSE 0)
      /\ (y + 1) \div 100 = y \div 100 + (IF h = 0 THEN 1 ELSE 0)
      /\ (y + 1) \div 400 = y \div 400 + (IF g = 0 THEN 1 ELSE 0)
  BY DivNext
<1>2. (h = 0 => f = 0) /\ (g = 0 => h = 0)
  OBVIOUS
<1>3. y \div 4 \in Nat /\ y \div 100 \in Nat /\ y \div 400 \in Nat
  OBVIOUS
<1>4. Leap(y + 1) <=> f = 0 /\ (h # 0 \/ g = 0)
  BY DEF Leap
<1> HIDE DEF f, h, g
<1> QED
  BY <1>1, <1>2, <1>3, <1>4 DEF days_before

\* Days in 400 years.
FourCenturies == 146097

\* The bounds between which the days before a year lie: they are what Gauss' formula
\* inverts, and the 2 that it adds is just enough.
LEMMA YearBounds ==
  ASSUME NEW y \in Nat
  PROVE  /\ days_before(y) \in Nat
         /\ 400 * days_before(y) + 800 > FourCenturies * y
         /\ 400 * days_before(y) < FourCenturies * y + 400
<1>1. PICK a \in Nat, i \in 0 .. 3 : y = 4 * a + i /\ a = y \div 4
  OBVIOUS
<1>2. PICK b \in Nat, j \in 0 .. 99 : y = 100 * b + j /\ b = y \div 100
  OBVIOUS
<1>3. PICK c \in Nat, k \in 0 .. 399 : y = 400 * c + k /\ c = y \div 400
  OBVIOUS
<1>4. days_before(y) = 365 * y + a - b + c
  BY <1>1, <1>2, <1>3 DEF days_before
<1> QED
  BY <1>1, <1>2, <1>3, <1>4, SMT DEF FourCenturies

-----------------------------------------------------------------------------
\* Days from 1 March to the first of the month, March being the first.
MonthStart(m) == (367 * m) \div 12 - 30

\* Days from 1 March of 1 BC to 1 January 1970.
Epoch == 719468

LeapDay(y) == IF Leap(y) THEN 1 ELSE 0

\* The date and the day of the behaviour agree, the year and the month counted from March.
CalendarIs(y, m) ==
  /\ date.year = (IF m >= 11 THEN y + 1 ELSE y)
  /\ date.mon = (IF m >= 11 THEN m - 10 ELSE m + 2)
  /\ date.mday \in 1 .. MonthDays(date.year, date.mon)
  /\ day + Epoch = days_before(y) + MonthStart(m) + date.mday - 1

GmInv ==
  /\ day \in Nat /\ date \in [year : Nat, mon : Nat, mday : Nat, wday : Nat]
  /\ date.wday = (4 + day) % 7
  /\ \E y \in Nat, m \in 1 .. 12 : CalendarIs(y, m)

\* The months and the formula for their first days.
LEMMA Months ==
  ASSUME NEW y \in Nat, NEW m \in 1 .. 12
  PROVE  LET len == MonthDays(IF m >= 11 THEN y + 1 ELSE y, IF m >= 11 THEN m - 10 ELSE m + 2)
         IN  /\ len \in 28 .. 31
             /\ MonthStart(m) \in Nat /\ MonthStart(1) = 0
             /\ m < 12 => MonthStart(m + 1) = MonthStart(m) + len
             /\ m = 12 => MonthStart(m) + len = 365 + LeapDay(y + 1)
             /\ m >= 11 <=> MonthStart(m) >= 306
<1>1. /\ MonthStart(1) = 0 /\ MonthStart(2) = 31 /\ MonthStart(3) = 61
      /\ MonthStart(4) = 92 /\ MonthStart(5) = 122 /\ MonthStart(6) = 153
      /\ MonthStart(7) = 184 /\ MonthStart(8) = 214 /\ MonthStart(9) = 245
      /\ MonthStart(10) = 275 /\ MonthStart(11) = 306 /\ MonthStart(12) = 337
  BY DEF MonthStart
<1>2. CASE m = 12
  BY <1>1, <1>2 DEF MonthDays, LeapDay
<1>3. CASE m = 11
  BY <1>1, <1>3 DEF MonthDays
<1>4. CASE m \in {1, 3, 5, 6, 8, 10}
  BY <1>1, <1>4 DEF MonthDays
<1>5. CASE m \in {2, 4, 7, 9}
  BY <1>1, <1>5 DEF MonthDays
<1>6. m = 12 \/ m = 11 \/ m \in {1, 3, 5, 6, 8, 10} \/ m \in {2, 4, 7, 9}
  OBVIOUS
<1> QED
  BY <1>2, <1>3, <1>4, <1>5, <1>6
\* 1 January 1970 is in the year from March 1969.
LEMMA GmStart == GtInit => GmInv
<1> SUFFICES ASSUME GtInit PROVE GmInv
  OBVIOUS
<1>1. day = 0 /\ date = [year |-> 1970, mon |-> 1, mday |-> 1, wday |-> 4]
  BY DEF GtInit
<1>2. days_before(1969) = 719162 /\ MonthStart(11) = 306 /\ MonthDays(1970, 1) = 31
  BY SMT DEF days_before, MonthStart, MonthDays
<1>3. CalendarIs(1969, 11)
  BY <1>1, <1>2, SMT DEF CalendarIs, Epoch
<1> QED
  BY <1>1, <1>3 DEF GmInv

\* From a day to the next, over the ends of months, of years and of February.
LEMMA GmStep == GmInv /\ [GtNext]_gt_vars => GmInv'
<1> SUFFICES ASSUME GmInv, GtNext PROVE GmInv'
  BY DEF GmInv, CalendarIs, gt_vars
<1>1. PICK y \in Nat, m \in 1 .. 12 : CalendarIs(y, m)
  BY DEF GmInv
<1> DEFINE len == MonthDays(date.year, date.mon)
           last == date.mday = len
<1>2. /\ day \in Nat /\ day' = day + 1
      /\ date \in [year : Nat, mon : Nat, mday : Nat, wday : Nat]
      /\ date' = [year |-> IF last /\ date.mon = 12 THEN date.year + 1 ELSE date.year,
                  mon  |-> IF last THEN (date.mon % 12) + 1 ELSE date.mon,
                  mday |-> IF last THEN 1 ELSE date.mday + 1,
                  wday |-> (date.wday + 1) % 7]
  BY DEF GmInv, GtNext, Tomorrow
<1>3. /\ date.year = (IF m >= 11 THEN y + 1 ELSE y)
      /\ date.mon = (IF m >= 11 THEN m - 10 ELSE m + 2)
      /\ date.mday \in 1 .. len
      /\ day + Epoch = days_before(y) + MonthStart(m) + date.mday - 1
  BY <1>1 DEF CalendarIs
<1>4. /\ len \in 28 .. 31
      /\ MonthStart(m) \in Nat /\ MonthStart(1) = 0
      /\ m < 12 => MonthStart(m + 1) = MonthStart(m) + len
      /\ m = 12 => MonthStart(m) + len = 365 + LeapDay(y + 1)
  BY <1>3, Months
<1>5. /\ days_before(y) \in Nat /\ LeapDay(y + 1) \in 0 .. 1 /\ Epoch \in Nat
      /\ days_before(y + 1) = days_before(y) + 365 + LeapDay(y + 1)
  BY YearLength, YearBounds, SMT DEF LeapDay, Epoch
<1> HIDE DEF len
<1>6. date'.wday = (4 + day') % 7
  BY <1>2 DEF GmInv
<1>7. date.mon \in 1 .. 12 /\ date' \in [year : Nat, mon : Nat, mday : Nat, wday : Nat]
  <2>1. date.mon \in 1 .. 12 /\ date.mday \in Nat /\ date.wday \in Nat /\ date.year \in Nat
    BY <1>2, <1>3
  <2>2. (date.mon % 12) + 1 \in Nat /\ (date.wday + 1) % 7 \in Nat
    BY <2>1
  <2> QED
    BY <1>2, <2>1, <2>2
<1>8. CASE ~last
  <2>1. /\ date'.year = date.year /\ date'.mon = date.mon /\ date'.mday = date.mday + 1
    BY <1>2, <1>8
  <2>2. date'.mday \in 1 .. len
    BY <1>3, <1>4, <1>8, <2>1
  <2>3. day' + Epoch = days_before(y) + MonthStart(m) + date'.mday - 1
    BY <1>2, <1>3, <1>4, <1>5, <2>1
  <2>4. CalendarIs(y, m)'
    BY <1>3, <2>1, <2>2, <2>3 DEF CalendarIs, len
  <2> QED
    BY <1>2, <1>6, <1>7, <2>4 DEF GmInv
<1>9. CASE last /\ m < 12
  <2> DEFINE n == m + 1
  <2>1. n \in 1 .. 12 /\ date'.mday = 1
    BY <1>2, <1>9
  <2>2. /\ date'.year = (IF n >= 11 THEN y + 1 ELSE y)
        /\ date'.mon = (IF n >= 11 THEN n - 10 ELSE n + 2)
    <3>1. date'.mon = (date.mon % 12) + 1
      BY <1>2, <1>9
    <3>2. date'.year = IF date.mon = 12 THEN date.year + 1 ELSE date.year
      BY <1>2, <1>9
    <3>3. date.mon = 12 <=> m = 10
      BY <1>3
    <3>4. date'.mon = (IF n >= 11 THEN n - 10 ELSE n + 2)
      BY <1>3, <1>7, <1>9, <3>1
    <3> QED
      BY <1>3, <1>9, <3>2, <3>3, <3>4
  <2>3. MonthDays(date'.year, date'.mon) \in 28 .. 31
    <3>1. MonthDays(IF n >= 11 THEN y + 1 ELSE y, IF n >= 11 THEN n - 10 ELSE n + 2)
            \in 28 .. 31
      <4> HIDE DEF n
      <4> QED
        BY <2>1, Months
    <3> QED
      BY <2>2, <3>1
  <2>4. day' + Epoch = days_before(y) + MonthStart(n) + date'.mday - 1
    BY <1>2, <1>3, <1>4, <1>5, <1>9, <2>1
  <2>5. CalendarIs(y, n)'
    BY <2>1, <2>2, <2>3, <2>4 DEF CalendarIs
  <2> HIDE DEF n
  <2> QED
    BY <1>2, <1>6, <1>7, <2>1, <2>5 DEF GmInv
<1>10. CASE last /\ m = 12
  <2>1. date'.mday = 1 /\ date'.mon = 3 /\ date'.year = y + 1
    BY <1>2, <1>3, <1>10
  <2>2. day' + Epoch = days_before(y + 1) + MonthStart(1) + date'.mday - 1
    BY <1>2, <1>3, <1>4, <1>5, <1>10, <2>1
  <2>3. MonthDays(y + 1, 3) = 31
    BY DEF MonthDays
  <2>4. CalendarIs(y + 1, 1)'
    BY <2>1, <2>2, <2>3 DEF CalendarIs
  <2>5. y + 1 \in Nat /\ 1 \in 1 .. 12
    OBVIOUS
  <2> QED
    BY <1>2, <1>6, <1>7, <2>4, <2>5 DEF GmInv
<1> QED
  BY <1>8, <1>9, <1>10

\* Gauss' formula: the guess is the year or, at its end, the one after it, and in both
\* cases what comes out is the day within the year.
LEMMA GaussYear ==
  ASSUME NEW y \in Nat, NEW yd \in 0 .. 364 + LeapDay(y + 1)
  PROVE  LET days  == days_before(y) + yd
             guess == gauss_year(days)
         IN  /\ day_of_year(days, guess) = yd
             /\ y = IF days < days_before(guess) THEN guess - 1 ELSE guess
<1> DEFINE days == days_before(y) + yd
           guess == gauss_year(days)
<1>1. /\ days_before(y) \in Nat
      /\ 400 * days_before(y) + 800 > FourCenturies * y
      /\ 400 * days_before(y) < FourCenturies * y + 400
  BY YearBounds
<1>2. /\ days_before(y + 1) = days_before(y) + 365 + LeapDay(y + 1) /\ LeapDay(y + 1) \in 0 .. 1
      /\ days_before(y + 1) \in Nat
  BY YearLength, YearBounds, y + 1 \in Nat DEF LeapDay
<1>3. days \in Nat /\ yd \in 0 .. 365
  BY <1>1, <1>2
<1> DEFINE x == (days + 2) * 400
<1>4. x \in Nat /\ x >= FourCenturies * y /\ x < FourCenturies * (y + 2)
  BY <1>1, <1>2, <1>3, SMT DEF FourCenturies
<1>5. guess = x \div FourCenturies
  BY SMT DEF gauss_year, FourCenturies
<1> HIDE DEF x
<1>6. guess = y \/ guess = y + 1
  BY <1>4, <1>5, SMT DEF FourCenturies
<1> HIDE DEF days, guess
<1>7. CASE guess = y
  BY <1>1, <1>3, <1>7 DEF day_of_year, days, guess
<1>8. CASE guess = y + 1
  <2>1. days < days_before(guess) /\ days - days_before(guess) = yd - 365 - LeapDay(guess)
    BY <1>1, <1>2, <1>3, <1>8 DEF days
  <2>2. day_of_year(days, guess) = 365 + LeapDay(guess) + (days - days_before(guess))
    BY <1>2, <1>3, <1>8, <2>1 DEF day_of_year, LeapDay
  <2> QED
    BY <1>2, <1>8, <2>1, <2>2 DEF days, guess
<1> QED
  BY <1>6, <1>7, <1>8
\* The formula that maps the day of the year to its month.
LEMMA MonthOf ==
  ASSUME NEW m \in 1 .. 12, NEW yd \in Nat, yd >= MonthStart(m),
         IF m = 12 THEN yd <= 365 ELSE yd < MonthStart(m + 1)
  PROVE  ((yd + 31) * 10) \div 306 = m
<1>1. /\ MonthStart(1) = 0 /\ MonthStart(2) = 31 /\ MonthStart(3) = 61
      /\ MonthStart(4) = 92 /\ MonthStart(5) = 122 /\ MonthStart(6) = 153
      /\ MonthStart(7) = 184 /\ MonthStart(8) = 214 /\ MonthStart(9) = 245
      /\ MonthStart(10) = 275 /\ MonthStart(11) = 306 /\ MonthStart(12) = 337
  BY DEF MonthStart
<1> DEFINE a == (yd + 31) * 10
<1>2. a >= 306 * m /\ a < 306 * (m + 1) /\ a \in Nat
  <2>1. CASE m \in 1 .. 6
    BY <1>1, <2>1
  <2>2. CASE m \in 7 .. 12
    BY <1>1, <2>2
  <2> QED
    BY <2>1, <2>2
<1> HIDE DEF a
<1>3. a - 306 * m \in 0 .. 306 - 1 /\ a = 306 * m + (a - 306 * m)
  BY <1>2
<1>4. a \div 306 = m
  <2>1. PICK r \in 0 .. 306 - 1 : a = 306 * m + r
    BY <1>3
  <2>2. (306 * m + r) \div 306 = m
    BY DivIs
  <2> QED
    BY <2>1, <2>2
<1> QED
  BY <1>4 DEF a

\* The year and the month of a date whose year and month are counted from March.
YearOf(y, m) == IF m >= 11 THEN y + 1 ELSE y
MonOf(m) == IF m >= 11 THEN m - 10 ELSE m + 2

\* The day d is the mday-th of a month.
DayOf(d, y, m, mday) ==
  /\ mday \in 1 .. MonthDays(YearOf(y, m), MonOf(m))
  /\ d + Epoch = days_before(y) + MonthStart(m) + mday - 1

\* The date of a day that time_gmtime computes.
LEMMA Gmtime ==
  ASSUME NEW y \in Nat, NEW m \in 1 .. 12, NEW mday \in Nat, NEW d \in Nat,
         DayOf(d, y, m, mday), NEW sec
  PROVE  LET tm == time_gmtime(d, sec)
         IN  tm.tm_year = YearOf(y, m) /\ tm.tm_mon = MonOf(m) /\ tm.tm_mday = mday
<1> DEFINE yr == IF m >= 11 THEN y + 1 ELSE y
           mn == IF m >= 11 THEN m - 10 ELSE m + 2
           len == MonthDays(yr, mn)
           yd == MonthStart(m) + mday - 1
<1>1. /\ len \in 28 .. 31
      /\ MonthStart(m) \in Nat
      /\ m < 12 => MonthStart(m + 1) = MonthStart(m) + len
      /\ m = 12 => MonthStart(m) + len = 365 + LeapDay(y + 1)
      /\ m >= 11 <=> MonthStart(m) >= 306
  BY Months
<1>2. mday \in 1 .. len
  BY DEF DayOf, YearOf, MonOf
<1> HIDE DEF len
<1>3. LeapDay(y + 1) \in 0 .. 1 /\ MonthStart(12) = 337 /\ MonthStart(11) = 306
  BY DEF LeapDay, MonthStart
<1>4. yd \in Nat /\ yd >= MonthStart(m) /\ yd < MonthStart(m) + len
  BY <1>1, <1>2
<1>5. IF m = 12 THEN yd <= 365 ELSE yd < MonthStart(m + 1)
  BY <1>1, <1>3, <1>4
<1>6. ((yd + 31) * 10) \div 306 = m
  <2> HIDE DEF yd
  <2> QED
    BY <1>4, <1>5, MonthOf
<1>7. yd >= 306 <=> m >= 11
  <2>1. CASE m >= 11
    BY <1>1, <1>4, <2>1
  <2>2. CASE m = 10
    <3>1. MonthStart(m + 1) = 306
      BY <1>3, <2>2
    <3>2. yd < 306
      BY <1>5, <2>2, <3>1
    <3> QED
      BY <1>4, <2>2, <3>2
  <2>3. CASE m < 10
    <3>1. m + 1 \in 1 .. 12 /\ ~(m + 1 >= 11)
      BY <2>3
    <3>2. MonthStart(m + 1) \in Nat /\ ~(MonthStart(m + 1) >= 306)
      BY <3>1, Months
    <3> QED
      BY <1>4, <1>5, <2>3, <3>2
  <2> QED
    BY <2>1, <2>2, <2>3
<1>8. yd \in 0 .. 364 + LeapDay(y + 1)
  <2>1. CASE m = 12
    BY <1>1, <1>3, <1>4, <2>1
  <2>2. CASE m # 12
    <3>1. MonthStart(m + 1) <= 337
      <4>1. /\ MonthStart(2) = 31 /\ MonthStart(3) = 61
            /\ MonthStart(4) = 92 /\ MonthStart(5) = 122 /\ MonthStart(6) = 153
            /\ MonthStart(7) = 184 /\ MonthStart(8) = 214 /\ MonthStart(9) = 245
            /\ MonthStart(10) = 275
        BY DEF MonthStart
      <4> QED
        BY <1>3, <2>2, <4>1
    <3>2. MonthStart(m + 1) \in Nat
      BY <2>2, m + 1 \in 1 .. 12, Months
    <3> QED
      BY <1>3, <1>4, <1>5, <2>2, <3>1, <3>2
  <2> QED
    BY <2>1, <2>2
<1> DEFINE days == days_before(y) + yd
           guess == gauss_year(days)
<1>9. days_before(y) \in Nat
  BY YearBounds
<1>10. d - (31 + 28) + 719527 = days
  <2>1. d + Epoch = days
    BY <1>1, <1>9 DEF DayOf
  <2> HIDE DEF days
  <2> QED
    BY <2>1, SMT DEF Epoch
<1> HIDE DEF yd
<1>11. /\ day_of_year(days, guess) = yd
       /\ y = IF days < days_before(guess) THEN guess - 1 ELSE guess
  BY <1>8, GaussYear
<1> HIDE DEF days, guess
<1>12. LET tm == time_gmtime(d, sec)
       IN  /\ tm.tm_mday = yd - ((367 * m) \div 12 - 30) + 1
           /\ tm.tm_mon = IF yd >= 306 THEN m - 10 ELSE m + 2
           /\ tm.tm_year = IF yd >= 306 THEN y + 1 ELSE y
  BY <1>6, <1>10, <1>11, SMT DEF time_gmtime, guess
<1>13. yd - ((367 * m) \div 12 - 30) + 1 = mday
  BY <1>1 DEF yd, MonthStart
<1> QED
  BY <1>7, <1>12, <1>13 DEF YearOf, MonOf

\* For every day that 32 bits of seconds reach, time_gmtime gives the date that counting
\* from 1 January 1970 by the rules of the calendar gives, and the time of day.
THEOREM GmtimeCorrect == GtSpec => []GmtimeIsCalendar
<1>1. GmInv => GmtimeIsCalendar
  <2> SUFFICES ASSUME GmInv, NEW s \in Second
               PROVE  LET tm == time_gmtime(day, s)
                      IN  /\ tm.tm_year = date.year /\ tm.tm_mon = date.mon
                          /\ tm.tm_mday = date.mday /\ tm.tm_wday = date.wday
                          /\ tm.tm_hour * 3600 + tm.tm_min * 60 + tm.tm_sec = s
                          /\ tm.tm_hour \in 0 .. 23 /\ tm.tm_min \in 0 .. 59
                          /\ tm.tm_sec \in 0 .. 59
    BY DEF GmtimeIsCalendar
  <2> DEFINE tm == time_gmtime(day, s)
  <2>1. PICK y \in Nat, m \in 1 .. 12 : CalendarIs(y, m)
    BY DEF GmInv
  <2>2. /\ date.year = (IF m >= 11 THEN y + 1 ELSE y)
        /\ date.mon = (IF m >= 11 THEN m - 10 ELSE m + 2)
        /\ date.mday \in 1 .. MonthDays(date.year, date.mon)
        /\ day + Epoch = days_before(y) + MonthStart(m) + date.mday - 1
    BY <2>1 DEF CalendarIs
  <2>3. day \in Nat /\ date.mday \in Nat
    BY DEF GmInv
  <2>4. tm.tm_year = date.year /\ tm.tm_mon = date.mon /\ tm.tm_mday = date.mday
    <3>1. /\ DayOf(day, y, m, date.mday)
          /\ date.year = YearOf(y, m) /\ date.mon = MonOf(m)
      BY <2>2 DEF YearOf, MonOf, DayOf
    <3>2. tm.tm_year = YearOf(y, m) /\ tm.tm_mon = MonOf(m) /\ tm.tm_mday = date.mday
      BY <2>3, <3>1, Gmtime
    <3> QED
      BY <3>1, <3>2
  <2>5. tm.tm_wday = date.wday
    BY SMT DEF time_gmtime, GmInv
  <2>6. /\ tm.tm_hour = s \div 3600 /\ tm.tm_min = (s % 3600) \div 60
        /\ tm.tm_sec = (s % 3600) % 60
    BY SMT DEF time_gmtime
  <2> HIDE DEF tm
  <2>7. s \in Nat /\ s < 86400
    BY GmAssumption, SMT
  <2>8. /\ tm.tm_hour * 3600 + tm.tm_min * 60 + tm.tm_sec = s
        /\ tm.tm_hour \in 0 .. 23 /\ tm.tm_min \in 0 .. 59 /\ tm.tm_sec \in 0 .. 59
    BY <2>6, <2>7, SMT
  <2> QED
    BY <2>4, <2>5, <2>8 DEF tm
<1> QED
  BY GmStart, GmStep, <1>1, PTL DEF GtSpec

-----------------------------------------------------------------------------
\* Why the properties of TimeSlots hold: the lock is exclusive, its holder's time is not older than
\* the stored ones, and only the slot that is not published is printed into.
InTimeUpdate(t) ==
  /\ time_lock = 1
  /\ \A u \in Thread : pc[u] # "idle" => u = t
  /\ pc[t] = "store" => dfs_current_msec <= tv[t] /\ tv[t] <= clock
  /\ pc[t] \in {"slot", "print", "publish"} => tv[t] = dfs_current_msec
  /\ pc[t] = "print" => text[slot][1] = dfs_time
  /\ pc[t] = "publish" => text[slot] = <<dfs_time, dfs_time>>
  /\ pc[t] \in {"print", "publish"} => slot # data /\ dfs_time = dfs_current_msec

CopyOfPublished(r) ==
  copy[r].pc # "idle" /\ copy[r].moves = 0 =>
    /\ copy[r].at = data
    /\ copy[r].pc = "second" => copy[r].first = text[data][1]
    /\ copy[r].pc = "done" => copy[r].first = copy[r].second

TimeInv ==
  /\ slot \in {0, next_slot(0)} /\ data \in {0, next_slot(0)}
  /\ dfs_time <= dfs_current_msec /\ dfs_current_msec <= clock
  /\ text[data][1] = text[data][2]
  /\ (\A t \in Thread : pc[t] # "slot") => dfs_current_msec - dfs_time < Precision
  /\ (\A t \in Thread : pc[t] \notin {"print", "publish"}) =>
       slot = data /\ text[data] = <<dfs_time, dfs_time>>
  /\ time_lock = 0 => \A t \in Thread : pc[t] = "idle"
  /\ \A t \in Thread : pc[t] # "idle" => InTimeUpdate(t)
  /\ \A r \in Reader : CopyOfPublished(r)

-----------------------------------------------------------------------------
\* Slots alternate: the one after the next is the same again.
LEMMA SlotsAlternate ==
  /\ 0 \in Slot /\ next_slot(0) \in Slot
  /\ next_slot(0) # 0 /\ next_slot(next_slot(0)) = 0
BY SlotAssumption DEF Slot, next_slot

\* The state main leaves to the threads satisfies the types and the invariant.
LEMMA TimeStart == Init => TypeOK /\ TimeInv
<1> SUFFICES ASSUME Init PROVE TypeOK /\ TimeInv
  OBVIOUS
<1>1. TypeOK
  BY SlotsAlternate, SlotAssumption DEF Init, TypeOK, Msec, Copy, Idle
<1>2. TimeInv
  BY SlotsAlternate, SlotAssumption DEF Init, TimeInv, InTimeUpdate, CopyOfPublished, Idle
<1> QED BY <1>1, <1>2

\* Every step keeps the types.
LEMMA TimeTypeStep == TypeOK /\ TimeInv /\ [Next]_vars => TypeOK'
<1> SUFFICES ASSUME TypeOK, TimeInv, [Next]_vars PROVE TypeOK'
  OBVIOUS
<1> USE DEF TypeOK
<1>1. CASE tick
  BY <1>1, SlotAssumption DEF tick, updater, Msec
<1>2. ASSUME NEW t \in Thread, time_trylock(t) PROVE TypeOK'
  BY <1>2 DEF time_trylock
<1>3. ASSUME NEW t \in Thread, time_gettimeofday(t) PROVE TypeOK'
  BY <1>3 DEF time_gettimeofday
<1>4. ASSUME NEW t \in Thread, store_msec(t) PROVE TypeOK'
  BY <1>4 DEF store_msec
<1>5. ASSUME NEW t \in Thread, print_first(t) PROVE TypeOK'
  BY <1>5, SlotsAlternate DEF print_first, TimeInv
<1>6. ASSUME NEW t \in Thread, print_second(t) PROVE TypeOK'
  BY <1>6 DEF print_second
<1>7. ASSUME NEW t \in Thread, publish(t) PROVE TypeOK'
  <2>1. ASSUME NEW r \in Reader, NEW k \in Nat PROVE [copy[r] EXCEPT !.moves = k] \in Copy
    BY <2>1 DEF Copy
  <2>2. ASSUME NEW r \in Reader
        PROVE  (IF copy[r].pc = "idle" THEN 0 ELSE copy[r].moves + 1) \in Nat
    BY <2>2 DEF Copy
  <2>3. copy' \in [Reader -> Copy]
    BY <1>7, <2>1, <2>2 DEF publish
  <2> QED
    BY <1>7, <2>3 DEF publish
<1>8. ASSUME NEW t \in Thread, time_unlock(t) PROVE TypeOK'
  BY <1>8 DEF time_unlock
<1>9. ASSUME NEW r \in Reader, time_logstr(r) PROVE TypeOK'
  <2>1. [pc |-> "first", at |-> data, first |-> 0, second |-> 0, moves |-> 0] \in Copy
    BY SlotAssumption DEF Copy, Msec
  <2>2. copy' \in [Reader -> Copy]
    BY <1>9, <2>1 DEF time_logstr
  <2> QED BY <1>9, <2>2 DEF time_logstr, updater
<1>10. ASSUME NEW r \in Reader, copy_first(r) PROVE TypeOK'
  BY <1>10, SlotsAlternate, SlotAssumption DEF copy_first, Msec, updater, Copy
<1>11. ASSUME NEW r \in Reader, copy_second(r) PROVE TypeOK'
  BY <1>11, SlotsAlternate, SlotAssumption DEF copy_second, Msec, updater, Copy
<1>12. ASSUME NEW r \in Reader, log_done(r) PROVE TypeOK'
  BY <1>12, SlotsAlternate, SlotAssumption DEF log_done, Msec, updater, Copy, Idle
<1>13. CASE UNCHANGED vars
  BY <1>13 DEF vars, updater
<1> QED
  BY <1>1, <1>2, <1>3, <1>4, <1>5, <1>6, <1>7, <1>8, <1>9, <1>10, <1>11, <1>12, <1>13
     DEF Next, time_update, log

\* Every step keeps the invariant.
LEMMA TimeInvStep == TypeOK /\ TimeInv /\ [Next]_vars => TimeInv'
<1> SUFFICES ASSUME TypeOK, TimeInv, [Next]_vars PROVE TimeInv'
  OBVIOUS
<1> USE SlotAssumption, SlotsAlternate
<1>1. CASE tick
  BY <1>1 DEF tick, updater, TypeOK, TimeInv, InTimeUpdate, CopyOfPublished, Msec
<1>2. ASSUME NEW t \in Thread, time_trylock(t) PROVE TimeInv'
  <2>1. \A u \in Thread : pc'[u] # "idle" => InTimeUpdate(u)'
    BY <1>2 DEF time_trylock, TypeOK, TimeInv, InTimeUpdate, Msec
  <2>2. \A r \in Reader : CopyOfPublished(r)'
    BY <1>2 DEF time_trylock, TypeOK, TimeInv, InTimeUpdate, CopyOfPublished, Msec, Copy
  <2> QED
    BY <1>2, <2>1, <2>2 DEF time_trylock, TypeOK, TimeInv, InTimeUpdate, Msec
<1>3. ASSUME NEW t \in Thread, time_gettimeofday(t) PROVE TimeInv'
  <2>1. \A u \in Thread : pc'[u] # "idle" => InTimeUpdate(u)'
    BY <1>3 DEF time_gettimeofday, TypeOK, TimeInv, InTimeUpdate, Msec
  <2>2. \A r \in Reader : CopyOfPublished(r)'
    BY <1>3 DEF time_gettimeofday, TypeOK, TimeInv, InTimeUpdate, CopyOfPublished, Msec, Copy
  <2> QED
    BY <1>3, <2>1, <2>2 DEF time_gettimeofday, TypeOK, TimeInv, InTimeUpdate, Msec
<1>4. ASSUME NEW t \in Thread, store_msec(t) PROVE TimeInv'
  <2>1. \A u \in Thread : pc'[u] # "idle" => InTimeUpdate(u)'
    BY <1>4 DEF store_msec, TypeOK, TimeInv, InTimeUpdate, Msec
  <2>2. \A r \in Reader : CopyOfPublished(r)'
    BY <1>4 DEF store_msec, TypeOK, TimeInv, InTimeUpdate, CopyOfPublished, Msec, Copy
  <2> QED
    BY <1>4, <2>1, <2>2 DEF store_msec, TypeOK, TimeInv, InTimeUpdate, Msec
<1>5. ASSUME NEW t \in Thread, print_first(t) PROVE TimeInv'
  <2>1. \A u \in Thread : pc'[u] # "idle" => InTimeUpdate(u)'
    BY <1>5 DEF print_first, TypeOK, TimeInv, InTimeUpdate, Msec
  <2>2. \A r \in Reader : CopyOfPublished(r)'
    BY <1>5 DEF print_first, TypeOK, TimeInv, InTimeUpdate, CopyOfPublished, Msec, Copy
  <2> QED
    BY <1>5, <2>1, <2>2 DEF print_first, TypeOK, TimeInv, InTimeUpdate, Msec
<1>6. ASSUME NEW t \in Thread, print_second(t) PROVE TimeInv'
  <2>1. \A u \in Thread : pc'[u] # "idle" => InTimeUpdate(u)'
    BY <1>6 DEF print_second, TypeOK, TimeInv, InTimeUpdate, Msec
  <2>2. \A r \in Reader : CopyOfPublished(r)'
    BY <1>6 DEF print_second, TypeOK, TimeInv, InTimeUpdate, CopyOfPublished, Msec, Copy
  <2> QED
    BY <1>6, <2>1, <2>2 DEF print_second, TypeOK, TimeInv, InTimeUpdate, Msec
<1>7. ASSUME NEW t \in Thread, publish(t) PROVE TimeInv'
  <2>1. \A u \in Thread : pc'[u] # "idle" => InTimeUpdate(u)'
    BY <1>7 DEF publish, TypeOK, TimeInv, InTimeUpdate, Msec
  <2>2. \A r \in Reader : CopyOfPublished(r)'
    BY <1>7 DEF publish, TypeOK, TimeInv, InTimeUpdate, CopyOfPublished, Msec, Copy
  <2> QED
    BY <1>7, <2>1, <2>2 DEF publish, TypeOK, TimeInv, InTimeUpdate, Msec
<1>8. ASSUME NEW t \in Thread, time_unlock(t) PROVE TimeInv'
  <2>1. \A u \in Thread : pc'[u] # "idle" => InTimeUpdate(u)'
    BY <1>8 DEF time_unlock, TypeOK, TimeInv, InTimeUpdate, Msec
  <2>2. \A r \in Reader : CopyOfPublished(r)'
    BY <1>8 DEF time_unlock, TypeOK, TimeInv, InTimeUpdate, CopyOfPublished, Msec, Copy
  <2> QED
    BY <1>8, <2>1, <2>2 DEF time_unlock, TypeOK, TimeInv, InTimeUpdate, Msec
<1>9. ASSUME NEW r \in Reader, time_logstr(r) PROVE TimeInv'
  <2>1. \A q \in Reader : CopyOfPublished(q)'
    BY <1>9 DEF time_logstr, TypeOK, TimeInv, CopyOfPublished, updater, Msec, Copy, Idle
  <2> QED
    BY <1>9, <2>1 DEF time_logstr, updater, TimeInv, InTimeUpdate
<1>10. ASSUME NEW r \in Reader, copy_first(r) PROVE TimeInv'
  <2>1. \A q \in Reader : CopyOfPublished(q)'
    BY <1>10 DEF copy_first, TypeOK, TimeInv, CopyOfPublished, updater, Msec, Copy, Idle
  <2> QED
    BY <1>10, <2>1 DEF copy_first, updater, TimeInv, InTimeUpdate
<1>11. ASSUME NEW r \in Reader, copy_second(r) PROVE TimeInv'
  <2>1. \A q \in Reader : CopyOfPublished(q)'
    BY <1>11 DEF copy_second, TypeOK, TimeInv, CopyOfPublished, updater, Msec, Copy, Idle
  <2> QED
    BY <1>11, <2>1 DEF copy_second, updater, TimeInv, InTimeUpdate
<1>12. ASSUME NEW r \in Reader, log_done(r) PROVE TimeInv'
  <2>1. \A q \in Reader : CopyOfPublished(q)'
    BY <1>12 DEF log_done, TypeOK, TimeInv, CopyOfPublished, updater, Msec, Copy, Idle
  <2> QED
    BY <1>12, <2>1 DEF log_done, updater, TimeInv, InTimeUpdate
<1>13. CASE UNCHANGED vars
  BY <1>13 DEF vars, updater, TimeInv, InTimeUpdate, CopyOfPublished
<1> QED
  BY <1>1, <1>2, <1>3, <1>4, <1>5, <1>6, <1>7, <1>8, <1>9, <1>10, <1>11, <1>12, <1>13
     DEF Next, time_update, log

-----------------------------------------------------------------------------
\* The types of TimeSlots hold for any threads, readers and table of slots:
\* slot ^= CACHE_TIME_SLOT - 1 never leaves the table.
THEOREM TimeTypes == Spec => []TypeOK
<1> QED BY TimeStart, TimeTypeStep, TimeInvStep, PTL DEF Spec

\* The inductive invariant behind the theorems below.
THEOREM TimeInductive == Spec => [](TypeOK /\ TimeInv)
<1> QED BY TimeStart, TimeTypeStep, TimeInvStep, PTL DEF Spec

\* dfs_current_msec never goes back, however many threads call time_update.
THEOREM ClockNeverBack == Spec => ClockMonotone
<1>1. TypeOK /\ TimeInv /\ [Next]_vars => [dfs_current_msec' >= dfs_current_msec]_vars
  <2> SUFFICES ASSUME TypeOK, TimeInv, Next
               PROVE  dfs_current_msec' >= dfs_current_msec
    BY DEF vars
  <2>0. dfs_current_msec \in Int
    BY SlotAssumption DEF TypeOK, Msec
  <2>1. CASE tick
    BY <2>0, <2>1 DEF tick, updater
  <2>2. ASSUME NEW t \in Thread, time_update(t)
        PROVE  dfs_current_msec' >= dfs_current_msec
    BY <2>0, <2>2 DEF time_update, time_trylock, time_gettimeofday, store_msec,
       print_first, print_second, publish, time_unlock, TimeInv, InTimeUpdate
  <2>3. ASSUME NEW r \in Reader, log(r)
        PROVE  dfs_current_msec' >= dfs_current_msec
    BY <2>0, <2>3 DEF log, time_logstr, copy_first, copy_second, log_done, updater
  <2> QED BY <2>1, <2>2, <2>3 DEF Next
<1> QED BY <1>1, TimeInductive, PTL DEF Spec, ClockMonotone

\* The text the log copies is whole and fresh whenever no update is running,
\* and it is printed into only after the pointer has moved away from it.
THEOREM LogTextReliable == Spec => []LogTextSound
<1>1. TypeOK /\ TimeInv => LogTimeFresh
  BY DEF TypeOK, TimeInv, LogTimeFresh
<1>2. TypeOK /\ TimeInv => PublishedTextStable
  BY DEF TypeOK, TimeInv, CopyOfPublished, PublishedTextStable, Torn, Copy
<1>3. TypeOK /\ TimeInv => LogTextSound
  BY <1>1, <1>2 DEF LogTextSound
<1> QED BY <1>3, TimeInductive, PTL

-----------------------------------------------------------------------------
\* The sum over the characters of a text is there, and is a number.
LEMMA TextSum ==
  ASSUME NEW k \in Seq(Nat)
  PROVE  \E g \in [0 .. Len(k) -> Nat] :
           g = [j \in 0 .. Len(k) |-> IF j = 0 THEN 0 ELSE g[j - 1] * 31 + k[j]]
<1> DEFINE Sums(m, g) == g = [j \in 0 .. m |-> IF j = 0 THEN 0 ELSE g[j - 1] * 31 + k[j]]
           Bad == {m \in 0 .. Len(k) : ~ \E g \in [0 .. m -> Nat] : Sums(m, g)}
<1>0. Len(k) \in Nat
  OBVIOUS
<1>1. Bad = {}
  <2> SUFFICES ASSUME Bad # {} PROVE FALSE
    OBVIOUS
  <2>1. PICK m \in Bad : \A y \in Bad : m <= y
    <3>1. Bad \in SUBSET Nat
      OBVIOUS
    <3> QED
      BY <3>1, MinIn
  <2>2. CASE m = 0
    <3> DEFINE g == [j \in 0 .. 0 |-> 0]
    <3>1. g \in [0 .. 0 -> Nat] /\ Sums(0, g)
      OBVIOUS
    <3> QED
      BY <2>2, <3>1
  <2>3. CASE m # 0
    <3>1. m \in 1 .. Len(k) /\ m - 1 \in 0 .. Len(k) /\ m - 1 < m
      BY <2>3
    <3>2. m - 1 \notin Bad
      <4> HIDE DEF Bad
      <4> QED
        BY <2>1, <3>1
    <3>3. PICK g \in [0 .. m - 1 -> Nat] : Sums(m - 1, g)
      BY <3>1, <3>2
    <3> DEFINE h == [j \in 0 .. m |-> IF j = m THEN g[m - 1] * 31 + k[m] ELSE g[j]]
    <3>4. k[m] \in Nat /\ g[m - 1] \in Nat
      BY <3>1, <3>3
    <3>5. h \in [0 .. m -> Nat]
      BY <3>1, <3>3, <3>4
    <3>6. ASSUME NEW j \in 0 .. m
          PROVE  h[j] = IF j = 0 THEN 0 ELSE h[j - 1] * 31 + k[j]
      <4>1. CASE j = m
        BY <3>1, <4>1
      <4>2. CASE j # m
        <5>1. j \in 0 .. m - 1 /\ h[j] = g[j] /\ (j # 0 => h[j - 1] = g[j - 1])
          BY <3>1, <4>2
        <5>2. g[j] = IF j = 0 THEN 0 ELSE g[j - 1] * 31 + k[j]
          BY <3>3, <5>1
        <5> HIDE DEF h
        <5> QED
          BY <5>1, <5>2
      <4> QED
        BY <4>1, <4>2
    <3>7. Sums(m, h)
      BY <3>6
    <3> QED
      BY <3>5, <3>7
  <2> QED
    BY <2>2, <2>3
<1>2. Len(k) \notin Bad
  BY <1>1
<1>3. \E g \in [0 .. Len(k) -> Nat] : Sums(Len(k), g)
  BY <1>0, <1>2
<1> QED
  BY <1>3

\* The sum over the characters of a text is one number.
LEMMA TextSumOnly ==
  ASSUME NEW k \in Seq(Nat), NEW g \in [0 .. Len(k) -> Nat], NEW h,
         g = [j \in 0 .. Len(k) |-> IF j = 0 THEN 0 ELSE g[j - 1] * 31 + k[j]],
         h = [j \in 0 .. Len(k) |-> IF j = 0 THEN 0 ELSE h[j - 1] * 31 + k[j]]
  PROVE  h[Len(k)] \in Nat
<1> DEFINE Bad == {m \in 0 .. Len(k) : h[m] # g[m]}
<1>0. Len(k) \in Nat
  OBVIOUS
<1>1. Bad = {}
  <2> SUFFICES ASSUME Bad # {} PROVE FALSE
    OBVIOUS
  <2>1. PICK m \in Bad : \A y \in Bad : m <= y
    <3>1. Bad \in SUBSET Nat
      OBVIOUS
    <3> QED
      BY <3>1, MinIn
  <2>2. CASE m = 0
    BY <2>2
  <2>3. CASE m # 0
    <3>1. m \in 1 .. Len(k) /\ m - 1 \in 0 .. Len(k) /\ m - 1 < m
      BY <2>3
    <3>2. h[m - 1] = g[m - 1]
      <4>1. m - 1 \notin Bad
        BY <2>1, <3>1
      <4> QED
        BY <3>1, <4>1
    <3> QED
      BY <3>1, <3>2
  <2> QED
    BY <2>2, <2>3
<1>2. Len(k) \in 0 .. Len(k) /\ Len(k) \notin Bad
  <2> HIDE DEF Bad
  <2> QED
    BY <1>0, <1>1
<1>3. h[Len(k)] = g[Len(k)]
  BY <1>2
<1> QED
  BY <1>2, <1>3

\* A text hashes to a bucket of the table.
LEMMA HashRange ==
  ASSUME NEW k \in Seq(Nat), NEW size \in Nat \ {0}
  PROVE  dfs_hashtable_hash_low(k, size) \in 0 .. size - 1
<1> DEFINE n == CHOOSE n : n = [j \in 0 .. Len(k) |-> IF j = 0 THEN 0 ELSE n[j - 1] * 31 + k[j]]
<1>1. dfs_hashtable_hash_low(k, size) = n[Len(k)] % size
  BY DEF dfs_hashtable_hash_low
<1>2. PICK g \in [0 .. Len(k) -> Nat] :
        g = [j \in 0 .. Len(k) |-> IF j = 0 THEN 0 ELSE g[j - 1] * 31 + k[j]]
  BY TextSum
<1>3. n = [j \in 0 .. Len(k) |-> IF j = 0 THEN 0 ELSE n[j - 1] * 31 + k[j]]
  BY <1>2
<1> HIDE DEF n
<1>4. n[Len(k)] \in Nat
  BY <1>2, <1>3, TextSumOnly
<1> QED
  BY <1>1, <1>4
\* One link stands somewhere before another in a list.
Ahead(q, x, y) == \E a, b \in DOMAIN q : a < b /\ q[a] = x /\ q[b] = y

\* A link put in front comes before all others.
LEMMA AheadCons ==
  ASSUME NEW S, NEW q \in Seq(S), NEW s \in S, NEW x, NEW y
  PROVE  Ahead(<<s>> \o q, x, y) <=> (x = s /\ y \in ToSet(q)) \/ Ahead(q, x, y)
<1> DEFINE r == <<s>> \o q
<1>1. /\ DOMAIN r = 1 .. Len(q) + 1 /\ Len(q) \in Nat /\ DOMAIN q = 1 .. Len(q)
      /\ r[1] = s /\ (\A i \in 2 .. Len(q) + 1 : r[i] = q[i - 1])
      /\ \A i \in 1 .. Len(q) : r[i + 1] = q[i]
  OBVIOUS
<1> HIDE DEF r
<1>2. ASSUME Ahead(r, x, y) PROVE (x = s /\ y \in ToSet(q)) \/ Ahead(q, x, y)
  <2>1. PICK a \in DOMAIN r, b \in DOMAIN r : a < b /\ r[a] = x /\ r[b] = y
    BY <1>2 DEF Ahead
  <2>2. b - 1 \in DOMAIN q /\ q[b - 1] = y
    BY <1>1, <2>1
  <2>3. CASE a = 1
    BY <1>1, <2>1, <2>2, <2>3 DEF ToSet
  <2>4. CASE a # 1
    <3>1. a - 1 \in DOMAIN q /\ q[a - 1] = x /\ a - 1 < b - 1
      BY <1>1, <2>1, <2>4
    <3> QED
      BY <2>2, <3>1 DEF Ahead
  <2> QED
    BY <2>3, <2>4
<1>3. ASSUME x = s, y \in ToSet(q) PROVE Ahead(r, x, y)
  <2>1. PICK b \in DOMAIN q : q[b] = y
    BY <1>3 DEF ToSet
  <2>2. 1 \in DOMAIN r /\ b + 1 \in DOMAIN r /\ 1 < b + 1 /\ r[1] = x /\ r[b + 1] = y
    BY <1>1, <1>3, <2>1
  <2> QED
    BY <2>2 DEF Ahead
<1>4. ASSUME Ahead(q, x, y) PROVE Ahead(r, x, y)
  <2>1. PICK a \in DOMAIN q, b \in DOMAIN q : a < b /\ q[a] = x /\ q[b] = y
    BY <1>4 DEF Ahead
  <2>2. a + 1 \in DOMAIN r /\ b + 1 \in DOMAIN r /\ a + 1 < b + 1 /\ r[a + 1] = x /\ r[b + 1] = y
    BY <1>1, <2>1
  <2> QED
    BY <2>2 DEF Ahead
<1> QED
  BY <1>2, <1>3, <1>4 DEF r

\* What unlinking leaves of a list without repetition: the others, in their order.
LEMMA SeqWithout ==
  ASSUME NEW S, NEW q \in Seq(S), IsInjective(q), NEW x \in ToSet(q)
  PROVE  LET r == unlink(q, x)
         IN  /\ r \in Seq(S) /\ IsInjective(r) /\ Len(r) = Len(q) - 1
             /\ ToSet(r) = ToSet(q) \ {x}
             /\ \A y, z : Ahead(r, y, z) <=> Ahead(q, y, z) /\ y # x /\ z # x
<1> DEFINE at == SelectInSeq(q, LAMBDA l : l = x)
           r == RemoveAt(q, at)
<1>1. at \in 1 .. Len(q) /\ q[at] = x
  <2> DEFINE I == {i \in 1 .. Len(q) : q[i] = x}
  <2>1. I \in SUBSET Nat /\ I # {}
    BY DEF ToSet
  <2>2. Min(I) \in I
    BY <2>1, MinIn
  <2> HIDE DEF I
  <2>3. at = Min(I)
    BY <2>1 DEF SelectInSeq, I
  <2> HIDE DEF at
  <2> QED
    BY <2>2, <2>3 DEF I
<1> HIDE DEF at
<1>2. /\ r \in Seq(S) /\ Len(r) = Len(q) - 1 /\ Len(q) \in Nat
      /\ DOMAIN q = 1 .. Len(q) /\ DOMAIN r = 1 .. Len(q) - 1
      /\ \A i \in 1 .. Len(q) - 1 : r[i] = IF i < at THEN q[i] ELSE q[i + 1]
  <2> DEFINE u == SubSeq(q, 1, at - 1)
             v == SubSeq(q, at + 1, Len(q))
  <2>0. Len(q) \in Nat /\ at \in Nat /\ at - 1 \in Nat /\ DOMAIN q = 1 .. Len(q)
    BY <1>1
  <2>1. u \in Seq(S) /\ Len(u) = at - 1 /\ \A i \in 1 .. at - 1 : u[i] = q[i]
    BY <1>1, <2>0
  <2>2. v \in Seq(S) /\ Len(v) = Len(q) - at /\ \A i \in 1 .. Len(q) - at : v[i] = q[at + i]
    <3>1. PICK m \in 2 .. Len(q) + 1 : m = at + 1
      BY <1>1, <2>0
    <3>2. SubSeq(q, m, Len(q)) \in Seq(S) /\ Len(SubSeq(q, m, Len(q))) = Len(q) - m + 1
      BY <2>0, SubSeqProperties
    <3>3. \A i \in 1 .. Len(q) - m + 1 : SubSeq(q, m, Len(q))[i] = q[m + i - 1]
      BY <2>0, SubSeqProperties
    <3>4. v = SubSeq(q, m, Len(q))
      BY <3>1
    <3> HIDE DEF v
    <3>5. v \in Seq(S) /\ Len(v) = Len(q) - at
      <4>1. v \in Seq(S) /\ Len(v) = Len(q) - m + 1
        BY ONLY <3>2, <3>4, Zenon
      <4> QED
        BY <2>0, <3>1, <4>1
    <3>6. ASSUME NEW i \in 1 .. Len(q) - at PROVE v[i] = q[at + i]
      <4>1. i \in 1 .. Len(q) - m + 1 /\ m + i - 1 = at + i
        BY <2>0, <3>1
      <4> QED
        BY <3>3, <3>4, <4>1
    <3> QED
      BY <3>5, <3>6
  <2>3. r = u \o v
    BY DEF RemoveAt
  <2> HIDE DEF u, v, r
  <2>4. r \in Seq(S) /\ Len(r) = Len(q) - 1 /\ DOMAIN r = 1 .. Len(q) - 1
    <3>1. r \in Seq(S) /\ Len(r) = Len(u) + Len(v)
      BY <2>1, <2>2, <2>3, ConcatProperties
    <3>2. Len(r) = Len(q) - 1
      BY <2>0, <2>1, <2>2, <3>1
    <3> QED
      BY <3>1, <3>2
  <2>5. ASSUME NEW i \in 1 .. Len(q) - 1
        PROVE  r[i] = IF i < at THEN q[i] ELSE q[i + 1]
    <3>1. CASE i < at
      BY <1>1, <2>0, <2>1, <2>2, <2>3, <3>1
    <3>2. CASE ~(i < at)
      <4>1. i - (at - 1) \in 1 .. Len(q) - at /\ at + (i - (at - 1)) = i + 1
        BY <1>1, <2>0, <3>2
      <4>2. r[i] = v[i - (at - 1)]
        BY <1>1, <2>0, <2>1, <2>2, <2>3, <3>2
      <4> QED
        BY <2>2, <3>2, <4>1, <4>2
    <3> QED
      BY <3>1, <3>2
  <2> QED
    BY <2>0, <2>4, <2>5
<1> HIDE DEF r
<1> DEFINE old(i) == IF i < at THEN i ELSE i + 1
           new(i) == IF i < at THEN i ELSE i - 1
<1>3. \A i \in DOMAIN r : old(i) \in DOMAIN q /\ old(i) # at /\ r[i] = q[old(i)]
  BY <1>1, <1>2
<1>4. \A i \in DOMAIN q : i # at => new(i) \in DOMAIN r /\ r[new(i)] = q[i]
  BY <1>1, <1>2
<1>5. /\ \A i, j \in DOMAIN r : (i < j <=> old(i) < old(j)) /\ (old(i) = old(j) => i = j)
      /\ \A i, j \in DOMAIN q : i # at /\ j # at /\ i < j => new(i) < new(j)
  BY <1>1, <1>2
<1> HIDE DEF old, new
<1>6. \A i \in DOMAIN q : q[i] = x <=> i = at
  BY <1>1, <1>2 DEF IsInjective
<1>7. IsInjective(r)
  BY <1>3, <1>5 DEF IsInjective
<1>8. ToSet(r) = ToSet(q) \ {x}
  <2>1. ASSUME NEW y \in ToSet(r) PROVE y \in ToSet(q) /\ y # x
    <3>1. PICK i \in DOMAIN r : r[i] = y
      BY DEF ToSet
    <3> QED
      BY <1>3, <1>6, <3>1 DEF ToSet
  <2>2. ASSUME NEW y \in ToSet(q), y # x PROVE y \in ToSet(r)
    <3>1. PICK i \in DOMAIN q : q[i] = y
      BY DEF ToSet
    <3> QED
      BY <1>4, <1>6, <2>2, <3>1 DEF ToSet
  <2> QED
    BY <2>1, <2>2
<1>9. ASSUME NEW y, NEW z, Ahead(r, y, z)
      PROVE  Ahead(q, y, z) /\ y # x /\ z # x
  <2>1. PICK a \in DOMAIN r, b \in DOMAIN r : a < b /\ r[a] = y /\ r[b] = z
    BY <1>9 DEF Ahead
  <2>2. old(a) \in DOMAIN q /\ old(b) \in DOMAIN q /\ old(a) < old(b)
        /\ q[old(a)] = y /\ q[old(b)] = z /\ old(a) # at /\ old(b) # at
    BY <1>3, <1>5, <2>1
  <2> QED
    BY <1>6, <2>2 DEF Ahead
<1>10. ASSUME NEW y, NEW z, Ahead(q, y, z), y # x, z # x
       PROVE  Ahead(r, y, z)
  <2>1. PICK a \in DOMAIN q, b \in DOMAIN q : a < b /\ q[a] = y /\ q[b] = z
    BY <1>10 DEF Ahead
  <2>2. a # at /\ b # at
    BY <1>6, <1>10, <2>1
  <2>3. new(a) \in DOMAIN r /\ new(b) \in DOMAIN r /\ new(a) < new(b)
        /\ r[new(a)] = y /\ r[new(b)] = z
    BY <1>4, <1>5, <2>1, <2>2
  <2> QED
    BY <2>3 DEF Ahead
<1>11. r = unlink(q, x)
  BY DEF r, at, unlink
<1> QED
  BY <1>2, <1>7, <1>8, <1>9, <1>10, <1>11
-----------------------------------------------------------------------------
\* Why a lookup finds the latest link: a chain holds the links of its bucket that joined,
\* in the order they have there.
HashTypes ==
  /\ ht_size \in Nat \ {0} /\ key \in [Link -> Keys]
  /\ joined \in Seq(Link) /\ IsInjective(joined) /\ count = Len(joined)
  /\ buckets \in [0 .. ht_size - 1 -> Seq(Link)]

ChainOf(i) ==
  /\ IsInjective(buckets[i])
  /\ ToSet(buckets[i]) = {l \in ToSet(joined) : BucketOf(key[l]) = i}
  /\ \A x, y \in Link : Ahead(buckets[i], x, y) => Ahead(joined, x, y)

HashInv == HashTypes /\ \A i \in 0 .. ht_size - 1 : ChainOf(i)

\* An empty table has empty chains.
LEMMA HashStart == HtInit => HashInv
<1> SUFFICES ASSUME HtInit PROVE HashInv
  OBVIOUS
<1>1. PICK hash_sz \in HashSizes : ht_size = dfs_math_find_prime(hash_sz)
  BY DEF HtInit
<1>2. ht_size \in Nat \ {0}
  <2> DEFINE P == {p \in hash_sz .. 2 * hash_sz + 2 : dfs_math_is_prime(p)}
  <2>1. P # {} /\ hash_sz \in Nat
    BY HashAssumption
  <2>2. \A p \in P : p \in Nat /\ p > 1
    BY <2>1 DEF dfs_math_is_prime
  <2> HIDE DEF P
  <2>3. Min(P) \in P
    BY <2>1, <2>2, MinIn
  <2>4. ht_size = Min(P)
    BY <1>1 DEF dfs_math_find_prime, P
  <2> QED
    BY <2>2, <2>3, <2>4
<1>3. << >> \in Seq(Link) /\ IsInjective(<< >>) /\ ToSet(<< >>) = {} /\ Len(<< >>) = 0
  BY DEF IsInjective, ToSet
<1>4. \A x, y : ~Ahead(<< >>, x, y)
  BY DEF Ahead
<1>5. /\ buckets = [i \in 0 .. ht_size - 1 |-> << >>] /\ joined = << >> /\ count = 0
      /\ key \in [Link -> Keys]
  BY DEF HtInit
<1>6. HashTypes
  BY <1>2, <1>3, <1>5 DEF HashTypes
<1>7. ASSUME NEW i \in 0 .. ht_size - 1 PROVE ChainOf(i)
  <2>1. buckets[i] = << >>
    BY <1>5
  <2> QED
    BY <1>3, <1>4, <1>5, <2>1 DEF ChainOf
<1> QED
  BY <1>6, <1>7 DEF HashInv

\* A link has its bucket.
LEMMA BucketIs ==
  ASSUME HashTypes, NEW k \in Keys
  PROVE  BucketOf(k) \in 0 .. ht_size - 1
<1>1. k \in Seq(Nat) /\ ht_size \in Nat \ {0}
  BY HashAssumption DEF HashTypes
<1> QED
  BY <1>1, HashRange DEF BucketOf

\* A link that joins comes first in its chain and in the order of joining.
LEMMA JoinStep ==
  ASSUME HashInv, NEW hl \in Link, dfs_hashtable_join(hl)
  PROVE  HashInv'
<1> DEFINE b == BucketOf(key[hl])
<1>1. /\ ht_size \in Nat \ {0} /\ key \in [Link -> Keys]
      /\ joined \in Seq(Link) /\ IsInjective(joined) /\ count = Len(joined)
      /\ buckets \in [0 .. ht_size - 1 -> Seq(Link)]
  BY DEF HashInv, HashTypes
<1>2. b \in 0 .. ht_size - 1
  BY <1>1, BucketIs DEF HashInv
<1>3. /\ buckets' = [buckets EXCEPT ![b] = <<hl>> \o buckets[b]]
      /\ count' = count + 1 /\ joined' = <<hl>> \o joined
      /\ ht_size' = ht_size /\ key' = key
  BY DEF dfs_hashtable_join
<1>4. hl \notin ToSet(joined)
  BY <1>1 DEF dfs_hashtable_join, Contains, ToSet
<1>5. /\ joined' \in Seq(Link) /\ IsInjective(joined') /\ Len(joined') = Len(joined) + 1
      /\ ToSet(joined') = ToSet(joined) \cup {hl}
  BY <1>1, <1>3, <1>4, SeqCons
<1>6. ASSUME NEW k PROVE BucketOf(k)' = BucketOf(k)
  BY <1>3 DEF BucketOf
<1> HIDE DEF b
<1>7. \A i \in 0 .. ht_size - 1 : ChainOf(i)
  BY DEF HashInv
<1>8. ASSUME NEW x, NEW y, Ahead(joined, x, y) PROVE Ahead(joined', x, y)
  BY <1>1, <1>3, <1>8, AheadCons
<1>9. buckets[b] \in Seq(Link) /\ IsInjective(buckets[b]) /\ hl \notin ToSet(buckets[b])
  BY <1>1, <1>2, <1>4, <1>7 DEF ChainOf
<1>10. /\ <<hl>> \o buckets[b] \in Seq(Link) /\ IsInjective(<<hl>> \o buckets[b])
       /\ ToSet(<<hl>> \o buckets[b]) = ToSet(buckets[b]) \cup {hl}
  BY <1>9, SeqCons
<1>11. /\ buckets' \in [0 .. ht_size - 1 -> Seq(Link)]
       /\ buckets'[b] = <<hl>> \o buckets[b]
       /\ \A i \in 0 .. ht_size - 1 : i # b => buckets'[i] = buckets[i]
  BY <1>1, <1>2, <1>3, <1>10
<1>12. ASSUME NEW i \in 0 .. ht_size - 1 PROVE ChainOf(i)'
  <2>1. CASE i = b
    <3>1. IsInjective(buckets'[i])
      BY <1>10, <1>11, <2>1
    <3>2. ToSet(buckets'[i]) = {l \in ToSet(joined') : BucketOf(key[l])' = i}
      BY <1>2, <1>3, <1>5, <1>6, <1>7, <1>10, <1>11, <2>1 DEF ChainOf, b
    <3>3. ASSUME NEW x \in Link, NEW y \in Link, Ahead(buckets'[i], x, y)
          PROVE  Ahead(joined', x, y)
      <4>1. (x = hl /\ y \in ToSet(buckets[b])) \/ Ahead(buckets[b], x, y)
        BY <1>9, <1>11, <2>1, <3>3, AheadCons
      <4>2. (x = hl /\ y \in ToSet(joined)) \/ Ahead(joined, x, y)
        BY <1>2, <1>7, <4>1 DEF ChainOf
      <4> QED
        BY <1>1, <1>3, <4>2, AheadCons
    <3> QED
      BY <3>1, <3>2, <3>3 DEF ChainOf
  <2>2. CASE i # b
    <3>1. buckets'[i] = buckets[i] /\ ChainOf(i)
      BY <1>7, <1>11, <2>2
    <3>2. ToSet(buckets'[i]) = {l \in ToSet(joined') : BucketOf(key[l])' = i}
      BY <1>3, <1>5, <1>6, <2>2, <3>1 DEF ChainOf, b
    <3> QED
      BY <1>8, <3>1, <3>2 DEF ChainOf
  <2> QED
    BY <2>1, <2>2
<1>13. HashTypes'
  BY <1>1, <1>3, <1>5, <1>11 DEF HashTypes
<1> QED
  BY <1>3, <1>12, <1>13 DEF HashInv
\* A link that is taken out leaves the order of the others as it was.
LEMMA RemoveStep ==
  ASSUME HashInv, NEW hl \in Link, dfs_hashtable_remove_link(hl),
         Contains(buckets[BucketOf(key[hl])], hl)
  PROVE  HashInv'
<1> DEFINE b == BucketOf(key[hl])
           rest == unlink(buckets[b], hl)
<1>1. /\ ht_size \in Nat \ {0} /\ key \in [Link -> Keys]
      /\ joined \in Seq(Link) /\ IsInjective(joined) /\ count = Len(joined)
      /\ buckets \in [0 .. ht_size - 1 -> Seq(Link)]
  BY DEF HashInv, HashTypes
<1>2. b \in 0 .. ht_size - 1
  BY <1>1, BucketIs DEF HashInv
<1>3. /\ buckets' = [buckets EXCEPT ![b] = rest]
      /\ count' = count - 1 /\ joined' = RemoveFirst(joined, hl)
      /\ ht_size' = ht_size /\ key' = key
  BY DEF dfs_hashtable_remove_link
<1>4. \A i \in 0 .. ht_size - 1 : ChainOf(i)
  BY DEF HashInv
<1>5. hl \in ToSet(buckets[b]) /\ buckets[b] \in Seq(Link) /\ IsInjective(buckets[b])
  <2>1. buckets[b] \in Seq(Link)
    BY <1>1, <1>2
  <2> QED
    BY <1>2, <1>4, <2>1 DEF Contains, ToSet, ChainOf
<1>6. hl \in ToSet(joined)
  BY <1>2, <1>4, <1>5 DEF ChainOf
<1>7. joined' = unlink(joined, hl)
  <2>1. \E i \in 1 .. Len(joined) : joined[i] = hl
    BY <1>1, <1>6 DEF ToSet
  <2>2. RemoveFirst(joined, hl) = unlink(joined, hl)
    BY <2>1, Zenon DEF RemoveFirst, unlink, SelectInSeq
  <2> QED
    BY <1>3, <2>2
<1>8. /\ joined' \in Seq(Link) /\ IsInjective(joined') /\ Len(joined') = Len(joined) - 1
      /\ ToSet(joined') = ToSet(joined) \ {hl}
      /\ \A y, z : Ahead(joined', y, z) <=> Ahead(joined, y, z) /\ y # hl /\ z # hl
  BY <1>1, <1>6, <1>7, SeqWithout
<1>9. /\ rest \in Seq(Link) /\ IsInjective(rest) /\ ToSet(rest) = ToSet(buckets[b]) \ {hl}
      /\ \A y, z : Ahead(rest, y, z) <=> Ahead(buckets[b], y, z) /\ y # hl /\ z # hl
  BY <1>5, SeqWithout
<1>10. ASSUME NEW k PROVE BucketOf(k)' = BucketOf(k)
  BY <1>3 DEF BucketOf
<1> HIDE DEF b, rest
<1>11. /\ buckets' \in [0 .. ht_size - 1 -> Seq(Link)] /\ buckets'[b] = rest
       /\ \A i \in 0 .. ht_size - 1 : i # b => buckets'[i] = buckets[i]
  BY <1>1, <1>2, <1>3, <1>9
<1>12. ASSUME NEW i \in 0 .. ht_size - 1 PROVE ChainOf(i)'
  <2>1. CASE i = b
    <3>1. ToSet(buckets'[i]) = {l \in ToSet(joined') : BucketOf(key[l])' = i}
      BY <1>2, <1>3, <1>4, <1>8, <1>9, <1>10, <1>11, <2>1 DEF ChainOf
    <3>2. \A x, y \in Link : Ahead(buckets'[i], x, y) => Ahead(joined', x, y)
      BY <1>2, <1>4, <1>8, <1>9, <1>11, <2>1 DEF ChainOf
    <3> QED
      BY <1>9, <1>11, <2>1, <3>1, <3>2 DEF ChainOf
  <2>2. CASE i # b
    <3>1. buckets'[i] = buckets[i] /\ ChainOf(i)
      BY <1>4, <1>11, <2>2
    <3>2. hl \notin ToSet(buckets[i])
      BY <2>2, <3>1 DEF ChainOf, b
    <3>3. ToSet(buckets'[i]) = {l \in ToSet(joined') : BucketOf(key[l])' = i}
      BY <1>3, <1>8, <1>10, <3>1, <3>2 DEF ChainOf
    <3>4. ASSUME NEW x \in Link, NEW y \in Link, Ahead(buckets[i], x, y)
          PROVE  x # hl /\ y # hl
      BY <3>2, <3>4 DEF Ahead, ToSet
    <3>5. \A x, y \in Link : Ahead(buckets'[i], x, y) => Ahead(joined', x, y)
      BY <1>8, <3>1, <3>4 DEF ChainOf
    <3> QED
      BY <3>1, <3>3, <3>5 DEF ChainOf
  <2> QED
    BY <2>1, <2>2
<1>13. HashTypes'
  BY <1>1, <1>3, <1>8, <1>11 DEF HashTypes
<1> QED
  BY <1>3, <1>12, <1>13 DEF HashInv

\* Nothing changes.
LEMMA HashKept ==
  ASSUME HashInv, UNCHANGED ht_vars
  PROVE  HashInv'
<1>1. HashTypes'
  BY DEF HashInv, HashTypes, ht_vars
<1>2. ASSUME NEW i \in 0 .. ht_size - 1 PROVE ChainOf(i)'
  <2>1. ChainOf(i)
    BY DEF HashInv
  <2>2. ASSUME NEW k PROVE BucketOf(k)' = BucketOf(k)
    BY DEF BucketOf, ht_vars
  <2> QED
    BY <2>1, <2>2 DEF ChainOf, ht_vars
<1> QED
  BY <1>1, <1>2 DEF HashInv, ht_vars

\* A link joins, leaves, or is not there to leave.
LEMMA HashStep == HashInv /\ [HtNext]_ht_vars => HashInv'
<1> SUFFICES ASSUME HashInv, [HtNext]_ht_vars PROVE HashInv'
  OBVIOUS
<1>1. ASSUME NEW hl \in Link, dfs_hashtable_join(hl) PROVE HashInv'
  BY <1>1, JoinStep
<1>2. ASSUME NEW hl \in Link, dfs_hashtable_remove_link(hl) PROVE HashInv'
  <2>1. CASE Contains(buckets[BucketOf(key[hl])], hl)
    BY <1>2, <2>1, RemoveStep
  <2>2. CASE ~Contains(buckets[BucketOf(key[hl])], hl)
    BY <1>2, <2>2, HashKept DEF dfs_hashtable_remove_link, ht_vars
  <2> QED
    BY <2>1, <2>2
<1>3. CASE UNCHANGED ht_vars
  BY <1>3, HashKept
<1> QED
  BY <1>1, <1>2, <1>3 DEF HtNext

\* The first link of a list with a key.
LEMMA FirstOfKey ==
  ASSUME NEW q \in Seq(Link), NEW k
  PROVE  LET at == SelectInSeq(q, LAMBDA l : key[l] = k)
         IN  \/ at = 0 /\ \A i \in DOMAIN q : key[q[i]] # k
             \/ /\ at # 0 /\ at \in DOMAIN q /\ key[q[at]] = k
                /\ \A i \in DOMAIN q : key[q[i]] = k => at <= i
<1> DEFINE at == SelectInSeq(q, LAMBDA l : key[l] = k)
           I == {i \in 1 .. Len(q) : key[q[i]] = k}
<1>1. I \in SUBSET Nat /\ DOMAIN q = 1 .. Len(q)
  OBVIOUS
<1>2. I # {} => Min(I) \in I /\ \A y \in I : Min(I) <= y
  BY <1>1, MinIn
<1> HIDE DEF I
<1>3. at = IF I # {} THEN Min(I) ELSE 0
  BY DEF SelectInSeq, I
<1> HIDE DEF at
<1>4. CASE I = {}
  BY <1>1, <1>3, <1>4 DEF at, I
<1>5. CASE I # {}
  <2>1. at \in I /\ \A y \in I : at <= y
    BY <1>2, <1>3, <1>5
  <2>2. /\ at # 0 /\ at \in DOMAIN q /\ key[q[at]] = k
        /\ \A i \in DOMAIN q : key[q[i]] = k => at <= i
    BY <1>1, <2>1 DEF I
  <2> QED
    BY <2>2 DEF at
<1> QED
  BY <1>4, <1>5

\* The first link with a key is the same in the chain and among those that joined.
LEMMA LookupLatest ==
  ASSUME HashInv, NEW k \in Keys
  PROVE  LET latest == SelectInSeq(joined, LAMBDA l : key[l] = k)
         IN  dfs_hashtable_lookup(k) = IF latest = 0 THEN {} ELSE {joined[latest]}
<1> DEFINE chain == buckets[BucketOf(k)]
           at == SelectInSeq(chain, LAMBDA l : key[l] = k)
           latest == SelectInSeq(joined, LAMBDA l : key[l] = k)
<1>1. BucketOf(k) \in 0 .. ht_size - 1 /\ ChainOf(BucketOf(k))
  BY BucketIs DEF HashInv
<1>2. chain \in Seq(Link) /\ joined \in Seq(Link) /\ IsInjective(joined)
  BY <1>1 DEF HashInv, HashTypes
<1>3. dfs_hashtable_lookup(k) = IF at = 0 THEN {} ELSE {chain[at]}
  BY DEF dfs_hashtable_lookup
<1>4. \/ at = 0 /\ \A i \in DOMAIN chain : key[chain[i]] # k
      \/ /\ at # 0 /\ at \in DOMAIN chain /\ key[chain[at]] = k
         /\ \A i \in DOMAIN chain : key[chain[i]] = k => at <= i
  BY <1>2, FirstOfKey
<1>5. \/ latest = 0 /\ \A i \in DOMAIN joined : key[joined[i]] # k
      \/ /\ latest # 0 /\ latest \in DOMAIN joined /\ key[joined[latest]] = k
         /\ \A i \in DOMAIN joined : key[joined[i]] = k => latest <= i
  BY <1>2, FirstOfKey
<1>6. /\ ToSet(chain) = {l \in ToSet(joined) : BucketOf(key[l]) = BucketOf(k)}
      /\ \A x, y \in Link : Ahead(chain, x, y) => Ahead(joined, x, y)
  BY <1>1 DEF ChainOf
<1> HIDE DEF chain, at, latest
<1>7. CASE latest = 0
  <2>1. \A i \in DOMAIN chain : key[chain[i]] # k
    BY <1>5, <1>6, <1>7 DEF ToSet
  <2> QED
    BY <1>3, <1>4, <1>7, <2>1 DEF latest
<1>8. CASE latest # 0
  <2> DEFINE new == joined[latest]
             found == chain[at]
  <2>1. latest \in DOMAIN joined /\ key[new] = k /\ new \in ToSet(joined)
    BY <1>5, <1>8 DEF ToSet
  <2>2. new \in ToSet(chain)
    BY <1>6, <2>1
  <2>3. PICK b \in DOMAIN chain : chain[b] = new
    BY <2>2 DEF ToSet
  <2>4. at # 0 /\ at \in DOMAIN chain /\ key[found] = k /\ at <= b
    BY <1>4, <2>1, <2>3
  <2>5. found \in ToSet(joined) /\ found \in Link /\ new \in Link
    BY <1>2, <1>6, <2>1, <2>4 DEF ToSet
  <2>6. PICK p \in DOMAIN joined : joined[p] = found
    BY <2>5 DEF ToSet
  <2>7. latest <= p
    BY <1>5, <1>8, <2>4, <2>6
  <2>8. found = new
    <3> SUFFICES ASSUME found # new PROVE FALSE
      OBVIOUS
    <3>1. at < b
      BY <1>2, <2>3, <2>4
    <3>2. Ahead(chain, found, new)
      BY <2>3, <2>4, <3>1 DEF Ahead
    <3>3. Ahead(joined, found, new)
      BY <1>6, <2>5, <3>2
    <3>4. PICK c \in DOMAIN joined, d \in DOMAIN joined :
            c < d /\ joined[c] = found /\ joined[d] = new
      BY <3>3 DEF Ahead
    <3>5. c = p /\ d = latest
      BY <1>2, <2>1, <2>6, <3>4 DEF IsInjective
    <3> QED
      BY <1>2, <2>1, <2>7, <3>4, <3>5
  <2> QED
    BY <1>3, <1>8, <2>4, <2>8 DEF latest
<1> QED
  BY <1>7, <1>8

\* For any links, any keys and any size of the table, dfs_hashtable_lookup returns the
\* link that joined last of those with the key, and dfs_hashtable_empty tells the truth.
THEOREM LookupIsLatest == HtSpec => []LookupFindsLatest
<1>1. HashInv => LookupFindsLatest
  BY LookupLatest DEF LookupFindsLatest, HashInv, HashTypes
<1> QED
  BY HashStart, HashStep, <1>1, PTL DEF HtSpec
=============================================================================
