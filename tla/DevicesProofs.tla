--------------------------- MODULE DevicesProofs ---------------------------
(***************************************************************************)
(* The devices, for every value of the constants: what a transfer of the   *)
(* disk driver that returns 0 has done, against the drive of AtaPio; that  *)
(* the clock's local time is the chip's moved by the time zone; and that   *)
(* the dirty rectangles forget nothing that was drawn.                     *)
(***************************************************************************)
EXTENDS Platform, SequenceTheorems, WellFoundedInduction, NaturalsInduction, TLAPS

-----------------------------------------------------------------------------
(* The calendar.                                                           *)

\* The days of a year before month m.
Before(y, m) ==
    <<0, 31, 59, 90, 120, 151, 181, 212, 243, 273, 304, 334>>[m]
      + IF m > 2 /\ Rtc!rtc_is_leap(y) THEN 1 ELSE 0

LEMMA Months == 1..12 = {1, 2, 3, 4, 5, 6, 7, 8, 9, 10, 11, 12}
  OBVIOUS

LEMMA BeforeIs ==
    ASSUME NEW y \in Nat
    PROVE  /\ Before(y, 1) = 0
           /\ \A m \in 2..12 : Before(y, m) = Before(y, m - 1) + Rtc!rtc_month_days(y, m - 1)
           /\ \A m \in 1..12 : Before(y, m) \in Nat
           /\ Before(y, 12) + Rtc!rtc_month_days(y, 12) = IF Rtc!rtc_is_leap(y) THEN 366 ELSE 365
           /\ \A m \in 1..12 : Rtc!rtc_month_days(y, m) \in 28..31
  <1> DEFINE leap == Rtc!rtc_is_leap(y)
  <1>1. ASSUME NEW m \in 1..12
        PROVE  m \in {1, 2, 3, 4, 5, 6, 7, 8, 9, 10, 11, 12}
    OBVIOUS
  <1>2. ASSUME NEW m \in 2..12
        PROVE  m \in {2, 3, 4, 5, 6, 7, 8, 9, 10, 11, 12}
    OBVIOUS
  <1> HIDE DEF leap
  <1>3. \A m \in 2..12 : Before(y, m) = Before(y, m - 1) + Rtc!rtc_month_days(y, m - 1)
    BY <1>2, SMTT(30) DEF Before, Rtc!rtc_month_days, leap
  <1> QED
    BY <1>1, <1>3 DEF Before, Rtc!rtc_month_days, leap

LEMMA DayNumberIs ==
    ASSUME NEW c, c.year \in Nat, c.month \in 1..12
    PROVE  Rtc!DayNumber(c) =
             365 * (c.year - 1) + (c.year - 1) \div 4 - (c.year - 1) \div 100
               + (c.year - 1) \div 400 + Before(c.year, c.month) + c.day - 1
  <1> DEFINE D(f) == [m \in 1..12 |->
                        IF m = 1 THEN 0 ELSE f[m - 1] + Rtc!rtc_month_days(c.year, m - 1)]
             days == CHOOSE f : f = D(f)
             b == [m \in 1..12 |-> Before(c.year, m)]
  <1>1. b = D(b)
    <2>1. ASSUME NEW m \in 1..12
          PROVE  Before(c.year, m) = IF m = 1 THEN 0 ELSE b[m - 1] + Rtc!rtc_month_days(c.year, m - 1)
      <3>1. CASE m = 1
        BY <3>1, BeforeIs
      <3>2. CASE m # 1
        <4>1. m \in 2..12 /\ m - 1 \in 1..12
          BY <3>2
        <4>2. b[m - 1] = Before(c.year, m - 1)
          BY <4>1
        <4>3. Before(c.year, m) = Before(c.year, m - 1) + Rtc!rtc_month_days(c.year, m - 1)
          BY <4>1, BeforeIs
        <4> HIDE DEF b
        <4> QED
          BY <3>2, <4>2, <4>3
      <3> QED
        BY <3>1, <3>2
    <2> QED
      BY <2>1
  <1>2. days = D(days)
    BY <1>1
  <1>3. \A m \in 1..12 : days[m] = Before(c.year, m)
    <2> HIDE DEF days
    <2>1. days[1] = 0
      BY <1>2
    <2>2. \A m \in 2..12 : days[m] = days[m - 1] + Rtc!rtc_month_days(c.year, m - 1)
      BY <1>2
    <2>3. ASSUME NEW m \in 2..12, days[m - 1] = Before(c.year, m - 1)
          PROVE  days[m] = Before(c.year, m)
      <3>1. days[m] = days[m - 1] + Rtc!rtc_month_days(c.year, m - 1)
        BY <2>2
      <3>2. Before(c.year, m) = Before(c.year, m - 1) + Rtc!rtc_month_days(c.year, m - 1)
        BY BeforeIs
      <3> QED
        BY <2>3, <3>1, <3>2
    <2>4. days[1] = Before(c.year, 1)
      BY <2>1, BeforeIs
    <2>5. \A m \in 2..12 : days[m - 1] = Before(c.year, m - 1) => days[m] = Before(c.year, m)
      BY <2>3
    <2> HIDE DEF days
    <2>6. \A m \in {1, 2, 3, 4, 5, 6} : days[m] = Before(c.year, m)
      BY <2>4, <2>5
    <2>7. \A m \in {7, 8, 9, 10, 11, 12} : days[m] = Before(c.year, m)
      BY <2>5, <2>6
    <2> QED
      BY <2>6, <2>7
  <1> QED
    BY <1>3 DEF Rtc!DayNumber

\* The days before a year, and what the next one adds.
Years(y) == 365 * y + y \div 4 - y \div 100 + y \div 400

LEMMA NextYear ==
    ASSUME NEW y \in Nat
    PROVE  Years(y + 1) = Years(y) + (IF Rtc!rtc_is_leap(y + 1) THEN 366 ELSE 365) /\ Years(y) \in Int
  <1>1. ASSUME NEW k \in {4, 100, 400}
        PROVE  (y + 1) \div k = y \div k + (IF (y + 1) % k = 0 THEN 1 ELSE 0)
    OBVIOUS
  <1>2. (y + 1) % 400 = 0 => (y + 1) % 100 = 0
    OBVIOUS
  <1>3. (y + 1) % 100 = 0 => (y + 1) % 4 = 0
    OBVIOUS
  <1>4. y \div 4 \in Int /\ y \div 100 \in Int /\ y \div 400 \in Int
    OBVIOUS
  <1> QED
    BY <1>1, <1>2, <1>3, <1>4 DEF Years, Rtc!rtc_is_leap

LEMMA MonthIs ==
    ASSUME NEW y \in Nat, NEW m \in 1..12
    PROVE  Rtc!rtc_month_days(y, m) \in 28..31 /\ Before(y, m) \in Nat
  BY BeforeIs

LEMMA NextMonth ==
    ASSUME NEW y \in Nat, NEW m \in 1..11
    PROVE  Before(y, m + 1) = Before(y, m) + Rtc!rtc_month_days(y, m)
  <1>1. m + 1 \in 2..12 /\ (m + 1) - 1 = m
    OBVIOUS
  <1>2. Before(y, m + 1) = Before(y, (m + 1) - 1) + Rtc!rtc_month_days(y, (m + 1) - 1)
    BY <1>1, BeforeIs, ZenonT(60)
  <1> QED
    BY ONLY <1>1, <1>2

LEMMA WholeYear ==
    ASSUME NEW y \in Nat
    PROVE  /\ Years(y) \in Int
           /\ Years(y + 1) = Years(y) + Before(y + 1, 12) + Rtc!rtc_month_days(y + 1, 12)
           /\ Before(y, 1) = 0
  <1>1. y + 1 \in Nat
    OBVIOUS
  <1>2. Before(y + 1, 12) + Rtc!rtc_month_days(y + 1, 12)
          = IF Rtc!rtc_is_leap(y + 1) THEN 366 ELSE 365
    BY <1>1, BeforeIs
  <1>3. Before(y + 1, 12) \in Nat /\ Rtc!rtc_month_days(y + 1, 12) \in 28..31
    BY <1>1, MonthIs
  <1>4. Years(y) \in Int
        /\ Years(y + 1) = Years(y) + IF Rtc!rtc_is_leap(y + 1) THEN 366 ELSE 365
    BY NextYear
  <1>5. Before(y, 1) = 0
    BY BeforeIs
  <1> QED
    BY <1>2, <1>3, <1>4, <1>5

\* A date there is, with a time that may still be out of its day.
Stamp(c) ==
    /\ DOMAIN c = {"year", "month", "day", "hour", "minute", "second", "weekday"}
    /\ c.hour \in Int /\ c.minute \in Int /\ c.second \in Int /\ c.weekday \in Int
IsDay(c) ==
    /\ Stamp(c) /\ c.year \in Nat \ {0} /\ c.month \in 1..12 /\ c.day \in Int
    /\ 1 <= c.day /\ c.day <= Rtc!rtc_month_days(c.year, c.month)

LEMMA DayIs ==
    ASSUME NEW c, IsDay(c)
    PROVE  /\ Rtc!DayNumber(c) = Years(c.year - 1) + Before(c.year, c.month) + c.day - 1
           /\ Rtc!DayNumber(c) \in Int
  <1>1. c.year - 1 \in Nat /\ c.year \in Nat /\ c.month \in 1..12 /\ c.day \in Int
    BY DEF IsDay
  <1>2. Years(c.year - 1) \in Int /\ Before(c.year, c.month) \in Nat
    BY <1>1, WholeYear, MonthIs
  <1>3. Rtc!DayNumber(c) = Years(c.year - 1) + Before(c.year, c.month) + c.day - 1
    BY <1>1, DayNumberIs DEF Years
  <1> QED
    BY <1>1, <1>2, <1>3

\* The next day and the one before, in their months and years.
LEMMA DayAfter ==
    ASSUME NEW c, IsDay(c), NEW d, IsDay(d),
           \/ d.year = c.year /\ d.month = c.month /\ d.day = c.day + 1
           \/ /\ d.year = c.year /\ d.month = c.month + 1
              /\ d.day = 1 /\ c.day = Rtc!rtc_month_days(c.year, c.month)
           \/ /\ d.year = c.year + 1 /\ d.month = 1 /\ c.month = 12
              /\ d.day = 1 /\ c.day = Rtc!rtc_month_days(c.year, c.month)
    PROVE  Rtc!DayNumber(d) = Rtc!DayNumber(c) + 1
  <1>1. PICK y : y = c.year
    OBVIOUS
  <1>2. PICK m : m = c.month
    OBVIOUS
  <1>3. y \in Nat /\ y - 1 \in Nat /\ m \in 1..12 /\ c.day \in Int
    BY <1>1, <1>2 DEF IsDay
  <1>4. Years(y - 1) \in Int /\ Before(y, m) \in Nat /\ Rtc!rtc_month_days(y, m) \in 28..31
    BY <1>3, MonthIs, WholeYear
  <1>5. Rtc!DayNumber(c) = Years(y - 1) + Before(y, m) + c.day - 1
    BY <1>1, <1>2, DayIs
  <1>6. Rtc!DayNumber(d) = Years(d.year - 1) + Before(d.year, d.month) + d.day - 1
    BY DayIs
  <1>7. CASE d.year = y /\ d.month = m /\ d.day = c.day + 1
    BY <1>3, <1>4, <1>5, <1>6, <1>7
  <1>8. CASE d.year = y /\ d.month = m + 1 /\ d.day = 1 /\ c.day = Rtc!rtc_month_days(y, m)
    <2>1. m \in 1..11
      BY <1>3, <1>8 DEF IsDay
    <2>2. Before(y, m + 1) = Before(y, m) + Rtc!rtc_month_days(y, m)
      BY <1>3, <2>1, NextMonth
    <2> QED
      BY <1>3, <1>4, <1>5, <1>6, <1>8, <2>2
  <1>9. CASE d.year = y + 1 /\ d.month = 1 /\ m = 12 /\ d.day = 1 /\ c.day = Rtc!rtc_month_days(y, m)
    <2>1. (y - 1) + 1 = y /\ (y + 1) - 1 = y /\ y + 1 \in Nat
      BY <1>3
    <2>2. Years(y) = Years(y - 1) + Before(y, 12) + Rtc!rtc_month_days(y, 12)
      BY <1>3, <2>1, WholeYear
    <2>3. Before(y + 1, 1) = 0
      BY <2>1, WholeYear
    <2> QED
      BY <1>3, <1>4, <1>5, <1>6, <1>9, <2>1, <2>2, <2>3
  <1> QED
    BY <1>1, <1>2, <1>7, <1>8, <1>9

\* What Tomorrow and Yesterday leave alone.
SameTime(a, b) ==
    a.hour = b.hour /\ a.minute = b.minute /\ a.second = b.second /\ a.weekday = b.weekday

LEMMA TomorrowIs ==
    ASSUME NEW c, IsDay(c), NEW d, d = Rtc!Tomorrow(c)
    PROVE  IsDay(d) /\ SameTime(d, c) /\ Rtc!DayNumber(d) = Rtc!DayNumber(c) + 1
  <1>1. PICK y : y = c.year
    OBVIOUS
  <1>2. PICK m : m = c.month
    OBVIOUS
  <1>3. y \in Nat /\ y + 1 \in Nat \ {0} /\ m \in 1..12 /\ c.day \in Int
    BY <1>1, <1>2 DEF IsDay
  <1>4. Rtc!rtc_month_days(y, m) \in 28..31
    BY <1>3, MonthIs
  <1>5. CASE c.day < Rtc!rtc_month_days(y, m)
    <2>1. d = [c EXCEPT !.day = @ + 1]
      BY <1>1, <1>2, <1>5 DEF Rtc!Tomorrow
    <2>2. Stamp(d) /\ SameTime(d, c) /\ d.year = y /\ d.month = m /\ d.day = c.day + 1
      BY <1>1, <1>2, <2>1 DEF IsDay, Stamp, SameTime
    <2>3. IsDay(d)
      BY <1>1, <1>2, <1>3, <1>4, <1>5, <2>2 DEF IsDay
    <2> QED
      BY <1>1, <1>2, <2>2, <2>3, DayAfter
  <1>6. CASE ~(c.day < Rtc!rtc_month_days(y, m)) /\ m = 12
    <2>1. d = [c EXCEPT !.day = 1, !.month = 1, !.year = @ + 1]
      BY <1>1, <1>2, <1>6 DEF Rtc!Tomorrow
    <2>2. Stamp(d) /\ SameTime(d, c) /\ d.year = y + 1 /\ d.month = 1 /\ d.day = 1
      BY <1>1, <1>2, <2>1 DEF IsDay, Stamp, SameTime
    <2>3. Rtc!rtc_month_days(y + 1, 1) \in 28..31
      BY <1>3, MonthIs
    <2>4. IsDay(d)
      BY <1>3, <2>2, <2>3 DEF IsDay
    <2>5. c.day = Rtc!rtc_month_days(y, m)
      BY <1>1, <1>2, <1>3, <1>4, <1>6 DEF IsDay
    <2> QED
      BY <1>1, <1>2, <1>6, <2>2, <2>4, <2>5, DayAfter
  <1>7. CASE ~(c.day < Rtc!rtc_month_days(y, m)) /\ m # 12
    <2>1. d = [c EXCEPT !.day = 1, !.month = @ + 1]
      BY <1>1, <1>2, <1>7 DEF Rtc!Tomorrow
    <2>2. Stamp(d) /\ SameTime(d, c) /\ d.year = y /\ d.month = m + 1 /\ d.day = 1
      BY <1>1, <1>2, <2>1 DEF IsDay, Stamp, SameTime
    <2>3. m + 1 \in 1..12
      BY <1>3, <1>7
    <2>4. Rtc!rtc_month_days(y, m + 1) \in 28..31
      BY <1>3, <2>3, MonthIs
    <2>5. IsDay(d)
      BY <1>1, <2>2, <2>3, <2>4 DEF IsDay
    <2>6. c.day = Rtc!rtc_month_days(y, m)
      BY <1>1, <1>2, <1>3, <1>4, <1>7 DEF IsDay
    <2> QED
      BY <1>1, <1>2, <2>2, <2>5, <2>6, DayAfter
  <1> QED
    BY <1>5, <1>6, <1>7

LEMMA YesterdayIs ==
    ASSUME NEW c, IsDay(c), c.year >= 2, NEW d, d = Rtc!Yesterday(c)
    PROVE  IsDay(d) /\ SameTime(d, c) /\ Rtc!DayNumber(d) = Rtc!DayNumber(c) - 1
  <1>1. PICK y : y = c.year
    OBVIOUS
  <1>2. PICK m : m = c.month
    OBVIOUS
  <1>3. y \in Nat /\ y - 1 \in Nat \ {0} /\ m \in 1..12 /\ c.day \in Int
    BY <1>1, <1>2 DEF IsDay
  <1>4. Rtc!rtc_month_days(y, m) \in 28..31
    BY <1>3, MonthIs
  <1>5. SUFFICES IsDay(d) /\ SameTime(d, c) /\ Rtc!DayNumber(c) = Rtc!DayNumber(d) + 1
    <2>1. Rtc!DayNumber(d) \in Int
      BY <1>5, DayIs
    <2> QED
      BY <1>5, <2>1
  <1>6. CASE c.day > 1
    <2>1. d = [c EXCEPT !.day = @ - 1]
      BY <1>6 DEF Rtc!Yesterday
    <2>2. Stamp(d) /\ SameTime(d, c) /\ d.year = y /\ d.month = m /\ d.day = c.day - 1
      BY <1>1, <1>2, <2>1 DEF IsDay, Stamp, SameTime
    <2>3. IsDay(d)
      BY <1>1, <1>2, <1>3, <1>4, <1>6, <2>2 DEF IsDay
    <2>4. c.day = d.day + 1
      BY <1>3, <2>2
    <2> QED
      BY <1>1, <1>2, <2>2, <2>3, <2>4, DayAfter
  <1>7. CASE ~(c.day > 1) /\ m = 1
    <2>1. d = [c EXCEPT !.day = Rtc!rtc_month_days(y - 1, 12), !.month = 12, !.year = y - 1]
      BY <1>1, <1>2, <1>7 DEF Rtc!Yesterday
    <2>2. Rtc!rtc_month_days(y - 1, 12) \in 28..31
      BY <1>3, MonthIs
    <2>3. Stamp(d) /\ SameTime(d, c) /\ d.year = y - 1 /\ d.month = 12
          /\ d.day = Rtc!rtc_month_days(y - 1, 12)
      BY <2>1 DEF IsDay, Stamp, SameTime
    <2>4. IsDay(d)
      BY <1>3, <2>2, <2>3 DEF IsDay
    <2>5. c.day = 1 /\ y = d.year + 1
      BY <1>3, <1>7, <2>3 DEF IsDay
    <2> QED
      BY <1>1, <1>2, <1>7, <2>3, <2>4, <2>5, DayAfter
  <1>8. CASE ~(c.day > 1) /\ m # 1
    <2>1. d = [c EXCEPT !.day = Rtc!rtc_month_days(y, m - 1), !.month = m - 1, !.year = y]
      BY <1>1, <1>2, <1>8 DEF Rtc!Yesterday
    <2>2. m - 1 \in 1..12
      BY <1>3, <1>8
    <2>3. Rtc!rtc_month_days(y, m - 1) \in 28..31
      BY <1>3, <2>2, MonthIs
    <2>4. Stamp(d) /\ SameTime(d, c) /\ d.year = y /\ d.month = m - 1
          /\ d.day = Rtc!rtc_month_days(y, m - 1)
      BY <2>1 DEF IsDay, Stamp, SameTime
    <2>5. IsDay(d)
      BY <1>1, <2>2, <2>3, <2>4 DEF IsDay
    <2>6. c.day = 1 /\ m = d.month + 1
      BY <1>3, <1>8, <2>4 DEF IsDay
    <2> QED
      BY <1>1, <1>2, <2>4, <2>5, <2>6, DayAfter
  <1> QED
    BY <1>6, <1>7, <1>8

-----------------------------------------------------------------------------
(* The time zone.                                                          *)

LEMMA WeekdayIs ==
    ASSUME NEW c, Rtc!DayNumber(c) \in Int
    PROVE  Rtc!Weekday(c) \in 1..7
  <1>1. (Rtc!DayNumber(c) + 1) % 7 \in 0..6
    OBVIOUS
  <1> QED
    BY <1>1 DEF Rtc!Weekday

\* The day of the week moves with the day.
LEMMA ShiftedIs ==
    ASSUME NEW c, IsDay(c), NEW n \in Int, n = Rtc!DayNumber(c), NEW k \in {-1, 1},
           c.weekday = ((n - k + 1) % 7) + 1, n - k >= 0, n >= 0,
           NEW d, d = Rtc!Shifted(c, k)
    PROVE  /\ IsDay(d) /\ d.weekday = Rtc!Weekday(d) /\ Rtc!DayNumber(d) = n
           /\ d.hour = c.hour /\ d.minute = c.minute /\ d.second = c.second
  <1>1. (n - k + 1) % 7 \in 0..6
    OBVIOUS
  <1>2. c.weekday \in 1..7
    BY <1>1
  <1>3. d = [c EXCEPT !.weekday = ((c.weekday - 1 + k) % 7) + 1]
    BY <1>2 DEF Rtc!Shifted
  <1>4. (((n - k + 1) % 7) + k) % 7 = (n + 1) % 7
    OBVIOUS
  <1>5. c.weekday - 1 + k = ((n - k + 1) % 7) + k
    BY <1>1
  <1>6. d = [c EXCEPT !.weekday = ((n + 1) % 7) + 1]
    BY <1>3, <1>4, <1>5
  <1>7. ((n + 1) % 7) + 1 \in Int
    OBVIOUS
  <1>8. /\ Stamp(d) /\ d.weekday = ((n + 1) % 7) + 1
        /\ d.year = c.year /\ d.month = c.month /\ d.day = c.day
        /\ d.hour = c.hour /\ d.minute = c.minute /\ d.second = c.second
    BY <1>6, <1>7 DEF IsDay, Stamp
  <1>9. IsDay(d)
    BY <1>8 DEF IsDay
  <1>10. Rtc!DayNumber(d) = n
    BY <1>8, <1>9, DayIs
  <1> QED
    BY <1>8, <1>9, <1>10 DEF Rtc!Weekday

\* Moved by the offset, over the ends of days, months and years.
LEMMA LocalIs ==
    ASSUME NEW c, IsDay(c), c.year >= 2, c.weekday = Rtc!Weekday(c),
           c.hour \in 0..23, OFFSET \in -12..14, NEW t, t = Rtc!Local(c)
    PROVE  /\ IsDay(t) /\ t.weekday = Rtc!Weekday(t)
           /\ t.minute = c.minute /\ t.second = c.second /\ t.hour \in Int
           /\ (Rtc!DayNumber(t) - Rtc!DayNumber(c)) * 24 + t.hour = c.hour + OFFSET
  <1> DEFINE h == c.hour + OFFSET
  <1>1. PICK n : n = Rtc!DayNumber(c)
    OBVIOUS
  <1>2. n \in Int /\ n >= 1
    <2>1. c.year - 1 \in Nat /\ c.year - 1 >= 1 /\ c.year \in Nat /\ c.month \in 1..12 /\ c.day \in Int
          /\ c.day >= 1
      BY DEF IsDay
    <2>2. Before(c.year, c.month) \in Nat
      BY <2>1, MonthIs
    <2>3. Years(c.year - 1) \in Int /\ Years(c.year - 1) >= 1
      BY <2>1 DEF Years
    <2> QED
      BY <1>1, <2>1, <2>2, <2>3, DayIs
  <1>3. c.weekday = ((n + 1) % 7) + 1
    BY <1>1 DEF Rtc!Weekday
  <1>4. ASSUME NEW g \in Int, NEW x, x = [c EXCEPT !.hour = g]
        PROVE  /\ IsDay(x) /\ Rtc!DayNumber(x) = n /\ x.hour = g /\ x.minute = c.minute
               /\ x.second = c.second /\ x.weekday = c.weekday /\ x.year = c.year
    <2>1. /\ Stamp(x) /\ x.hour = g /\ x.minute = c.minute
          /\ x.second = c.second /\ x.weekday = c.weekday
          /\ x.year = c.year /\ x.month = c.month /\ x.day = c.day
      BY <1>4 DEF IsDay, Stamp
    <2>2. IsDay(x)
      BY <2>1 DEF IsDay
    <2>3. Rtc!DayNumber(x) = n
      BY <1>1, <2>1, <2>2, DayIs
    <2> QED
      BY <2>1, <2>2, <2>3
  <1>5. CASE h >= 24
    <2>1. PICK x : x = [c EXCEPT !.hour = h - 24]
      OBVIOUS
    <2>2. PICK d : d = Rtc!Tomorrow(x)
      OBVIOUS
    <2>3. /\ IsDay(x) /\ Rtc!DayNumber(x) = n /\ x.hour = h - 24 /\ x.minute = c.minute
          /\ x.second = c.second /\ x.weekday = c.weekday
      <3>1. h - 24 \in Int
        OBVIOUS
      <3> HIDE DEF h
      <3> QED
        BY <1>4, <2>1, <3>1
    <2>4. IsDay(d) /\ SameTime(d, x) /\ Rtc!DayNumber(d) = n + 1
      BY <2>2, <2>3, TomorrowIs
    <2>5. t = Rtc!Shifted(d, 1)
      BY <1>5, <2>1, <2>2 DEF Rtc!Local
    <2>6. d.weekday = (((n + 1) - 1 + 1) % 7) + 1
      BY <1>2, <1>3, <2>3, <2>4 DEF SameTime
    <2>7. /\ IsDay(t) /\ t.weekday = Rtc!Weekday(t) /\ Rtc!DayNumber(t) = n + 1
          /\ t.hour = d.hour /\ t.minute = d.minute /\ t.second = d.second
      <3>1. n + 1 \in Int /\ n + 1 >= 0 /\ (n + 1) - 1 >= 0 /\ 1 \in {-1, 1}
        BY <1>2
      <3> QED
        BY <2>4, <2>5, <2>6, <3>1, ShiftedIs
    <2> QED
      BY <1>1, <1>2, <2>3, <2>4, <2>7 DEF SameTime
  <1>6. CASE h < 0
    <2>1. PICK x : x = [c EXCEPT !.hour = h + 24]
      OBVIOUS
    <2>2. PICK d : d = Rtc!Yesterday(x)
      OBVIOUS
    <2>3. /\ IsDay(x) /\ Rtc!DayNumber(x) = n /\ x.hour = h + 24 /\ x.minute = c.minute
          /\ x.second = c.second /\ x.weekday = c.weekday /\ x.year = c.year
      <3>1. h + 24 \in Int
        OBVIOUS
      <3> HIDE DEF h
      <3> QED
        BY <1>4, <2>1, <3>1
    <2>4. IsDay(d) /\ SameTime(d, x) /\ Rtc!DayNumber(d) = n - 1
      BY <2>2, <2>3, YesterdayIs
    <2>5. t = Rtc!Shifted(d, -1)
      BY <1>6, <2>1, <2>2 DEF Rtc!Local
    <2>6. d.weekday = (((n - 1) - (-1) + 1) % 7) + 1
      BY <1>2, <1>3, <2>3, <2>4 DEF SameTime
    <2>7. /\ IsDay(t) /\ t.weekday = Rtc!Weekday(t) /\ Rtc!DayNumber(t) = n - 1
          /\ t.hour = d.hour /\ t.minute = d.minute /\ t.second = d.second
      <3>1. n - 1 \in Int /\ n - 1 >= 0 /\ (n - 1) - (-1) >= 0 /\ -1 \in {-1, 1}
        BY <1>2
      <3> QED
        BY <2>4, <2>5, <2>6, <3>1, ShiftedIs
    <2> QED
      BY <1>1, <1>2, <2>3, <2>4, <2>7 DEF SameTime
  <1>7. CASE ~(h >= 24) /\ ~(h < 0)
    <2>1. t = [c EXCEPT !.hour = h]
      BY <1>7 DEF Rtc!Local
    <2>2. h \in Int
      OBVIOUS
    <2>3. /\ IsDay(t) /\ Rtc!DayNumber(t) = n /\ t.hour = h /\ t.minute = c.minute
          /\ t.second = c.second /\ t.weekday = c.weekday
      <3> HIDE DEF h
      <3> QED
        BY <1>4, <2>1, <2>2
    <2> QED
      BY <1>1, <1>2, <1>3, <2>2, <2>3 DEF Rtc!Weekday
  <1> QED
    BY <1>5, <1>6, <1>7

-----------------------------------------------------------------------------
(* The registers.                                                          *)

LEMMA BcdIs ==
    ASSUME NEW v \in 0..99
    PROVE  /\ Rtc!Bcd(v) \in 0..153 /\ Rtc!bcd_to_bin(Rtc!Bcd(v)) = v
           /\ v > 0 => Rtc!Bcd(v) > 0
  <1>1. PICK t \in 0..9, u \in 0..9 : v = 10 * t + u /\ t = v \div 10 /\ u = v % 10
    <2>1. v \div 10 \in 0..9 /\ v % 10 \in 0..9 /\ v = 10 * (v \div 10) + (v % 10)
      OBVIOUS
    <2> QED
      BY <2>1
  <1>2. Rtc!Bcd(v) = t * 16 + u
    BY <1>1 DEF Rtc!Bcd
  <1>3. (t * 16 + u) % 16 = u /\ (t * 16 + u) \div 16 = t
    OBVIOUS
  <1>4. (u + t * 10) % 256 = v
    BY <1>1
  <1> QED
    BY <1>1, <1>2, <1>3, <1>4 DEF Rtc!bcd_to_bin

\* The registers in the order of their reading, when the chip shows c.
Code(v) == IF st.binary THEN v ELSE Rtc!Bcd(v)
HourCode(h) ==
    IF ~st.half THEN Code(h)
    ELSE Code(IF h % 12 = 0 THEN 12 ELSE h % 12) + IF h >= 12 THEN 128 ELSE 0
Shown(c) ==
    <<Code(c.second), Code(c.minute), HourCode(c.hour), Code(c.day), Code(c.month),
      Code(c.year % 100), Code(c.year \div 100), Code(Rtc!Weekday(c))>>

LEMMA RegisterIs ==
    \A i \in 1..8 : Rtc!Register(Rtc!Order[i]) = Shown(st.chip)[i]
  <1>1. ASSUME NEW i \in 1..8 PROVE i \in {1, 2, 3, 4, 5, 6, 7, 8}
    OBVIOUS
  <1> QED
    BY <1>1 DEF Rtc!Register, Rtc!Order, Shown, Code, HourCode, Rtc!Coded, Rtc!HourReg

LEMMA ValueIs ==
    /\ Rtc!Value("second") = st.got[1] /\ Rtc!Value("minute") = st.got[2]
    /\ Rtc!Value("hour") = st.got[3] /\ Rtc!Value("day") = st.got[4]
    /\ Rtc!Value("month") = st.got[5] /\ Rtc!Value("year") = st.got[6]
    /\ Rtc!Value("century") = st.got[7] /\ Rtc!Value("weekday") = st.got[8]
  <1>1. DOMAIN Rtc!Order = 1..8
    BY DEF Rtc!Order
  <1>2. ASSUME NEW i \in 1..8
        PROVE  (CHOOSE j \in DOMAIN Rtc!Order : Rtc!Order[j] = Rtc!Order[i]) = i
    <2>1. \A j \in 1..8 : Rtc!Order[j] = Rtc!Order[i] => j = i
      BY DEF Rtc!Order
    <2> QED
      BY <1>1, <2>1
  <1>3. /\ Rtc!Order[1] = "second" /\ Rtc!Order[2] = "minute" /\ Rtc!Order[3] = "hour"
        /\ Rtc!Order[4] = "day" /\ Rtc!Order[5] = "month" /\ Rtc!Order[6] = "year"
        /\ Rtc!Order[7] = "century" /\ Rtc!Order[8] = "weekday"
    BY DEF Rtc!Order
  <1>4. ASSUME NEW i \in 1..8 PROVE Rtc!Value(Rtc!Order[i]) = st.got[i]
    BY <1>2 DEF Rtc!Value
  <1> QED
    BY <1>3, <1>4

LEMMA DecodedIs ==
    ASSUME NEW k, NEW v \in 0..99, Rtc!Value(k) = Code(v)
    PROVE  Rtc!Decoded(k) = v
  BY BcdIs DEF Rtc!Decoded, Code

\* What the chip may show.
LEMMA TimeIs ==
    ASSUME NEW c, Rtc!IsTime(c)
    PROVE  /\ c.year \in Nat /\ c.year >= 100 /\ c.year <= 9999
           /\ c.month \in 1..12 /\ c.day \in 1..31
           /\ c.hour \in 0..23 /\ c.minute \in 0..59 /\ c.second \in 0..59
  BY DEF Rtc!IsTime

\* Its year, in the registers of the century and of the year.
LEMMA CenturyOf ==
    ASSUME NEW y \in Nat, y >= 100, y <= 9999
    PROVE  /\ y % 100 \in 0..99 /\ y \div 100 \in 1..99
           /\ (y \div 100) * 100 + (y % 100) = y
  OBVIOUS

LEMMA WeekdayOf ==
    ASSUME NEW c, Rtc!IsTime(c)
    PROVE  Rtc!Weekday(c) \in 1..7
  <1>1. c.year \in Nat /\ c.year - 1 \in Nat
    BY TimeIs
  <1>2. c.month \in 1..12 /\ c.day \in Int
    <2>1. \A x : x \in 1..31 => x \in Int
      OBVIOUS
    <2> QED
      BY TimeIs, <2>1
  <1>3. Before(c.year, c.month) \in Nat /\ Years(c.year - 1) \in Int
    BY <1>1, <1>2, MonthIs, WholeYear
  <1>4. Rtc!DayNumber(c) = Years(c.year - 1) + Before(c.year, c.month) + c.day - 1
    BY <1>1, <1>2, DayNumberIs DEF Years
  <1>5. Rtc!DayNumber(c) \in Int
    BY <1>2, <1>3, <1>4
  <1> QED
    BY <1>5, WeekdayIs

\* The hour that is understood, from its register.
LEMMA HourIs ==
    ASSUME NEW h \in 0..23, Rtc!Value("hour") = HourCode(h),
           IF st.half THEN st.binary ELSE h # 12
    PROVE  Rtc!Hour = h
  <1>1. CASE ~st.half
    <2>1. Rtc!Decoded("hour") = h
      <3>1. h \in 0..99 /\ Rtc!Value("hour") = Code(h)
        BY <1>1 DEF HourCode
      <3> QED
        BY <3>1, DecodedIs
    <2>2. h % 128 = h /\ ~(h >= 128) /\ h # 12
      BY <1>1
    <2> QED
      BY <2>1, <2>2 DEF Rtc!Hour
  <1>2. CASE st.half
    <2>1. PICK g : g = IF h % 12 = 0 THEN 12 ELSE h % 12
      OBVIOUS
    <2>2. g \in 1..12
      BY <2>1
    <2>3. h >= 12 => h = IF g < 12 THEN g + 12 ELSE g
      BY <2>1
    <2>4. h < 12 => h = IF g = 12 THEN 0 ELSE g
      BY <2>1
    <2>5. Rtc!Decoded("hour") = g + IF h >= 12 THEN 128 ELSE 0
      BY <1>2, <2>1 DEF HourCode, Code, Rtc!Decoded
    <2>6. g % 128 = g /\ (g + 128) % 128 = g
      BY <2>2
    <2>7. CASE h >= 12
      <3>1. Rtc!Decoded("hour") = g + 128 /\ g + 128 >= 128
        BY <2>2, <2>5, <2>7
      <3> QED
        BY <2>2, <2>3, <2>6, <2>7, <3>1 DEF Rtc!Hour
    <2>8. CASE ~(h >= 12)
      <3>1. Rtc!Decoded("hour") = g /\ ~(g >= 128)
        BY <2>2, <2>5, <2>8
      <3> QED
        BY <2>2, <2>4, <2>6, <2>8, <3>1 DEF Rtc!Hour
    <2> QED
      BY <2>7, <2>8
  <1> QED
    BY <1>1, <1>2

\* What is read of a chip that shows c all the time is c, but for the hour on
\* the chips whose hour the code does not understand.
LEMMA ReadIs ==
    ASSUME NEW c, Rtc!IsTime(c), IF st.half THEN st.binary ELSE c.hour # 12,
           \A i \in 1..8 : st.got[i] = Shown(c)[i], NEW r, r = Rtc!Read
    PROVE  /\ DOMAIN r = {"year", "month", "day", "hour", "minute", "second", "weekday"}
           /\ r.year = c.year /\ r.month = c.month /\ r.day = c.day /\ r.hour = c.hour
           /\ r.minute = c.minute /\ r.second = c.second /\ r.weekday = Rtc!Weekday(c)
  <1>5. /\ st.got[1] = Code(c.second) /\ st.got[2] = Code(c.minute)
        /\ st.got[3] = HourCode(c.hour) /\ st.got[4] = Code(c.day) /\ st.got[5] = Code(c.month)
        /\ st.got[6] = Code(c.year % 100) /\ st.got[7] = Code(c.year \div 100)
        /\ st.got[8] = Code(Rtc!Weekday(c))
    BY DEF Shown
  <1>6. /\ Rtc!Value("second") = Code(c.second) /\ Rtc!Value("minute") = Code(c.minute)
        /\ Rtc!Value("hour") = HourCode(c.hour) /\ Rtc!Value("day") = Code(c.day)
        /\ Rtc!Value("month") = Code(c.month) /\ Rtc!Value("year") = Code(c.year % 100)
        /\ Rtc!Value("century") = Code(c.year \div 100)
        /\ Rtc!Value("weekday") = Code(Rtc!Weekday(c))
    BY <1>5, ValueIs, SMTT(30)
  <1>7. /\ c.second \in 0..99 /\ c.minute \in 0..99 /\ c.day \in 0..99 /\ c.month \in 0..99
        /\ c.year % 100 \in 0..99 /\ c.year \div 100 \in 0..99 /\ c.year \div 100 > 0
        /\ Rtc!Weekday(c) \in 0..99 /\ c.hour \in 0..23
        /\ (c.year \div 100) * 100 + (c.year % 100) = c.year
    <2>1. /\ c.month \in 1..12 /\ c.day \in 1..31
          /\ c.hour \in 0..23 /\ c.minute \in 0..59 /\ c.second \in 0..59
      BY TimeIs
    <2>2. c.second \in 0..99 /\ c.minute \in 0..99 /\ c.day \in 0..99 /\ c.month \in 0..99
      BY ONLY <2>1
    <2>3. Rtc!Weekday(c) \in 0..99
      <3>1. Rtc!Weekday(c) \in 1..7
        BY WeekdayOf
      <3> QED
        BY ONLY <3>1
    <2>4. PICK y \in Nat : y = c.year /\ y >= 100 /\ y <= 9999
      BY TimeIs
    <2>5. /\ y % 100 \in 0..99 /\ y \div 100 \in 0..99 /\ y \div 100 > 0
          /\ (y \div 100) * 100 + (y % 100) = y
      BY <2>4, CenturyOf
    <2> QED
      BY ONLY <2>1, <2>2, <2>3, <2>4, <2>5
  <1>8. /\ Rtc!Decoded("second") = c.second /\ Rtc!Decoded("minute") = c.minute
        /\ Rtc!Decoded("day") = c.day /\ Rtc!Decoded("month") = c.month
    BY <1>6, <1>7, DecodedIs
  <1>9. /\ Rtc!Decoded("year") = c.year % 100 /\ Rtc!Decoded("century") = c.year \div 100
        /\ Rtc!Decoded("weekday") = Rtc!Weekday(c)
    BY <1>6, <1>7, DecodedIs
  <1>10. Rtc!Value("century") # 0
    <2>1. Rtc!Bcd(c.year \div 100) \in Int /\ Rtc!Bcd(c.year \div 100) > 0
      <3>1. PICK n \in 0..99 : n = c.year \div 100 /\ n > 0
        BY ONLY <1>7
      <3>2. n \in 0..99
        OBVIOUS
      <3>3. Rtc!Bcd(n) \in Int /\ Rtc!Bcd(n) > 0
        BY ONLY <3>1, <3>2, BcdIs, SMTT(30)
      <3> QED
        BY ONLY <3>1, <3>3
    <2> QED
      BY <1>6, <1>7, <2>1 DEF Code
  <1>11. Rtc!Hour = c.hour
    BY <1>6, <1>7, HourIs
  <1> QED
    BY <1>7, <1>8, <1>9, <1>10, <1>11 DEF Rtc!Read

-----------------------------------------------------------------------------
(* The inductive invariant of a reading.                                   *)

IsSeq(s) == \E A : s \in Seq(A)

RtcShape == DOMAIN st = {"binary", "half", "chip", "from", "got", "ticked", "t"}
RtcFrom == Rtc!IsTime(st.from)
RtcChip ==
    /\ st.ticked \in BOOLEAN
    /\ ~st.ticked => st.chip = st.from
    /\ st.ticked => st.chip = Rtc!Ticked(st.from) /\ Len(st.got) >= 1
RtcGot ==
    ~(st.ticked /\ st.from.second = 59) => \A i \in 1..Len(st.got) : st.got[i] = Shown(st.from)[i]
RtcLen == IsSeq(st.got) /\ Len(st.got) <= 8 /\ (st.t # Rtc!None => Len(st.got) = 8)
RtcInv == RtcShape /\ RtcFrom /\ RtcChip /\ RtcGot /\ RtcLen /\ Rtc!LocalTime

\* The calendar does not change with the state.
LEMMA RtcNextIs ==
    /\ Rtc!IsTime(st.from)' = Rtc!IsTime(st'.from)
    /\ Rtc!Ticked(st.from)' = Rtc!Ticked(st'.from)
  BY DEF Rtc!IsTime, Rtc!Ticked, Rtc!Tomorrow, Rtc!rtc_month_days, Rtc!rtc_is_leap

LEMMA DaysNextAre ==
    /\ Rtc!DayNumber(st.t)' = Rtc!DayNumber(st'.t)
    /\ Rtc!DayNumber(st.from)' = Rtc!DayNumber(st'.from)
    /\ Rtc!Seconds(st.t)' = Rtc!Seconds(st'.t)
    /\ Rtc!Seconds(st.from)' = Rtc!Seconds(st'.from)
    /\ Rtc!Weekday(st.t)' = Rtc!Weekday(st'.t)
    /\ Rtc!rtc_month_days(st.t.year, st.t.month)' = Rtc!rtc_month_days(st'.t.year, st'.t.month)
  <1>1. /\ Rtc!DayNumber(st.t)' = Rtc!DayNumber(st'.t)
        /\ Rtc!DayNumber(st.from)' = Rtc!DayNumber(st'.from)
    BY ONLY TRUE DEF Rtc!DayNumber, Rtc!rtc_month_days, Rtc!rtc_is_leap
  <1>2. /\ Rtc!Seconds(st.t)' = Rtc!Seconds(st'.t)
        /\ Rtc!Seconds(st.from)' = Rtc!Seconds(st'.from)
    BY ONLY TRUE DEF Rtc!Seconds
  <1>3. Rtc!Weekday(st.t)' = Rtc!Weekday(st'.t)
    BY ONLY TRUE DEF Rtc!Weekday, Rtc!DayNumber, Rtc!rtc_month_days, Rtc!rtc_is_leap
  <1>4. Rtc!rtc_month_days(st.t.year, st.t.month)' = Rtc!rtc_month_days(st'.t.year, st'.t.month)
    BY ONLY TRUE DEF Rtc!rtc_month_days, Rtc!rtc_is_leap
  <1> QED
    BY <1>1, <1>2, <1>3, <1>4

LEMMA AppendIs ==
    ASSUME NEW s, IsSeq(s), NEW e
    PROVE  /\ Len(s) \in Nat /\ IsSeq(Append(s, e)) /\ Len(Append(s, e)) = Len(s) + 1
           /\ \A i \in 1..Len(s) : Append(s, e)[i] = s[i]
           /\ Append(s, e)[Len(s) + 1] = e
  <1>1. PICK A : s \in Seq(A)
    BY DEF IsSeq
  <1> DEFINE B == A \cup {e}
  <1>2. s \in Seq(B) /\ e \in B
    BY <1>1
  <1>3. Append(s, e) \in Seq(B)
    BY <1>2, AppendProperties
  <1>4. Len(s) \in Nat
    BY <1>2, LenProperties
  <1> HIDE DEF B
  <1> QED
    BY <1>2, <1>3, <1>4, AppendProperties DEF IsSeq

\* A tick that does not carry changes the first register only.
LEMMA TickedIs ==
    ASSUME NEW c, Rtc!IsTime(c), c.second # 59
    PROVE  \A i \in 2..8 : Shown(Rtc!Ticked(c))[i] = Shown(c)[i]
  <1> DEFINE d == Rtc!Ticked(c)
  <1>1. c.second \in 0..59 /\ c.year \in Nat /\ c.month \in 1..12
    BY TimeIs
  <1>2. d = [c EXCEPT !.second = @ + 1]
    BY <1>1 DEF Rtc!Ticked
  <1>3. DOMAIN c = {"year", "month", "day", "hour", "minute", "second"}
    BY DEF Rtc!IsTime
  <1>4. /\ d.minute = c.minute /\ d.hour = c.hour /\ d.day = c.day
        /\ d.month = c.month /\ d.year = c.year
    BY <1>2, <1>3
  <1> HIDE DEF d
  <1>5. Rtc!DayNumber(d) = Rtc!DayNumber(c)
    BY <1>1, <1>4, DayNumberIs
  <1>6. Rtc!Weekday(d) = Rtc!Weekday(c)
    BY <1>5 DEF Rtc!Weekday
  <1>7. \A i \in 2..8 : i \in {2, 3, 4, 5, 6, 7, 8}
    OBVIOUS
  <1>8. \A i \in {2, 3, 4, 5, 6, 7, 8} : Shown(d)[i] = Shown(c)[i]
    BY <1>4, <1>6 DEF Shown
  <1> QED
    BY <1>7, <1>8 DEF d

\* The result, once all registers are read.
LEMMA ResultIs ==
    ASSUME NEW c, Rtc!IsTime(c), IF st.half THEN st.binary ELSE c.hour # 12,
           \A i \in 1..8 : st.got[i] = Shown(c)[i], NEW t, t = Rtc!Local(Rtc!Read)
    PROVE  /\ (Rtc!DayNumber(t) - Rtc!DayNumber(c)) * 86400
                 + Rtc!Seconds(t) - Rtc!Seconds(c) - OFFSET * 3600 = 0
           /\ t.day \in 1..Rtc!rtc_month_days(t.year, t.month)
           /\ t.weekday = Rtc!Weekday(t)
  <1>1. PICK r : r = Rtc!Read
    OBVIOUS
  <1>2. /\ DOMAIN r = {"year", "month", "day", "hour", "minute", "second", "weekday"}
        /\ r.year = c.year /\ r.month = c.month /\ r.day = c.day /\ r.hour = c.hour
        /\ r.minute = c.minute /\ r.second = c.second /\ r.weekday = Rtc!Weekday(c)
    BY <1>1, ReadIs
  <1>3. Rtc!IsTime(c)
    BY SMTT(30)
  <1>4. /\ c.year \in Nat /\ c.year >= 2 /\ c.month \in 1..12 /\ c.day \in Int /\ c.day >= 1
        /\ c.hour \in 0..23 /\ c.hour \in Int /\ c.minute \in Int /\ c.second \in Int
        /\ Rtc!Weekday(c) \in Int
    <2>1. c.year \in Nat /\ c.year >= 2
      BY ONLY <1>3, TimeIs
    <2>2. \A x : x \in 1..31 => x \in Int /\ x >= 1
      OBVIOUS
    <2>3. \A x : x \in 0..59 => x \in Int
      OBVIOUS
    <2>4. \A x : x \in 1..7 => x \in Int
      OBVIOUS
    <2>5. \A x : x \in 0..23 => x \in Int
      OBVIOUS
    <2>6. /\ c.month \in 1..12 /\ c.day \in 1..31
          /\ c.hour \in 0..23 /\ c.minute \in 0..59 /\ c.second \in 0..59
      BY ONLY <1>3, TimeIs
    <2>7. Rtc!Weekday(c) \in 1..7
      BY ONLY <1>3, WeekdayOf
    <2> QED
      BY ONLY <2>1, <2>2, <2>3, <2>4, <2>5, <2>6, <2>7
  <1>5. c.day <= Rtc!rtc_month_days(c.year, c.month)
    BY ONLY <1>3 DEF Rtc!IsTime
  <1>6. IsDay(r)
    BY ONLY <1>2, <1>4, <1>5 DEF IsDay, Stamp
  <1>7. Rtc!DayNumber(r) = Rtc!DayNumber(c) /\ Rtc!DayNumber(r) \in Int
    BY ONLY <1>2, <1>4, <1>6, DayNumberIs, DayIs
  <1>8. r.weekday = Rtc!Weekday(r)
    BY ONLY <1>2, <1>7 DEF Rtc!Weekday
  <1>9. OFFSET \in -12..14
    BY ONLY DevicesAssumption DEF Rtc!RtcAssumption
  <1>10. /\ IsDay(t) /\ t.weekday = Rtc!Weekday(t)
         /\ t.minute = r.minute /\ t.second = r.second /\ t.hour \in Int
         /\ (Rtc!DayNumber(t) - Rtc!DayNumber(r)) * 24 + t.hour = r.hour + OFFSET
    <2>1. t = Rtc!Local(r)
      BY <1>1
    <2>2. r.year >= 2 /\ r.hour \in 0..23
      BY ONLY <1>2, <1>4
    <2> QED
      BY ONLY <1>6, <1>8, <1>9, <2>1, <2>2, LocalIs
  <1>11. Rtc!DayNumber(t) \in Int
    BY ONLY <1>10, DayIs
  <1>12. OFFSET \in Int
    BY ONLY <1>9
  <1>13. (Rtc!DayNumber(t) - Rtc!DayNumber(c)) * 86400
           + Rtc!Seconds(t) - Rtc!Seconds(c) - OFFSET * 3600 = 0
    <2>1. PICK a \in Int : a = Rtc!DayNumber(t)
      BY ONLY <1>11
    <2>2. PICK b \in Int : b = Rtc!DayNumber(c)
      BY ONLY <1>7
    <2>3. PICK h \in Int : h = t.hour
      BY ONLY <1>10
    <2>4. PICK k \in Int : k = c.hour
      BY ONLY <1>4
    <2>5. PICK m \in Int : m = c.minute
      BY ONLY <1>4
    <2>6. PICK s \in Int : s = c.second
      BY ONLY <1>4
    <2>7. Rtc!Seconds(t) = h * 3600 + m * 60 + s
      BY ONLY <1>2, <1>10, <2>3, <2>5, <2>6 DEF Rtc!Seconds
    <2>8. Rtc!Seconds(c) = k * 3600 + m * 60 + s
      BY ONLY <2>4, <2>5, <2>6 DEF Rtc!Seconds
    <2>9. (a - b) * 24 + h = k + OFFSET
      BY ONLY <1>2, <1>7, <1>10, <2>1, <2>2, <2>3, <2>4
    <2>10. (a - b) * 86400 + (h * 3600 + m * 60 + s) - (k * 3600 + m * 60 + s) - OFFSET * 3600 = 0
      BY ONLY <1>12, <2>9
    <2> QED
      BY ONLY <2>1, <2>2, <2>7, <2>8, <2>10
  <1>14. t.day \in 1..Rtc!rtc_month_days(t.year, t.month)
    <2>1. /\ t.year \in Nat /\ t.month \in 1..12 /\ t.day \in Int
          /\ 1 <= t.day /\ t.day <= Rtc!rtc_month_days(t.year, t.month)
      BY ONLY <1>10 DEF IsDay
    <2>2. Rtc!rtc_month_days(t.year, t.month) \in 28..31
      BY ONLY <2>1, MonthIs
    <2> QED
      BY ONLY <2>1, <2>2
  <1> QED
    BY ONLY <1>10, <1>13, <1>14

LEMMA RtcInitInv == part = "rtc" /\ Rtc!Init => RtcInv
  <1> SUFFICES ASSUME part = "rtc", Rtc!Init PROVE RtcInv
    OBVIOUS
  <1>1. PICK c \in Times, binary \in BOOLEAN, half \in BOOLEAN :
            st = [binary |-> binary, half |-> half, chip |-> c, from |-> c, got |-> <<>>,
                  ticked |-> FALSE, t |-> Rtc!None]
    BY DEF Rtc!Init
  <1>2. Rtc!IsTime(c)
    BY DevicesAssumption DEF Rtc!RtcAssumption
  <1>3. IsSeq(<<>>) /\ Len(<<>>) = 0
    BY DEF IsSeq
  <1>4. /\ DOMAIN st = {"binary", "half", "chip", "from", "got", "ticked", "t"}
        /\ st.ticked = FALSE /\ st.from = c /\ st.chip = c /\ st.got = <<>> /\ st.t = Rtc!None
    BY <1>1
  <1>5. Rtc!LocalTime
    BY <1>4 DEF Rtc!LocalTime, Rtc!Whole
  <1>6. RtcGot
    BY <1>3, <1>4 DEF RtcGot
  <1>7. RtcShape /\ RtcFrom
    BY <1>2, <1>4 DEF RtcShape, RtcFrom
  <1>8. RtcChip
    BY <1>4 DEF RtcChip
  <1>9. Len(st.got) = 0 /\ IsSeq(st.got)
    BY <1>3, <1>4
  <1>10. RtcLen
    BY <1>4, <1>9 DEF RtcLen
  <1> QED
    BY <1>5, <1>6, <1>7, <1>8, <1>10 DEF RtcInv

LEMMA CmosReadKeeps == RtcInv /\ Rtc!cmos_read => RtcInv'
  <1> SUFFICES ASSUME RtcInv, Rtc!cmos_read PROVE RtcInv'
    OBVIOUS
  <1> DEFINE n == Len(st.got)
             e == Rtc!Register(Rtc!Order[n + 1])
  <1>1. RtcShape /\ RtcFrom /\ RtcChip /\ RtcGot /\ RtcLen
    BY DEF RtcInv
  <1>2. n < 8 /\ st' = [st EXCEPT !.got = Append(@, e)]
    <2>1. Len(Rtc!Order) = 8
      BY DEF Rtc!Order
    <2> QED
      BY <2>1 DEF Rtc!cmos_read
  <1>3. /\ n \in Nat /\ IsSeq(Append(st.got, e)) /\ Len(Append(st.got, e)) = n + 1
        /\ \A i \in 1..n : Append(st.got, e)[i] = st.got[i]
        /\ Append(st.got, e)[n + 1] = e
    BY <1>1, AppendIs DEF RtcLen
  <1>4. /\ DOMAIN st' = DOMAIN st /\ st'.got = Append(st.got, e)
        /\ st'.binary = st.binary /\ st'.half = st.half /\ st'.chip = st.chip
        /\ st'.from = st.from /\ st'.ticked = st.ticked /\ st'.t = st.t
    BY <1>1, <1>2 DEF RtcShape
  <1>5. st.t = Rtc!None
    <2>1. st.t # Rtc!None => n = 8
      BY <1>1 DEF RtcLen
    <2> HIDE DEF n
    <2> QED
      BY ONLY <1>2, <2>1
  <1> HIDE DEF n, e
  <1>6. ASSUME ~(st.ticked /\ st.from.second = 59)
        PROVE  e = Shown(st.from)[n + 1]
    <2>1. n + 1 \in 1..8
      BY <1>2, <1>3, SMTT(30)
    <2>2. e = Shown(st.chip)[n + 1]
      BY <2>1, RegisterIs DEF e
    <2>3. CASE ~st.ticked
      BY <1>1, <2>2, <2>3 DEF RtcChip
    <2>4. CASE st.ticked
      <3>1. st.chip = Rtc!Ticked(st.from) /\ n >= 1 /\ st.from.second # 59 /\ Rtc!IsTime(st.from)
        BY <1>1, <1>6, <2>4 DEF RtcChip, RtcFrom, n
      <3>2. n + 1 \in 2..8
        BY <1>3, <2>1, <3>1
      <3> QED
        BY <2>2, <3>1, <3>2, TickedIs
    <2> QED
      BY <2>3, <2>4
  <1>7. ASSUME ~(st.ticked /\ st.from.second = 59), NEW i \in 1..n + 1
        PROVE  Append(st.got, e)[i] = Shown(st.from)[i]
    <2>1. CASE i = n + 1
      BY <1>3, <1>6, <1>7, <2>1
    <2>2. CASE i # n + 1
      <3>1. i \in 1..n
        BY <1>3, <2>2
      <3>2. st.got[i] = Shown(st.from)[i]
        BY <1>1, <1>7, <3>1 DEF RtcGot, n
      <3> QED
        BY <1>3, <3>1, <3>2
    <2> QED
      BY <2>1, <2>2
  <1>8. Shown(st.from)' = Shown(st.from)
    BY <1>4 DEF Shown, Code, HourCode
  <1>9. RtcGot'
    BY <1>3, <1>4, <1>7, <1>8 DEF RtcGot
  <1>10. Rtc!LocalTime'
    BY <1>4, <1>5 DEF Rtc!LocalTime, Rtc!Whole
  <1>11. RtcShape' /\ RtcFrom'
    BY <1>1, <1>4, RtcNextIs DEF RtcShape, RtcFrom
  <1>12. RtcChip'
    <2>1. Len(st'.got) >= 1
      BY <1>3, <1>4
    <2> QED
      BY <1>1, <1>4, <2>1, RtcNextIs DEF RtcChip
  <1>13. RtcLen'
    BY <1>2, <1>3, <1>4, <1>5 DEF RtcLen, IsSeq
  <1> QED
    BY <1>9, <1>10, <1>11, <1>12, <1>13 DEF RtcInv

LEMMA RtcReadKeeps == RtcInv /\ Rtc!rtc_read => RtcInv'
  <1> SUFFICES ASSUME RtcInv, Rtc!rtc_read PROVE RtcInv'
    OBVIOUS
  <1>1. RtcShape /\ RtcFrom /\ RtcChip /\ RtcGot /\ RtcLen
    BY DEF RtcInv
  <1>2. Len(st.got) = 8 /\ st' = [st EXCEPT !.t = Rtc!Local(Rtc!Read)]
    <2>1. Len(Rtc!Order) = 8
      BY DEF Rtc!Order
    <2> QED
      BY <2>1 DEF Rtc!rtc_read
  <1>3. /\ DOMAIN st' = DOMAIN st /\ st'.t = Rtc!Local(Rtc!Read)
        /\ st'.binary = st.binary /\ st'.half = st.half /\ st'.chip = st.chip
        /\ st'.from = st.from /\ st'.ticked = st.ticked /\ st'.got = st.got
    BY <1>1, <1>2 DEF RtcShape
  <1>4. Shown(st.from)' = Shown(st.from)
    BY <1>3 DEF Shown, Code, HourCode
  <1>5. ASSUME ~(st.ticked /\ st.from.second = 59), IF st.half THEN st.binary ELSE st.from.hour # 12
        PROVE  Rtc!IsLocal'
    <2>1. Rtc!IsTime(st.from) /\ \A i \in 1..8 : st.got[i] = Shown(st.from)[i]
      BY <1>1, <1>2, <1>5 DEF RtcFrom, RtcGot
    <2>2. PICK t : t = Rtc!Local(Rtc!Read)
      OBVIOUS
    <2>3. /\ (Rtc!DayNumber(t) - Rtc!DayNumber(st.from)) * 86400
                + Rtc!Seconds(t) - Rtc!Seconds(st.from) - OFFSET * 3600 = 0
          /\ t.day \in 1..Rtc!rtc_month_days(t.year, t.month)
          /\ t.weekday = Rtc!Weekday(t)
      BY <1>5, <2>1, <2>2, ResultIs
    <2>4. st'.t = t /\ st'.from = st.from
      BY <1>3, <2>2
    <2>5. 0 \in 0..(IF st'.ticked THEN 1 ELSE 0)
      OBVIOUS
    <2> QED
      BY ONLY <2>3, <2>4, <2>5, DaysNextAre DEF Rtc!IsLocal
  <1>6. Rtc!LocalTime'
    BY <1>3, <1>5 DEF Rtc!LocalTime, Rtc!Whole
  <1>7. RtcShape' /\ RtcFrom' /\ RtcChip'
    BY <1>1, <1>3, RtcNextIs DEF RtcShape, RtcFrom, RtcChip
  <1>8. RtcGot' /\ RtcLen'
    BY <1>1, <1>2, <1>3, <1>4 DEF RtcGot, RtcLen, IsSeq
  <1> QED
    BY <1>6, <1>7, <1>8 DEF RtcInv

LEMMA TickKeeps == RtcInv /\ Rtc!Tick => RtcInv'
  <1> SUFFICES ASSUME RtcInv, Rtc!Tick PROVE RtcInv'
    OBVIOUS
  <1>1. RtcShape /\ RtcFrom /\ RtcChip /\ RtcGot /\ RtcLen
    BY DEF RtcInv
  <1>2. /\ ~st.ticked /\ Len(st.got) >= 1 /\ Len(st.got) # 8
        /\ st' = [st EXCEPT !.chip = Rtc!Ticked(@), !.ticked = TRUE]
    <2>1. Len(Rtc!Order) = 8
      BY DEF Rtc!Order
    <2>2. Len(st.got) \in 1..7
      BY <2>1 DEF Rtc!Tick
    <2>3. \A n : n \in 1..7 => n >= 1 /\ n # 8
      OBVIOUS
    <2>4. Len(st.got) >= 1 /\ Len(st.got) # 8
      BY ONLY <2>2, <2>3
    <2> QED
      BY <2>4 DEF Rtc!Tick
  <1>3. /\ DOMAIN st' = DOMAIN st /\ st'.chip = Rtc!Ticked(st.chip) /\ st'.ticked = TRUE
        /\ st'.binary = st.binary /\ st'.half = st.half /\ st'.t = st.t
        /\ st'.from = st.from /\ st'.got = st.got
    BY <1>1, <1>2 DEF RtcShape
  <1>4. Shown(st.from)' = Shown(st.from)
    BY <1>3 DEF Shown, Code, HourCode
  <1>5. st.t = Rtc!None /\ st.chip = st.from
    BY <1>1, <1>2 DEF RtcChip, RtcLen
  <1>6. Rtc!LocalTime'
    BY <1>3, <1>5 DEF Rtc!LocalTime, Rtc!Whole
  <1>7. RtcGot'
    BY <1>1, <1>2, <1>3, <1>4 DEF RtcGot
  <1>8. RtcShape' /\ RtcFrom' /\ RtcLen'
    BY <1>1, <1>3, RtcNextIs DEF RtcShape, RtcFrom, RtcLen, IsSeq
  <1>9. RtcChip'
    BY <1>2, <1>3, <1>5, RtcNextIs DEF RtcChip
  <1> QED
    BY <1>6, <1>7, <1>8, <1>9 DEF RtcInv

LEMMA AgainKeeps == RtcInv /\ Rtc!Again => RtcInv'
  <1> SUFFICES ASSUME RtcInv, Rtc!Again PROVE RtcInv'
    OBVIOUS
  <1>1. PICK c \in Times : st' = [st EXCEPT !.chip = c, !.from = c, !.got = <<>>,
                                           !.ticked = FALSE, !.t = Rtc!None]
    BY DEF Rtc!Again
  <1>2. Rtc!IsTime(c)
    BY DevicesAssumption DEF Rtc!RtcAssumption
  <1>3. IsSeq(<<>>) /\ Len(<<>>) = 0
    BY DEF IsSeq
  <1>4. RtcShape
    BY DEF RtcInv
  <1>5. /\ DOMAIN st' = DOMAIN st /\ st'.chip = c /\ st'.from = c /\ st'.got = <<>>
        /\ st'.ticked = FALSE /\ st'.t = Rtc!None
    BY <1>1, <1>4 DEF RtcShape
  <1>6. Rtc!LocalTime'
    BY <1>5 DEF Rtc!LocalTime, Rtc!Whole
  <1>7. RtcShape' /\ RtcFrom'
    BY <1>2, <1>4, <1>5, RtcNextIs DEF RtcShape, RtcFrom
  <1>8. RtcGot'
    BY <1>3, <1>5 DEF RtcGot
  <1>9. RtcChip'
    BY <1>5 DEF RtcChip
  <1>10. Len(st'.got) = 0 /\ IsSeq(st'.got)
    BY <1>3, <1>5
  <1>11. RtcLen'
    BY <1>5, <1>10 DEF RtcLen, IsSeq
  <1> QED
    BY <1>6, <1>7, <1>8, <1>9, <1>11 DEF RtcInv

LEMMA RtcNextKeeps == RtcInv /\ Rtc!Next => RtcInv'
  BY CmosReadKeeps, RtcReadKeeps, TickKeeps, AgainKeeps DEF Rtc!Next

LEMMA RtcRests == RtcInv /\ UNCHANGED st => RtcInv'
  <1> SUFFICES ASSUME RtcInv, st' = st PROVE RtcInv'
    BY DEF RtcInv
  <1>1. RtcShape' /\ RtcFrom' /\ RtcChip'
    BY RtcNextIs DEF RtcInv, RtcShape, RtcFrom, RtcChip
  <1>2. Shown(st.from)' = Shown(st.from)
    BY DEF Shown, Code, HourCode
  <1>3. RtcGot' /\ RtcLen'
    BY <1>2 DEF RtcInv, RtcGot, RtcLen, IsSeq, Rtc!None
  <1>4. Rtc!IsLocal' = Rtc!IsLocal
    BY DaysNextAre DEF Rtc!IsLocal
  <1>5. Rtc!LocalTime'
    BY <1>4 DEF RtcInv, Rtc!LocalTime, Rtc!Whole
  <1> QED
    BY <1>1, <1>3, <1>5 DEF RtcInv

-----------------------------------------------------------------------------
(* The double buffer.                                                      *)

LEMMA NatMin ==
    ASSUME NEW S \in SUBSET Nat, S # {}
    PROVE  \E x \in S : \A y \in S : x <= y
  <1> DEFINE Less == OpToRel(<, Nat)
  <1>1. IsWellFoundedOn(Less, Nat)
    BY NatLessThanWellFounded
  <1>2. \A p \in Nat, q \in Nat : p < q => <<p, q>> \in Less
    BY DEF OpToRel
  <1> HIDE DEF Less
  <1>3. PICK x \in S : \A y \in S : ~ (<<y, x>> \in Less)
    BY <1>1, WFMin
  <1>4. ASSUME NEW y \in S PROVE x <= y
    <2>1. x \in Nat /\ y \in Nat
      OBVIOUS
    <2>2. ~ (y < x)
      BY <2>1, <1>2, <1>3
    <2> QED
      BY <2>1, <2>2
  <1> QED
    BY <1>4

LEMMA TwoAre ==
    ASSUME NEW a \in Int, NEW b \in Int
    PROVE  /\ \E x \in Int : x = Screen!Max({a, b}) /\ x >= a /\ x >= b /\ (x = a \/ x = b)
           /\ \E x \in Int : x = Screen!Min({a, b}) /\ x <= a /\ x <= b /\ (x = a \/ x = b)
  <1>1. \E x \in {a, b} : \A y \in {a, b} : x >= y
    OBVIOUS
  <1>2. \E x \in {a, b} : \A y \in {a, b} : x <= y
    OBVIOUS
  <1>3. Screen!Max({a, b}) \in {a, b} /\ \A y \in {a, b} : Screen!Max({a, b}) >= y
    BY <1>1 DEF Screen!Max
  <1>4. Screen!Min({a, b}) \in {a, b} /\ \A y \in {a, b} : Screen!Min({a, b}) <= y
    BY <1>2 DEF Screen!Min
  <1> QED
    BY <1>3, <1>4

LEMMA LeastOfThree ==
    ASSUME NEW a \in Int, NEW b \in Int, NEW c \in Int
    PROVE  /\ Screen!Min({a, b, c}) \in Int
           /\ Screen!Min({a, b, c}) <= a /\ Screen!Min({a, b, c}) <= b /\ Screen!Min({a, b, c}) <= c
           /\ Screen!Min({a, b, c}) \in {a, b, c}
  <1>1. \E x \in {a, b, c} : \A y \in {a, b, c} : x <= y
    OBVIOUS
  <1> QED
    BY <1>1 DEF Screen!Min

\* A rectangle, one on the screen, and what the rectangles of a state reach.
ScreenRects == [x: Int, y: Int, w: Int, h: Int]
Visible ==
    {d \in ScreenRects :
        d.x >= 0 /\ d.y >= 0 /\ d.w > 0 /\ d.h > 0 /\ d.x + d.w <= W /\ d.y + d.h <= H}
Covered(s, p) == \E i \in 1..Len(s.dirty) : Screen!In(p, s.dirty[i])

\* The inductive invariant, of a state of the double buffer.
ScreenOk(s) ==
    /\ DOMAIN s = {"at", "stale", "dirty"} /\ s.stale \in BOOLEAN
    /\ s.at.x \in Int /\ s.at.y \in Int
    /\ s.dirty \in Seq(Visible) /\ Len(s.dirty) <= MAX_DIRTY_RECT
    /\ s.stale => Covered(s, s.at)

LEMMA RIs ==
    ASSUME NEW x \in Int, NEW y \in Int, NEW w \in Int, NEW h \in Int
    PROVE  /\ Screen!R(x, y, w, h) \in ScreenRects
           /\ Screen!R(x, y, w, h).x = x /\ Screen!R(x, y, w, h).y = y
           /\ Screen!R(x, y, w, h).w = w /\ Screen!R(x, y, w, h).h = h
  BY DEF Screen!R, ScreenRects

LEMMA RectIs ==
    ASSUME NEW r \in ScreenRects
    PROVE  r.x \in Int /\ r.y \in Int /\ r.w \in Int /\ r.h \in Int
  BY DEF ScreenRects

LEMMA SizesAre ==
    /\ W \in Int /\ W > 0 /\ H \in Int /\ H > 0 /\ MAX_DIRTY_RECT \in Nat /\ MAX_DIRTY_RECT >= 2
    /\ WIDE \in Nat /\ GLYPH.w \in Int /\ GLYPH.h \in Int /\ GLYPH.w > 0 /\ GLYPH.h > 0
  BY DevicesAssumption DEF Screen!ScreenAssumption

\* What is left of a rectangle on the screen.
LEMMA ClipIs ==
    ASSUME NEW r \in ScreenRects, NEW c, c = Screen!Clip(r)
    PROVE  /\ c \in ScreenRects
           /\ c.w > 0 /\ c.h > 0 => c \in Visible
           /\ \A p : p.x \in Int /\ p.y \in Int =>
                 (Screen!In(p, c) <=> Screen!In(p, r) /\ Screen!In(p, Screen!Screen))
  <1>1. PICK x \in Int : /\ x = Screen!Max({0, r.x})
                        /\ x >= 0 /\ x >= r.x /\ (x = 0 \/ x = r.x)
    <2>1. 0 \in Int /\ r.x \in Int
      BY RectIs
    <2> QED
      BY ONLY <2>1, TwoAre
  <1>2. PICK y \in Int : /\ y = Screen!Max({0, r.y})
                        /\ y >= 0 /\ y >= r.y /\ (y = 0 \/ y = r.y)
    <2>1. 0 \in Int /\ r.y \in Int
      BY RectIs
    <2> QED
      BY ONLY <2>1, TwoAre
  <1>3. PICK u \in Int : /\ u = Screen!Min({r.x + r.w, W})
                        /\ u <= r.x + r.w /\ u <= W /\ (u = r.x + r.w \/ u = W)
    <2>1. PICK end \in Int : end = r.x + r.w
      BY RectIs
    <2>2. end \in Int /\ W \in Int
      BY SizesAre
    <2>3. \E i \in Int : /\ i = Screen!Min({end, W})
                        /\ i <= end /\ i <= W /\ (i = end \/ i = W)
      BY ONLY <2>2, TwoAre
    <2> QED
      BY ONLY <2>1, <2>3
  <1>4. PICK v \in Int : /\ v = Screen!Min({r.y + r.h, H})
                        /\ v <= r.y + r.h /\ v <= H /\ (v = r.y + r.h \/ v = H)
    <2>1. PICK end \in Int : end = r.y + r.h
      BY RectIs
    <2>2. end \in Int /\ H \in Int
      BY SizesAre
    <2>3. \E i \in Int : /\ i = Screen!Min({end, H})
                        /\ i <= end /\ i <= H /\ (i = end \/ i = H)
      BY ONLY <2>2, TwoAre
    <2> QED
      BY ONLY <2>1, <2>3
  <1>5. c = Screen!R(x, y, u - x, v - y)
    BY <1>1, <1>2, <1>3, <1>4 DEF Screen!Clip
  <1>6. c \in ScreenRects /\ c.x = x /\ c.y = y /\ c.w = u - x /\ c.h = v - y
    <2>1. u - x \in Int /\ v - y \in Int
      OBVIOUS
    <2> QED
      BY <1>5, <2>1, RIs
  <1>7. c.w > 0 /\ c.h > 0 => c \in Visible
    <2>1. x \in Int /\ y \in Int /\ u \in Int /\ v \in Int
      OBVIOUS
    <2>2. r.x \in Int /\ r.y \in Int /\ r.w \in Int /\ r.h \in Int
      BY RectIs
    <2>3. x >= 0 /\ y >= 0 /\ u <= W /\ v <= H
      BY ONLY <1>1, <1>2, <1>3, <1>4, <2>1, <2>2, SizesAre
    <2>4. c.x >= 0 /\ c.y >= 0 /\ c.x + c.w <= W /\ c.y + c.h <= H
      BY ONLY <1>6, <2>1, <2>3, SizesAre
    <2> QED
      BY <1>6, <2>4 DEF Visible
  <1>8. ASSUME NEW p, p.x \in Int, p.y \in Int
        PROVE  Screen!In(p, c) <=> Screen!In(p, r) /\ Screen!In(p, Screen!Screen)
    <2>1. Screen!In(p, Screen!Screen) <=> 0 <= p.x /\ p.x < W /\ 0 <= p.y /\ p.y < H
      BY <1>8, SizesAre DEF Screen!In, Screen!Screen, Screen!R
    <2> QED
      BY <1>1, <1>2, <1>3, <1>4, <1>6, <1>8, <2>1, SizesAre, RectIs DEF Screen!In
  <1> QED
    BY <1>6, <1>7, <1>8

LEMMA HullIs ==
    ASSUME NEW a \in Visible, NEW b \in Visible, NEW u, u = Screen!Hull(a, b)
    PROVE  /\ u \in Visible
           /\ \A p : p.x \in Int /\ p.y \in Int =>
                 (Screen!In(p, a) \/ Screen!In(p, b) => Screen!In(p, u))
  <1>1. /\ a.x \in Int /\ a.y \in Int /\ a.w \in Int /\ a.h \in Int
        /\ b.x \in Int /\ b.y \in Int /\ b.w \in Int /\ b.h \in Int
    BY RectIs DEF Visible
  <1>2. PICK x \in Int : /\ x = Screen!Min({a.x, b.x})
                        /\ x <= a.x /\ x <= b.x /\ (x = a.x \/ x = b.x)
    <2>1. PICK first \in Int : first = a.x
      BY ONLY <1>1
    <2>2. PICK second \in Int : second = b.x
      BY ONLY <1>1
    <2>3. first \in Int /\ second \in Int
      OBVIOUS
    <2>4. \E i \in Int : /\ i = Screen!Min({first, second})
                        /\ i <= first /\ i <= second /\ (i = first \/ i = second)
      BY ONLY <2>3, TwoAre
    <2> QED
      BY ONLY <2>1, <2>2, <2>4
  <1>3. PICK y \in Int : /\ y = Screen!Min({a.y, b.y})
                        /\ y <= a.y /\ y <= b.y /\ (y = a.y \/ y = b.y)
    <2>1. PICK first \in Int : first = a.y
      BY ONLY <1>1
    <2>2. PICK second \in Int : second = b.y
      BY ONLY <1>1
    <2>3. first \in Int /\ second \in Int
      OBVIOUS
    <2>4. \E i \in Int : /\ i = Screen!Min({first, second})
                        /\ i <= first /\ i <= second /\ (i = first \/ i = second)
      BY ONLY <2>3, TwoAre
    <2> QED
      BY ONLY <2>1, <2>2, <2>4
  <1>4. PICK v \in Int : /\ v = Screen!Max({a.x + a.w, b.x + b.w})
                        /\ v >= a.x + a.w /\ v >= b.x + b.w /\ (v = a.x + a.w \/ v = b.x + b.w)
    <2>1. PICK end \in Int : end = a.x + a.w
      BY <1>1
    <2>2. PICK stop \in Int : stop = b.x + b.w
      BY <1>1
    <2>3. end \in Int /\ stop \in Int
      OBVIOUS
    <2>4. \E i \in Int : /\ i = Screen!Max({end, stop})
                        /\ i >= end /\ i >= stop /\ (i = end \/ i = stop)
      BY ONLY <2>3, TwoAre
    <2> QED
      BY ONLY <2>1, <2>2, <2>4
  <1>5. PICK z \in Int : /\ z = Screen!Max({a.y + a.h, b.y + b.h})
                        /\ z >= a.y + a.h /\ z >= b.y + b.h /\ (z = a.y + a.h \/ z = b.y + b.h)
    <2>1. PICK end \in Int : end = a.y + a.h
      BY <1>1
    <2>2. PICK stop \in Int : stop = b.y + b.h
      BY <1>1
    <2>3. end \in Int /\ stop \in Int
      OBVIOUS
    <2>4. \E i \in Int : /\ i = Screen!Max({end, stop})
                        /\ i >= end /\ i >= stop /\ (i = end \/ i = stop)
      BY ONLY <2>3, TwoAre
    <2> QED
      BY ONLY <2>1, <2>2, <2>4
  <1>6. u = Screen!R(x, y, v - x, z - y)
    BY <1>2, <1>3, <1>4, <1>5 DEF Screen!Hull
  <1>7. u \in ScreenRects /\ u.x = x /\ u.y = y /\ u.w = v - x /\ u.h = z - y
    <2>1. v - x \in Int /\ z - y \in Int
      OBVIOUS
    <2> QED
      BY <1>6, <2>1, RIs
  <1>8. u \in Visible
    <2>1. /\ a.x >= 0 /\ a.y >= 0 /\ a.w > 0 /\ a.h > 0 /\ a.x + a.w <= W /\ a.y + a.h <= H
          /\ b.x >= 0 /\ b.y >= 0 /\ b.w > 0 /\ b.h > 0 /\ b.x + b.w <= W /\ b.y + b.h <= H
      BY DEF Visible
    <2>2. x \in Int /\ y \in Int /\ v \in Int /\ z \in Int
      OBVIOUS
    <2>3. x >= 0 /\ y >= 0 /\ v <= W /\ z <= H /\ v > x /\ z > y
      BY ONLY <1>1, <1>2, <1>3, <1>4, <1>5, <2>1, <2>2, SizesAre
    <2>4. u.x >= 0 /\ u.y >= 0 /\ u.w > 0 /\ u.h > 0 /\ u.x + u.w <= W /\ u.y + u.h <= H
      BY ONLY <1>7, <2>2, <2>3, SizesAre
    <2> QED
      BY <1>7, <2>4 DEF Visible
  <1>9. ASSUME NEW p, p.x \in Int, p.y \in Int, Screen!In(p, a) \/ Screen!In(p, b)
        PROVE  Screen!In(p, u)
    BY <1>1, <1>2, <1>3, <1>4, <1>5, <1>7, <1>9 DEF Screen!In
  <1> QED
    BY <1>8, <1>9

\* The pair that is given up for room is a pair.
Cost(d, p) == Screen!Area(Screen!Hull(d[p[1]], d[p[2]])) - Screen!Area(d[p[1]]) - Screen!Area(d[p[2]])

LEMMA CostIs ==
    ASSUME NEW d \in Seq(Visible), NEW i \in 1..Len(d), NEW j \in 1..Len(d)
    PROVE  Cost(d, <<i, j>>) \in Int /\ Cost(d, <<i, j>>) + 2 * (W * H) >= 0
  <1>1. ASSUME NEW r \in Visible
        PROVE  Screen!Area(r) \in Int /\ Screen!Area(r) >= 0 /\ Screen!Area(r) <= W * H
    <2>1. /\ r.x \in Int /\ r.y \in Int /\ r.w \in Int /\ r.h \in Int
          /\ r.x >= 0 /\ r.y >= 0 /\ r.w > 0 /\ r.h > 0 /\ r.x + r.w <= W /\ r.y + r.h <= H
      BY RectIs DEF Visible
    <2>2. r.w \in Nat /\ r.h \in Nat /\ r.w <= W /\ r.h <= H /\ W \in Nat /\ H \in Nat
      BY ONLY <2>1, SizesAre, SMTT(30)
    <2>3. \A a, b, e, f \in Nat : a <= e /\ b <= f => a * b <= e * f /\ a * b >= 0 /\ a * b \in Int
      <3>1. ASSUME NEW a \in Nat, NEW b \in Nat, NEW e \in Nat, NEW f \in Nat, a <= e, b <= f
            PROVE  a * b <= e * f /\ a * b >= 0 /\ a * b \in Int
        <4>1. a * b <= a * f
          BY ONLY <3>1
        <4>2. a * f <= e * f
          BY ONLY <3>1
        <4>3. a * b \in Nat /\ a * f \in Nat /\ e * f \in Nat
          OBVIOUS
        <4> QED
          BY ONLY <4>1, <4>2, <4>3
      <3> QED
        BY <3>1
    <2> QED
      BY ONLY <2>2, <2>3 DEF Screen!Area
  <1>2. d[i] \in Visible /\ d[j] \in Visible
    BY ElementOfSeq
  <1>3. Screen!Hull(d[i], d[j]) \in Visible
    BY <1>2, HullIs
  <1>4. Cost(d, <<i, j>>) =
          Screen!Area(Screen!Hull(d[i], d[j])) - Screen!Area(d[i]) - Screen!Area(d[j])
    BY DEF Cost
  <1>5. /\ Screen!Area(d[i]) \in Int /\ Screen!Area(d[i]) <= W * H
        /\ Screen!Area(d[j]) \in Int /\ Screen!Area(d[j]) <= W * H
        /\ Screen!Area(Screen!Hull(d[i], d[j])) \in Int
        /\ Screen!Area(Screen!Hull(d[i], d[j])) >= 0
    BY <1>1, <1>2, <1>3
  <1>6. W * H \in Int
    BY SizesAre
  <1> QED
    BY ONLY <1>4, <1>5, <1>6

\* Of some pairs one is the first of those that cost least.
AllPairs(d) == {q \in (1..Len(d)) \X (1..Len(d)) : q[1] < q[2]}

LEMMA FirstIs ==
    ASSUME NEW d \in Seq(Visible), NEW pairs \in SUBSET AllPairs(d), pairs # {}
    PROVE  \E c \in pairs : \A r \in pairs :
               \/ Cost(d, c) < Cost(d, r)
               \/ Cost(d, c) = Cost(d, r) /\ (c = r \/ Screen!Before(c, r))
  <1>1. Len(d) \in Nat
    BY LenProperties
  <1> DEFINE Key(q) == Cost(d, q) + 2 * (W * H)
  <1>2. \A q \in pairs : q[1] \in Nat /\ q[2] \in Nat /\ q = <<q[1], q[2]>>
                         /\ q[1] \in 1..Len(d) /\ q[2] \in 1..Len(d)
    BY <1>1 DEF AllPairs
  <1>4. \A q \in pairs : Cost(d, q) \in Int /\ Key(q) \in Nat
    <2>1. ASSUME NEW q \in pairs PROVE Cost(d, q) \in Int /\ Key(q) \in Nat
      <3>1. Cost(d, q) \in Int /\ Cost(d, q) + 2 * (W * H) >= 0
        BY <1>2, CostIs
      <3>2. W * H \in Int
        BY SizesAre
      <3> QED
        BY ONLY <3>1, <3>2
    <2> QED
      BY <2>1
  <1>5. PICK a \in pairs : \A q \in pairs : Key(a) <= Key(q)
    <2> DEFINE S == {Key(q) : q \in pairs}
    <2>1. S \in SUBSET Nat /\ S # {}
      BY <1>4
    <2>2. \E x \in S : \A y \in S : x <= y
      <3> HIDE DEF S
      <3> QED
        BY <2>1, NatMin
    <2> QED
      BY <2>2
  <1>6. PICK b \in pairs : Key(b) = Key(a) /\ \A q \in pairs : Key(q) = Key(a) => b[1] <= q[1]
    <2> DEFINE S == {q[1] : q \in {o \in pairs : Key(o) = Key(a)}}
    <2>1. S \in SUBSET Nat /\ S # {}
      BY <1>2, <1>5
    <2>2. \E x \in S : \A y \in S : x <= y
      <3> HIDE DEF S
      <3> QED
        BY <2>1, NatMin
    <2> HIDE DEF Key
    <2> QED
      BY <2>2
  <1>7. PICK c \in pairs : /\ Key(c) = Key(a) /\ c[1] = b[1]
                         /\ \A q \in pairs : Key(q) = Key(a) /\ q[1] = b[1] => c[2] <= q[2]
    <2> DEFINE S == {q[2] : q \in {o \in pairs : Key(o) = Key(a) /\ o[1] = b[1]}}
    <2>1. S \in SUBSET Nat /\ S # {}
      BY <1>2, <1>6
    <2>2. \E x \in S : \A y \in S : x <= y
      <3> HIDE DEF S
      <3> QED
        BY <2>1, NatMin
    <2> HIDE DEF Key
    <2> QED
      BY <2>2
  <1>8. ASSUME NEW r \in pairs
        PROVE  \/ Cost(d, c) < Cost(d, r)
               \/ Cost(d, c) = Cost(d, r) /\ (c = r \/ Screen!Before(c, r))
    <2>1. Key(c) < Key(r) \/ Key(c) = Key(r)
      <3>1. Key(c) <= Key(r) /\ Key(c) \in Nat /\ Key(r) \in Nat
        BY <1>4, <1>5, <1>7
      <3> HIDE DEF Key
      <3> QED
        BY ONLY <3>1
    <2>2. Cost(d, c) \in Int /\ Cost(d, r) \in Int /\ W * H \in Int
      BY <1>4, SizesAre
    <2>3. CASE Key(c) < Key(r)
      BY ONLY <2>2, <2>3 DEF Key
    <2>4. CASE Key(c) = Key(r)
      <3>1. Cost(d, c) = Cost(d, r)
        BY ONLY <2>2, <2>4 DEF Key
      <3>2. c[1] <= r[1] /\ (c[1] = r[1] => c[2] <= r[2])
        <4> HIDE DEF Key
        <4> QED
          BY <1>6, <1>7, <2>4
      <3>3. /\ c[1] \in Nat /\ r[1] \in Nat /\ c[2] \in Nat /\ r[2] \in Nat
            /\ c = <<c[1], c[2]>> /\ r = <<r[1], r[2]>>
        BY <1>2
      <3>4. c = r \/ Screen!Before(c, r)
        BY ONLY <3>2, <3>3 DEF Screen!Before
      <3> QED
        BY ONLY <3>1, <3>4
    <2> QED
      BY <2>1, <2>3, <2>4
  <1> QED
    BY <1>8

LEMMA PairIs ==
    ASSUME NEW d \in Seq(Visible), Len(d) >= 2, NEW p, p = Screen!MergedPair(d)
    PROVE  p[1] \in 1..Len(d) /\ p[2] \in 1..Len(d) /\ p[1] < p[2]
  <1>1. Len(d) \in Nat
    BY LenProperties
  <1> DEFINE rest == {q \in AllPairs(d) : \A r \in AllPairs(d) : Cost(d, r) < 0 => Screen!Before(r, q)}
             First(q) == \A r \in rest :
                            \/ Cost(d, q) < Cost(d, r)
                            \/ Cost(d, q) = Cost(d, r) /\ (q = r \/ Screen!Before(q, r))
  <1>2. p = IF rest = {} THEN <<Len(d) - 1, Len(d)>> ELSE CHOOSE q \in rest : First(q)
    BY DEF Screen!MergedPair, Cost, AllPairs
  <1>3. CASE rest = {}
    <2>1. p[1] = Len(d) - 1 /\ p[2] = Len(d)
      <3> HIDE DEF rest
      <3> QED
        BY <1>2, <1>3
    <2> QED
      BY <1>1, <2>1
  <1>4. CASE rest # {}
    <2>1. rest \in SUBSET AllPairs(d)
      OBVIOUS
    <2> HIDE DEF rest
    <2>2. \E q \in rest : First(q)
      BY <1>4, <2>1, FirstIs
    <2>3. p \in rest
      <3> HIDE DEF First
      <3> QED
        BY <1>2, <1>4, <2>2
    <2> QED
      BY <1>1, <2>1, <2>3 DEF AllPairs
  <1> QED
    BY <1>3, <1>4

-----------------------------------------------------------------------------
(* Marking, drawing and swapping.                                          *)

\* A rectangle of the list that gives way to one that covers it.
LEMMA WidenedIs ==
    ASSUME NEW d \in Seq(Visible), NEW i \in 1..Len(d), NEW v \in Visible,
           NEW p, Screen!In(p, d[i]) => Screen!In(p, v),
           NEW e, e = [d EXCEPT ![i] = v]
    PROVE  /\ e \in Seq(Visible) /\ Len(e) = Len(d)
           /\ Screen!In(p, v) => \E j \in 1..Len(e) : Screen!In(p, e[j])
           /\ (\E j \in 1..Len(d) : Screen!In(p, d[j])) => \E j \in 1..Len(e) : Screen!In(p, e[j])
  <1>1. e \in Seq(Visible) /\ Len(e) = Len(d)
        /\ \A j \in 1..Len(d) : e[j] = IF j = i THEN v ELSE d[j]
    BY ExceptSeq
  <1>2. e[i] = v
    BY <1>1
  <1>3. ASSUME NEW j \in 1..Len(d), Screen!In(p, d[j])
        PROVE  Screen!In(p, e[j])
    <2>1. CASE j = i
      BY <1>2, <1>3, <2>1
    <2>2. CASE j # i
      <3>1. e[j] = d[j]
        BY <1>1, <2>2
      <3> QED
        BY <1>3, <3>1
    <2> QED
      BY <2>1, <2>2
  <1> QED
    BY <1>1, <1>2, <1>3

\* What a rectangle marked dirty does to a state.
Marked(s, t, r) ==
    /\ ScreenOk(t) /\ t.at = s.at /\ t.stale = s.stale
    /\ Covered(s, s.at) => Covered(t, t.at)
    /\ Screen!In(s.at, r) /\ Screen!In(s.at, Screen!Screen) => Covered(t, t.at)

\* A state whose list alone changes.
LEMMA ListedIs ==
    ASSUME NEW s, ScreenOk(s), NEW r, NEW e \in Seq(Visible), Len(e) <= MAX_DIRTY_RECT,
           Covered(s, s.at) => \E j \in 1..Len(e) : Screen!In(s.at, e[j]),
           Screen!In(s.at, r) /\ Screen!In(s.at, Screen!Screen)
             => \E j \in 1..Len(e) : Screen!In(s.at, e[j]),
           NEW t, t = [s EXCEPT !.dirty = e]
    PROVE  Marked(s, t, r)
  <1>1. DOMAIN s = {"at", "stale", "dirty"}
    BY DEF ScreenOk
  <1>2. DOMAIN t = DOMAIN s /\ t.at = s.at /\ t.stale = s.stale /\ t.dirty = e
    BY <1>1
  <1>3. Covered(t, t.at) <=> \E j \in 1..Len(e) : Screen!In(s.at, e[j])
    BY <1>2 DEF Covered
  <1> QED
    BY <1>1, <1>2, <1>3 DEF ScreenOk, Marked

LEMMA MarkIs ==
    ASSUME NEW s, ScreenOk(s), NEW raw \in ScreenRects, NEW t, t = Screen!gfx_mark_dirty(s, raw)
    PROVE  Marked(s, t, raw)
  <1> DEFINE d == s.dirty
             p == s.at
  <1>1. PICK r : r = Screen!Clip(raw)
    OBVIOUS
  <1>2. /\ p.x \in Int /\ p.y \in Int /\ d \in Seq(Visible) /\ Len(d) <= MAX_DIRTY_RECT
        /\ Len(d) \in Nat /\ DOMAIN d = 1..Len(d)
    BY LenProperties DEF ScreenOk
  <1>3. /\ r \in ScreenRects
        /\ r.w > 0 /\ r.h > 0 => r \in Visible
        /\ Screen!In(p, raw) /\ Screen!In(p, Screen!Screen) => Screen!In(p, r)
    BY <1>1, <1>2, ClipIs
  <1> DEFINE near == {i \in DOMAIN d : Screen!Touch(r, d[i]) /\ ~Screen!Wasteful(d, r, d[i])}
             pair == Screen!MergedPair(d)
  <1>4. t = IF raw.w <= 0 \/ raw.h <= 0 \/ r.w <= 0 \/ r.h <= 0 THEN s
            ELSE IF near # {} THEN [s EXCEPT !.dirty[Screen!Min(near)] = Screen!Hull(r, @)]
            ELSE IF Len(d) < MAX_DIRTY_RECT THEN [s EXCEPT !.dirty = Append(@, r)]
            ELSE [s EXCEPT !.dirty[pair[1]] = Screen!Hull(@, d[pair[2]]), !.dirty[pair[2]] = r]
    BY <1>1 DEF Screen!gfx_mark_dirty
  <1>5. CASE raw.w <= 0 \/ raw.h <= 0 \/ r.w <= 0 \/ r.h <= 0
    <2>1. t = s
      BY <1>4, <1>5
    <2>2. ~(Screen!In(p, raw) /\ Screen!In(p, Screen!Screen))
      <3>1. ASSUME NEW q \in ScreenRects, q.w <= 0 \/ q.h <= 0
            PROVE  ~Screen!In(p, q)
        <4>1. q.x \in Int /\ q.y \in Int /\ q.w \in Int /\ q.h \in Int
          BY RectIs
        <4> QED
          BY <1>2, <3>1, <4>1 DEF Screen!In
      <3> QED
        BY <1>3, <1>5, <3>1
    <2> QED
      BY <2>1, <2>2 DEF Marked
  <1>6. CASE ~(raw.w <= 0 \/ raw.h <= 0 \/ r.w <= 0 \/ r.h <= 0)
    <2>1. r \in Visible
      <3>1. r.w \in Int /\ r.h \in Int
        BY <1>3, RectIs
      <3>2. r.w > 0 /\ r.h > 0
        BY <1>6, <3>1
      <3> QED
        BY <1>3, <3>2
    <2>2. CASE near # {}
      <3>1. PICK m \in near : m = Screen!Min(near)
        <4>1. near \in SUBSET Nat
          BY <1>2
        <4>2. \E x \in near : \A y \in near : x <= y
          <5> HIDE DEF near
          <5> QED
            BY <2>2, <4>1, NatMin
        <4> HIDE DEF near
        <4> QED
          BY <4>2 DEF Screen!Min
      <3>2. m \in 1..Len(d) /\ d[m] \in Visible
        BY <1>2, <3>1, ElementOfSeq
      <3> DEFINE v == Screen!Hull(r, d[m])
                 e == [d EXCEPT ![m] = v]
      <3>3. v \in Visible /\ (Screen!In(p, r) \/ Screen!In(p, d[m]) => Screen!In(p, v))
        BY <1>2, <2>1, <3>2, HullIs
      <3> HIDE DEF v
      <3>4. /\ e \in Seq(Visible) /\ Len(e) = Len(d)
            /\ Screen!In(p, v) => \E j \in 1..Len(e) : Screen!In(p, e[j])
            /\ (\E j \in 1..Len(d) : Screen!In(p, d[j])) => \E j \in 1..Len(e) : Screen!In(p, e[j])
        BY <1>2, <3>2, <3>3, WidenedIs, SMTT(30)
      <3>5. t = [s EXCEPT !.dirty = e]
        BY <1>4, <1>6, <2>2, <3>1 DEF v
      <3> HIDE DEF e
      <3> QED
        BY <1>2, <1>3, <3>3, <3>4, <3>5, ListedIs DEF Covered
    <2>3. CASE near = {} /\ Len(d) < MAX_DIRTY_RECT
      <3> DEFINE e == Append(d, r)
      <3>1. /\ e \in Seq(Visible) /\ Len(e) = Len(d) + 1 /\ e[Len(d) + 1] = r
            /\ \A i \in 1..Len(d) : e[i] = d[i]
        BY <1>2, <2>1, AppendProperties
      <3>2. t = [s EXCEPT !.dirty = e]
        BY <1>4, <1>6, <2>3
      <3> HIDE DEF e
      <3>3. Len(d) + 1 \in 1..Len(e) /\ Len(e) <= MAX_DIRTY_RECT
            /\ \A i \in 1..Len(d) : i \in 1..Len(e)
        BY <1>2, <2>3, <3>1, SizesAre
      <3>4. Screen!In(p, r) => \E j \in 1..Len(e) : Screen!In(p, e[j])
        BY <3>1, <3>3
      <3>5. Covered(s, p) => \E j \in 1..Len(e) : Screen!In(p, e[j])
        BY <3>1, <3>3 DEF Covered
      <3> QED
        BY <1>3, <3>1, <3>2, <3>3, <3>4, <3>5, ListedIs
    <2>4. CASE near = {} /\ ~(Len(d) < MAX_DIRTY_RECT)
      <3>1. Len(d) >= 2
        BY <1>2, <2>4, SizesAre
      <3>2. PICK i \in 1..Len(d), j \in 1..Len(d) : i = pair[1] /\ j = pair[2] /\ i < j
        BY <1>2, <3>1, PairIs
      <3>3. d[i] \in Visible /\ d[j] \in Visible /\ i # j
        BY <1>2, <3>2, ElementOfSeq
      <3> DEFINE v == Screen!Hull(d[i], d[j])
                 m == [d EXCEPT ![i] = v]
                 e == [m EXCEPT ![j] = r]
      <3>4. v \in Visible /\ (Screen!In(p, d[i]) \/ Screen!In(p, d[j]) => Screen!In(p, v))
        BY <1>2, <3>3, HullIs
      <3> HIDE DEF v
      <3>5. /\ m \in Seq(Visible) /\ Len(m) = Len(d)
            /\ \A k \in 1..Len(d) : m[k] = IF k = i THEN v ELSE d[k]
        BY <1>2, <3>4, ExceptSeq
      <3>6. t = [s EXCEPT !.dirty = e]
        BY <1>4, <1>6, <2>4, <3>2 DEF v
      <3> HIDE DEF m
      <3>7. /\ e \in Seq(Visible) /\ Len(e) = Len(m)
            /\ \A k \in 1..Len(m) : e[k] = IF k = j THEN r ELSE m[k]
        BY <2>1, <3>5, ExceptSeq
      <3> HIDE DEF e
      <3>8. e[j] = r /\ e[i] = v /\ \A k \in 1..Len(d) : k # i /\ k # j => e[k] = d[k]
        BY <3>3, <3>5, <3>7
      <3>9. Len(e) = Len(d)
        BY <3>5, <3>7
      <3>10. Screen!In(p, r) => \E k \in 1..Len(e) : Screen!In(p, e[k])
        BY <3>8, <3>9
      <3>11. ASSUME NEW k \in 1..Len(d), Screen!In(p, d[k])
             PROVE  \E l \in 1..Len(e) : Screen!In(p, e[l])
        <4>1. CASE k = i \/ k = j
          BY <3>4, <3>8, <3>9, <3>11, <4>1
        <4>2. CASE k # i /\ k # j
          BY <3>8, <3>9, <3>11, <4>2
        <4> QED
          BY <4>1, <4>2
      <3>12. Covered(s, p) => \E k \in 1..Len(e) : Screen!In(p, e[k])
        BY <3>11 DEF Covered
      <3> QED
        BY <1>2, <1>3, <3>6, <3>7, <3>9, <3>10, <3>12, ListedIs
    <2> QED
      BY <2>2, <2>3, <2>4
  <1> QED
    BY <1>5, <1>6

\* What a primitive does that draws inside r.
Painted(s, t, r) ==
    /\ ScreenOk(t) /\ t.at = s.at
    /\ Covered(s, s.at) => Covered(t, t.at)
    /\ Screen!In(s.at, r) /\ Screen!In(s.at, Screen!Screen) => Covered(t, t.at)

LEMMA PaintedOn ==
    ASSUME NEW s, NEW t, NEW u, NEW r, NEW q, Painted(s, t, r), Painted(t, u, q)
    PROVE  Painted(s, u, r)
  BY DEF Painted

LEMMA MarkedIs ==
    ASSUME NEW s, ScreenOk(s), NEW r \in ScreenRects
    PROVE  Painted(s, Screen!gfx_mark_dirty(s, r), r)
  BY MarkIs DEF Marked, Painted

\* Drawing only where a rectangle is marked.
LEMMA DrawIs ==
    ASSUME NEW s, NEW u, NEW r, Painted(s, u, r), NEW written,
           written => Screen!In(s.at, r), NEW t, t = Screen!Draw(u, written)
    PROVE  Painted(s, t, r)
  <1>1. ScreenOk(u) /\ u.at = s.at
    BY DEF Painted
  <1>2. DOMAIN u = {"at", "stale", "dirty"}
    BY <1>1 DEF ScreenOk
  <1>3. t = [u EXCEPT !.stale = @ \/ (written /\ Screen!In(u.at, Screen!Screen))]
    BY DEF Screen!Draw
  <1>4. /\ DOMAIN t = DOMAIN u /\ t.at = u.at /\ t.dirty = u.dirty
        /\ t.stale = (u.stale \/ (written /\ Screen!In(u.at, Screen!Screen)))
    BY <1>2, <1>3
  <1>5. Covered(t, t.at) <=> Covered(u, u.at)
    BY <1>4 DEF Covered
  <1>6. t.stale \in BOOLEAN
    BY <1>4
  <1>7. t.stale => Covered(t, t.at)
    BY <1>1, <1>4, <1>5 DEF Painted, ScreenOk
  <1>8. ScreenOk(t)
    BY <1>1, <1>4, <1>6, <1>7 DEF ScreenOk
  <1> QED
    BY <1>1, <1>4, <1>5, <1>8 DEF Painted

LEMMA MarkAndDrawIs ==
    ASSUME NEW s, ScreenOk(s), NEW r \in ScreenRects, NEW written, written => Screen!In(s.at, r)
    PROVE  Painted(s, Screen!MarkAndDraw(s, r, written), r)
  <1>1. Painted(s, Screen!gfx_mark_dirty(s, r), r)
    BY MarkedIs
  <1>2. (r.w > 0 /\ r.h > 0 /\ written) => Screen!In(s.at, r)
    OBVIOUS
  <1> QED
    BY <1>1, <1>2, DrawIs DEF Screen!MarkAndDraw

LEMMA EmptyIs ==
    ASSUME NEW r \in ScreenRects, r.w <= 0 \/ r.h <= 0, NEW p, p.x \in Int, p.y \in Int
    PROVE  ~Screen!In(p, r)
  <1>1. r.x \in Int /\ r.y \in Int /\ r.w \in Int /\ r.h \in Int
    BY RectIs
  <1> QED
    BY <1>1 DEF Screen!In

LEMMA NothingIs ==
    ASSUME NEW s, ScreenOk(s), NEW r \in ScreenRects,
           ~(Screen!In(s.at, r) /\ Screen!In(s.at, Screen!Screen))
    PROVE  Painted(s, s, r)
  BY DEF Painted

LEMMA FillIs ==
    ASSUME NEW s, ScreenOk(s), NEW r \in ScreenRects
    PROVE  Painted(s, Screen!gfx_fill_rect(s, r), r)
  <1>1. PICK c : c = Screen!Clip(r)
    OBVIOUS
  <1>2. s.at.x \in Int /\ s.at.y \in Int
    BY DEF ScreenOk
  <1>3. c \in ScreenRects
        /\ (Screen!In(s.at, c) <=> Screen!In(s.at, r) /\ Screen!In(s.at, Screen!Screen))
    BY <1>1, <1>2, ClipIs
  <1>4. CASE c.w <= 0 \/ c.h <= 0
    <2>1. Screen!gfx_fill_rect(s, r) = s
      BY <1>1, <1>4 DEF Screen!gfx_fill_rect
    <2>2. ~Screen!In(s.at, c)
      BY <1>2, <1>3, <1>4, EmptyIs
    <2> QED
      BY <1>3, <2>1, <2>2, NothingIs
  <1>5. CASE ~(c.w <= 0 \/ c.h <= 0)
    <2>1. Screen!gfx_fill_rect(s, r) = Screen!MarkAndDraw(s, c, Screen!In(s.at, c))
      BY <1>1, <1>5 DEF Screen!gfx_fill_rect
    <2>2. Painted(s, Screen!MarkAndDraw(s, c, Screen!In(s.at, c)), c)
      BY <1>3, MarkAndDrawIs
    <2> QED
      BY <1>3, <2>1, <2>2 DEF Painted
  <1> QED
    BY <1>4, <1>5

\* A primitive that does nothing keeps the invariant too.
LEMMA PaintedKeeps ==
    ASSUME NEW s, NEW t, NEW r, Painted(s, t, r)
    PROVE  ScreenOk(t)
  BY DEF Painted

LEMMA FilledOn ==
    ASSUME NEW s, NEW t, NEW r, Painted(s, t, r),
           NEW x \in Int, NEW y \in Int, NEW w \in Int, NEW h \in Int
    PROVE  Painted(s, Screen!gfx_fill_rect(t, Screen!R(x, y, w, h)), r)
  <1>1. ScreenOk(t) /\ Screen!R(x, y, w, h) \in ScreenRects
    BY RIs DEF Painted
  <1>2. Painted(t, Screen!gfx_fill_rect(t, Screen!R(x, y, w, h)), Screen!R(x, y, w, h))
    BY <1>1, FillIs
  <1> QED
    BY <1>2, PaintedOn

LEMMA DrawRectKeeps ==
    ASSUME NEW s, ScreenOk(s), NEW r \in ScreenRects
    PROVE  ScreenOk(Screen!gfx_draw_rect(s, r))
  <1>1. /\ r.x \in Int /\ r.y \in Int /\ r.w \in Int /\ r.h \in Int /\ 1 \in Int
        /\ r.y + r.h - 1 \in Int /\ r.x + r.w - 1 \in Int
    BY RectIs
  <1>2. CASE r.w <= 0 \/ r.h <= 0
    BY <1>2 DEF Screen!gfx_draw_rect
  <1>3. CASE ~(r.w <= 0 \/ r.h <= 0)
    <2>1. PICK q : q = Screen!R(r.x, r.y, r.w, 1)
      OBVIOUS
    <2>2. PICK t : t = Screen!gfx_fill_rect(s, Screen!R(r.x, r.y, r.w, 1))
      OBVIOUS
    <2>3. Painted(s, t, q)
      BY <1>1, <2>1, <2>2, RIs, FillIs
    <2>4. PICK b : b = Screen!gfx_fill_rect(t, Screen!R(r.x, r.y + r.h - 1, r.w, 1))
      OBVIOUS
    <2>5. Painted(s, b, q)
      BY <1>1, <2>3, <2>4, FilledOn
    <2>6. PICK l : l = Screen!gfx_fill_rect(b, Screen!R(r.x, r.y, 1, r.h))
      OBVIOUS
    <2>7. Painted(s, l, q)
      BY <1>1, <2>5, <2>6, FilledOn
    <2>8. Painted(s, Screen!gfx_fill_rect(l, Screen!R(r.x + r.w - 1, r.y, 1, r.h)), q)
      BY <1>1, <2>7, FilledOn
    <2> QED
      BY <1>3, <2>2, <2>4, <2>6, <2>8, PaintedKeeps DEF Screen!gfx_draw_rect
  <1> QED
    BY <1>2, <1>3

LEMMA DrawCharIs ==
    ASSUME NEW s, ScreenOk(s), NEW x \in Int, NEW y \in Int
    PROVE  ScreenOk(Screen!gfx_draw_char(s, x, y))
  <1>1. Screen!R(x, y, GLYPH.w, GLYPH.h) \in ScreenRects
    BY SizesAre, RIs
  <1> QED
    BY <1>1, MarkAndDrawIs, PaintedKeeps DEF Screen!gfx_draw_char

LEMMA DrawTextKeeps ==
    ASSUME NEW s, ScreenOk(s), NEW r \in ScreenRects
    PROVE  ScreenOk(Screen!gfx_draw_text(s, r))
  <1>1. r.x \in Int /\ r.y \in Int /\ r.x + GLYPH.w \in Int
    BY RectIs, SizesAre
  <1>2. ScreenOk(Screen!gfx_draw_char(s, r.x, r.y))
    BY <1>1, DrawCharIs
  <1> QED
    BY <1>1, <1>2, DrawCharIs DEF Screen!gfx_draw_text

\* The radius is at most half of the sides.
LEMMA RadiusIs ==
    ASSUME NEW r \in ScreenRects, r.w > 0, r.h > 0, NEW radius \in Nat,
           NEW k, k = Screen!Radius(r, radius)
    PROVE  k \in Nat /\ 2 * k <= r.w /\ 2 * k <= r.h
  <1>1. r.w \in Int /\ r.h \in Int
    BY RectIs
  <1>2. r.w \div 2 \in Nat /\ r.h \div 2 \in Nat /\ 2 * (r.w \div 2) <= r.w /\ 2 * (r.h \div 2) <= r.h
    BY <1>1
  <1>3. PICK a \in Nat : a = r.w \div 2
    BY <1>2
  <1>4. PICK b \in Nat : b = r.h \div 2
    BY <1>2
  <1>5. k = Screen!Min({radius, a, b})
    BY <1>3, <1>4 DEF Screen!Radius
  <1>6. k \in Int /\ k <= a /\ k <= b /\ k \in {radius, a, b}
    <2>1. radius \in Int /\ a \in Int /\ b \in Int
      OBVIOUS
    <2>2. LET m == Screen!Min({radius, a, b})
          IN  m \in Int /\ m <= a /\ m <= b /\ m \in {radius, a, b}
      BY ONLY <2>1, LeastOfThree
    <2> QED
      BY ONLY <1>5, <2>2
  <1>7. 2 * a <= r.w /\ 2 * b <= r.h
    BY <1>2, <1>3, <1>4
  <1>8. a \in Int /\ b \in Int /\ k \in Nat
    <2>1. k = radius \/ k = a \/ k = b
      BY <1>6
    <2> QED
      BY <2>1
  <1> QED
    BY ONLY <1>1, <1>6, <1>7, <1>8

\* A pixel of a corner is one of the rectangle.
LEMMA CornerIs ==
    ASSUME NEW r \in ScreenRects, NEW k \in Int, 2 * k <= r.w, 2 * k <= r.h, r.w > 0, r.h > 0,
           NEW cx \in 0..k, NEW cy \in 0..k, NEW p,
           p.x \in {r.x + cx, r.x + r.w - 1 - cx}, p.y \in {r.y + cy, r.y + r.h - 1 - cy}
    PROVE  Screen!In(p, r)
  <1>1. r.x \in Int /\ r.y \in Int /\ r.w \in Int /\ r.h \in Int
    BY RectIs
  <1>2. cx < r.w /\ cy < r.h /\ cx \in Int /\ cy \in Int /\ cx >= 0 /\ cy >= 0
    BY <1>1
  <1>3. p.x \in Int /\ r.x <= p.x /\ p.x < r.x + r.w
    BY <1>1, <1>2
  <1>4. p.y \in Int /\ r.y <= p.y /\ p.y < r.y + r.h
    BY <1>1, <1>2
  <1> QED
    BY <1>3, <1>4 DEF Screen!In

LEMMA FillRoundKeeps ==
    ASSUME NEW s, ScreenOk(s), NEW r \in ScreenRects, NEW radius \in Nat
    PROVE  ScreenOk(Screen!gfx_fill_round_rect(s, r, radius))
  <1>1. PICK k : k = Screen!Radius(r, radius)
    OBVIOUS
  <1>2. CASE r.w <= 0 \/ r.h <= 0
    BY <1>2 DEF Screen!gfx_fill_round_rect
  <1>3. CASE ~(r.w <= 0 \/ r.h <= 0)
    <2>1. r.x \in Int /\ r.y \in Int /\ r.w \in Int /\ r.h \in Int /\ r.w > 0 /\ r.h > 0
      BY <1>3, RectIs
    <2>2. k \in Nat /\ 2 * k <= r.w /\ 2 * k <= r.h
      BY <1>1, <2>1, RadiusIs
    <2>3. r.x + k \in Int /\ r.y + k \in Int /\ r.w - 2 * k \in Int /\ r.h - 2 * k \in Int
      BY <2>1, <2>2
    <2>4. Painted(s, Screen!gfx_mark_dirty(s, r), r)
      BY MarkedIs
    <2>5. PICK t : t = Screen!gfx_fill_rect(Screen!gfx_mark_dirty(s, r),
                                           Screen!R(r.x + k, r.y, r.w - 2 * k, r.h))
      OBVIOUS
    <2>6. Painted(s, t, r)
      BY <2>1, <2>3, <2>4, <2>5, FilledOn
    <2>7. PICK c : c = Screen!gfx_fill_rect(t, Screen!R(r.x, r.y + k, r.w, r.h - 2 * k))
      OBVIOUS
    <2>8. Painted(s, c, r)
      BY <2>1, <2>3, <2>6, <2>7, FilledOn
    <2> DEFINE on(p) == \E cx, cy \in 0..k - 1 :
                  /\ (k - 1 - cx) * (k - 1 - cx) + (k - 1 - cy) * (k - 1 - cy) <= k * k
                  /\ p.x \in {r.x + cx, r.x + r.w - 1 - cx} /\ p.y \in {r.y + cy, r.y + r.h - 1 - cy}
    <2>9. on(s.at) => Screen!In(s.at, r)
      <3>1. \A c1 : c1 \in 0..k - 1 => c1 \in 0..k
        BY <2>2
      <3>2. k \in Int
        BY <2>2
      <3> QED
        BY <2>1, <2>2, <3>1, <3>2, CornerIs
    <2>10. Screen!gfx_fill_round_rect(s, r, radius) = Screen!Draw(c, on(s.at))
      BY <1>1, <1>3, <2>5, <2>7 DEF Screen!gfx_fill_round_rect
    <2> HIDE DEF on
    <2> QED
      BY <2>8, <2>9, <2>10, DrawIs, PaintedKeeps
  <1> QED
    BY <1>2, <1>3

LEMMA DrawRoundKeeps ==
    ASSUME NEW s, ScreenOk(s), NEW r \in ScreenRects, NEW radius \in Nat
    PROVE  ScreenOk(Screen!gfx_draw_round_rect(s, r, radius))
  <1>1. PICK k : k = Screen!Radius(r, radius)
    OBVIOUS
  <1>2. CASE r.w <= 0 \/ r.h <= 0
    BY <1>2 DEF Screen!gfx_draw_round_rect
  <1>3. CASE ~(r.w <= 0 \/ r.h <= 0)
    <2>1. r.x \in Int /\ r.y \in Int /\ r.w \in Int /\ r.h \in Int /\ r.w > 0 /\ r.h > 0 /\ 1 \in Int
      BY <1>3, RectIs
    <2>2. k \in Nat /\ 2 * k <= r.w /\ 2 * k <= r.h
      BY <1>1, <2>1, RadiusIs
    <2>3. /\ r.x + k \in Int /\ r.y + k \in Int /\ r.w - 2 * k \in Int /\ r.h - 2 * k \in Int
          /\ r.y + r.h - 1 \in Int /\ r.x + r.w - 1 \in Int
      BY <2>1, <2>2
    <2>4. Painted(s, Screen!gfx_mark_dirty(s, r), r)
      BY MarkedIs
    <2>5. PICK t : t = Screen!gfx_fill_rect(Screen!gfx_mark_dirty(s, r),
                                           Screen!R(r.x + k, r.y, r.w - 2 * k, 1))
      OBVIOUS
    <2>6. Painted(s, t, r)
      BY <2>1, <2>3, <2>4, <2>5, FilledOn
    <2>7. PICK b : b = Screen!gfx_fill_rect(t, Screen!R(r.x + k, r.y + r.h - 1, r.w - 2 * k, 1))
      OBVIOUS
    <2>8. Painted(s, b, r)
      BY <2>1, <2>3, <2>6, <2>7, FilledOn
    <2>9. PICK l : l = Screen!gfx_fill_rect(b, Screen!R(r.x, r.y + k, 1, r.h - 2 * k))
      OBVIOUS
    <2>10. Painted(s, l, r)
      BY <2>1, <2>3, <2>8, <2>9, FilledOn
    <2>11. PICK c : c = Screen!gfx_fill_rect(l, Screen!R(r.x + r.w - 1, r.y + k, 1, r.h - 2 * k))
      OBVIOUS
    <2>12. Painted(s, c, r)
      BY <2>1, <2>3, <2>10, <2>11, FilledOn
    <2> DEFINE on(p) == \E cx, cy \in 0..k :
                  LET d == (k - cx) * (k - cx) + (k - cy) * (k - cy)
                  IN  /\ k * k - k <= d /\ d <= k * k + k
                      /\ p.x \in {r.x + cx, r.x + r.w - 1 - cx} /\ p.y \in {r.y + cy, r.y + r.h - 1 - cy}
    <2>13. on(s.at) => Screen!In(s.at, r)
      <3>1. k \in Int
        BY <2>2
      <3> QED
        BY <2>1, <2>2, <3>1, CornerIs
    <2>14. Screen!gfx_draw_round_rect(s, r, radius) = Screen!Draw(c, on(s.at))
      BY <1>1, <1>3, <2>5, <2>7, <2>9, <2>11 DEF Screen!gfx_draw_round_rect
    <2> HIDE DEF on
    <2> QED
      BY <2>12, <2>13, <2>14, DrawIs, PaintedKeeps
  <1> QED
    BY <1>2, <1>3

\* A strip at the right and one below, twice.
LEMMA ShadowKeeps ==
    ASSUME NEW s, ScreenOk(s), NEW r \in ScreenRects
    PROVE  ScreenOk(Screen!gfx_draw_shadow(s, r, 2))
  <1> DEFINE Strips(t, d) ==
               Screen!gfx_fill_rect(
                 Screen!gfx_fill_rect(t, Screen!R(r.x + r.w + d - 1, r.y + d, 1, r.h)),
                 Screen!R(r.x + d, r.y + r.h + d - 1, r.w, 1))
             F(f) == [d \in 0..2 |-> IF d = 0 THEN s ELSE Strips(f[d - 1], d)]
             g == [d \in 0..2 |-> IF d = 0 THEN s ELSE IF d = 1 THEN Strips(s, 1)
                                 ELSE Strips(Strips(s, 1), 2)]
             drawn == CHOOSE f : f = F(f)
  <1>1. ASSUME NEW t, ScreenOk(t), NEW d \in Int
        PROVE  ScreenOk(Strips(t, d))
    <2>1. /\ r.x + r.w + d - 1 \in Int /\ r.y + d \in Int /\ 1 \in Int /\ r.h \in Int
          /\ r.x + d \in Int /\ r.y + r.h + d - 1 \in Int /\ r.w \in Int
      BY RectIs
    <2>2. PICK q : q = Screen!R(r.x + r.w + d - 1, r.y + d, 1, r.h)
      OBVIOUS
    <2>3. Painted(t, Screen!gfx_fill_rect(t, q), q)
      BY <1>1, <2>1, <2>2, RIs, FillIs
    <2>4. PICK u : u = Screen!gfx_fill_rect(t, q)
      OBVIOUS
    <2>5. Painted(t, Screen!gfx_fill_rect(u, Screen!R(r.x + d, r.y + r.h + d - 1, r.w, 1)), q)
      BY ONLY <2>1, <2>3, <2>4, FilledOn
    <2> QED
      BY ONLY <2>2, <2>4, <2>5, PaintedKeeps DEF Strips
  <1> HIDE DEF Strips
  <1>2. g = F(g)
    <2>1. \A d : d \in 0..2 <=> d \in {0, 1, 2}
      OBVIOUS
    <2>2. g[0] = s /\ g[1] = Strips(s, 1) /\ g[2] = Strips(Strips(s, 1), 2)
      OBVIOUS
    <2>3. \A d \in 0..2 : g[d] = F(g)[d]
      <3> HIDE DEF g
      <3> QED
        BY <2>1, <2>2
    <2>4. DOMAIN g = 0..2 /\ g = [d \in 0..2 |-> g[d]]
      OBVIOUS
    <2> HIDE DEF g
    <2> QED
      BY <2>3, <2>4
  <1>3. drawn = F(drawn)
    <2> HIDE DEF F, g
    <2> QED
      BY <1>2
  <1>4. drawn[0] = s /\ drawn[1] = Strips(drawn[0], 1) /\ drawn[2] = Strips(drawn[1], 2)
    <2> HIDE DEF drawn
    <2> QED
      BY <1>3
  <1>5. Screen!gfx_draw_shadow(s, r, 2) = drawn[2]
    BY DEF Screen!gfx_draw_shadow, Strips
  <1> HIDE DEF drawn
  <1>6. 1 \in Int /\ 2 \in Int
    OBVIOUS
  <1> QED
    BY <1>1, <1>4, <1>5, <1>6

LEMMA TitleKeeps ==
    ASSUME NEW s, ScreenOk(s), NEW r \in ScreenRects
    PROVE  ScreenOk(Screen!render_window_title(s, r))
  <1>1. CASE r.w < GLYPH.w + 2 \/ r.h < GLYPH.h + 2
    BY <1>1 DEF Screen!render_window_title
  <1>2. CASE ~(r.w < GLYPH.w + 2 \/ r.h < GLYPH.h + 2)
    <2>1. PICK t : t = Screen!gfx_fill_rect(s, r)
      OBVIOUS
    <2>2. Painted(s, t, r)
      BY <2>1, FillIs
    <2>3. t.at = s.at /\ s.at.x \in Int /\ s.at.y \in Int
      BY <2>2 DEF Painted, ScreenOk
    <2>4. PICK q : q = Screen!R((r.x + 1) - 1, (r.y + 1) - 1, GLYPH.w + 2, GLYPH.h + 2)
      OBVIOUS
    <2>5. Screen!In(t.at, q) => Screen!In(s.at, r)
      <3>1. r.x \in Int /\ r.y \in Int /\ r.w \in Int /\ r.h \in Int
        BY RectIs
      <3>2. q.x = r.x /\ q.y = r.y /\ q.w = GLYPH.w + 2 /\ q.h = GLYPH.h + 2
        BY <2>4, <3>1 DEF Screen!R
      <3>3. q.w \in Int /\ q.h \in Int /\ q.w <= r.w /\ q.h <= r.h
        BY <1>2, <3>1, <3>2, SizesAre
      <3> QED
        BY <2>3, <3>1, <3>2, <3>3 DEF Screen!In
    <2>6. Screen!render_window_title(s, r) = Screen!Draw(t, Screen!In(t.at, q))
      BY <1>2, <2>1, <2>4 DEF Screen!render_window_title, Screen!gfx_draw_text_glow
    <2> QED
      BY <2>2, <2>5, <2>6, DrawIs, PaintedKeeps
  <1> QED
    BY <1>1, <1>2

LEMMA SwapKeeps ==
    ASSUME NEW s, ScreenOk(s)
    PROVE  ScreenOk(Screen!gfx_swap(s))
  <1>1. PICK t : t = Screen!gfx_swap(s)
    OBVIOUS
  <1>2. DOMAIN s = {"at", "stale", "dirty"} /\ s.dirty \in Seq(Visible) /\ s.stale \in BOOLEAN
    BY DEF ScreenOk
  <1>3. DOMAIN s.dirty = 1..Len(s.dirty)
    BY <1>2, LenProperties
  <1>4. \A i \in 1..Len(s.dirty) : Screen!Copied(s.dirty[i]) = s.dirty[i]
    <2>1. ASSUME NEW d \in Visible PROVE Screen!Copied(d) = d
      <3>1. d.w \in Int /\ d.w > 0 /\ d \in ScreenRects
        BY RectIs DEF Visible
      <3>2. ~(d.w % 2 = 1) => 2 * (d.w \div 2) = d.w
        BY <3>1
      <3>3. Screen!R(d.x, d.y, d.w, d.h) = d
        BY <3>1 DEF Screen!R, ScreenRects
      <3> QED
        BY <3>2, <3>3 DEF Screen!Copied
    <2> QED
      BY <1>2, <2>1, ElementOfSeq
  <1>5. /\ DOMAIN t = DOMAIN s /\ t.at = s.at /\ t.dirty = <<>>
        /\ t.stale = (s.stale /\ ~\E i \in DOMAIN s.dirty : Screen!In(s.at, Screen!Copied(s.dirty[i])))
    BY <1>1, <1>2 DEF Screen!gfx_swap
  <1>6. ~t.stale /\ t.stale \in BOOLEAN
    BY <1>3, <1>4, <1>5 DEF ScreenOk, Covered
  <1>7. t.dirty \in Seq(Visible) /\ Len(t.dirty) <= MAX_DIRTY_RECT
    <2>1. <<>> \in Seq(Visible) /\ Len(<<>>) = 0 /\ 0 <= MAX_DIRTY_RECT
      BY EmptySeq, SizesAre
    <2> QED
      BY <1>5, <2>1
  <1> QED
    BY <1>1, <1>2, <1>5, <1>6, <1>7 DEF ScreenOk

LEMMA SquareLess ==
    ASSUME NEW a \in Int, NEW b \in Int, NEW n \in Nat, a * a + b * b < n * n
    PROVE  -n < a /\ a < n
  <1>1. \A k \in Int : k * k >= 0 /\ k * k \in Int
    <2>1. ASSUME NEW k \in Int PROVE k * k >= 0 /\ k * k \in Int
      OBVIOUS
    <2> QED
      BY <2>1
  <1>2. \A x, y \in Nat : y <= x => y * y <= x * x
    <2>1. ASSUME NEW x \in Nat, NEW y \in Nat, y <= x PROVE y * y <= x * x
      <3>1. y * y <= x * y /\ x * y <= x * x
        BY <2>1
      <3>2. y * y \in Int /\ x * y \in Int /\ x * x \in Int
        OBVIOUS
      <3> QED
        BY ONLY <3>1, <3>2
    <2> QED
      BY <2>1
  <1>3. a * a \in Int /\ b * b \in Int /\ n * n \in Int /\ b * b >= 0
    BY <1>1
  <1>4. a * a < n * n
    BY ONLY <1>3, a * a + b * b < n * n
  <1>5. ASSUME a >= n PROVE FALSE
    <2>1. a \in Nat
      BY <1>5
    <2>2. n * n <= a * a
      BY <1>2, <1>5, <2>1
    <2> QED
      BY ONLY <1>3, <1>4, <2>2
  <1>6. ASSUME -n >= a PROVE FALSE
    <2>1. -a \in Nat /\ n <= -a
      BY <1>6
    <2>2. n * n <= (-a) * (-a)
      BY <1>2, <2>1
    <2>3. (-a) * (-a) = a * a
      OBVIOUS
    <2> QED
      BY ONLY <1>3, <1>4, <2>2, <2>3
  <1> QED
    BY <1>5, <1>6

LEMMA GlowKeeps ==
    ASSUME NEW s, ScreenOk(s), NEW cx \in Int, NEW cy \in Int, NEW n \in Nat
    PROVE  ScreenOk(Screen!gfx_draw_glow_spot(s, cx, cy, n))
  <1>1. CASE n <= 0
    BY <1>1 DEF Screen!gfx_draw_glow_spot
  <1>2. CASE ~(n <= 0)
    <2> DEFINE on == (s.at.x - cx) * (s.at.x - cx) + (s.at.y - cy) * (s.at.y - cy) < n * n
    <2>1. cx - n \in Int /\ cy - n \in Int /\ 2 * n + 1 \in Int
      OBVIOUS
    <2>2. PICK r : r = Screen!R(cx - n, cy - n, 2 * n + 1, 2 * n + 1)
      OBVIOUS
    <2>3. r \in ScreenRects /\ r.x = cx - n /\ r.y = cy - n /\ r.w = 2 * n + 1 /\ r.h = 2 * n + 1
      BY <2>1, <2>2, RIs
    <2>4. on => Screen!In(s.at, r)
      <3>1. PICK a \in Int : a = s.at.x - cx
        BY DEF ScreenOk
      <3>2. PICK b \in Int : b = s.at.y - cy
        BY DEF ScreenOk
      <3>3. SUFFICES ASSUME a * a + b * b < n * n PROVE Screen!In(s.at, r)
        BY <3>1, <3>2
      <3>4. b * b + a * a < n * n
        BY <3>3
      <3>5. -n < a /\ a < n /\ -n < b /\ b < n
        BY <3>3, <3>4, SquareLess
      <3>6. s.at.x \in Int /\ s.at.y \in Int
        BY DEF ScreenOk
      <3>7. /\ cx - n <= s.at.x /\ s.at.x < (cx - n) + (2 * n + 1)
            /\ cy - n <= s.at.y /\ s.at.y < (cy - n) + (2 * n + 1)
        BY <3>1, <3>2, <3>5, <3>6
      <3> QED
        BY <2>3, <3>7 DEF Screen!In
    <2>5. Screen!gfx_draw_glow_spot(s, cx, cy, n) = Screen!MarkAndDraw(s, r, on)
      BY <1>2, <2>2 DEF Screen!gfx_draw_glow_spot
    <2> HIDE DEF on
    <2> QED
      BY <2>3, <2>4, <2>5, MarkAndDrawIs, PaintedKeeps
  <1> QED
    BY <1>1, <1>2

-----------------------------------------------------------------------------
(* A line stays between its ends.                                          *)

Follows(g, T, t0, N, h) ==
    /\ g \in [0 .. N -> T] /\ g[0] = t0
    /\ \A n \in 1 .. N : g[n] = h[<<g[n - 1], n - 1>>]

LEMMA Recursion ==
    ASSUME NEW T, NEW t0 \in T, NEW N \in Nat, NEW h \in [T \X (0 .. N - 1) -> T]
    PROVE  \E g : Follows(g, T, t0, N, h)
  <1> DEFINE Upto(g, m) == Follows(g, T, t0, m, h)
             Bad == {m \in 0 .. N : ~ \E g : Upto(g, m)}
  <1>1. SUFFICES ASSUME Bad # {} PROVE FALSE
    <2>1. N \in 0 .. N
      OBVIOUS
    <2>2. PICK g : Upto(g, N)
      BY <1>1, <2>1
    <2> QED
      BY <2>2
  <1>2. Bad \in SUBSET Nat
    OBVIOUS
  <1>3. PICK m \in Bad : \A x \in Bad : m <= x
    <2> HIDE DEF Bad
    <2> QED
      BY <1>1, <1>2, NatMin
  <1>4. m \in Nat /\ m <= N /\ ~ \E g : Upto(g, m)
    BY <1>3
  <1>5. m # 0
    <2>1. Upto([n \in 0 .. 0 |-> t0], 0)
      BY DEF Follows
    <2> QED
      BY <1>4, <2>1
  <1>6. m - 1 \in 0 .. N /\ m - 1 \notin Bad
    BY <1>3, <1>4, <1>5
  <1>7. PICK g : Upto(g, m - 1)
    BY <1>6
  <1> DEFINE g1 == [n \in 0 .. m |-> IF n = m THEN h[<<g[m - 1], m - 1>>] ELSE g[n]]
  <1>8. Upto(g1, m)
    <2>1. g[m - 1] \in T /\ h[<<g[m - 1], m - 1>>] \in T
      BY <1>4, <1>5, <1>7 DEF Follows
    <2>2. g1 \in [0 .. m -> T]
      BY <1>4, <1>5, <1>7, <2>1 DEF Follows
    <2>3. g1[0] = t0
      BY <1>4, <1>5, <1>7 DEF Follows
    <2>4. ASSUME NEW n \in 1 .. m PROVE g1[n] = h[<<g1[n - 1], n - 1>>]
      <3>1. n - 1 \in 0 .. m /\ n - 1 # m
        BY <1>4
      <3>2. g1[n - 1] = g[n - 1]
        BY <3>1
      <3>3. CASE n = m
        <4>1. g1[m] = h[<<g[m - 1], m - 1>>]
          BY <1>4
        <4> HIDE DEF g1
        <4> QED
          BY <3>2, <3>3, <4>1
      <3>4. CASE n # m
        BY <1>4, <1>7, <3>2, <3>4 DEF Follows
      <3> QED
        BY <3>3, <3>4
    <2> QED
      BY <2>2, <2>3, <2>4 DEF Follows
  <1> QED
    BY <1>4, <1>8

\* One step of Bresenham's, from k steps along: it does not pass either end, and the error
\* is what the place says.
LEMMA LineStep ==
    ASSUME NEW X \in Nat, NEW Y \in Nat, NEW k \in Nat, NEW dx \in Nat, NEW dy \in Nat, NEW e \in Int,
           X <= k, Y <= k, X <= dx, Y <= dy, k < dx \/ k < dy,
           e = (Y + 1) * dx - (X + 1) * dy,
           NEW X1, X1 = X + (IF 2 * e > -dy THEN 1 ELSE 0),
           NEW Y1, Y1 = Y + (IF 2 * e < dx THEN 1 ELSE 0),
           NEW e1, e1 = e - (IF 2 * e > -dy THEN dy ELSE 0) + (IF 2 * e < dx THEN dx ELSE 0)
    PROVE  /\ X1 \in Nat /\ Y1 \in Nat /\ X1 <= k + 1 /\ Y1 <= k + 1 /\ X1 <= dx /\ Y1 <= dy
           /\ e1 = (Y1 + 1) * dx - (X1 + 1) * dy
  <1>1. X1 \in Nat /\ Y1 \in Nat /\ X1 <= k + 1 /\ Y1 <= k + 1
    OBVIOUS
  <1>2. PICK m \in Int : m = dx * dy
    OBVIOUS
  <1>3. PICK u \in Int : u = (Y + 1) * dx
    OBVIOUS
  <1>4. PICK v \in Int : v = (X + 1) * dy
    OBVIOUS
  <1>5. e = u - v
    BY <1>3, <1>4
  <1>6. \A a, b, c \in Nat : a <= b => a * c <= b * c
    <2>1. ASSUME NEW a \in Nat, NEW b \in Nat, NEW c \in Nat, a <= b PROVE a * c <= b * c
      BY <2>1
    <2> QED
      BY <2>1
  <1>7. ASSUME 2 * e > -dy, X = dx PROVE FALSE
    <2>1. k < dy /\ Y + 1 <= dy
      BY <1>7
    <2>2. u <= dy * dx /\ dy * dx = m
      BY <1>2, <1>3, <1>6, <2>1
    <2>3. v = m + dy
      BY <1>2, <1>4, <1>7
    <2> QED
      BY <1>5, <1>7, <2>2, <2>3
  <1>8. ASSUME 2 * e < dx, Y = dy PROVE FALSE
    <2>1. k < dx /\ X + 1 <= dx
      BY <1>8
    <2>2. v <= m
      BY <1>2, <1>4, <1>6, <2>1
    <2>3. u = m + dx
      BY <1>2, <1>3, <1>8
    <2> QED
      BY <1>5, <1>8, <2>2, <2>3
  <1>9. X1 <= dx
    BY <1>7
  <1>10. Y1 <= dy
    BY <1>8
  <1>11. (Y1 + 1) * dx = u + (IF 2 * e < dx THEN dx ELSE 0)
    <2>1. ((Y + 1) + 1) * dx = (Y + 1) * dx + dx
      OBVIOUS
    <2>2. CASE 2 * e < dx
      <3>1. Y1 + 1 = (Y + 1) + 1
        BY <2>2
      <3> QED
        BY <1>3, <2>1, <2>2, <3>1
    <2>3. CASE ~(2 * e < dx)
      <3>1. Y1 = Y
        BY <2>3
      <3> QED
        BY <1>3, <2>3, <3>1
    <2> QED
      BY <2>2, <2>3
  <1>12. (X1 + 1) * dy = v + (IF 2 * e > -dy THEN dy ELSE 0)
    <2>1. ((X + 1) + 1) * dy = (X + 1) * dy + dy
      OBVIOUS
    <2>2. CASE 2 * e > -dy
      <3>1. X1 + 1 = (X + 1) + 1
        BY <2>2
      <3> QED
        BY <1>4, <2>1, <2>2, <3>1
    <2>3. CASE ~(2 * e > -dy)
      <3>1. X1 = X
        BY <2>3
      <3> QED
        BY <1>4, <2>3, <3>1
    <2> QED
      BY <2>2, <2>3
  <1>13. e1 = (Y1 + 1) * dx - (X1 + 1) * dy
    BY <1>5, <1>11, <1>12
  <1> QED
    BY <1>1, <1>9, <1>10, <1>13

LEMMA LineKeeps ==
    ASSUME NEW s, ScreenOk(s), NEW r \in ScreenRects
    PROVE  ScreenOk(Screen!gfx_draw_line(s, r))
  <1>1. r.x \in Int /\ r.y \in Int /\ r.w \in Int /\ r.h \in Int
    BY RectIs
  <1>2. CASE r.w <= 0 \/ r.h <= 0
    BY <1>2 DEF Screen!gfx_draw_line
  <1>3. CASE ~(r.w <= 0 \/ r.h <= 0)
    <2>1. PICK dx \in Nat : dx = r.w - 1
      BY <1>1, <1>3
    <2>2. PICK dy \in Nat : dy = r.h - 1
      BY <1>1, <1>3
    <2>3. PICK last \in Nat : last = Screen!Max({r.w, r.h}) - 1 /\ (last = dx \/ last = dy)
      <3>1. PICK x \in Int : x = Screen!Max({r.w, r.h}) /\ (x = r.w \/ x = r.h)
        BY <1>1, TwoAre
      <3> QED
        BY <1>1, <1>3, <2>1, <2>2, <3>1
    <2> DEFINE T == [x: Int, y: Int, err: Int]
               t0 == [x |-> r.x, y |-> r.y, err |-> r.w - r.h]
               Step(p) == [x |-> p.x + IF 2 * p.err > -(r.h - 1) THEN 1 ELSE 0,
                           y |-> p.y + IF 2 * p.err < r.w - 1 THEN 1 ELSE 0,
                           err |-> p.err - (IF 2 * p.err > -(r.h - 1) THEN r.h - 1 ELSE 0)
                                   + IF 2 * p.err < r.w - 1 THEN r.w - 1 ELSE 0]
               F(f) == [k \in 0..last |-> IF k = 0 THEN t0 ELSE Step(f[k - 1])]
               path == CHOOSE f : f = F(f)
               on == \E k \in 0..last : path[k].x = s.at.x /\ path[k].y = s.at.y
    <2>4. t0 \in T
      BY <1>1
    <2>5. ASSUME NEW p \in T PROVE Step(p) \in T
      <3>1. p.x \in Int /\ p.y \in Int /\ p.err \in Int /\ r.h - 1 \in Int /\ r.w - 1 \in Int
        BY <1>1
      <3>2. /\ p.x + (IF 2 * p.err > -(r.h - 1) THEN 1 ELSE 0) \in Int
            /\ p.y + (IF 2 * p.err < r.w - 1 THEN 1 ELSE 0) \in Int
            /\ p.err - (IF 2 * p.err > -(r.h - 1) THEN r.h - 1 ELSE 0)
                  + (IF 2 * p.err < r.w - 1 THEN r.w - 1 ELSE 0) \in Int
        BY <3>1
      <3> QED
        BY <3>2
    <2> HIDE DEF T, t0, Step
    <2>6. PICK h \in [T \X (0..last - 1) -> T] : \A p \in T, k \in 0..last - 1 : h[<<p, k>>] = Step(p)
      <3> DEFINE h == [y \in T \X (0..last - 1) |-> Step(y[1])]
      <3>1. h \in [T \X (0..last - 1) -> T]
        BY <2>5
      <3>2. \A p \in T, k \in 0..last - 1 : h[<<p, k>>] = Step(p)
        OBVIOUS
      <3> QED
        BY <3>1, <3>2
    <2>7. PICK g : Follows(g, T, t0, last, h)
      BY <2>4, <2>6, Recursion
    <2>8. ASSUME NEW k \in 1..last PROVE g[k] = Step(g[k - 1])
      <3>1. k - 1 \in 0..last /\ k - 1 \in 0..last - 1
        OBVIOUS
      <3>2. g[k - 1] \in T /\ g[k] = h[<<g[k - 1], k - 1>>]
        BY <2>7, <3>1 DEF Follows
      <3> QED
        BY <2>6, <3>1, <3>2
    <2>9. g = F(g)
      BY <2>7, <2>8 DEF Follows
    <2>10. path = F(path)
      <3> HIDE DEF F
      <3> QED
        BY <2>9
    <2>11. path[0] = t0 /\ \A k \in 1..last : path[k] = Step(path[k - 1])
      <3> HIDE DEF path
      <3>1. 0 \in 0..last /\ \A k \in 1..last : k \in 0..last /\ k # 0
        OBVIOUS
      <3> QED
        BY <2>10, <3>1
    <2>12. Screen!gfx_draw_line(s, r) = Screen!MarkAndDraw(s, r, on)
      BY <1>3, <2>3 DEF Screen!gfx_draw_line, t0, Step
    <2> HIDE DEF path
    <2> DEFINE Between(k) ==
                 \E X \in Nat, Y \in Nat :
                    /\ X <= k /\ Y <= k /\ X <= dx /\ Y <= dy
                    /\ path[k].x = r.x + X /\ path[k].y = r.y + Y
                    /\ path[k].err = (Y + 1) * dx - (X + 1) * dy
    <2>13. Between(0)
      <3>1. path[0].x = r.x + 0 /\ path[0].y = r.y + 0 /\ path[0].err = (0 + 1) * dx - (0 + 1) * dy
        BY <1>1, <2>1, <2>2, <2>11 DEF t0
      <3> QED
        BY <3>1
    <2>14. ASSUME NEW k \in 1..last, Between(k - 1) PROVE Between(k)
      <3>1. PICK X \in Nat, Y \in Nat :
                /\ X <= k - 1 /\ Y <= k - 1 /\ X <= dx /\ Y <= dy
                /\ path[k - 1].x = r.x + X /\ path[k - 1].y = r.y + Y
                /\ path[k - 1].err = (Y + 1) * dx - (X + 1) * dy
        BY <2>14
      <3>2. k - 1 \in Nat /\ (k - 1 < dx \/ k - 1 < dy) /\ (k - 1) + 1 = k
        BY <2>3
      <3>3. PICK e \in Int : e = path[k - 1].err
        BY <3>1
      <3>4. PICK X1 : X1 = X + (IF 2 * e > -dy THEN 1 ELSE 0)
        OBVIOUS
      <3>5. PICK Y1 : Y1 = Y + (IF 2 * e < dx THEN 1 ELSE 0)
        OBVIOUS
      <3>6. PICK e1 : e1 = e - (IF 2 * e > -dy THEN dy ELSE 0) + (IF 2 * e < dx THEN dx ELSE 0)
        OBVIOUS
      <3>7. e = (Y + 1) * dx - (X + 1) * dy
        BY <3>1, <3>3
      <3>8. /\ X1 \in Nat /\ Y1 \in Nat /\ X1 <= (k - 1) + 1 /\ Y1 <= (k - 1) + 1 /\ X1 <= dx /\ Y1 <= dy
            /\ e1 = (Y1 + 1) * dx - (X1 + 1) * dy
        BY <3>1, <3>2, <3>4, <3>5, <3>6, <3>7, LineStep
      <3>9. path[k] = Step(path[k - 1])
        BY <2>11
      <3>10. path[k].x = r.x + X1
        <4>1. path[k].x = path[k - 1].x + (IF 2 * e > -dy THEN 1 ELSE 0)
          BY <2>2, <3>3, <3>9 DEF Step
        <4>2. path[k].x = (r.x + X) + (IF 2 * e > -dy THEN 1 ELSE 0)
          BY ONLY <3>1, <4>1
        <4> QED
          BY <1>1, <3>4, <4>2
      <3>11. path[k].y = r.y + Y1
        <4>1. path[k].y = path[k - 1].y + (IF 2 * e < dx THEN 1 ELSE 0)
          BY <2>1, <3>3, <3>9 DEF Step
        <4>2. path[k].y = (r.y + Y) + (IF 2 * e < dx THEN 1 ELSE 0)
          BY ONLY <3>1, <4>1
        <4> QED
          BY <1>1, <3>5, <4>2
      <3>12. path[k].err = e1
        BY <2>1, <2>2, <3>3, <3>6, <3>9 DEF Step
      <3> QED
        BY <3>2, <3>8, <3>10, <3>11, <3>12
    <2> HIDE DEF Between
    <2>15. ASSUME NEW k \in 0..last PROVE Between(k)
      <3> DEFINE Bad == {m \in 0..last : ~Between(m)}
      <3>1. SUFFICES ASSUME Bad # {} PROVE FALSE
        OBVIOUS
      <3>2. Bad \in SUBSET Nat
        OBVIOUS
      <3>3. PICK m \in Bad : \A x \in Bad : m <= x
        <4> HIDE DEF Bad
        <4> QED
          BY <3>1, <3>2, NatMin
      <3>4. m \in 1..last
        BY <2>13, <3>3
      <3>5. m - 1 \in 0..last /\ m - 1 \notin Bad
        BY <3>3, <3>4
      <3> QED
        BY <2>14, <3>3, <3>4, <3>5
    <2>16. on => Screen!In(s.at, r)
      <3>1. ASSUME NEW k \in 0..last, path[k].x = s.at.x, path[k].y = s.at.y
            PROVE  Screen!In(s.at, r)
        <4>1. PICK X \in Nat, Y \in Nat :
                  X <= dx /\ Y <= dy /\ path[k].x = r.x + X /\ path[k].y = r.y + Y
          BY <2>15 DEF Between
        <4>2. /\ r.x <= r.x + X /\ r.x + X < r.x + r.w
              /\ r.y <= r.y + Y /\ r.y + Y < r.y + r.h
          BY <1>1, <2>1, <2>2, <4>1
        <4> QED
          BY <3>1, <4>1, <4>2 DEF Screen!In
      <3> QED
        BY <3>1
    <2> HIDE DEF on
    <2> QED
      BY <2>12, <2>16, MarkAndDrawIs, PaintedKeeps
  <1> QED
    BY <1>2, <1>3

-----------------------------------------------------------------------------
(* The invariant of the double buffer.                                     *)

LEMMA ScreenInitOk == Screen!Init => ScreenOk(st)
  <1> SUFFICES ASSUME Screen!Init PROVE ScreenOk(st)
    OBVIOUS
  <1>1. PICK p \in Pixels : st = [at |-> p, stale |-> FALSE, dirty |-> <<>>]
    BY DEF Screen!Init
  <1>2. p.x \in Int /\ p.y \in Int
    BY DevicesAssumption DEF Screen!ScreenAssumption
  <1>3. <<>> \in Seq(Visible) /\ Len(<<>>) = 0 /\ 0 <= MAX_DIRTY_RECT
    BY EmptySeq, SizesAre
  <1>4. /\ DOMAIN st = {"at", "stale", "dirty"} /\ st.at = p /\ st.stale = FALSE
        /\ st.dirty = <<>>
    BY <1>1
  <1>5. st.dirty \in Seq(Visible) /\ Len(st.dirty) <= MAX_DIRTY_RECT
    BY <1>3, <1>4
  <1> QED
    BY <1>2, <1>4, <1>5 DEF ScreenOk

LEMMA ScreenNextKeeps == ScreenOk(st) /\ Screen!Next => ScreenOk(st')
  <1> SUFFICES ASSUME ScreenOk(st), Screen!Next PROVE ScreenOk(st')
    OBVIOUS
  <1>1. ASSUME NEW r \in Rects
        PROVE  r \in ScreenRects /\ r.x \in Int /\ r.y \in Int
    BY DevicesAssumption DEF Screen!ScreenAssumption, ScreenRects
  <1>2. ASSUME NEW r \in Rects,
               st' \in {Screen!gfx_fill_rect(st, r), Screen!gfx_draw_rect(st, r), Screen!gfx_draw_line(st, r),
                        Screen!gfx_draw_text(st, r), Screen!gfx_draw_shadow(st, r, 2),
                        Screen!render_window_title(st, r)}
        PROVE  ScreenOk(st')
    <2>1. r \in ScreenRects
      BY <1>1
    <2>2. ScreenOk(Screen!gfx_fill_rect(st, r))
      BY <2>1, FillIs, PaintedKeeps
    <2>3. ScreenOk(Screen!gfx_draw_rect(st, r)) /\ ScreenOk(Screen!gfx_draw_line(st, r))
      BY <2>1, DrawRectKeeps, LineKeeps
    <2>4. ScreenOk(Screen!gfx_draw_text(st, r)) /\ ScreenOk(Screen!gfx_draw_shadow(st, r, 2))
      BY <2>1, DrawTextKeeps, ShadowKeeps
    <2>5. ScreenOk(Screen!render_window_title(st, r))
      BY <2>1, TitleKeeps
    <2> QED
      BY <1>2, <2>2, <2>3, <2>4, <2>5
  <1>3. ASSUME NEW r \in Rects, NEW k \in 0..2,
               st' \in {Screen!gfx_fill_round_rect(st, r, k), Screen!gfx_draw_round_rect(st, r, k),
                        Screen!gfx_draw_glow_spot(st, r.x, r.y, k)}
        PROVE  ScreenOk(st')
    <2>1. r \in ScreenRects /\ r.x \in Int /\ r.y \in Int /\ k \in Nat
      BY <1>1
    <2>2. ScreenOk(Screen!gfx_fill_round_rect(st, r, k)) /\ ScreenOk(Screen!gfx_draw_round_rect(st, r, k))
      BY <2>1, FillRoundKeeps, DrawRoundKeeps
    <2>3. ScreenOk(Screen!gfx_draw_glow_spot(st, r.x, r.y, k))
      BY <2>1, GlowKeeps
    <2> QED
      BY <1>3, <2>2, <2>3
  <1>4. CASE st' = Screen!gfx_swap(st)
    BY <1>4, SwapKeeps
  <1> QED
    BY <1>2, <1>3, <1>4 DEF Screen!Next

LEMMA ScreenOkShows == ScreenOk(st) => Screen!NothingLost
  <1> SUFFICES ASSUME ScreenOk(st) PROVE Screen!NothingLost
    OBVIOUS
  <1>1. st.dirty \in Seq(Visible) /\ Len(st.dirty) <= MAX_DIRTY_RECT /\ (st.stale => Covered(st, st.at))
    BY DEF ScreenOk
  <1>2. DOMAIN st.dirty = 1..Len(st.dirty) /\ \A i \in 1..Len(st.dirty) : st.dirty[i] \in Visible
    BY <1>1, LenProperties, ElementOfSeq
  <1> QED
    BY <1>1, <1>2 DEF Screen!NothingLost, Covered, Visible

LEMMA ScreenOkNext == ScreenOk(st)' <=> ScreenOk(st')
  BY DEF ScreenOk, Covered, Visible, ScreenRects, Screen!In

-----------------------------------------------------------------------------
(***************************************************************************)
(* The inductive invariant.  A poll that gave up ends it: the drive may    *)
(* then be in the middle of anything.                                      *)
(***************************************************************************)

Shaped(d) ==
    DOMAIN d = {"op", "lba", "count", "s", "buf", "pc", "res", "busy", "drq", "err", "doing",
                "at", "left", "cache", "media", "expired", "late"}

Typed(d) ==
    /\ d.op \in {"none", "read", "write"} /\ d.pc \in {"idle", "wait", "done", "flushed"}
    /\ d.lba \in Nat /\ d.count \in Nat /\ d.s \in Nat /\ d.buf \in Seq(Nat) /\ d.res \in Int
    /\ d.busy \in BOOLEAN /\ d.drq \in BOOLEAN /\ d.err \in BOOLEAN /\ d.late \in BOOLEAN
    /\ d.doing \in {"read", "write", "flush", "idle"} /\ d.at \in Nat /\ d.left \in Nat
    /\ d.cache \subseteq Nat \X BOOLEAN /\ d.media \subseteq Nat \X BOOLEAN

\* The sectors moved so far: the one written last counts before the loop does.
Moves(d) == IF d.pc \in {"done", "flushed"} THEN d.s + 1 ELSE d.s

\* Between two commands the drive is quiet; in a transfer it is where the driver
\* thinks it is, or has failed.
InStep(d) ==
    /\ d.busy => ~d.drq /\ ~d.err
    /\ d.drq => ~d.err
    /\ d.pc = "idle" => ~d.busy /\ ~d.drq
    /\ d.s <= d.count
    /\ d.pc # "idle" => d.op # "none" /\ d.s < d.count
    /\ d.pc \in {"done", "flushed"} => d.op = "write"
    /\ d.drq \/ (d.busy /\ d.pc # "flushed") =>
         d.doing = d.op /\ d.at = d.lba + Moves(d) /\ d.left = d.count - Moves(d)
    /\ d.drq => d.left > 0
    /\ d.busy /\ d.pc = "flushed" => d.doing = "flush"

\* What was read, and where what was written is.
Read(d) == d.op = "read" => Len(d.buf) = d.s /\ \A i \in 1..d.s : d.buf[i] = d.lba + i - 1
Wrote(d) ==
    d.op = "write" =>
    \A i \in 1..Moves(d) :
        /\ <<d.lba + i - 1, TRUE>> \in d.cache \cup d.media
        /\ <<d.lba + i - 1, FALSE>> \notin d.cache

\* Unless the drive failed late, the last flush leaves nothing in the cache.
Safe(d) ==
    /\ d.op = "write" /\ d.pc = "flushed" /\ d.s + 1 = d.count /\ ~d.busy /\ ~d.late => d.cache = {}
    /\ d.op # "none" /\ d.pc = "idle" /\ d.res = 0 =>
         d.s = d.count /\ (d.op = "write" /\ ~d.late => d.cache = {})
    /\ d.pc # "idle" => d.res = 0

Sound(d) == Typed(d) /\ InStep(d) /\ Read(d) /\ Wrote(d) /\ Safe(d)

Inv == Shaped(io) /\ (io.expired \/ Sound(io))

-----------------------------------------------------------------------------
(***************************************************************************)
(* The steps of the drive.                                                 *)
(***************************************************************************)

\* What all the steps but Start leave alone.
SameTransfer(t) ==
    /\ DOMAIN t = DOMAIN io /\ t.op = io.op /\ t.lba = io.lba /\ t.count = io.count
    /\ t.expired = io.expired

\* The driver's part of the state.
SameDriver(t) ==
    /\ SameTransfer(t) /\ t.s = io.s /\ t.buf = io.buf /\ t.pc = io.pc /\ t.res = io.res

LEMMA ReadyStep ==
    ASSUME Shaped(io), Sound(io), Ready
    PROVE  Shaped(io') /\ Sound(io') /\ io'.expired = io.expired
  <1> DEFINE t == io'
  <1>1. Typed(io) /\ InStep(io) /\ Read(io) /\ Wrote(io) /\ Safe(io)
    BY DEF Sound
  <1>2. /\ SameDriver(t) /\ t.busy = FALSE /\ t.late = io.late /\ t.err = io.err
        /\ t.at = io.at /\ t.left = io.left
    BY DEF Ready, Shaped, SameDriver, SameTransfer
  <1>3. CASE io.doing = "flush"
    <2>1. t.drq = io.drq /\ t.doing = "idle" /\ t.media = Stored(io) /\ t.cache = {}
      BY <1>3 DEF Ready, Shaped
    <2>2. io.busy /\ ~io.drq /\ io.pc = "flushed"
      BY <1>1, <1>3 DEF Ready, InStep, Typed
    <2>3. Stored(io) \subseteq Nat \X BOOLEAN
      BY <1>1 DEF Stored, Typed
    <2> HIDE DEF t
    <2>4. Typed(t)
      BY <1>1, <1>2, <2>1, <2>3 DEF Typed, SameDriver, SameTransfer
    <2>5. InStep(t)
      BY <1>1, <1>2, <2>1, <2>2 DEF InStep, SameDriver, SameTransfer
    <2>6. Read(t)
      BY <1>1, <1>2 DEF Read, SameDriver, SameTransfer
    <2>7. Wrote(t)
      <3> SUFFICES ASSUME t.op = "write", NEW i \in 1..Moves(t)
                   PROVE  <<t.lba + i - 1, TRUE>> \in t.media
        BY <2>1 DEF Wrote
      <3> DEFINE x == t.lba + i - 1
      <3>1. <<x, TRUE>> \in io.cache \cup io.media /\ <<x, FALSE>> \notin io.cache
        BY <1>1, <1>2 DEF Wrote, Moves, SameDriver, SameTransfer
      <3> HIDE DEF x
      <3>2. ASSUME <<x, TRUE>> \notin io.cache PROVE \A q \in io.cache : q[1] # x
        <4> SUFFICES ASSUME NEW q \in io.cache, q[1] = x PROVE FALSE
          OBVIOUS
        <4>1. q \in Nat \X BOOLEAN
          BY <1>1 DEF Typed
        <4>2. q = <<x, q[2]>> /\ q[2] \in BOOLEAN
          BY <3>2, <4>1
        <4>3. CASE q[2] = TRUE
          BY <3>2, <4>2, <4>3
        <4>4. CASE q[2] = FALSE
          BY <3>1, <4>2, <4>4
        <4> QED
          BY <4>2, <4>3, <4>4
      <3>3. <<x, TRUE>>[1] = x
        OBVIOUS
      <3>4. <<x, TRUE>> \in Stored(io)
        BY <3>1, <3>2, <3>3 DEF Stored
      <3> QED
        BY <2>1, <3>4 DEF x
    <2>8. Safe(t)
      BY <1>1, <1>2, <2>1, <2>2 DEF Safe, SameDriver, SameTransfer
    <2> QED
      BY <1>2, <2>4, <2>5, <2>6, <2>7, <2>8 DEF Shaped, Sound, SameDriver, SameTransfer, t
  <1>4. CASE io.doing # "flush"
    <2>1. /\ t.media = io.media /\ t.cache = io.cache
          /\ IF io.left = 0 THEN t.drq = io.drq /\ t.doing = "idle"
                            ELSE t.drq = TRUE /\ t.doing = io.doing
      BY <1>4 DEF Ready, Shaped
    <2>2. io.busy /\ ~io.drq /\ ~io.err /\ io.pc # "flushed" /\ io.pc # "idle"
      BY <1>1, <1>4 DEF Ready, InStep
    <2> HIDE DEF t
    <2>3. Typed(t)
      BY <1>1, <1>2, <2>1 DEF Typed, SameDriver, SameTransfer
    <2>4. InStep(t)
      BY <1>1, <1>2, <2>1, <2>2 DEF InStep, Moves, Typed, SameDriver, SameTransfer
    <2>5. Read(t)
      BY <1>1, <1>2 DEF Read, SameDriver, SameTransfer
    <2>6. Wrote(t)
      BY <1>1, <1>2, <2>1 DEF Wrote, Moves, SameDriver, SameTransfer
    <2>7. Safe(t)
      BY <1>1, <1>2, <2>1, <2>2 DEF Safe, SameDriver, SameTransfer
    <2> QED
      BY <1>2, <2>3, <2>4, <2>5, <2>6, <2>7 DEF Shaped, Sound, SameDriver, SameTransfer, t
  <1> QED
    BY <1>3, <1>4

LEMMA FailsStep ==
    ASSUME Shaped(io), Sound(io), Fails
    PROVE  Shaped(io') /\ Sound(io') /\ io'.expired = io.expired
  <1> DEFINE t == io'
  <1>1. Typed(io) /\ InStep(io) /\ Read(io) /\ Wrote(io) /\ Safe(io)
    BY DEF Sound
  <1>2. /\ SameDriver(t) /\ t.busy = FALSE /\ t.err = TRUE /\ t.doing = "idle" /\ t.left = 0
        /\ t.drq = io.drq /\ t.at = io.at /\ t.cache = io.cache /\ t.media = io.media
        /\ t.late = (io.op = "write" /\ io.pc \in {"done", "flushed"} /\ io.s = io.count - 1)
    BY DEF Fails, Shaped, SameDriver, SameTransfer
  <1>3. io.busy /\ ~io.drq /\ io.pc # "idle"
    BY <1>1 DEF Fails, InStep
  <1> HIDE DEF t
  <1>4. Typed(t)
    <2>1. t.late \in BOOLEAN
      BY <1>2
    <2>2. t.busy \in BOOLEAN /\ t.err \in BOOLEAN
      BY <1>2
    <2>3. t.left = 0 /\ t.left \in Nat
      <3>1. t.left = 0
        BY <1>2
      <3> QED
        BY <3>1
    <2> QED
      BY <1>1, <1>2, <2>1, <2>2, <2>3 DEF Typed, SameDriver, SameTransfer
  <1>5. InStep(t)
    BY <1>1, <1>2, <1>3 DEF InStep, SameDriver, SameTransfer
  <1>6. Read(t)
    BY <1>1, <1>2 DEF Read, SameDriver, SameTransfer
  <1>7. Wrote(t)
    BY <1>1, <1>2 DEF Wrote, Moves, SameDriver, SameTransfer
  <1>8. Safe(t)
    <2>1. io.s + 1 = io.count => io.s = io.count - 1
      BY <1>1 DEF Typed
    <2>2. io.op = "write" /\ io.pc = "flushed" /\ io.s = io.count - 1 => t.late
      BY <1>2
    <2> QED
      BY <1>1, <1>2, <1>3, <2>1, <2>2 DEF Safe, SameDriver, SameTransfer
  <1> QED
    BY <1>2, <1>4, <1>5, <1>6, <1>7, <1>8 DEF Shaped, Sound, SameDriver, SameTransfer, t

-----------------------------------------------------------------------------
(***************************************************************************)
(* The steps of the driver.                                                *)
(***************************************************************************)

\* A command is heeded: between two commands the drive is quiet.
LEMMA StartStep ==
    ASSUME Shaped(io), Sound(io), NEW op \in {"read", "write"}, NEW lba \in Lbas,
           NEW count \in 1..MAX_COUNT, Start(op, lba, count)
    PROVE  Shaped(io') /\ Sound(io') /\ io'.expired = io.expired
  <1> DEFINE t == io'
  <1>1. Typed(io) /\ InStep(io)
    BY DEF Sound
  <1>2. io.pc = "idle" /\ ~io.busy /\ ~io.drq
    BY <1>1 DEF Start, InStep
  <1>3. lba \in Nat /\ count \in Nat /\ count > 0
    BY AtaAssumption
  <1>4. /\ DOMAIN t = DOMAIN io /\ t.op = op /\ t.lba = lba /\ t.count = count /\ t.s = 0
        /\ t.buf = <<>> /\ t.pc = "wait" /\ t.res = 0 /\ t.busy = TRUE /\ t.drq = io.drq
        /\ t.err = FALSE /\ t.doing = op /\ t.at = lba /\ t.left = count
        /\ t.cache = Aged(io.cache) /\ t.media = Aged(io.media)
        /\ t.expired = io.expired /\ t.late = FALSE
    BY <1>2 DEF Start, Command, Ignores, Shaped
  <1>5. Aged(io.cache) \subseteq Nat \X BOOLEAN /\ Aged(io.media) \subseteq Nat \X BOOLEAN
    <2>1. ASSUME NEW A \in SUBSET (Nat \X BOOLEAN) PROVE Aged(A) \subseteq Nat \X BOOLEAN
      <3> SUFFICES ASSUME NEW p \in A PROVE <<p[1], FALSE>> \in Nat \X BOOLEAN
        BY DEF Aged
      <3>1. p \in Nat \X BOOLEAN
        OBVIOUS
      <3>2. p[1] \in Nat
        BY <3>1
      <3> QED
        BY <3>2
    <2> QED
      BY <1>1, <2>1 DEF Typed
  <1> HIDE DEF t
  <1>6. Typed(t)
    <2>1. t.buf \in Seq(Nat) /\ t.res \in Int /\ t.s \in Nat
      BY <1>4
    <2>2. t.busy \in BOOLEAN /\ t.drq \in BOOLEAN /\ t.err \in BOOLEAN /\ t.late \in BOOLEAN
      BY <1>1, <1>4 DEF Typed
    <2>3. t.op \in {"none", "read", "write"} /\ t.pc = "wait"
          /\ t.doing \in {"read", "write", "flush", "idle"}
      BY <1>4
    <2> QED
      BY <1>3, <1>4, <1>5, <2>1, <2>2, <2>3 DEF Typed
  <1>7. InStep(t)
    BY <1>2, <1>3, <1>4 DEF InStep, Moves
  <1>8. Read(t)
    BY <1>4 DEF Read
  <1>9. Wrote(t)
    BY <1>4 DEF Wrote, Moves
  <1>10. Safe(t)
    BY <1>4 DEF Safe
  <1> QED
    BY <1>4, <1>6, <1>7, <1>8, <1>9, <1>10 DEF Shaped, Sound, t

LEMMA RefusedStep ==
    ASSUME Shaped(io), Sound(io), Refused
    PROVE  Shaped(io') /\ Sound(io') /\ io'.expired = io.expired
  <1> DEFINE t == io'
  <1>1. Typed(io) /\ InStep(io) /\ Read(io) /\ Wrote(io) /\ Safe(io)
    BY DEF Sound
  <1>2. /\ SameTransfer(t) /\ t.s = io.s /\ t.buf = io.buf /\ t.pc = "idle" /\ t.res \in {-3, -4}
        /\ t.busy = io.busy /\ t.drq = io.drq /\ t.err = io.err /\ t.doing = io.doing
        /\ t.at = io.at /\ t.left = io.left /\ t.cache = io.cache /\ t.media = io.media
        /\ t.late = io.late
    <2>1. PICK r \in {-3, -4} : io' = [io EXCEPT !.pc = "idle", !.res = r]
      BY ONLY Refused DEF Refused, Return
    <2> QED
      BY ONLY <2>1, Shaped(io) DEF Shaped, SameTransfer, t
  <1>3. io.pc = "wait" /\ ~io.busy /\ ~io.drq
    BY <1>1 DEF Refused, InStep
  <1> HIDE DEF t
  <1>4. Typed(t)
    <2>1. t.res \in Int /\ t.res # 0
      BY <1>2
    <2> QED
      BY <1>1, <1>2, <2>1 DEF Typed, SameTransfer
  <1>5. InStep(t)
    BY <1>1, <1>2, <1>3 DEF InStep, SameTransfer
  <1>6. Read(t)
    BY <1>1, <1>2 DEF Read, SameTransfer
  <1>7. Wrote(t)
    BY <1>1, <1>2, <1>3 DEF Wrote, Moves, SameTransfer
  <1>8. Safe(t)
    <2>1. t.res # 0
      BY <1>2
    <2> QED
      BY <1>2, <2>1 DEF Safe
  <1> QED
    BY <1>2, <1>4, <1>5, <1>6, <1>7, <1>8 DEF Shaped, Sound, SameTransfer, t

\* The sector at hand is the one after those read before.
LEMMA ReadSectorStep ==
    ASSUME Shaped(io), Sound(io), ReadSector
    PROVE  Shaped(io') /\ Sound(io') /\ io'.expired = io.expired
  <1> DEFINE t == io'
  <1>1. Typed(io) /\ InStep(io) /\ Read(io) /\ Wrote(io) /\ Safe(io)
    BY DEF Sound
  <1>2. /\ io.pc = "wait" /\ io.op = "read" /\ ~io.busy /\ ~io.err /\ io.drq
        /\ io.doing = "read" /\ io.at = io.lba + io.s /\ io.left = io.count - io.s
        /\ io.s < io.count /\ io.res = 0 /\ Moves(io) = io.s
    BY <1>1 DEF ReadSector, InStep, Safe, Moves
  <1>3. /\ SameTransfer(t) /\ t.buf = Append(io.buf, io.at) /\ t.res = io.res
        /\ t.pc = (IF io.s + 1 = io.count THEN "idle" ELSE "wait")
        /\ t.drq = FALSE /\ t.err = io.err
        /\ t.doing = (IF io.left = 1 THEN "idle" ELSE io.doing)
        /\ t.cache = io.cache /\ t.media = io.media /\ t.late = io.late
    BY <1>2 DEF ReadSector, Moved, NextSector, Shaped, SameTransfer
  <1>4. t.s = io.s + 1 /\ t.at = io.at + 1 /\ t.left = io.left - 1
    BY <1>2 DEF ReadSector, Moved, NextSector, Shaped
  <1> HIDE DEF t
  <1>5. io.count \in Nat /\ io.s \in Nat /\ io.lba \in Nat /\ io.left \in Nat /\ io.at \in Nat
        /\ io.buf \in Seq(Nat) /\ Len(io.buf) = io.s
    BY <1>1, <1>2 DEF Typed, Read
  <1>6. /\ t.buf \in Seq(Nat) /\ Len(t.buf) = io.s + 1
        /\ \A i \in 1..io.s + 1 : t.buf[i] = IF i <= io.s THEN io.buf[i] ELSE io.at
    BY <1>3, <1>5, AppendProperties
  <1>7. IF io.s + 1 = io.count
        THEN t.pc = "idle" /\ t.busy = FALSE /\ t.doing = "idle"
        ELSE t.pc = "wait" /\ t.busy = TRUE /\ t.doing = "read" /\ t.s < io.count
    <2>1. t.busy = (IF io.left > 1 THEN TRUE ELSE FALSE)
      BY <1>2 DEF ReadSector, Moved, NextSector, Shaped, t
    <2>2. CASE io.s + 1 = io.count
      <3>1. io.left = 1 /\ ~(io.left > 1)
        BY <1>2, <1>5, <2>2
      <3>2. t.busy = FALSE
        BY <2>1, <3>1
      <3> QED
        BY <1>3, <2>2, <3>1, <3>2
    <2>3. CASE io.s + 1 # io.count
      <3>1. io.left # 1 /\ io.left > 1 /\ io.s + 1 < io.count
        BY <1>2, <1>5, <2>3
      <3>2. t.busy = TRUE
        BY <2>1, <3>1
      <3> QED
        BY <1>2, <1>3, <1>4, <2>3, <3>1, <3>2
    <2> QED
      BY <2>2, <2>3
  <1>8. Typed(t)
    <2>1. t.busy \in BOOLEAN /\ t.drq \in BOOLEAN
      BY <1>3, <1>7
    <2>2. t.s \in Nat /\ t.at \in Nat /\ t.left \in Nat
      <3>1. io.left = io.count - io.s /\ io.s < io.count
        BY ONLY <1>2
      <3>2. io.left - 1 \in Nat /\ io.s + 1 \in Nat /\ io.at + 1 \in Nat
        BY ONLY <3>1, <1>5
      <3> QED
        BY ONLY <1>4, <3>2
    <2>3. t.pc \in {"idle", "wait"} /\ t.doing \in {"idle", "read"}
      BY <1>7
    <2> QED
      BY <1>1, <1>3, <1>6, <2>1, <2>2, <2>3 DEF Typed, SameTransfer
  <1>9. InStep(t)
    <2>1. t.at = t.lba + t.s /\ t.left = t.count - t.s
      <3>1. t.lba = io.lba /\ t.count = io.count
        BY <1>3 DEF SameTransfer
      <3>2. io.at = io.lba + io.s /\ io.left = io.count - io.s
        BY <1>2
      <3> QED
        <4>1. io.lba \in Nat /\ io.s \in Nat /\ io.count \in Nat
          BY <1>5
        <4>2. t.lba = io.lba /\ t.s = io.s + 1
          BY <1>4, <3>1
        <4>3. t.at = (io.lba + io.s) + 1 /\ t.left = (io.count - io.s) - 1
          BY <1>4, <3>2
        <4> QED
          BY <3>1, <4>1, <4>2, <4>3
    <2>2. t.s <= t.count /\ t.op = io.op
      <3>1. t.count = io.count /\ t.op = io.op
        BY <1>3 DEF SameTransfer
      <3> QED
        BY <1>2, <1>4, <1>5, <3>1
    <2> QED
      BY <1>2, <1>3, <1>7, <2>1, <2>2 DEF InStep, Moves, SameTransfer
  <1>10. Read(t)
    <2>1. ASSUME NEW i \in 1..io.s + 1 PROVE t.buf[i] = io.lba + i - 1
      <3>1. CASE i <= io.s
        BY <1>1, <1>2, <1>5, <1>6, <3>1 DEF Read
      <3>2. CASE i = io.s + 1
        BY <1>2, <1>5, <1>6, <3>2, SMTT(30)
      <3> QED
        BY <1>5, <3>1, <3>2
    <2> QED
      BY <1>3, <1>4, <1>6, <2>1 DEF Read, SameTransfer
  <1>11. Wrote(t)
    BY <1>2, <1>3 DEF Wrote, SameTransfer
  <1>12. Safe(t)
    BY <1>2, <1>3, <1>4, <1>7 DEF Safe, SameTransfer
  <1> QED
    BY <1>3, <1>8, <1>9, <1>10, <1>11, <1>12 DEF Shaped, Sound, SameTransfer, t

\* The sector at hand replaces what the cache had of it, and none of those before.
LEMMA WriteSectorStep ==
    ASSUME Shaped(io), Sound(io), WriteSector
    PROVE  Shaped(io') /\ Sound(io') /\ io'.expired = io.expired
  <1> DEFINE t == io'
             x == io.at
  <1>1. Typed(io) /\ InStep(io) /\ Read(io) /\ Wrote(io) /\ Safe(io)
    BY DEF Sound
  <1>2. /\ io.pc = "wait" /\ io.op = "write" /\ ~io.busy /\ ~io.err /\ io.drq
        /\ io.doing = "write" /\ x = io.lba + io.s /\ io.left = io.count - io.s
        /\ io.left > 0 /\ io.s < io.count /\ io.res = 0 /\ Moves(io) = io.s
    BY <1>1 DEF WriteSector, InStep, Safe, Moves
  <1>3. /\ SameTransfer(t) /\ t.s = io.s /\ t.buf = io.buf /\ t.res = io.res /\ t.pc = "done"
        /\ t.drq = FALSE /\ t.busy = TRUE /\ t.err = io.err /\ t.doing = "write"
        /\ t.at = x + 1 /\ t.left = io.left - 1
        /\ t.cache = {p \in io.cache : p[1] # x} \cup {<<x, TRUE>>}
        /\ t.media = io.media /\ t.late = io.late
    BY <1>2 DEF WriteSector, Moved, Shaped, SameTransfer
  <1> HIDE DEF t, x
  <1>4. io.count \in Nat /\ io.s \in Nat /\ io.lba \in Nat /\ io.left \in Nat /\ x \in Nat
    BY <1>1 DEF Typed, x
  <1>5. Typed(t)
    <2>1. t.at \in Nat /\ t.left \in Nat
      BY <1>2, <1>3, <1>4
    <2>2. t.cache \subseteq Nat \X BOOLEAN
      <3>1. <<x, TRUE>> \in Nat \X BOOLEAN
        BY <1>4
      <3> QED
        BY <1>1, <1>3, <3>1 DEF Typed
    <2> QED
      BY <1>1, <1>3, <2>1, <2>2 DEF Typed, SameTransfer
  <1>6. InStep(t)
    <2>1. t.at = t.lba + (t.s + 1) /\ t.left = t.count - (t.s + 1)
      BY <1>2, <1>3, <1>4 DEF SameTransfer
    <2>2. t.s <= t.count /\ t.s < t.count
      BY <1>2, <1>3, <1>4 DEF SameTransfer
    <2> QED
      BY <1>2, <1>3, <2>1, <2>2 DEF InStep, Moves, SameTransfer
  <1>7. Read(t)
    BY <1>2, <1>3 DEF Read, SameTransfer
  <1>8. Wrote(t)
    <2>1. ASSUME NEW i \in 1..io.s + 1
          PROVE  /\ <<io.lba + i - 1, TRUE>> \in t.cache \cup t.media
                 /\ <<io.lba + i - 1, FALSE>> \notin t.cache
      <3> DEFINE y == io.lba + i - 1
      <3>1. <<y, TRUE>>[1] = y /\ <<y, FALSE>>[1] = y /\ <<y, FALSE>> # <<x, TRUE>>
        OBVIOUS
      <3>2. CASE i = io.s + 1
        <4>1. y = x
          BY <1>2, <1>4, <3>2
        <4> HIDE DEF y
        <4> QED
          BY <1>3, <3>1, <4>1 DEF y
      <3>3. CASE i \in 1..io.s
        <4>1. y # x
          BY <1>2, <1>4, <3>3
        <4>2. <<y, TRUE>> \in io.cache \cup io.media /\ <<y, FALSE>> \notin io.cache
          BY <1>1, <1>2, <3>3 DEF Wrote
        <4> HIDE DEF y
        <4> QED
          BY <1>3, <3>1, <4>1, <4>2 DEF y
      <3>4. i = io.s + 1 \/ i \in 1..io.s
        BY <1>4
      <3> QED
        BY <3>2, <3>3, <3>4
    <2>2. Moves(t) = io.s + 1 /\ t.lba = io.lba
      BY <1>3 DEF Moves, SameTransfer
    <2> QED
      BY <2>1, <2>2 DEF Wrote
  <1>9. Safe(t)
    BY <1>2, <1>3 DEF Safe
  <1> QED
    BY <1>3, <1>5, <1>6, <1>7, <1>8, <1>9 DEF Shaped, Sound, SameTransfer, t

\* After the last sector the drive wants no more data, so the flush is heeded.
LEMMA FlushStep ==
    ASSUME Shaped(io), Sound(io), Flush
    PROVE  Shaped(io') /\ Sound(io') /\ io'.expired = io.expired
  <1> DEFINE t == io'
  <1>1. Typed(io) /\ InStep(io) /\ Read(io) /\ Wrote(io) /\ Safe(io)
    BY DEF Sound
  <1>2. /\ io.pc = "done" /\ io.op = "write" /\ ~io.busy /\ io.s < io.count /\ io.res = 0
        /\ Moves(io) = io.s + 1
    BY <1>1 DEF Flush, InStep, Safe, Moves
  <1>3. /\ SameTransfer(t) /\ t.s = io.s /\ t.buf = io.buf /\ t.res = io.res /\ t.pc = "flushed"
        /\ t.drq = io.drq /\ t.at = io.at /\ t.left = io.left
        /\ t.cache = io.cache /\ t.media = io.media /\ t.late = io.late
    BY DEF Flush, FlushCommand, Shaped, SameTransfer
  <1>4. IF io.drq THEN t.busy = io.busy /\ t.err = io.err /\ t.doing = io.doing
                  ELSE t.busy = TRUE /\ t.err = FALSE /\ t.doing = "flush"
    BY <1>2 DEF Flush, FlushCommand, Ignores, Shaped
  <1> HIDE DEF t
  <1>5. Typed(t)
    BY <1>1, <1>3, <1>4 DEF Typed, SameTransfer
  <1>6. InStep(t)
    BY <1>1, <1>2, <1>3, <1>4 DEF InStep, Moves, SameTransfer
  <1>7. Read(t)
    BY <1>2, <1>3 DEF Read, SameTransfer
  <1>8. Wrote(t)
    BY <1>1, <1>2, <1>3 DEF Wrote, Moves, SameTransfer
  <1>9. Safe(t)
    <2>1. io.drq => io.s + 1 # io.count
      BY <1>1, <1>2 DEF InStep, Typed
    <2> QED
      BY <1>2, <1>3, <1>4, <2>1 DEF Safe, SameTransfer
  <1> QED
    BY <1>3, <1>5, <1>6, <1>7, <1>8, <1>9 DEF Shaped, Sound, SameTransfer, t

LEMMA FlushedStep ==
    ASSUME Shaped(io), Sound(io), Flushed
    PROVE  Shaped(io') /\ Sound(io') /\ io'.expired = io.expired
  <1> DEFINE t == io'
  <1>1. Typed(io) /\ InStep(io) /\ Read(io) /\ Wrote(io) /\ Safe(io)
    BY DEF Sound
  <1>2. /\ io.pc = "flushed" /\ io.op = "write" /\ ~io.busy /\ io.s < io.count /\ io.res = 0
        /\ Moves(io) = io.s + 1 /\ io.s \in Nat /\ io.count \in Nat
    BY <1>1 DEF Flushed, InStep, Safe, Moves, Typed
  <1>3. /\ SameTransfer(t) /\ t.s = io.s + 1 /\ t.buf = io.buf /\ t.res = io.res
        /\ t.pc = (IF io.s + 1 = io.count THEN "idle" ELSE "wait")
        /\ t.drq = io.drq /\ t.busy = io.busy /\ t.err = io.err /\ t.doing = io.doing
        /\ t.at = io.at /\ t.left = io.left
        /\ t.cache = io.cache /\ t.media = io.media /\ t.late = io.late
    BY DEF Flushed, NextSector, Shaped, SameTransfer
  <1> HIDE DEF t
  <1>4. Moves(t) = io.s + 1 /\ (t.pc # "idle" => t.s < io.count)
    BY <1>2, <1>3 DEF Moves
  <1>5. io.drq => io.s + 1 # io.count
    BY <1>1, <1>2 DEF InStep, Typed
  <1>6. Typed(t)
    BY <1>1, <1>2, <1>3 DEF Typed, SameTransfer
  <1>7. InStep(t)
    BY <1>1, <1>2, <1>3, <1>4, <1>5 DEF InStep, SameTransfer
  <1>8. Read(t)
    BY <1>2, <1>3 DEF Read, SameTransfer
  <1>9. Wrote(t)
    BY <1>1, <1>2, <1>3, <1>4 DEF Wrote, SameTransfer
  <1>10. Safe(t)
    BY <1>1, <1>2, <1>3 DEF Safe, SameTransfer
  <1> QED
    BY <1>3, <1>6, <1>7, <1>8, <1>9, <1>10 DEF Shaped, Sound, SameTransfer, t

-----------------------------------------------------------------------------
(***************************************************************************)
(* The invariant and what it says of a transfer.                           *)
(***************************************************************************)

LEMMA InitKeeps == AtaInit => Inv
  <1> SUFFICES ASSUME AtaInit PROVE Inv
    OBVIOUS
  <1>1. /\ Shaped(io) /\ io.op = "none" /\ io.lba = 0 /\ io.count = 0 /\ io.s = 0 /\ io.buf = <<>>
        /\ io.pc = "idle" /\ io.res = 0 /\ io.busy = FALSE /\ io.drq = FALSE /\ io.err = FALSE
        /\ io.doing = "idle" /\ io.at = 0 /\ io.left = 0 /\ io.cache = {} /\ io.media = {}
        /\ io.late = FALSE
    BY DEF AtaInit, Shaped
  <1>2. Typed(io)
    <2>1. io.buf \in Seq(Nat)
      BY <1>1
    <2>2. io.lba \in Nat /\ io.count \in Nat /\ io.s \in Nat /\ io.res \in Int /\ io.at \in Nat
          /\ io.left \in Nat
      BY <1>1
    <2>3. io.busy \in BOOLEAN /\ io.drq \in BOOLEAN /\ io.err \in BOOLEAN /\ io.late \in BOOLEAN
      BY <1>1
    <2>4. io.op = "none" /\ io.pc = "idle" /\ io.doing = "idle" /\ io.cache = {} /\ io.media = {}
      BY <1>1
    <2> QED
      BY <2>1, <2>2, <2>3, <2>4 DEF Typed
  <1>3. InStep(io) /\ Read(io) /\ Wrote(io) /\ Safe(io)
    BY <1>1 DEF InStep, Read, Wrote, Safe
  <1> QED
    BY <1>1, <1>2, <1>3 DEF Inv, Sound

\* A poll that gave up is never forgotten.
LEMMA ExpiredStays ==
    ASSUME Shaped(io), AtaNext
    PROVE  Shaped(io') /\ (io.expired => io'.expired)
  <1>1. CASE \E op \in {"read", "write"}, lba \in Lbas, count \in 1..MAX_COUNT :
               Start(op, lba, count)
    <2>1. PICK op, lba, count : Start(op, lba, count)
      BY ONLY <1>1
    <2>2. PICK d : d = Command(io, op, lba, count)
      OBVIOUS
    <2>3. Shaped(d) /\ d.expired = io.expired
      BY ONLY <2>2, Shaped(io) DEF Command, Shaped
    <2>4. io' = [d EXCEPT
                   !.op = op, !.lba = lba, !.count = count, !.s = 0, !.buf = <<>>,
                   !.pc = "wait", !.res = 0, !.late = FALSE,
                   !.cache = Aged(@), !.media = Aged(@)]
      BY ONLY <2>1, <2>2 DEF Start
    <2> QED
      BY ONLY <2>3, <2>4 DEF Shaped
  <1>2. CASE Expire
    BY <1>2 DEF Expire, Shaped
  <1>3. CASE Refused
    BY <1>3 DEF Refused, Return, Shaped
  <1>4. CASE ReadSector
    BY <1>4 DEF ReadSector, Moved, NextSector, Shaped
  <1>5. CASE WriteSector
    BY <1>5 DEF WriteSector, Moved, Shaped
  <1>6. CASE Flush
    BY <1>6 DEF Flush, FlushCommand, Ignores, Shaped
  <1>7. CASE Flushed
    BY <1>7 DEF Flushed, NextSector, Shaped
  <1>8. CASE Ready
    BY <1>8 DEF Ready, Shaped
  <1>9. CASE Fails
    BY <1>9 DEF Fails, Shaped
  <1> QED
    BY <1>1, <1>2, <1>3, <1>4, <1>5, <1>6, <1>7, <1>8, <1>9 DEF AtaNext

LEMMA StepKeeps == Inv /\ [AtaNext]_io => Inv'
  <1> SUFFICES ASSUME Inv, [AtaNext]_io PROVE Inv'
    OBVIOUS
  <1>1. CASE UNCHANGED io
    BY <1>1 DEF Inv
  <1>2. CASE AtaNext /\ io.expired
    BY <1>2, ExpiredStays DEF Inv
  <1>3. CASE AtaNext /\ ~io.expired
    <2>1. Shaped(io) /\ Sound(io)
      BY <1>3 DEF Inv
    <2>2. CASE Expire
      <3>1. io'.expired
        BY <2>1, <2>2 DEF Expire, Shaped
      <3> QED
        BY <1>3, <2>1, <3>1, ExpiredStays DEF Inv
    <2>3. CASE ~Expire
      <3>1. Shaped(io') /\ Sound(io')
        BY <1>3, <2>1, <2>3, StartStep, RefusedStep, ReadSectorStep, WriteSectorStep,
           FlushStep, FlushedStep, ReadyStep, FailsStep DEF AtaNext
      <3> QED
        BY <3>1 DEF Inv
    <2> QED
      BY <2>2, <2>3
  <1> QED
    BY <1>1, <1>2, <1>3

LEMMA TransferredFollows == Inv => Transferred
  <1> SUFFICES ASSUME Inv PROVE Transferred
    OBVIOUS
  <1>1. CASE io.expired
    BY <1>1 DEF Transferred
  <1>2. CASE ~io.expired
    <2>1. Typed(io) /\ InStep(io) /\ Read(io) /\ Wrote(io) /\ Safe(io)
      BY <1>2 DEF Inv, Sound
    <2>2. io.lba \in Nat /\ io.count \in Nat /\ io.s \in Nat /\ io.buf \in Seq(Nat)
      BY <2>1 DEF Typed
    <2>3. Asked \in Seq(Nat) /\ Len(Asked) = io.count /\ DOMAIN Asked = 1..io.count
          /\ \A i \in 1..io.count : Asked[i] = io.lba + i - 1
      <3>1. Asked \in [1..io.count -> Nat]
        BY <2>2 DEF Asked
      <3>2. Asked \in Seq(Nat)
        BY <2>2, <3>1
      <3> QED
        BY <2>2, <3>1, <3>2 DEF Asked
    <2>4. ASSUME io.op = "read" PROVE IsPrefix(io.buf, Asked)
      <3>1. Len(io.buf) = io.s /\ \A i \in 1..io.s : io.buf[i] = io.lba + i - 1
        BY <2>1, <2>4 DEF Read
      <3>2. io.s <= io.count
        BY <2>1 DEF InStep
      <3> DEFINE a == SubSeq(io.buf, 1, io.s)
                 b == SubSeq(Asked, 1, io.s)
      <3>3. /\ a \in Seq(Nat) /\ Len(a) = IF 1 <= io.s THEN io.s - 1 + 1 ELSE 0
            /\ \A i \in 1..io.s - 1 + 1 : a[i] = io.buf[1 + i - 1]
        <4>1. \A i \in 1..io.s : io.buf[i] \in Nat
          BY <2>2, <3>1
        <4> QED
          BY <2>2, <4>1, SubSeqProperties
      <3>4. /\ b \in Seq(Nat) /\ Len(b) = IF 1 <= io.s THEN io.s - 1 + 1 ELSE 0
            /\ \A i \in 1..io.s - 1 + 1 : b[i] = Asked[1 + i - 1]
        <4>1. \A i \in 1..io.s : Asked[i] \in Nat
          BY <2>2, <2>3, <3>2
        <4> QED
          BY <2>2, <4>1, SubSeqProperties
      <3> HIDE DEF a, b
      <3>5. Len(a) = Len(b) /\ \A i \in 1..Len(a) : a[i] = b[i]
        <4>1. Len(a) = io.s /\ Len(b) = io.s
          BY <2>2, <3>3, <3>4
        <4>2. ASSUME NEW i \in 1..io.s PROVE a[i] = b[i]
          <5>1. i \in 1..io.s - 1 + 1 /\ 1 + i - 1 = i /\ i \in 1..io.count
            BY <2>2, <3>2
          <5>2. a[i] = io.buf[i] /\ b[i] = Asked[i]
            BY <3>3, <3>4, <5>1
          <5> QED
            BY <2>3, <3>1, <5>1, <5>2
        <4> QED
          BY <4>1, <4>2
      <3>6. a = b
        BY <3>3, <3>4, <3>5, SeqEqual
      <3> QED
        BY <2>3, <3>1, <3>2, <3>6 DEF IsPrefix, a, b
    <2>5. ASSUME io.pc = "idle", io.op # "none", io.res = 0, ~io.late
          PROVE  IF io.op = "read" THEN io.buf = Asked ELSE OnMedia /\ io.cache = {}
      <3>1. io.s = io.count /\ (io.op = "write" => io.cache = {})
        BY <2>1, <2>5 DEF Safe
      <3>2. CASE io.op = "read"
        <4>1. Len(io.buf) = io.s /\ \A i \in 1..io.s : io.buf[i] = io.lba + i - 1
          BY <2>1, <3>2 DEF Read
        <4>2. Len(io.buf) = Len(Asked)
          BY <2>3, <3>1, <4>1
        <4>3. \A i \in 1..Len(io.buf) : io.buf[i] = Asked[i]
          BY <2>3, <3>1, <4>1
        <4>4. io.buf = Asked
          BY <2>2, <2>3, <4>2, <4>3, SeqEqual
        <4> QED
          BY <3>2, <4>4
      <3>3. CASE io.op = "write"
        <4>1. Moves(io) = io.count
          BY <2>5, <3>1 DEF Moves
        <4> QED
          BY <2>1, <3>1, <3>3, <4>1 DEF Wrote, OnMedia
      <3> QED
        BY <2>1, <2>5, <3>2, <3>3 DEF Typed
    <2>6. ASSUME io.op = "write"
          PROVE  {<<io.lba + i - 1, TRUE>> : i \in 1..io.s} \subseteq io.cache \cup io.media
      <3>1. \A i \in 1..io.s : i \in 1..Moves(io)
        BY <2>2 DEF Moves
      <3> QED
        BY <2>1, <2>6, <3>1 DEF Wrote
    <2> QED
      BY <2>4, <2>5, <2>6 DEF Transferred
  <1> QED
    BY <1>1, <1>2

\* The inductive invariant of the driver and its drive holds in every state.
THEOREM AtaInvariant == AtaSpec => []Inv
  <1> QED
    BY InitKeeps, StepKeeps, PTL DEF AtaSpec

\* ata_read_sectors and ata_write_sectors: a transfer that returns 0 moved every sector it
\* was asked for, a read in order into the buffer, a write onto the medium, unless the
\* drive failed on the last sector or its flush, or a poll gave up before.
THEOREM TransfersAreWhole == AtaSpec => []Transferred
  <1> QED
    BY AtaInvariant, TransferredFollows, PTL

-----------------------------------------------------------------------------
(* The clock and the double buffer together.                               *)

\* The inductive invariant of a device: the registers read so far are those the chip
\* showed at the start; the list covers what the frame buffer lacks.
DevicesInv ==
    /\ part = "rtc" => RtcInv
    /\ part = "screen" => ScreenOk(st)

LEMMA DevicesInit == InitDevice => DevicesInv
  BY RtcInitInv, ScreenInitOk DEF InitDevice, DevicesInv

LEMMA DevicesStep == DevicesInv /\ [NextDevice]_<<part, st>> => DevicesInv'
  <1> SUFFICES ASSUME DevicesInv, [NextDevice]_<<part, st>> PROVE DevicesInv'
    OBVIOUS
  <1>1. CASE part = "rtc" /\ Rtc!Next /\ part' = part
    BY <1>1, RtcNextKeeps DEF DevicesInv
  <1>2. CASE part = "screen" /\ Screen!Next /\ part' = part
    BY <1>2, ScreenNextKeeps, ScreenOkNext DEF DevicesInv
  <1>3. CASE UNCHANGED <<part, st>>
    BY <1>3, RtcRests, ScreenOkNext DEF DevicesInv
  <1> QED
    BY <1>1, <1>2, <1>3 DEF NextDevice

\* rtc_read and gfx_mark_dirty: the local time is the chip's moved by the time zone, over
\* the ends of days, months and years; and every pixel that the frame buffer lacks is in
\* a dirty rectangle, on any screen, for rectangles anywhere.
THEOREM DevicesAreRight == DeviceSpec => []DevicesRight
  <1>1. DevicesInv => DevicesRight
    BY ScreenOkShows DEF DevicesInv, RtcInv, DevicesRight
  <1> QED
    BY <1>1, DevicesInit, DevicesStep, PTL DEF DeviceSpec
=============================================================================
