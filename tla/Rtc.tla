--------------------------------- MODULE Rtc -------------------------------
(***************************************************************************)
(* rtc_read of cmos.c: the registers of the clock chip are read one after  *)
(* the other, without waiting for an update to end, decoded and moved to   *)
(* local time.  The chip ticks on its own, at most once in a reading.      *)
(***************************************************************************)
EXTENDS Integers, Sequences

CONSTANTS
    OFFSET,     \* RTC_TZ_OFFSET_HOURS
    Times       \* what the chip shows when it is read: year, month, day, hour,
                \* minute, second

VARIABLE st     \* binary and half (12 hours) of status B; chip; from: what the chip
                \* showed at the start; got: the registers read so far; ticked; t: the
                \* result

None == [year |-> 0, month |-> 0, day |-> 0, hour |-> 0, minute |-> 0, second |-> 0,
         weekday |-> 0]

rtc_is_leap(y) == (y % 4 = 0 /\ y % 100 # 0) \/ y % 400 = 0
rtc_month_days(y, m) ==
    IF m = 2 /\ rtc_is_leap(y) THEN 29 ELSE <<31, 28, 31, 30, 31, 30, 31, 31, 30, 31, 30, 31>>[m]

IsTime(c) ==
    /\ c \in [year: Nat, month: 1..12, day: 1..31, hour: 0..23, minute: 0..59, second: 0..59]
    /\ 100 <= c.year /\ c.year <= 9999
    /\ c.day <= rtc_month_days(c.year, c.month)

\* What the constants must satisfy: the chip shows the hours and days there are.
RtcAssumption == OFFSET \in -12..14 /\ \A c \in Times : IsTime(c)

\* Days since the first of January of year 1, a Monday.
DayNumber(c) ==
    LET y == c.year - 1
        days[m \in 1..12] == IF m = 1 THEN 0 ELSE days[m - 1] + rtc_month_days(c.year, m - 1)
    IN  365 * y + y \div 4 - y \div 100 + y \div 400 + days[c.month] + c.day - 1
Weekday(c) == ((DayNumber(c) + 1) % 7) + 1      \* 1 is Sunday

Tomorrow(c) ==
    IF c.day < rtc_month_days(c.year, c.month) THEN [c EXCEPT !.day = @ + 1]
    ELSE IF c.month = 12 THEN [c EXCEPT !.day = 1, !.month = 1, !.year = @ + 1]
    ELSE [c EXCEPT !.day = 1, !.month = @ + 1]

Yesterday(c) ==
    LET m == IF c.month = 1 THEN 12 ELSE c.month - 1
        y == IF c.month = 1 THEN c.year - 1 ELSE c.year
    IN  IF c.day > 1 THEN [c EXCEPT !.day = @ - 1]
        ELSE [c EXCEPT !.day = rtc_month_days(y, m), !.month = m, !.year = y]

\* The chip: seconds carry into minutes, and so on.
Ticked(c) ==
    IF c.second < 59 THEN [c EXCEPT !.second = @ + 1]
    ELSE IF c.minute < 59 THEN [c EXCEPT !.second = 0, !.minute = @ + 1]
    ELSE IF c.hour < 23 THEN [c EXCEPT !.second = 0, !.minute = 0, !.hour = @ + 1]
    ELSE [Tomorrow(c) EXCEPT !.second = 0, !.minute = 0, !.hour = 0]

\* A register holds a number in binary or in BCD; in 12-hour mode the hour runs from
\* 1 to 12, with bit 7 in the afternoon.
Bcd(v) == (v \div 10) * 16 + (v % 10)
Coded(v) == IF st.binary THEN v ELSE Bcd(v)
HourReg(h) ==
    IF ~st.half THEN Coded(h)
    ELSE Coded(IF h % 12 = 0 THEN 12 ELSE h % 12) + IF h >= 12 THEN 128 ELSE 0

Register(r) ==
    CASE r = "second" -> Coded(st.chip.second)
      [] r = "minute" -> Coded(st.chip.minute)
      [] r = "hour" -> HourReg(st.chip.hour)
      [] r = "day" -> Coded(st.chip.day)
      [] r = "month" -> Coded(st.chip.month)
      [] r = "year" -> Coded(st.chip.year % 100)
      [] r = "century" -> Coded(st.chip.year \div 100)
      [] r = "weekday" -> Coded(Weekday(st.chip))

Order == <<"second", "minute", "hour", "day", "month", "year", "century", "weekday">>
Value(r) == st.got[CHOOSE i \in DOMAIN Order : Order[i] = r]

bcd_to_bin(v) == ((v % 16) + (v \div 16) * 10) % 256
Decoded(r) == IF st.binary THEN Value(r) ELSE bcd_to_bin(Value(r))

\* The bit of the afternoon is looked for after the conversion from BCD.
Hour ==
    LET raw == Decoded("hour")
        h == raw % 128
    IN  IF raw >= 128 THEN (IF h < 12 THEN h + 12 ELSE h) ELSE (IF h = 12 THEN 0 ELSE h)

Read ==
    [year |-> IF Value("century") # 0 THEN Decoded("century") * 100 + Decoded("year")
              ELSE 2000 + Decoded("year"),
     month |-> Decoded("month"), day |-> Decoded("day"), hour |-> Hour,
     minute |-> Decoded("minute"), second |-> Decoded("second"),
     weekday |-> Decoded("weekday")]

Shifted(c, days) ==
    LET w == c.weekday - 1 + days
    IN  [c EXCEPT !.weekday = IF c.weekday \in 1..7 THEN (w % 7) + 1 ELSE @]

\* rtc_to_local.
Local_Bug(c) ==
    LET h == c.hour + OFFSET
    IN  IF h >= 24 THEN Shifted([c EXCEPT !.hour = h - 24, !.day = @ + 1], 1)
        ELSE [c EXCEPT !.hour = h]
Local(c) ==
    LET h == c.hour + OFFSET
    IN  IF h >= 24 THEN Shifted(Tomorrow([c EXCEPT !.hour = h - 24]), 1)
        ELSE IF h < 0 THEN Shifted(Yesterday([c EXCEPT !.hour = h + 24]), -1)
        ELSE [c EXCEPT !.hour = h]

Init == \E c \in Times, binary, half \in BOOLEAN :
    st = [binary |-> binary, half |-> half, chip |-> c, from |-> c, got |-> <<>>,
          ticked |-> FALSE, t |-> None]

cmos_read ==
    /\ Len(st.got) < Len(Order)
    /\ st' = [st EXCEPT !.got = Append(@, Register(Order[Len(@) + 1]))]

rtc_read == Len(st.got) = Len(Order) /\ st.t = None /\ st' = [st EXCEPT !.t = Local(Read)]

\* The chip ticks while it is read; at most once, a reading takes microseconds.
Tick ==
    /\ ~st.ticked /\ Len(st.got) \in 1..Len(Order) - 1
    /\ st' = [st EXCEPT !.chip = Ticked(@), !.ticked = TRUE]

\* The next reading, at any later time.
Again ==
    /\ st.t # None
    /\ \E c \in Times : st' = [st EXCEPT !.chip = c, !.from = c, !.got = <<>>,
                                        !.ticked = FALSE, !.t = None]

Next == cmos_read \/ rtc_read \/ Tick \/ Again

Seconds(c) == c.hour * 3600 + c.minute * 60 + c.second

\* A reading that a carry of the seconds did not cut in two.
Whole == st.t # None /\ ~(st.ticked /\ st.from.second = 59)

IsLocal ==
    LET ahead == (DayNumber(st.t) - DayNumber(st.from)) * 86400
                 + Seconds(st.t) - Seconds(st.from) - OFFSET * 3600
    IN  /\ ahead \in 0..(IF st.ticked THEN 1 ELSE 0)
        /\ st.t.day \in 1..rtc_month_days(st.t.year, st.t.month)
        /\ st.t.weekday = Weekday(st.t)

\* Where the hour is decoded rightly, the local time is the chip's plus the offset, over
\* every end of a day, a month, a year and a century, in leap years too, with its day of
\* the week; and a tick in the middle of a reading is off by no more than that second
\* unless it carries into the minutes.  Two hours are not: rtc_read takes 12:00 to 12:59 on a
\* chip in 24-hour mode for the first hour of the day, and loses the afternoon of one
\* in 12-hour mode and BCD.
LocalTime ==
    Whole /\ (IF st.half THEN st.binary ELSE st.from.hour # 12) => IsLocal
=============================================================================
