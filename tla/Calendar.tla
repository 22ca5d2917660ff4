------------------------------ MODULE Calendar ------------------------------
(***************************************************************************)
(* localtime_r of src/runtime/libc_absent.c: a count of seconds broken     *)
(* down by the days-to-civil method, before the epoch as well as after it. *)
(***************************************************************************)
EXTENDS Integers, Sequences

CONSTANTS
  Minute, Hour, Day,  \* 60, 3600 and 86400 in the code, seconds
  Clocks,             \* times asked about, seconds since 1970-01-01
  Offsets             \* answers of oops_time_utc_offset that are not refusals

ASSUME CalendarAssumption ==
  /\ Minute \in Nat \ {0} /\ Hour \in Nat \ {0} /\ Day \in Nat \ {0}
  /\ Hour % Minute = 0
  /\ Clocks \subseteq Int /\ Offsets \subseteq Int

VARIABLES
  asked,  \* the time of the last call, and the offset the platform gave
  tm      \* its result

calendarVars == <<asked, tm>>

----------------------------------------------------------------------------
\* C's division and remainder, which round towards zero.
Quot(a, b) == IF a >= 0 THEN a \div b ELSE -((-a) \div b)
Rem(a, b)  == a - b * Quot(a, b)

\* Whole days, and the seconds left, of a time on or before the epoch or after it.
DaysOf(secs) == Quot(secs, Day) - (IF Rem(secs, Day) < 0 THEN 1 ELSE 0)
RemOf(secs)  == Rem(secs, Day) + (IF Rem(secs, Day) < 0 THEN Day ELSE 0)

Weekday(days) == Rem(Rem(days, 7) + 11, 7)

\* Mutant: the era before year 0 is rounded towards it.
EraTowardsZero(days) == Quot(days, 146097)

\* The 400 years a day is in, counted from 0000-03-01.
Era(days) == Quot(IF days >= 0 THEN days ELSE days - 146096, 146097)

Leap(y) == (Rem(y, 4) = 0 /\ Rem(y, 100) # 0) \/ Rem(y, 400) = 0

Before == <<0, 31, 59, 90, 120, 151, 181, 212, 243, 273, 304, 334>>

\* Year, month, day and day of the year.  The day of the year runs from March.
\* tm_year is an int, so the clock is one whose year, less 1900, an int holds.
Civil(days) ==
  LET era == Era(days)
      doe == days - era * 146097
      yoe == (doe - doe \div 1460 + doe \div 36524 - doe \div 146096) \div 365
      doy == doe - (365 * yoe + yoe \div 4 - yoe \div 100)
      mp  == (5 * doy + 2) \div 153
      y   == yoe + era * 400 + (IF mp >= 10 THEN 1 ELSE 0)
      day == doy - (153 * mp + 2) \div 5 + 1
      mon == IF mp < 10 THEN mp + 2 ELSE mp - 10
  IN  [year |-> y - 1900, mon |-> mon, mday |-> day,
       yday |-> Before[mon + 1] + day - 1 + (IF Leap(y) /\ mon > 1 THEN 1 ELSE 0)]

BrokenDown(secs, offset) ==
  LET date == Civil(DaysOf(secs) + 719468)
  IN  [hour |-> RemOf(secs) \div Hour, min |-> (RemOf(secs) % Hour) \div Minute,
       sec |-> RemOf(secs) % Minute, wday |-> Weekday(DaysOf(secs)),
       year |-> date.year, mon |-> date.mon, mday |-> date.mday, yday |-> date.yday,
       gmtoff |-> offset]

\* The platform gives an offset, or refuses and the result is UTC.
LocaltimeR(clock, offset) ==
  /\ asked' = [clock |-> clock, offset |-> offset]
  /\ tm' = BrokenDown(clock + offset, offset)

CalendarInit ==
  /\ asked = [clock |-> 0, offset |-> 0]
  /\ tm = BrokenDown(0, 0)

CalendarNext == \E clock \in Clocks, offset \in Offsets \cup {0} : LocaltimeR(clock, offset)

CalendarSpec == CalendarInit /\ [][CalendarNext]_calendarVars

----------------------------------------------------------------------------
\* The Gregorian calendar counted another way: the days before a year from its leap
\* years, with a division that rounds down.

LeapsUpTo(y) == y \div 4 - y \div 100 + y \div 400

IsLeap(y) == y % 4 = 0 /\ (y % 100 # 0 \/ y % 400 = 0)

DaysBeforeYear(y) == 365 * (y - 1970) + LeapsUpTo(y - 1) - LeapsUpTo(1969)

MonthLength(y, mon) ==
  CASE mon = 1             -> IF IsLeap(y) THEN 29 ELSE 28
    [] mon \in {3, 5, 8, 10} -> 30
    [] OTHER               -> 31

\* The days of a month of year y that are before month mon.
Past(y, mon, m) == IF m < mon THEN MonthLength(y, m) ELSE 0

DaysBeforeMonth(y, mon) ==
  Past(y, mon, 0) + Past(y, mon, 1) + Past(y, mon, 2) + Past(y, mon, 3) + Past(y, mon, 4)
    + Past(y, mon, 5) + Past(y, mon, 6) + Past(y, mon, 7) + Past(y, mon, 8) + Past(y, mon, 9)
    + Past(y, mon, 10)

\* Properties.

\* The fields localtime_r gives are a date that exists, and that date, time of day, day
\* of the year and day of the week are those of the instant asked about in the zone the
\* platform gave, in every century and before the epoch.
FieldsAreCivil ==
  LET y == tm.year + 1900
      t == asked.clock + asked.offset
  IN  /\ tm.mon \in 0 .. 11 /\ tm.mday \in 1 .. MonthLength(y, tm.mon)
      /\ tm.sec \in 0 .. Minute - 1 /\ tm.min * Minute + tm.sec \in 0 .. Hour - 1
      /\ tm.hour * Hour + tm.min * Minute + tm.sec = t % Day
      /\ DaysBeforeYear(y) + tm.yday = t \div Day
      /\ tm.wday = (t \div Day + 4) % 7
      /\ tm.yday = tm.mday - 1 + DaysBeforeMonth(y, tm.mon)

============================================================================
