------------------------------ MODULE Calendar ------------------------------
(***************************************************************************)
(* Dates of src/main/lib/RTC_lib/src/RTClib.cpp: class DateTime and class  *)
(* TimeSpan, as functions of their fields.  A uint32_t of seconds is a     *)
(* pair [day, sec] with 0 <= sec < 86400; it wraps at 2^32 seconds, which  *)
(* is 49710 days and 23296 seconds.                                        *)
(***************************************************************************)
EXTENDS Integers, Sequences

SecondsPerDay == 86400

\* SECONDS_FROM_1970_TO_2000 is a whole number of days.
Days1970To2000 == 10957

-----------------------------------------------------------------------------
(* 32-bit seconds *)

\* day days and sec seconds, of any sign, as a pair.
Seconds(day, sec) ==
  [day |-> day + sec \div SecondsPerDay, sec |-> sec % SecondsPerDay]

Before(s, t) == s.day < t.day \/ (s.day = t.day /\ s.sec < t.sec)

Word == [day |-> 49710, sec |-> 23296]

\* Reduction to uint32_t of a value less than one word out of it.
Wrap(s) ==
  IF s.day < 0 THEN Seconds(s.day + Word.day, s.sec + Word.sec)
  ELSE IF ~Before(s, Word) THEN Seconds(s.day - Word.day, s.sec - Word.sec)
  ELSE s

Plus(s, t)  == Wrap(Seconds(s.day + t.day, s.sec + t.sec))
Minus(s, t) == Wrap(Seconds(s.day - t.day, s.sec - t.sec))

-----------------------------------------------------------------------------
(* Days and dates; a year is its offset from 2000, as yOff is *)

daysInMonth == <<31, 28, 31, 30, 31, 30, 31, 31, 30, 31, 30>>

IsLeap(y) == y % 4 = 0

\* The days of a common year before month i.
DaysBefore[i \in 1..12] ==
  IF i = 1 THEN 0 ELSE DaysBefore[i - 1] + daysInMonth[i - 1]

\* Mutant: the 29th of February of a leap year is forgotten.
NoLeapDay(y, m, d) ==
  (d + DaysBefore[m] + 365 * y + (y + 3) \div 4 - 1) % 65536

\* Days since 2000/01/01.
date2days(y, m, d) ==
  (d + DaysBefore[m] + (IF m > 2 /\ IsLeap(y) THEN 1 ELSE 0)
     + 365 * y + (y + 3) \div 4 - 1) % 65536

YearLength(y) == IF IsLeap(y) THEN 366 ELSE 365

\* The loop over the years, by its variables: it ends in the year a day falls
\* in, with the day's number in it, counted from 0.
YearLoop == [yOff : Nat, days : Nat]

YearOf[at \in YearLoop] ==
  IF at.days < YearLength(at.yOff) THEN at
  ELSE YearOf[[yOff |-> at.yOff + 1, days |-> at.days - YearLength(at.yOff)]]

\* Mutant: February has 28 days in the loop over the months.
ShortFebruary(m, leap) == daysInMonth[m]

DaysPerMonth(m, leap) == daysInMonth[m] + IF leap /\ m = 2 THEN 1 ELSE 0

\* The loop over the months: December takes what is left.
MonthLoop == [m : 1..12, days : Nat, leap : BOOLEAN]

MonthOf[at \in MonthLoop] ==
  IF at.m = 12 \/ at.days < DaysPerMonth(at.m, at.leap)
  THEN [m |-> at.m, d |-> at.days + 1]
  ELSE MonthOf[[m |-> at.m + 1, leap |-> at.leap,
                days |-> at.days - DaysPerMonth(at.m, at.leap)]]

Date(y, m, d, hh, mm, ss) ==
  [yOff |-> (IF y >= 2000 THEN y - 2000 ELSE y) % 256,
   m |-> m, d |-> d, hh |-> hh, mm |-> mm, ss |-> ss]

\* DateTime(uint32_t t).
DateTime(t) ==
  LET since2000 == Minus(t, [day |-> Days1970To2000, sec |-> 0])
      year  == YearOf[[yOff |-> 0, days |-> since2000.day]]
      month == MonthOf[[m |-> 1, days |-> year.days, leap |-> IsLeap(year.yOff)]]
      s     == since2000.sec
  IN  Date(year.yOff, month.m, month.d, s \div 3600, (s \div 60) % 60, s % 60)

\* secondstime(), by time2ulong.
secondstime(date) ==
  [day |-> date2days(date.yOff, date.m, date.d),
   sec |-> (date.hh * 60 + date.mm) * 60 + date.ss]

unixtime(date) ==
  Plus(secondstime(date), [day |-> Days1970To2000, sec |-> 0])

dayOfTheWeek(date) == (date2days(date.yOff, date.m, date.d) + 6) % 7

\* A date whose fields its own unixtime gives back.
isValid(date) == date.yOff < 100 /\ DateTime(unixtime(date)) = date

twelveHour(date) ==
  IF date.hh % 12 = 0 THEN 12 ELSE date.hh % 12

isPM(date) == date.hh >= 12

-----------------------------------------------------------------------------
(* Comparison and TimeSpan, whose _seconds is a pair too *)

Fields(date) ==
  <<date.yOff, date.m, date.d, date.hh, date.mm, date.ss>>

\* operator<: the first field that differs decides.
Earlier(date, right) ==
  \E i \in 1..6 :
    /\ Fields(date)[i] < Fields(right)[i]
    /\ \A j \in 1..(i - 1) : Fields(date)[j] = Fields(right)[j]

TimeSpan(days, hours, minutes, secs) ==
  Seconds(days, hours * 3600 + minutes * 60 + secs)

SpanHours(span)   == span.sec \div 3600
SpanMinutes(span) == (span.sec \div 60) % 60

PlusSpan(date, span)  == DateTime(Plus(unixtime(date), span))
MinusSpan(date, span) == DateTime(Minus(unixtime(date), span))
Difference(date, right) == Minus(unixtime(date), unixtime(right))

=============================================================================
