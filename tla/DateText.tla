------------------------------ MODULE DateText ------------------------------
(***************************************************************************)
(* Dates as text, in src/main/lib/RTC_lib/src/RTClib.cpp: DateTime's       *)
(* toString and timestamp, and the constructors that read a text.          *)
(* A text is a sequence of pieces, each a sequence of characters: what one *)
(* specifier of a format becomes, or what stands between two of them.      *)
(***************************************************************************)
EXTENDS Calendar

digits == <<"0", "1", "2", "3", "4", "5", "6", "7", "8", "9">>
Digit(n) == digits[(n % 10) + 1]
TwoDigits(n) == <<Digit(n \div 10), Digit(n)>>

Value(c) == CHOOSE n \in 0..9 : Digit(n) = c

\* A blank before a digit counts as 0, as in the __DATE__ of the compiler.
conv2d(p) ==
  10 * (IF \E n \in 0..9 : Digit(n) = p[1] THEN Value(p[1]) ELSE 0) + Value(p[2])

day_names ==
  <<<<"S","u","n">>, <<"M","o","n">>, <<"T","u","e">>, <<"W","e","d">>,
    <<"T","h","u">>, <<"F","r","i">>, <<"S","a","t">>>>

month_names ==
  <<<<"J","a","n">>, <<"F","e","b">>, <<"M","a","r">>, <<"A","p","r">>,
    <<"M","a","y">>, <<"J","u","n">>, <<"J","u","l">>, <<"A","u","g">>,
    <<"S","e","p">>, <<"O","c","t">>, <<"N","o","v">>, <<"D","e","c">>>>

\* What a specifier becomes; everything else stays.
Specified(s, date, apTag) ==
  CASE s = "hh"   -> TwoDigits(IF apTag THEN twelveHour(date) ELSE date.hh)
    [] s = "mm"   -> TwoDigits(date.mm)
    [] s = "ss"   -> TwoDigits(date.ss)
    [] s = "DDD"  -> day_names[dayOfTheWeek(date) + 1]
    [] s = "DD"   -> TwoDigits(date.d)
    [] s = "MMM"  -> month_names[date.m]
    [] s = "MM"   -> TwoDigits(date.m)
    [] s = "YYYY" -> <<"2", "0">> \o TwoDigits(date.yOff)
    [] s = "YY"   -> TwoDigits(date.yOff)
    [] s = "AP"   -> <<IF isPM(date) THEN "P" ELSE "A", "M">>
    [] s = "ap"   -> <<IF isPM(date) THEN "p" ELSE "a", "m">>
    [] OTHER      -> <<s>>

\* "AP" or "ap" anywhere in the format makes "hh" the hour of twelve.
toString(format, date) ==
  LET apTag == \E i \in DOMAIN format : format[i] \in {"AP", "ap"}
  IN  [i \in DOMAIN format |-> Specified(format[i], date, apTag)]

TIMESTAMP_DATE == <<"YYYY", "-", "MM", "-", "DD">>
TIMESTAMP_TIME == <<"hh", ":", "mm", ":", "ss">>
TIMESTAMP_FULL == TIMESTAMP_DATE \o <<"T">> \o TIMESTAMP_TIME

\* As toString, but for the year, which goes on after 2099.
timestamp(opt, date) ==
  LET Year == <<"2", Digit(date.yOff \div 100)>> \o TwoDigits(date.yOff)
  IN  [i \in DOMAIN opt |->
         IF opt[i] = "YYYY" THEN Year ELSE Specified(opt[i], date, FALSE)]

\* The date of an ISO 8601 text.  One that ends early has the fields it lacks
\* from the first second of 2000.
IsoDate(text) ==
  LET ref == timestamp(TIMESTAMP_FULL, Date(2000, 1, 1, 0, 0, 0))
      At(i) == conv2d(IF i \in DOMAIN text THEN text[i] ELSE ref[i])
      year == IF 1 \in DOMAIN text THEN text[1] ELSE ref[1]
  IN  Date(conv2d(Tail(Tail(year))), At(3), At(5), At(7), At(9), At(11))

\* The letters the constructors look at.
MonthOfName(name) ==
  CASE name[1] = "J" -> IF name[2] = "a" THEN 1 ELSE IF name[3] = "n" THEN 6 ELSE 7
    [] name[1] = "F" -> 2
    [] name[1] = "A" -> IF name[3] = "r" THEN 4 ELSE 8
    [] name[1] = "M" -> IF name[3] = "r" THEN 3 ELSE 5
    [] name[1] = "S" -> 9
    [] name[1] = "O" -> 10
    [] name[1] = "N" -> 11
    [] name[1] = "D" -> 12

\* The two constructors for the __DATE__ and the __TIME__ of the compiler, a date
\* like "Apr 16 2020" and a time like "18:34:56".
BUILD_DATE == <<"MMM", " ", "DD", " ", "YYYY">>
BuildDate(date, time) ==
  Date(conv2d(Tail(Tail(date[5]))), MonthOfName(date[1]), conv2d(date[3]),
       conv2d(time[1]), conv2d(time[3]), conv2d(time[5]))

=============================================================================
