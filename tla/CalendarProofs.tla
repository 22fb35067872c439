--------------------------- MODULE CalendarProofs ---------------------------
(***************************************************************************)
(* Theorems about the dates of RTClib.cpp and the registers of the DS3231. *)
(* The loops over the years and the months are recursive functions; what   *)
(* they compute is proved by looking at the least number of days for which *)
(* they would compute something else.                                      *)
(***************************************************************************)
EXTENDS DS3231, DateText, WellFoundedInduction, SequenceTheorems, TLAPS

\* Every set of numbers with a member has a least one.
LEMMA LeastNumber ==
  ASSUME NEW T \in SUBSET Nat, T # {}
  PROVE  \E x \in T : \A y \in T : x <= y
<1> DEFINE Less == {ss \in Nat \X Nat : ss[1] < ss[2]}
<1>1. OpToRel(<, Nat) = Less
  BY DEF OpToRel
<1>2. PICK x \in T : \A y \in T : ~(<<y, x>> \in Less)
  BY <1>1, WFMin, NatLessThanWellFounded
<1>3. ASSUME NEW y \in T PROVE x <= y
  <2>1. <<y, x>> \in Nat \X Nat /\ <<y, x>>[1] = y /\ <<y, x>>[2] = x
    OBVIOUS
  <2>2. y < x => <<y, x>> \in Less
    BY <2>1
  <2> QED
    BY <1>2, <2>2
<1> QED
  BY <1>3

-----------------------------------------------------------------------------
(* Months *)

MonthStarts == <<0, 31, 59, 90, 120, 151, 181, 212, 243, 273, 304, 334>>

LEMMA MonthStartsSum ==
  MonthStarts = [i \in 1..12 |->
                   IF i = 1 THEN 0 ELSE MonthStarts[i - 1] + daysInMonth[i - 1]]
<1> DEFINE sums == [i \in 1..12 |->
                      IF i = 1 THEN 0 ELSE MonthStarts[i - 1] + daysInMonth[i - 1]]
<1>1. ASSUME NEW i \in 1..12 PROVE sums[i] = MonthStarts[i]
  <2>1. i \in {1, 2, 3, 4, 5, 6, 7, 8, 9, 10, 11, 12}
    OBVIOUS
  <2>2. sums[i] = IF i = 1 THEN 0 ELSE MonthStarts[i - 1] + daysInMonth[i - 1]
    OBVIOUS
  <2> HIDE DEF sums
  <2> QED
    BY <2>1, <2>2 DEF MonthStarts, daysInMonth
<1>2. MonthStarts = [i \in 1..12 |-> MonthStarts[i]]
  BY DEF MonthStarts
<1> QED
  BY <1>1, <1>2

\* The days of a common year before month i.
LEMMA DaysBeforeMonth == DaysBefore = MonthStarts
<1>1. \E f : f = [i \in 1..12 |-> IF i = 1 THEN 0 ELSE f[i - 1] + daysInMonth[i - 1]]
  BY MonthStartsSum
<1>2. DaysBefore = [i \in 1..12 |->
                      IF i = 1 THEN 0 ELSE DaysBefore[i - 1] + daysInMonth[i - 1]]
  BY <1>1, Zenon DEF DaysBefore
<1>3. DaysBefore[1] = 0
  BY <1>2
<1>4. \A i \in 2..12 : DaysBefore[i] = DaysBefore[i - 1] + daysInMonth[i - 1]
  BY <1>2
<1>5. /\ DaysBefore[2] = 31 /\ DaysBefore[3] = 59 /\ DaysBefore[4] = 90
      /\ DaysBefore[5] = 120 /\ DaysBefore[6] = 151 /\ DaysBefore[7] = 181
      /\ DaysBefore[8] = 212 /\ DaysBefore[9] = 243 /\ DaysBefore[10] = 273
      /\ DaysBefore[11] = 304 /\ DaysBefore[12] = 334
  BY <1>3, <1>4 DEF daysInMonth
<1>6. ASSUME NEW i \in 1..12 PROVE DaysBefore[i] = MonthStarts[i]
  <2>1. i \in {1, 2, 3, 4, 5, 6, 7, 8, 9, 10, 11, 12}
    OBVIOUS
  <2> QED
    BY <1>3, <1>5, <2>1 DEF MonthStarts
<1>7. DaysBefore = [i \in 1..12 |-> DaysBefore[i]]
  BY <1>2
<1>8. MonthStarts = [i \in 1..12 |-> MonthStarts[i]]
  BY DEF MonthStarts
<1> QED
  BY <1>6, <1>7, <1>8


\* The days of a year before month m, the days of month m, and the month a day
\* of the year falls in.
StartOfMonth(m, leap) == MonthStarts[m] + (IF leap /\ m > 2 THEN 1 ELSE 0)
DaysOf(m, leap) == IF m = 12 THEN 31 ELSE DaysPerMonth(m, leap)

InMonth(t, m, leap) ==
  /\ StartOfMonth(m, leap) <= t
  /\ m = 12 \/ t < StartOfMonth(m, leap) + DaysPerMonth(m, leap)

MonthAt(t, leap) == CHOOSE m \in 1..12 : InMonth(t, m, leap)

LEMMA MonthLengths ==
  ASSUME NEW leap \in BOOLEAN
  PROVE  /\ StartOfMonth(1, leap) = 0
         /\ \A m \in 1..12 : StartOfMonth(m, leap) \in Nat
         /\ \A m \in 1..12 : DaysOf(m, leap) \in 28..31
         /\ \A m \in 1..11 :
              /\ DaysOf(m, leap) = DaysPerMonth(m, leap)
              /\ StartOfMonth(m + 1, leap) = StartOfMonth(m, leap) + DaysOf(m, leap)
         /\ StartOfMonth(12, leap) + DaysOf(12, leap) = IF leap THEN 366 ELSE 365
<1>1. ASSUME NEW m \in 1..11
      PROVE  /\ StartOfMonth(m, leap) \in Nat /\ DaysOf(m, leap) \in 28..31
             /\ DaysOf(m, leap) = DaysPerMonth(m, leap)
             /\ StartOfMonth(m + 1, leap) = StartOfMonth(m, leap) + DaysOf(m, leap)
  <2>1. m \in {1, 2, 3, 4, 5, 6, 7, 8, 9, 10, 11}
    OBVIOUS
  <2> QED
    BY <2>1 DEF StartOfMonth, DaysOf, DaysPerMonth, MonthStarts, daysInMonth
<1>2. /\ StartOfMonth(1, leap) = 0
      /\ StartOfMonth(12, leap) \in Nat /\ DaysOf(12, leap) \in 28..31
      /\ StartOfMonth(12, leap) + DaysOf(12, leap) = IF leap THEN 366 ELSE 365
  BY DEF StartOfMonth, DaysOf, MonthStarts
<1>3. \A m \in 1..12 : m \in 1..11 \/ m = 12
  OBVIOUS
<1> QED
  BY <1>1, <1>2, <1>3

\* An earlier month ends before a later one begins.
LEMMA MonthsInOrder ==
  ASSUME NEW leap \in BOOLEAN, NEW a \in 1..12, NEW b \in 1..12, a < b
  PROVE  StartOfMonth(a, leap) + DaysOf(a, leap) <= StartOfMonth(b, leap)
<1>1. a \in {1, 2, 3, 4, 5, 6, 7, 8, 9, 10, 11, 12}
  OBVIOUS
<1>2. b \in {1, 2, 3, 4, 5, 6, 7, 8, 9, 10, 11, 12}
  OBVIOUS
<1> QED
  BY <1>1, <1>2 DEF StartOfMonth, DaysOf, DaysPerMonth, MonthStarts, daysInMonth

LEMMA MonthExists ==
  ASSUME NEW leap \in BOOLEAN, NEW t \in Nat
  PROVE  /\ MonthAt(t, leap) \in 1..12
         /\ InMonth(t, MonthAt(t, leap), leap)
         /\ \A m \in 1..12 : InMonth(t, m, leap) => m = MonthAt(t, leap)
<1>1. \E m \in 1..12 : InMonth(t, m, leap)
  <2> DEFINE T == {n \in Nat : n \in 1..12 /\ (n = 12 \/ t < StartOfMonth(n + 1, leap))}
  <2>1. T \in SUBSET Nat /\ 12 \in T
    OBVIOUS
  <2>2. PICK m \in T : \A n \in T : m <= n
    BY <2>1, LeastNumber
  <2>3. m = 12 \/ t < StartOfMonth(m, leap) + DaysPerMonth(m, leap)
    BY MonthLengths
  <2>4. StartOfMonth(m, leap) <= t
    <3>1. CASE m = 1
      BY <3>1, MonthLengths
    <3>2. CASE m # 1
      <4>1. m - 1 \in 1..11 /\ m - 1 \notin T /\ (m - 1) + 1 = m
        BY <3>2, <2>2
      <4>2. StartOfMonth(m, leap) \in Nat
        BY MonthLengths
      <4> QED
        BY <4>1, <4>2
    <3> QED
      BY <3>1, <3>2
  <2> QED
    BY <2>3, <2>4 DEF InMonth
<1>2. ASSUME NEW m \in 1..12, NEW n \in 1..12, m < n,
             InMonth(t, m, leap), InMonth(t, n, leap)
      PROVE  FALSE
  <2>1. DaysOf(m, leap) = DaysPerMonth(m, leap)
    BY <1>2, MonthLengths
  <2>2. /\ StartOfMonth(m, leap) \in Nat /\ StartOfMonth(n, leap) \in Nat
        /\ DaysOf(m, leap) \in Nat
    BY MonthLengths
  <2> QED
    BY <1>2, <2>1, <2>2, MonthsInOrder DEF InMonth
<1>3. MonthAt(t, leap) \in 1..12 /\ InMonth(t, MonthAt(t, leap), leap)
  BY <1>1 DEF MonthAt
<1>4. ASSUME NEW m \in 1..12, InMonth(t, m, leap) PROVE m = MonthAt(t, leap)
  <2> DEFINE k == MonthAt(t, leap)
  <2>1. k \in 1..12 /\ InMonth(t, k, leap)
    BY <1>3
  <2> HIDE DEF k
  <2>2. ~(k < m) /\ ~(m < k)
    BY <1>2, <1>4, <2>1
  <2>3. k = m
    BY <2>1, <2>2
  <2> QED
    BY <2>3 DEF k
<1> QED
  BY <1>3, <1>4


MonthTable ==
  [at \in MonthLoop |->
     LET t == at.days + StartOfMonth(at.m, at.leap)
         k == MonthAt(t, at.leap)
     IN  [m |-> k, d |-> t - StartOfMonth(k, at.leap) + 1]]

\* One turn of the loop, given what the rest of it computes.
MonthTurn(f, at) ==
  IF at.m = 12 \/ at.days < DaysPerMonth(at.m, at.leap)
  THEN [m |-> at.m, d |-> at.days + 1]
  ELSE f[[m |-> at.m + 1, leap |-> at.leap,
          days |-> at.days - DaysPerMonth(at.m, at.leap)]]

LEMMA MonthTableTurns ==
  ASSUME NEW at \in MonthLoop PROVE MonthTable[at] = MonthTurn(MonthTable, at)
<1> DEFINE m == at.m
           leap == at.leap
           t == at.days + StartOfMonth(m, leap)
           next == [m |-> m + 1, leap |-> leap,
                    days |-> at.days - DaysPerMonth(m, leap)]
<1>1. m \in 1..12 /\ leap \in BOOLEAN /\ at.days \in Nat
  BY DEF MonthLoop
<1>2. StartOfMonth(m, leap) \in Nat /\ t \in Nat
  BY <1>1, MonthLengths
<1>3. MonthTable[at] = [m |-> MonthAt(t, leap),
                        d |-> t - StartOfMonth(MonthAt(t, leap), leap) + 1]
  BY DEF MonthTable
<1>4. CASE m = 12 \/ at.days < DaysPerMonth(m, leap)
  <2>1. InMonth(t, m, leap)
    <3>1. m # 12 => DaysPerMonth(m, leap) \in Nat
      BY <1>1, MonthLengths
    <3> QED
      BY <1>1, <1>2, <1>4, <3>1 DEF InMonth
  <2>2. m = MonthAt(t, leap)
    BY <1>1, <1>2, <2>1, MonthExists
  <2>3. t - StartOfMonth(m, leap) + 1 = at.days + 1
    BY <1>1, <1>2
  <2> QED
    BY <1>3, <1>4, <2>2, <2>3 DEF MonthTurn
<1>5. CASE ~(m = 12 \/ at.days < DaysPerMonth(m, leap))
  <2>1. /\ m + 1 \in 1..12 /\ DaysPerMonth(m, leap) \in Nat
        /\ StartOfMonth(m + 1, leap) = StartOfMonth(m, leap) + DaysPerMonth(m, leap)
    BY <1>1, <1>5, MonthLengths
  <2>2. next \in MonthLoop
    BY <1>1, <1>5, <2>1 DEF MonthLoop
  <2>3. next.days + StartOfMonth(next.m, next.leap) = t
    BY <1>1, <1>2, <2>1
  <2>4. next.leap = leap
    OBVIOUS
  <2>5. MonthTable[next] = MonthTable[at]
    BY <1>3, <2>2, <2>3, <2>4 DEF MonthTable
  <2> QED
    BY <1>5, <2>5 DEF MonthTurn
<1> QED
  BY <1>4, <1>5

\* The loop over the months finds the month a day of the year falls in.
LEMMA MonthOfFindsMonth == MonthOf = MonthTable
<1>1. \E f : f = [at \in MonthLoop |-> MonthTurn(f, at)]
  <2>1. MonthTable = [at \in MonthLoop |-> MonthTable[at]]
    BY DEF MonthTable
  <2>2. MonthTable = [at \in MonthLoop |-> MonthTurn(MonthTable, at)]
    BY <2>1, MonthTableTurns
  <2> QED
    BY <2>2
<1>2. MonthOf = [at \in MonthLoop |-> MonthTurn(MonthOf, at)]
  BY <1>1, Zenon DEF MonthOf, MonthTurn
<1> DEFINE Wrong(n) == \E at \in MonthLoop : at.m = 12 - n /\ MonthOf[at] # MonthTable[at]
           T == {n \in Nat : Wrong(n)}
<1>3. T = {}
  <2> SUFFICES ASSUME T # {} PROVE FALSE
    OBVIOUS
  <2>1. PICK n \in T : \A k \in T : n <= k
    BY LeastNumber
  <2>2. PICK at \in MonthLoop : at.m = 12 - n /\ MonthOf[at] # MonthTable[at]
    BY <2>1
  <2>3. MonthOf[at] = MonthTurn(MonthOf, at) /\ MonthTable[at] = MonthTurn(MonthTable, at)
    BY <1>2, MonthTableTurns
  <2> DEFINE next == [m |-> at.m + 1, leap |-> at.leap,
                      days |-> at.days - DaysPerMonth(at.m, at.leap)]
  <2>4. CASE at.m = 12 \/ at.days < DaysPerMonth(at.m, at.leap)
    BY <2>2, <2>3, <2>4 DEF MonthTurn
  <2>5. CASE ~(at.m = 12 \/ at.days < DaysPerMonth(at.m, at.leap))
    <3>1. at.m \in 1..11 /\ at.leap \in BOOLEAN /\ at.days \in Nat
      BY <2>5 DEF MonthLoop
    <3>2. DaysPerMonth(at.m, at.leap) \in Nat
      BY <3>1, MonthLengths
    <3>3. next \in MonthLoop
      BY <2>5, <3>1, <3>2 DEF MonthLoop
    <3>4. n - 1 \in Nat /\ next.m = 12 - (n - 1)
      BY <2>1, <2>2, <3>1
    <3>5. MonthOf[next] # MonthTable[next]
      BY <2>2, <2>3, <2>5 DEF MonthTurn
    <3>6. n - 1 \in T
      BY <3>3, <3>4, <3>5
    <3> QED
      BY <2>1, <3>4, <3>6
  <2> QED
    BY <2>4, <2>5
<1>4. ASSUME NEW at \in MonthLoop PROVE MonthOf[at] = MonthTable[at]
  <2>1. 12 - at.m \in Nat /\ at.m = 12 - (12 - at.m)
    BY DEF MonthLoop
  <2> QED
    BY <1>3, <2>1
<1>5. MonthTable = [at \in MonthLoop |-> MonthTable[at]]
  BY DEF MonthTable
<1>6. MonthOf = [at \in MonthLoop |-> MonthOf[at]]
  BY <1>2
<1> QED
  BY <1>4, <1>5, <1>6

-----------------------------------------------------------------------------
(* Years *)

\* The days from 2000 to year y, and the year a day falls in.
YearStart(y) == 365 * y + (y + 3) \div 4
InYear(t, y) == YearStart(y) <= t /\ t < YearStart(y + 1)
YearAt(t) == CHOOSE y \in Nat : InYear(t, y)

LEMMA YearLengths ==
  ASSUME NEW y \in Nat
  PROVE  /\ YearStart(0) = 0 /\ YearStart(y) \in Nat /\ y <= YearStart(y)
         /\ YearLength(y) \in 365..366
         /\ YearStart(y + 1) = YearStart(y) + YearLength(y)
<1> DEFINE q == y \div 4
           r == y % 4
<1>1. q \in Nat /\ r \in 0..3 /\ y = 4 * q + r
  OBVIOUS
<1>2. (y + 3) \div 4 = IF r = 0 THEN q ELSE q + 1
  BY <1>1
<1>3. (y + 1 + 3) \div 4 = q + 1
  BY <1>1
<1>4. (0 + 3) \div 4 = 0
  OBVIOUS
<1> HIDE DEF q
<1> QED
  BY <1>1, <1>2, <1>3, <1>4 DEF YearStart, YearLength, IsLeap

LEMMA YearsInOrder ==
  ASSUME NEW a \in Nat, NEW b \in Nat, a < b
  PROVE  YearStart(a + 1) <= YearStart(b)
<1>1. (a + 1 + 3) \div 4 <= (b + 3) \div 4
  OBVIOUS
<1>2. (a + 1 + 3) \div 4 \in Nat /\ (b + 3) \div 4 \in Nat
  OBVIOUS
<1> QED
  BY <1>1, <1>2 DEF YearStart

LEMMA YearExists ==
  ASSUME NEW t \in Nat
  PROVE  /\ YearAt(t) \in Nat
         /\ InYear(t, YearAt(t))
         /\ \A y \in Nat : InYear(t, y) => y = YearAt(t)
<1>1. \E y \in Nat : InYear(t, y)
  <2> DEFINE T == {n \in Nat : t < YearStart(n + 1)}
  <2>1. t \in T
    <3>1. t + 1 \in Nat /\ t + 1 <= YearStart(t + 1) /\ YearStart(t + 1) \in Nat
      BY YearLengths
    <3> QED
      BY <3>1
  <2>2. PICK y \in T : \A n \in T : y <= n
    BY <2>1, LeastNumber
  <2>3. YearStart(y) <= t
    <3>1. CASE y = 0
      BY <3>1, YearLengths
    <3>2. CASE y # 0
      <4>1. y - 1 \in Nat /\ y - 1 \notin T /\ (y - 1) + 1 = y
        BY <3>2, <2>2
      <4>2. YearStart(y) \in Nat
        BY YearLengths
      <4> QED
        BY <4>1, <4>2
    <3> QED
      BY <3>1, <3>2
  <2> QED
    BY <2>2, <2>3 DEF InYear
<1>2. ASSUME NEW x \in Nat, NEW y \in Nat, InYear(t, x), InYear(t, y), x < y
      PROVE  FALSE
  <2>1. YearStart(x + 1) \in Nat /\ YearStart(y) \in Nat
    BY YearLengths
  <2> QED
    BY <1>2, <2>1, YearsInOrder DEF InYear
<1>3. YearAt(t) \in Nat /\ InYear(t, YearAt(t))
  BY <1>1 DEF YearAt
<1>4. ASSUME NEW y \in Nat, InYear(t, y) PROVE y = YearAt(t)
  <2> DEFINE k == YearAt(t)
  <2>1. k \in Nat /\ InYear(t, k)
    BY <1>3
  <2> HIDE DEF k
  <2>2. ~(k < y) /\ ~(y < k)
    BY <1>2, <1>4, <2>1
  <2>3. k = y
    BY <2>1, <2>2
  <2> QED
    BY <2>3 DEF k
<1> QED
  BY <1>3, <1>4


YearTable ==
  [at \in YearLoop |->
     LET t == at.days + YearStart(at.yOff)
     IN  [yOff |-> YearAt(t), days |-> t - YearStart(YearAt(t))]]

YearTurn(f, at) ==
  IF at.days < YearLength(at.yOff) THEN at
  ELSE f[[yOff |-> at.yOff + 1, days |-> at.days - YearLength(at.yOff)]]

LEMMA YearTableTurns ==
  ASSUME NEW at \in YearLoop PROVE YearTable[at] = YearTurn(YearTable, at)
<1> DEFINE y == at.yOff
           t == at.days + YearStart(y)
           next == [yOff |-> y + 1, days |-> at.days - YearLength(y)]
<1>1. y \in Nat /\ at.days \in Nat /\ at = [yOff |-> y, days |-> at.days]
  BY DEF YearLoop
<1>2. /\ YearStart(y) \in Nat /\ YearLength(y) \in Nat /\ t \in Nat
      /\ YearStart(y + 1) = YearStart(y) + YearLength(y)
  BY <1>1, YearLengths
<1>3. YearTable[at] = [yOff |-> YearAt(t), days |-> t - YearStart(YearAt(t))]
  BY DEF YearTable
<1>4. CASE at.days < YearLength(y)
  <2>1. InYear(t, y)
    BY <1>1, <1>2, <1>4 DEF InYear
  <2>2. y = YearAt(t)
    BY <1>1, <1>2, <2>1, YearExists
  <2>3. t - YearStart(y) = at.days
    BY <1>1, <1>2
  <2> QED
    BY <1>1, <1>3, <1>4, <2>2, <2>3 DEF YearTurn
<1>5. CASE ~(at.days < YearLength(y))
  <2>1. next \in YearLoop
    BY <1>1, <1>2, <1>5 DEF YearLoop
  <2>2. next.days + YearStart(next.yOff) = t
    BY <1>1, <1>2
  <2>3. YearTable[next] = YearTable[at]
    BY <1>3, <2>1, <2>2 DEF YearTable
  <2> QED
    BY <1>5, <2>3 DEF YearTurn
<1> QED
  BY <1>4, <1>5

\* The loop over the years finds the year a day falls in.
LEMMA YearOfFindsYear == YearOf = YearTable
<1>1. \E f : f = [at \in YearLoop |-> YearTurn(f, at)]
  <2>1. YearTable = [at \in YearLoop |-> YearTable[at]]
    BY DEF YearTable
  <2>2. YearTable = [at \in YearLoop |-> YearTurn(YearTable, at)]
    BY <2>1, YearTableTurns
  <2> QED
    BY <2>2
<1>2. YearOf = [at \in YearLoop |-> YearTurn(YearOf, at)]
  BY <1>1, Zenon DEF YearOf, YearTurn
<1> DEFINE Wrong(n) == \E at \in YearLoop : at.days = n /\ YearOf[at] # YearTable[at]
           T == {n \in Nat : Wrong(n)}
<1>3. T = {}
  <2> SUFFICES ASSUME T # {} PROVE FALSE
    OBVIOUS
  <2>1. PICK n \in T : \A k \in T : n <= k
    BY LeastNumber
  <2>2. PICK at \in YearLoop : at.days = n /\ YearOf[at] # YearTable[at]
    BY <2>1
  <2>3. YearOf[at] = YearTurn(YearOf, at) /\ YearTable[at] = YearTurn(YearTable, at)
    BY <1>2, YearTableTurns
  <2> DEFINE next == [yOff |-> at.yOff + 1, days |-> at.days - YearLength(at.yOff)]
  <2>4. CASE at.days < YearLength(at.yOff)
    BY <2>2, <2>3, <2>4 DEF YearTurn
  <2>5. CASE ~(at.days < YearLength(at.yOff))
    <3>1. at.yOff \in Nat /\ at.days \in Nat
      BY DEF YearLoop
    <3>2. YearLength(at.yOff) \in 365..366
      BY <3>1, YearLengths
    <3>3. next \in YearLoop
      BY <2>5, <3>1, <3>2 DEF YearLoop
    <3>4. next.days \in Nat /\ next.days < n
      BY <2>2, <2>5, <3>1, <3>2
    <3>5. YearOf[next] # YearTable[next]
      BY <2>2, <2>3, <2>5 DEF YearTurn
    <3>6. next.days \in T
      BY <3>3, <3>4, <3>5
    <3> QED
      BY <2>1, <3>4, <3>6
  <2> QED
    BY <2>4, <2>5
<1>4. ASSUME NEW at \in YearLoop PROVE YearOf[at] = YearTable[at]
  <2>1. at.days \in Nat
    BY DEF YearLoop
  <2> QED
    BY <1>3, <2>1
<1>5. YearTable = [at \in YearLoop |-> YearTable[at]]
  BY DEF YearTable
<1>6. YearOf = [at \in YearLoop |-> YearOf[at]]
  BY <1>2
<1> QED
  BY <1>4, <1>5, <1>6

-----------------------------------------------------------------------------
(* Days *)

\* Day n, counted from the first of 2000, is day d of month m of year y.
IsDay(n, y, m, d) ==
  /\ y \in Nat /\ m \in 1..12 /\ d \in 1..DaysOf(m, IsLeap(y))
  /\ n = YearStart(y) + StartOfMonth(m, IsLeap(y)) + d - 1

LEMMA DayInYear ==
  ASSUME NEW n, NEW y, NEW m, NEW d, IsDay(n, y, m, d)
  PROVE  /\ n \in Nat /\ d \in 1..31 /\ IsLeap(y) \in BOOLEAN
         /\ InYear(n, y) /\ InMonth(n - YearStart(y), m, IsLeap(y))
         /\ n - YearStart(y) < StartOfMonth(m, IsLeap(y)) + DaysOf(m, IsLeap(y))
<1> DEFINE leap == IsLeap(y)
           start == StartOfMonth(m, leap)
           days == DaysOf(m, leap)
<1>1. y \in Nat /\ m \in 1..12 /\ d \in 1..days /\ n = YearStart(y) + start + d - 1
  BY DEF IsDay
<1>2. leap \in BOOLEAN
  BY DEF IsLeap
<1>3. /\ YearStart(y) \in Nat
      /\ YearStart(y + 1) = YearStart(y) + IF leap THEN 366 ELSE 365
  BY <1>1, YearLengths DEF YearLength
<1>4. /\ start \in Nat /\ days \in 28..31
      /\ m # 12 => days = DaysPerMonth(m, leap)
  BY <1>1, <1>2, MonthLengths
<1>5. start + days <= IF leap THEN 366 ELSE 365
  <2>1. CASE m = 12
    BY <1>2, <2>1, MonthLengths
  <2>2. CASE m # 12
    <3>1. m < 12
      BY <1>1, <2>2
    <3>2. start + days <= StartOfMonth(12, leap)
      BY <1>1, <1>2, <3>1, MonthsInOrder
    <3>3. /\ StartOfMonth(12, leap) \in Nat /\ DaysOf(12, leap) \in 28..31
          /\ StartOfMonth(12, leap) + DaysOf(12, leap) = IF leap THEN 366 ELSE 365
      BY <1>2, MonthLengths
    <3> QED
      BY <1>4, <3>2, <3>3
  <2> QED
    BY <2>1, <2>2
<1> HIDE DEF leap, start, days
<1>6. n \in Nat /\ d \in 1..31 /\ n - YearStart(y) = start + d - 1
  BY <1>1, <1>3, <1>4
<1>7. InYear(n, y)
  BY <1>1, <1>3, <1>4, <1>5, <1>6 DEF InYear
<1>8. n - YearStart(y) < start + days /\ start <= n - YearStart(y)
  BY <1>1, <1>4, <1>6
<1>9. InMonth(n - YearStart(y), m, leap)
  BY <1>4, <1>8 DEF InMonth, start
<1> QED
  BY <1>2, <1>6, <1>7, <1>8, <1>9 DEF leap, start, days

\* Where the loops end for day n.
YearNumber(n)  == YearOf[[yOff |-> 0, days |-> n]]
MonthNumber(n) == MonthOf[[m |-> 1, days |-> YearNumber(n).days,
                           leap |-> IsLeap(YearNumber(n).yOff)]]

\* The two loops of DateTime(uint32_t) find the date of every day.
LEMMA LoopsFindDay ==
  ASSUME NEW n \in Nat
  PROVE  IsDay(n, YearNumber(n).yOff, MonthNumber(n).m, MonthNumber(n).d)
<1> DEFINE y == YearAt(n)
           left == n - YearStart(y)
           leap == IsLeap(y)
           m == MonthAt(left, leap)
           d == left - StartOfMonth(m, leap) + 1
<1>1. YearNumber(n) = [yOff |-> y, days |-> left]
  <2> DEFINE at == [yOff |-> 0, days |-> n]
  <2>1. at \in YearLoop /\ at.days + YearStart(at.yOff) = n
    BY YearLengths DEF YearLoop
  <2>2. YearTable[at] = [yOff |-> y, days |-> left]
    BY <2>1 DEF YearTable
  <2> QED
    BY <2>2, YearOfFindsYear DEF YearNumber
<1>2. /\ y \in Nat /\ leap \in BOOLEAN /\ InYear(n, y)
      /\ YearStart(y) \in Nat
      /\ YearStart(y + 1) = YearStart(y) + IF leap THEN 366 ELSE 365
  <2>1. y \in Nat /\ InYear(n, y)
    BY YearExists
  <2> QED
    BY <2>1, YearLengths DEF YearLength, IsLeap
<1>3. left \in Nat /\ left < IF leap THEN 366 ELSE 365
  BY <1>2 DEF InYear
<1>4. YearNumber(n).yOff = y /\ YearNumber(n).days = left
  BY <1>1
<1> HIDE DEF y, left, leap
<1>5. MonthNumber(n) = [m |-> m, d |-> d]
  <2> DEFINE at == [m |-> 1, days |-> left, leap |-> leap]
  <2>1. at \in MonthLoop /\ at.days + StartOfMonth(at.m, at.leap) = left /\ at.leap = leap
    BY <1>2, <1>3, MonthLengths DEF MonthLoop
  <2>2. MonthTable[at] = [m |-> m, d |-> d]
    BY <2>1 DEF MonthTable
  <2>3. MonthNumber(n) = MonthOf[at]
    BY <1>4 DEF MonthNumber, leap
  <2> QED
    BY <2>2, <2>3, MonthOfFindsMonth
<1>6. m \in 1..12 /\ InMonth(left, m, leap)
  BY <1>2, <1>3, MonthExists
<1>7. MonthNumber(n).m = m /\ MonthNumber(n).d = d
  BY <1>5
<1> HIDE DEF m
<1>8. /\ StartOfMonth(m, leap) \in Nat /\ DaysOf(m, leap) \in 28..31
      /\ m # 12 => DaysOf(m, leap) = DaysPerMonth(m, leap)
      /\ m = 12 => StartOfMonth(m, leap) + DaysOf(m, leap) = IF leap THEN 366 ELSE 365
  BY <1>2, <1>6, MonthLengths
<1>9. d \in 1..DaysOf(m, leap)
  <2>1. StartOfMonth(m, leap) <= left /\ left < StartOfMonth(m, leap) + DaysOf(m, leap)
    BY <1>3, <1>6, <1>8 DEF InMonth
  <2> QED
    BY <1>3, <1>8, <2>1
<1>10. n = YearStart(y) + StartOfMonth(m, leap) + d - 1
  BY <1>2, <1>3, <1>8 DEF left
<1> QED
  BY <1>2, <1>4, <1>6, <1>7, <1>9, <1>10 DEF IsDay, leap

\* A later day has a later date: its year, or else its month, or else its day.
LEMMA DaysInOrder ==
  ASSUME NEW n, NEW y, NEW m, NEW d, IsDay(n, y, m, d),
         NEW o, NEW z, NEW p, NEW e, IsDay(o, z, p, e),
         n < o
  PROVE  y < z \/ (y = z /\ (m < p \/ (m = p /\ d < e)))
<1>1. /\ y \in Nat /\ m \in 1..12 /\ d \in 1..31 /\ n \in Nat
      /\ z \in Nat /\ p \in 1..12 /\ e \in 1..31 /\ o \in Nat
  BY DayInYear DEF IsDay
<1>2. YearStart(y) \in Nat /\ YearStart(z) \in Nat /\ YearStart(z + 1) \in Nat
  BY <1>1, YearLengths
<1>3. ~(z < y)
  <2>1. SUFFICES ASSUME z < y PROVE FALSE
    OBVIOUS
  <2>2. o < YearStart(z + 1) /\ YearStart(y) <= n
    BY DayInYear DEF InYear
  <2>3. YearStart(z + 1) <= YearStart(y)
    BY <1>1, <2>1, YearsInOrder
  <2> QED
    BY <1>1, <1>2, <2>2, <2>3
<1>4. CASE y = z
  <2> DEFINE leap == IsLeap(y)
  <2>1. leap \in BOOLEAN
    BY DEF IsLeap
  <2>2. /\ n = YearStart(y) + StartOfMonth(m, leap) + d - 1
        /\ o = YearStart(y) + StartOfMonth(p, leap) + e - 1
        /\ e \in 1..DaysOf(p, leap)
    BY <1>4 DEF IsDay
  <2>3. /\ StartOfMonth(m, leap) \in Nat /\ StartOfMonth(p, leap) \in Nat
        /\ DaysOf(p, leap) \in 28..31
    BY <1>1, <2>1, MonthLengths
  <2>4. ~(p < m)
    <3>1. p < m => StartOfMonth(p, leap) + DaysOf(p, leap) <= StartOfMonth(m, leap)
      BY <1>1, <2>1, MonthsInOrder
    <3> HIDE DEF leap
    <3> QED
      BY <1>1, <1>2, <2>2, <2>3, <3>1
  <2>5. m = p => d < e
    <3> HIDE DEF leap
    <3> QED
      BY <1>1, <1>2, <2>2, <2>3
  <2> QED
    BY <1>1, <1>4, <2>4, <2>5
<1>5. CASE y # z
  BY <1>1, <1>3, <1>5
<1> QED
  BY <1>4, <1>5

\* A day has one date.
LEMMA DayHasOneDate ==
  ASSUME NEW n, NEW y, NEW m, NEW d, IsDay(n, y, m, d),
         NEW z, NEW p, NEW e, IsDay(n, z, p, e)
  PROVE  y = z /\ m = p /\ d = e
<1>1. n \in Nat /\ y \in Nat /\ z \in Nat
  BY DayInYear DEF IsDay
<1>2. y = z
  <2>1. InYear(n, y) /\ InYear(n, z)
    BY DayInYear
  <2> QED
    BY <1>1, <2>1, YearExists
<1> DEFINE leap == IsLeap(y)
           left == n - YearStart(y)
<1>3. leap \in BOOLEAN /\ m \in 1..12 /\ p \in 1..12
  BY DEF IsDay, IsLeap
<1>4. InMonth(left, m, leap) /\ InMonth(left, p, leap)
  BY <1>2, DayInYear
<1>5. left \in Nat
  <2>1. YearStart(y) <= n /\ YearStart(y) \in Nat
    BY <1>1, DayInYear, YearLengths DEF InYear
  <2> QED
    BY <1>1, <2>1
<1>6. m = p
  BY <1>3, <1>4, <1>5, MonthExists
<1>7. d = e
  <2>1. /\ d \in 1..31 /\ n = YearStart(y) + StartOfMonth(m, leap) + d - 1
        /\ e \in 1..31 /\ n = YearStart(y) + StartOfMonth(m, leap) + e - 1
    BY <1>2, <1>6, DayInYear DEF IsDay
  <2>2. YearStart(y) \in Nat /\ StartOfMonth(m, leap) \in Nat
    BY <1>1, <1>3, YearLengths, MonthLengths
  <2> HIDE DEF leap
  <2> QED
    BY <2>1, <2>2
<1> QED
  BY <1>2, <1>6, <1>7

\* date2days counts the days back.
LEMMA DaysAreCounted ==
  ASSUME NEW n, NEW y, NEW m, NEW d, IsDay(n, y, m, d)
  PROVE  date2days(y, m, d) = n % 65536
<1> DEFINE extra == IF m > 2 /\ IsLeap(y) THEN 1 ELSE 0
<1>1. /\ m \in 1..12 /\ d \in 1..31 /\ y \in Nat /\ n \in Nat
      /\ n = YearStart(y) + StartOfMonth(m, IsLeap(y)) + d - 1
  BY DayInYear DEF IsDay
<1>2. /\ StartOfMonth(m, IsLeap(y)) = DaysBefore[m] + extra
      /\ StartOfMonth(m, IsLeap(y)) \in Nat
  BY <1>1, DaysBeforeMonth, MonthLengths DEF StartOfMonth, IsLeap
<1>3. DaysBefore[m] \in Nat
  <2>1. m \in {1, 2, 3, 4, 5, 6, 7, 8, 9, 10, 11, 12}
    BY <1>1
  <2> QED
    BY <2>1, DaysBeforeMonth DEF MonthStarts
<1>4. (y + 3) \div 4 \in Nat /\ extra \in Nat
  BY <1>1
<1>5. d + DaysBefore[m] + extra + 365 * y + (y + 3) \div 4 - 1 = n
  <2> DEFINE q == (y + 3) \div 4
  <2>1. YearStart(y) = 365 * y + q
    BY DEF YearStart
  <2> HIDE DEF extra, q
  <2>2. d + DaysBefore[m] + extra + 365 * y + q - 1 = n
    BY <1>1, <1>2, <1>3, <1>4, <2>1 DEF q
  <2> QED
    BY <2>2 DEF q
<1> QED
  BY <1>5 DEF date2days

-----------------------------------------------------------------------------
(* 32-bit seconds *)

\* What a uint32_t holds.
UInt32(n, s) ==
  /\ n \in Nat /\ s \in Nat /\ s < 86400
  /\ n < 49710 \/ (n = 49710 /\ s < 23296)
Pair(n, s)   == [day |-> n, sec |-> s]
Epoch        == Pair(Days1970To2000, 0)

\* A sum or a difference of seconds carries one day at most.
LEMMA Carry ==
  ASSUME NEW a \in Int, NEW b \in Int
  PROVE  /\ -86400 <= b /\ b < 0 => Seconds(a, b) = Pair(a - 1, b + 86400)
         /\ 0 <= b /\ b < 86400 => Seconds(a, b) = Pair(a, b)
         /\ 86400 <= b /\ b < 172800 => Seconds(a, b) = Pair(a + 1, b - 86400)
<1>1. CASE -86400 <= b /\ b < 0
  <2>1. b \div 86400 = -1 /\ b % 86400 = b + 86400
    BY <1>1
  <2> QED
    BY <1>1, <2>1 DEF Seconds, SecondsPerDay, Pair
<1>2. CASE 0 <= b /\ b < 86400
  <2>1. b \div 86400 = 0 /\ b % 86400 = b
    BY <1>2
  <2> QED
    BY <1>2, <2>1 DEF Seconds, SecondsPerDay, Pair
<1>3. CASE 86400 <= b /\ b < 172800
  <2>1. b \div 86400 = 1 /\ b % 86400 = b - 86400
    BY <1>3
  <2> QED
    BY <1>3, <2>1 DEF Seconds, SecondsPerDay, Pair
<1> QED
  BY <1>1, <1>2, <1>3

LEMMA Wraps ==
  ASSUME NEW a \in Int, NEW b \in Nat, b < 86400
  PROVE  /\ a < 0 => Wrap(Pair(a, b)) = Seconds(a + 49710, b + 23296)
         /\ UInt32(a, b) => Wrap(Pair(a, b)) = Pair(a, b)
         /\ a >= 0 /\ ~UInt32(a, b) => Wrap(Pair(a, b)) = Seconds(a - 49710, b - 23296)
<1>1. Before(Pair(a, b), Word) <=> a < 49710 \/ (a = 49710 /\ b < 23296)
  BY DEF Before, Word, Pair
<1>2. Pair(a, b).day = a /\ Pair(a, b).sec = b /\ Word.day = 49710 /\ Word.sec = 23296
  BY DEF Word, Pair
<1>3. Wrap(Pair(a, b)) = IF a < 0 THEN Seconds(a + 49710, b + 23296)
                         ELSE IF ~Before(Pair(a, b), Word)
                              THEN Seconds(a - 49710, b - 23296) ELSE Pair(a, b)
  BY <1>2 DEF Wrap
<1>4. UInt32(a, b) <=> a >= 0 /\ (a < 49710 \/ (a = 49710 /\ b < 23296))
  BY DEF UInt32
<1> QED
  BY <1>1, <1>3, <1>4

LEMMA SumOfPairs ==
  ASSUME NEW a \in Int, NEW b \in Nat, NEW c \in Int, NEW d \in Nat
  PROVE  /\ Plus(Pair(a, b), Pair(c, d)) = Wrap(Seconds(a + c, b + d))
         /\ Minus(Pair(a, b), Pair(c, d)) = Wrap(Seconds(a - c, b - d))
BY DEF Plus, Minus, Pair

\* Moving the first of 1970 to that of 2000 and back, with what wraps.
LEMMA EpochMoves ==
  ASSUME NEW n, NEW s, UInt32(n, s)
  PROVE  /\ \E a, b : UInt32(a, b) /\ Minus(Pair(n, s), Epoch) = Pair(a, b)
                        /\ Plus(Pair(a, b), Epoch) = Pair(n, s)
         /\ n < 38753 => Plus(Pair(n, s), Epoch) = Pair(n + 10957, s)
         /\ n >= 10957 => Minus(Pair(n, s), Epoch) = Pair(n - 10957, s)
<1>1. /\ n \in Nat /\ s \in Nat /\ s < 86400
      /\ n < 49710 \/ (n = 49710 /\ s < 23296)
  BY DEF UInt32
<1>2. Epoch = Pair(10957, 0)
  BY DEF Epoch, Days1970To2000
<1>3. /\ Minus(Pair(n, s), Epoch) = Wrap(Pair(n - 10957, s))
      /\ \A a \in Int, b \in Nat :
           b < 86400 => Plus(Pair(a, b), Epoch) = Wrap(Pair(a + 10957, b))
  <2>1. Minus(Pair(n, s), Epoch) = Wrap(Seconds(n - 10957, s - 0))
    BY <1>1, <1>2, SumOfPairs
  <2>2. Seconds(n - 10957, s) = Pair(n - 10957, s)
    BY <1>1, Carry
  <2>3. ASSUME NEW a \in Int, NEW b \in Nat, b < 86400
        PROVE  Plus(Pair(a, b), Epoch) = Wrap(Pair(a + 10957, b))
    <3>1. Plus(Pair(a, b), Epoch) = Wrap(Seconds(a + 10957, b + 0))
      BY <1>2, SumOfPairs
    <3>2. Seconds(a + 10957, b) = Pair(a + 10957, b)
      BY <2>3, Carry
    <3> QED
      BY <3>1, <3>2
  <2> QED
    BY <1>1, <2>1, <2>2, <2>3
<1>4. n < 38753 => Plus(Pair(n, s), Epoch) = Pair(n + 10957, s)
  <2>1. n < 38753 => UInt32(n + 10957, s)
    BY <1>1 DEF UInt32
  <2> QED
    BY <1>1, <1>3, <2>1, Wraps
<1>5. n >= 10957 => /\ UInt32(n - 10957, s)
                    /\ Minus(Pair(n, s), Epoch) = Pair(n - 10957, s)
  <2>1. n >= 10957 => UInt32(n - 10957, s)
    BY <1>1 DEF UInt32
  <2> QED
    BY <1>1, <1>3, <2>1, Wraps
<1>6. CASE n >= 10957
  <2>1. Plus(Pair(n - 10957, s), Epoch) = Wrap(Pair(n, s))
    BY <1>1, <1>3, <1>6
  <2>2. Wrap(Pair(n, s)) = Pair(n, s)
    BY <1>1, Wraps
  <2> QED
    BY <1>4, <1>5, <1>6, <2>1, <2>2
<1>7. CASE n < 10957
  <2>1. Minus(Pair(n, s), Epoch) = Seconds(n + 38753, s + 23296)
    BY <1>1, <1>3, <1>7, Wraps
  <2>2. CASE s + 23296 < 86400
    <3>1. Minus(Pair(n, s), Epoch) = Pair(n + 38753, s + 23296)
      BY <1>1, <2>1, <2>2, Carry
    <3>2. UInt32(n + 38753, s + 23296)
      BY <1>1, <1>7, <2>2 DEF UInt32
    <3>3. Plus(Pair(n + 38753, s + 23296), Epoch) = Wrap(Pair(n + 49710, s + 23296))
      BY <1>1, <1>3, <2>2
    <3>4. Wrap(Pair(n + 49710, s + 23296)) = Seconds(n, s)
      <4>1. ~UInt32(n + 49710, s + 23296)
        BY <1>1 DEF UInt32
      <4> QED
        BY <1>1, <2>2, <4>1, Wraps
    <3>5. Seconds(n, s) = Pair(n, s)
      BY <1>1, Carry
    <3> QED
      BY <1>4, <1>5, <1>7, <3>1, <3>2, <3>3, <3>4, <3>5
  <2>3. CASE s + 23296 >= 86400
    <3>1. Minus(Pair(n, s), Epoch) = Pair(n + 38754, s - 63104)
      BY <1>1, <2>1, <2>3, Carry
    <3>2. UInt32(n + 38754, s - 63104)
      BY <1>1, <1>7, <2>3 DEF UInt32
    <3>3. Plus(Pair(n + 38754, s - 63104), Epoch) = Wrap(Pair(n + 49711, s - 63104))
      BY <1>1, <1>3, <2>3
    <3>4. Wrap(Pair(n + 49711, s - 63104)) = Seconds(n + 1, s - 86400)
      <4>1. ~UInt32(n + 49711, s - 63104)
        BY <1>1 DEF UInt32
      <4>2. Wrap(Pair(n + 49711, s - 63104)) = Seconds(n + 49711 - 49710, s - 63104 - 23296)
        BY <1>1, <2>3, <4>1, Wraps
      <4> QED
        BY <1>1, <4>2
    <3>5. Seconds(n + 1, s - 86400) = Pair(n, s)
      <4>1. Seconds(n + 1, s - 86400) = Pair(n + 1 - 1, s - 86400 + 86400)
        BY <1>1, Carry
      <4> QED
        BY <1>1, <4>1
    <3> QED
      BY <1>4, <1>5, <1>7, <3>1, <3>2, <3>3, <3>4, <3>5
  <2> QED
    BY <1>1, <2>2, <2>3
<1> QED
  BY <1>1, <1>6, <1>7

-----------------------------------------------------------------------------
(* Dates *)

\* dt is b seconds after the beginning of day a.
IsDate(dt, a, b) ==
  /\ dt = [yOff |-> dt.yOff, m |-> dt.m, d |-> dt.d,
           hh |-> dt.hh, mm |-> dt.mm, ss |-> dt.ss]
  /\ IsDay(a, dt.yOff, dt.m, dt.d)
  /\ dt.hh \in 0..23 /\ dt.mm \in 0..59 /\ dt.ss \in 0..59
  /\ (dt.hh * 60 + dt.mm) * 60 + dt.ss = b

\* Hours, minutes and seconds of a day.
LEMMA TimeOfDay ==
  ASSUME NEW s \in Nat, s < 86400
  PROVE  /\ s \div 3600 \in 0..23 /\ (s \div 60) % 60 \in 0..59 /\ s % 60 \in 0..59
         /\ ((s \div 3600) * 60 + ((s \div 60) % 60)) * 60 + (s % 60) = s
<1> DEFINE q == s \div 60
           h == s \div 3600
<1>1. q \in Nat /\ s % 60 \in 0..59 /\ s = 60 * q + (s % 60)
  OBVIOUS
<1>2. h \in Nat /\ 3600 * h <= s /\ s < 3600 * h + 3600
  OBVIOUS
<1>3. q \div 60 \in Nat /\ q % 60 \in 0..59 /\ q = 60 * (q \div 60) + (q % 60)
  BY <1>1
<1> HIDE DEF q, h
<1>4. q \div 60 = h
  BY <1>1, <1>2, <1>3
<1>5. h < 24
  BY <1>2
<1> QED
  BY <1>1, <1>2, <1>3, <1>4, <1>5 DEF q, h

\* A year whose days a uint32_t can hold.
LEMMA YearsFit ==
  ASSUME NEW a, NEW b, UInt32(a, b), NEW y, NEW m, NEW d, IsDay(a, y, m, d)
  PROVE  y \in 0..136
<1>1. y \in Nat /\ YearStart(y) <= a /\ a \in Nat /\ a <= 49710
  BY DayInYear DEF IsDay, InYear, UInt32
<1>2. (y + 3) \div 4 >= 0
  BY <1>1
<1>3. 365 * y <= 49710
  BY <1>1, <1>2 DEF YearStart
<1> QED
  BY <1>1, <1>3

\* DateTime(uint32_t) finds the date of its seconds.
LEMMA DateOfSeconds ==
  ASSUME NEW t, NEW a, NEW b, UInt32(a, b), Minus(t, Epoch) = Pair(a, b)
  PROVE  IsDate(DateTime(t), a, b)
<1> DEFINE y == YearNumber(a).yOff
           m == MonthNumber(a).m
           d == MonthNumber(a).d
           hh == b \div 3600
           mm == (b \div 60) % 60
           ss == b % 60
<1>1. a \in Nat /\ b \in Nat /\ b < 86400
  BY DEF UInt32
<1>2. IsDay(a, y, m, d)
  BY <1>1, LoopsFindDay
<1>3. DateTime(t) = Date(y, m, d, hh, mm, ss)
  <2>1. Minus(t, [day |-> Days1970To2000, sec |-> 0]) = Pair(a, b)
    BY DEF Epoch, Pair
  <2>2. Pair(a, b).day = a /\ Pair(a, b).sec = b
    BY DEF Pair
  <2> QED
    BY <2>1, <2>2 DEF DateTime, YearNumber, MonthNumber
<1> HIDE DEF y, m, d
<1>4. y \in 0..136
  BY <1>2, YearsFit
<1>5. /\ hh \in 0..23 /\ mm \in 0..59 /\ ss \in 0..59
      /\ (hh * 60 + mm) * 60 + ss = b
  BY <1>1, TimeOfDay
<1> HIDE DEF hh, mm, ss
<1>6. DateTime(t) = [yOff |-> y, m |-> m, d |-> d, hh |-> hh, mm |-> mm, ss |-> ss]
  BY <1>3, <1>4 DEF Date
<1> QED
  BY <1>2, <1>5, <1>6 DEF IsDate

LEMMA SecondsOfDate ==
  ASSUME NEW dt, NEW a, NEW b, UInt32(a, b), IsDate(dt, a, b)
  PROVE  secondstime(dt) = Pair(a, b)
<1>1. date2days(dt.yOff, dt.m, dt.d) = a % 65536
  BY DaysAreCounted DEF IsDate
<1>2. a % 65536 = a
  BY DEF UInt32
<1> QED
  BY <1>1, <1>2 DEF secondstime, IsDate, Pair

LEMMA MomentHasOneDate ==
  ASSUME NEW dt, NEW du, NEW a, NEW b, IsDate(dt, a, b), IsDate(du, a, b)
  PROVE  dt = du
<1>1. dt.yOff = du.yOff /\ dt.m = du.m /\ dt.d = du.d
  BY DayHasOneDate DEF IsDate
<1>2. dt.hh = du.hh /\ dt.mm = du.mm /\ dt.ss = du.ss
  <2>1. /\ dt.hh \in 0..23 /\ dt.mm \in 0..59 /\ dt.ss \in 0..59
        /\ du.hh \in 0..23 /\ du.mm \in 0..59 /\ du.ss \in 0..59
        /\ (dt.hh * 60 + dt.mm) * 60 + dt.ss = (du.hh * 60 + du.mm) * 60 + du.ss
    BY DEF IsDate
  <2> DEFINE h == dt.hh
             k == dt.mm
             l == dt.ss
             i == du.hh
             n == du.mm
             o == du.ss
  <2>2. /\ h \in 0..23 /\ k \in 0..59 /\ l \in 0..59
        /\ i \in 0..23 /\ n \in 0..59 /\ o \in 0..59
        /\ (h * 60 + k) * 60 + l = (i * 60 + n) * 60 + o
    BY <2>1
  <2> HIDE DEF h, k, l, i, n, o
  <2>3. h = i /\ k = n /\ l = o
    BY <2>2
  <2> QED
    BY <2>3 DEF h, k, l, i, n, o
<1> QED
  BY <1>1, <1>2 DEF IsDate

\* The date of a number of seconds since 1970 has that number of seconds, for
\* every uint32_t: DateTime(uint32_t) and unixtime() are inverse to each other,
\* the moments before 2000 and after 2099 included.
THEOREM SecondsReadBack ==
  ASSUME NEW n, NEW s, UInt32(n, s)
  PROVE  unixtime(DateTime(Pair(n, s))) = Pair(n, s)
<1>1. PICK a, b : /\ UInt32(a, b) /\ Minus(Pair(n, s), Epoch) = Pair(a, b)
                  /\ Plus(Pair(a, b), Epoch) = Pair(n, s)
  BY EpochMoves
<1>2. secondstime(DateTime(Pair(n, s))) = Pair(a, b)
  BY <1>1, DateOfSeconds, SecondsOfDate
<1> QED
  BY <1>1, <1>2 DEF unixtime, Epoch, Pair

\* A date there is, of the 21st century.
IsDateOfCentury(dt) ==
  \E a \in Nat, b \in Nat : a < 36525 /\ b < 86400 /\ IsDate(dt, a, b)

\* And the other way: every date of the 21st century is the date of its seconds,
\* the 29th of February of leap years included, so isValid() holds of it.
THEOREM DatesReadBack ==
  ASSUME NEW dt, IsDateOfCentury(dt)
  PROVE  DateTime(unixtime(dt)) = dt /\ isValid(dt)
<1>1. PICK a \in Nat, b \in Nat : a < 36525 /\ b < 86400 /\ IsDate(dt, a, b)
  BY DEF IsDateOfCentury
<1>2. UInt32(a, b) /\ UInt32(a + 10957, b)
  BY <1>1 DEF UInt32
<1>3. Plus(Pair(a, b), Epoch) = Pair(a + 10957, b)
  BY <1>1, <1>2, EpochMoves
<1>4. unixtime(dt) = Pair(a + 10957, b)
  <2>1. secondstime(dt) = Pair(a, b)
    BY <1>1, <1>2, SecondsOfDate
  <2> QED
    BY <1>3, <2>1 DEF unixtime, Epoch, Pair
<1>5. Minus(Pair(a + 10957, b), Epoch) = Pair(a, b)
  <2>1. Minus(Pair(a + 10957, b), Epoch) = Pair(a + 10957 - 10957, b)
    BY <1>1, <1>2, EpochMoves
  <2> QED
    BY <2>1
<1>6. IsDate(DateTime(unixtime(dt)), a, b)
  BY <1>2, <1>4, <1>5, DateOfSeconds
<1>7. DateTime(unixtime(dt)) = dt
  BY <1>1, <1>6, MomentHasOneDate
<1>8. dt.yOff < 100
  <2>1. IsDay(a, dt.yOff, dt.m, dt.d)
    BY <1>1 DEF IsDate
  <2>2. dt.yOff \in Nat /\ YearStart(dt.yOff) <= a
    BY <2>1, DayInYear DEF IsDay, InYear
  <2>3. dt.yOff > 99 => YearStart(100) <= YearStart(dt.yOff)
    <3>1. dt.yOff > 99 => YearStart(99 + 1) <= YearStart(dt.yOff)
      BY <2>2, YearsInOrder
    <3> QED
      BY <3>1
  <2>4. YearStart(100) = 36525
    BY DEF YearStart
  <2>5. YearStart(dt.yOff) \in Nat
    BY <2>2, YearLengths
  <2> QED
    BY <1>1, <2>2, <2>3, <2>4, <2>5
<1> QED
  BY <1>7, <1>8 DEF isValid

-----------------------------------------------------------------------------
(* Comparison and spans *)

\* A sum is again a uint32_t.
LEMMA SumsAreWords ==
  ASSUME NEW n, NEW s, UInt32(n, s), NEW c, NEW d, UInt32(c, d)
  PROVE  \E p, q : UInt32(p, q) /\ Plus(Pair(n, s), Pair(c, d)) = Pair(p, q)
<1>1. /\ n \in Nat /\ s \in Nat /\ s < 86400 /\ c \in Nat /\ d \in Nat /\ d < 86400
      /\ n < 49710 \/ (n = 49710 /\ s < 23296)
      /\ c < 49710 \/ (c = 49710 /\ d < 23296)
  BY DEF UInt32
<1>2. Plus(Pair(n, s), Pair(c, d)) = Wrap(Seconds(n + c, s + d))
  BY <1>1, SumOfPairs
<1>3. PICK e \in Nat, t \in Nat :
        /\ Seconds(n + c, s + d) = Pair(e, t) /\ t < 86400
        /\ e < 99420 \/ (e = 99420 /\ t < 46591)
  <2>1. CASE s + d < 86400
    <3>1. Seconds(n + c, s + d) = Pair(n + c, s + d)
      BY <1>1, <2>1, Carry
    <3> QED
      BY <1>1, <2>1, <3>1
  <2>2. CASE s + d >= 86400
    <3>1. Seconds(n + c, s + d) = Pair(n + c + 1, s + d - 86400)
      BY <1>1, <2>2, Carry
    <3>2. /\ n + c + 1 \in Nat /\ s + d - 86400 \in Nat /\ s + d - 86400 < 86400
          /\ n + c + 1 < 99420 \/ (n + c + 1 = 99420 /\ s + d - 86400 < 46591)
      BY <1>1, <2>2
    <3> QED
      BY <3>1, <3>2
  <2> QED
    BY <1>1, <2>1, <2>2
<1>4. CASE UInt32(e, t)
  BY <1>2, <1>3, <1>4, Wraps
<1>5. CASE ~UInt32(e, t)
  <2>1. Wrap(Pair(e, t)) = Seconds(e - 49710, t - 23296)
    BY <1>3, <1>5, Wraps
  <2>2. e > 49710 \/ (e = 49710 /\ t >= 23296)
    BY <1>3, <1>5 DEF UInt32
  <2>3. CASE t >= 23296
    <3>1. Seconds(e - 49710, t - 23296) = Pair(e - 49710, t - 23296)
      BY <1>3, <2>3, Carry
    <3>2. UInt32(e - 49710, t - 23296)
      BY <1>3, <2>2, <2>3 DEF UInt32
    <3> QED
      BY <1>2, <1>3, <2>1, <3>1, <3>2
  <2>4. CASE t < 23296
    <3>1. Seconds(e - 49710, t - 23296) = Pair(e - 49711, t + 63104)
      <4>1. Seconds(e - 49710, t - 23296) = Pair(e - 49710 - 1, t - 23296 + 86400)
        BY <1>3, <2>4, Carry
      <4> QED
        BY <1>3, <4>1
    <3>2. UInt32(e - 49711, t + 63104)
      BY <1>3, <2>2, <2>4 DEF UInt32
    <3> QED
      BY <1>2, <1>3, <2>1, <3>1, <3>2
  <2> QED
    BY <1>3, <2>3, <2>4
<1> QED
  BY <1>4, <1>5

\* The fields in the order operator< looks at them.
LEMMA FieldsInOrder ==
  ASSUME NEW dt, NEW du
  PROVE  Earlier(dt, du) <=>
           \/ dt.yOff < du.yOff
           \/ dt.yOff = du.yOff /\ dt.m < du.m
           \/ dt.yOff = du.yOff /\ dt.m = du.m /\ dt.d < du.d
           \/ dt.yOff = du.yOff /\ dt.m = du.m /\ dt.d = du.d /\ dt.hh < du.hh
           \/ /\ dt.yOff = du.yOff /\ dt.m = du.m /\ dt.d = du.d
              /\ dt.hh = du.hh /\ dt.mm < du.mm
           \/ /\ dt.yOff = du.yOff /\ dt.m = du.m /\ dt.d = du.d
              /\ dt.hh = du.hh /\ dt.mm = du.mm /\ dt.ss < du.ss
<1> DEFINE f == Fields(dt)
           g == Fields(du)
<1>1. /\ f[1] = dt.yOff /\ f[2] = dt.m /\ f[3] = dt.d
      /\ f[4] = dt.hh /\ f[5] = dt.mm /\ f[6] = dt.ss
      /\ g[1] = du.yOff /\ g[2] = du.m /\ g[3] = du.d
      /\ g[4] = du.hh /\ g[5] = du.mm /\ g[6] = du.ss
  BY DEF Fields
<1> HIDE DEF f, g
<1> DEFINE Same(k) == \A j \in 1..k : f[j] = g[j]
<1>2. /\ Same(0)
      /\ Same(1) <=> f[1] = g[1]
      /\ Same(2) <=> f[1] = g[1] /\ f[2] = g[2]
      /\ Same(3) <=> f[1] = g[1] /\ f[2] = g[2] /\ f[3] = g[3]
      /\ Same(4) <=> f[1] = g[1] /\ f[2] = g[2] /\ f[3] = g[3] /\ f[4] = g[4]
      /\ Same(5) <=> /\ f[1] = g[1] /\ f[2] = g[2] /\ f[3] = g[3] /\ f[4] = g[4]
                     /\ f[5] = g[5]
  <2>1. /\ \A j \in 1..0 : FALSE
        /\ \A j \in 1..1 : j = 1
        /\ \A j \in 1..2 : j \in {1, 2}
        /\ \A j \in 1..3 : j \in {1, 2, 3}
        /\ \A j \in 1..4 : j \in {1, 2, 3, 4}
        /\ \A j \in 1..5 : j \in {1, 2, 3, 4, 5}
    OBVIOUS
  <2>2. /\ 1 \in 1..1
        /\ \A j \in {1, 2} : j \in 1..2
        /\ \A j \in {1, 2, 3} : j \in 1..3
        /\ \A j \in {1, 2, 3, 4} : j \in 1..4
        /\ \A j \in {1, 2, 3, 4, 5} : j \in 1..5
    OBVIOUS
  <2> QED
    BY <2>1, <2>2
<1> HIDE DEF Same
<1>3. Earlier(dt, du) <=>
        \/ f[1] < g[1] /\ Same(0)
        \/ f[2] < g[2] /\ Same(1)
        \/ f[3] < g[3] /\ Same(2)
        \/ f[4] < g[4] /\ Same(3)
        \/ f[5] < g[5] /\ Same(4)
        \/ f[6] < g[6] /\ Same(5)
  <2>1. Earlier(dt, du) <=> \E i \in 1..6 : f[i] < g[i] /\ Same(i - 1)
    BY DEF Earlier, f, g, Same
  <2>2. \A i \in 1..6 : i \in {1, 2, 3, 4, 5, 6}
    OBVIOUS
  <2>3. \A i \in {1, 2, 3, 4, 5, 6} : i \in 1..6
    OBVIOUS
  <2> QED
    BY <2>1, <2>2, <2>3
<1> QED
  BY <1>1, <1>2, <1>3

\* The date of a later second is later, and not the other way round.
LEMMA LaterDates ==
  ASSUME NEW dt, NEW a, NEW b, IsDate(dt, a, b),
         NEW du, NEW e, NEW t, IsDate(du, e, t),
         a < e \/ (a = e /\ b < t)
  PROVE  Earlier(dt, du) /\ ~Earlier(du, dt)
<1>1. /\ IsDay(a, dt.yOff, dt.m, dt.d) /\ IsDay(e, du.yOff, du.m, du.d)
      /\ dt.hh \in 0..23 /\ dt.mm \in 0..59 /\ dt.ss \in 0..59
      /\ (dt.hh * 60 + dt.mm) * 60 + dt.ss = b
      /\ du.hh \in 0..23 /\ du.mm \in 0..59 /\ du.ss \in 0..59
      /\ (du.hh * 60 + du.mm) * 60 + du.ss = t
  BY DEF IsDate
<1>2. /\ a \in Nat /\ dt.yOff \in Nat /\ dt.m \in 1..12 /\ dt.d \in 1..31
      /\ e \in Nat /\ du.yOff \in Nat /\ du.m \in 1..12 /\ du.d \in 1..31
  BY <1>1, DayInYear DEF IsDay
<1> DEFINE DateBefore == \/ dt.yOff < du.yOff
                         \/ dt.yOff = du.yOff /\ dt.m < du.m
                         \/ dt.yOff = du.yOff /\ dt.m = du.m /\ dt.d < du.d
           TimeBefore == \/ dt.hh < du.hh
                         \/ dt.hh = du.hh /\ dt.mm < du.mm
                         \/ dt.hh = du.hh /\ dt.mm = du.mm /\ dt.ss < du.ss
           SameDate == dt.yOff = du.yOff /\ dt.m = du.m /\ dt.d = du.d
<1>3. DateBefore \/ (SameDate /\ TimeBefore)
  <2>1. CASE a < e
    BY <1>1, <2>1, DaysInOrder
  <2>2. CASE a = e /\ b < t
    <3>1. SameDate
      BY <1>1, <2>2, DayHasOneDate
    <3>2. TimeBefore
      <4> DEFINE h == dt.hh
                 i == du.hh
                 m == dt.mm
                 n == du.mm
                 r == dt.ss
                 s == du.ss
      <4>1. /\ h \in 0..23 /\ m \in 0..59 /\ r \in 0..59
            /\ i \in 0..23 /\ n \in 0..59 /\ s \in 0..59
            /\ (h * 60 + m) * 60 + r < (i * 60 + n) * 60 + s
        BY <1>1, <2>2
      <4> HIDE DEF h, i, m, n, r, s
      <4>2. h < i \/ (h = i /\ m < n) \/ (h = i /\ m = n /\ r < s)
        BY <4>1
      <4> QED
        BY <4>2 DEF h, i, m, n, r, s
    <3> QED
      BY <3>1, <3>2
  <2> QED
    BY <2>1, <2>2
<1>4. Earlier(dt, du)
  BY <1>3, FieldsInOrder
<1>5. ~Earlier(du, dt)
  BY <1>1, <1>2, <1>3, FieldsInOrder
<1> QED
  BY <1>4, <1>5

\* A span's parts are the span.
LEMMA SpansAreParts ==
  ASSUME NEW c \in Nat, NEW d \in Nat, d < 86400
  PROVE  LET span == Pair(c, d)
         IN  span = TimeSpan(span.day, SpanHours(span), SpanMinutes(span), span.sec % 60)
<1> DEFINE h == d \div 3600
           m == (d \div 60) % 60
           s == d % 60
<1>1. /\ h \in 0..23 /\ m \in 0..59 /\ s \in 0..59 /\ (h * 60 + m) * 60 + s = d
  BY TimeOfDay
<1>2. Pair(c, d).day = c /\ Pair(c, d).sec = d
  BY DEF Pair
<1> HIDE DEF h, m, s
<1>3. h * 3600 + m * 60 + s = d
  BY <1>1
<1>4. TimeSpan(c, h, m, s) = Pair(c, d)
  BY <1>3, Carry DEF TimeSpan
<1> QED
  BY <1>2, <1>4 DEF SpanHours, SpanMinutes, h, m, s

\* Adding a span to a date, from 2000 on, leads to a later one, the span apart,
\* and subtracting it back, as long as the sum does not pass the 32 bits.
THEOREM SpansAddUp ==
  ASSUME NEW n, NEW s, UInt32(n, s), n >= 10957,
         NEW c \in Nat, NEW d \in Nat, d < 86400, c > 0 \/ d > 0,
         n + c + 1 < 49710
  PROVE  LET dt   == DateTime(Pair(n, s))
             span == Pair(c, d)
         IN  /\ Earlier(dt, PlusSpan(dt, span)) /\ ~Earlier(PlusSpan(dt, span), dt)
             /\ Difference(PlusSpan(dt, span), dt) = span
             /\ MinusSpan(PlusSpan(dt, span), span) = dt
<1> DEFINE dt == DateTime(Pair(n, s))
           span == Pair(c, d)
           later == PlusSpan(dt, span)
           e == IF s + d < 86400 THEN n + c ELSE n + c + 1
           t == IF s + d < 86400 THEN s + d ELSE s + d - 86400
<1>1. n \in Nat /\ s \in Nat /\ s < 86400
  BY DEF UInt32
<1>2. /\ e \in Nat /\ t \in Nat /\ t < 86400 /\ e < 49710 /\ e >= 10957
      /\ n < e \/ (n = e /\ s < t)
  BY <1>1
<1>3. UInt32(e, t)
  BY <1>2 DEF UInt32
<1>4. Plus(Pair(n, s), span) = Pair(e, t)
  <2>1. Plus(Pair(n, s), span) = Wrap(Seconds(n + c, s + d))
    BY <1>1, SumOfPairs
  <2>2. Seconds(n + c, s + d) = Pair(e, t)
    <3>1. CASE s + d < 86400
      BY <1>1, <3>1, Carry
    <3>2. CASE s + d >= 86400
      BY <1>1, <3>2, Carry
    <3> QED
      BY <1>1, <3>1, <3>2
  <2> HIDE DEF e, t
  <2> QED
    BY <1>2, <1>3, <2>1, <2>2, Wraps
<1>5. Minus(Pair(e, t), Pair(n, s)) = span
  <2>1. Minus(Pair(e, t), Pair(n, s)) = Wrap(Seconds(e - n, t - s))
    <3> HIDE DEF e, t
    <3> QED
      BY <1>1, <1>2, SumOfPairs
  <2>2. Seconds(e - n, t - s) = Pair(c, d)
    <3>1. CASE s + d < 86400
      <4>1. e - n = c /\ t - s = d
        BY <1>1, <3>1
      <4> QED
        BY <4>1, Carry
    <3>2. CASE s + d >= 86400
      <4>1. e - n = c + 1 /\ t - s = d - 86400
        BY <1>1, <3>2
      <4>2. Seconds(c + 1, d - 86400) = Pair(c + 1 - 1, d - 86400 + 86400)
        BY Carry
      <4>3. c + 1 - 1 = c /\ d - 86400 + 86400 = d
        OBVIOUS
      <4> QED
        BY <4>1, <4>2, <4>3
    <3> QED
      BY <1>1, <3>1, <3>2
  <2>3. UInt32(c, d)
    BY <1>1 DEF UInt32
  <2>4. Wrap(Pair(c, d)) = Pair(c, d)
    BY <2>3, Wraps
  <2> QED
    BY <2>1, <2>2, <2>4
<1>6. Minus(Pair(e, t), span) = Pair(n, s)
  <2>1. Minus(Pair(e, t), span) = Wrap(Seconds(e - c, t - d))
    <3> HIDE DEF e, t
    <3> QED
      BY <1>1, <1>2, SumOfPairs
  <2>2. Seconds(e - c, t - d) = Pair(n, s)
    <3>1. CASE s + d < 86400
      <4>1. e - c = n /\ t - d = s
        BY <1>1, <3>1
      <4> QED
        BY <1>1, <4>1, Carry
    <3>2. CASE s + d >= 86400
      <4>1. e - c = n + 1 /\ t - d = s - 86400
        BY <1>1, <3>2
      <4>2. Seconds(n + 1, s - 86400) = Pair(n + 1 - 1, s - 86400 + 86400)
        BY <1>1, Carry
      <4>3. n + 1 - 1 = n /\ s - 86400 + 86400 = s
        BY <1>1
      <4> QED
        BY <4>1, <4>2, <4>3
    <3> QED
      BY <1>1, <3>1, <3>2
  <2>3. Wrap(Pair(n, s)) = Pair(n, s)
    BY <1>1, Wraps
  <2> QED
    BY <2>1, <2>2, <2>3
<1> HIDE DEF e, t, span
<1>7. unixtime(dt) = Pair(n, s) /\ unixtime(DateTime(Pair(e, t))) = Pair(e, t)
  BY <1>3, SecondsReadBack
<1> HIDE DEF dt
<1>8. later = DateTime(Pair(e, t))
  BY <1>4, <1>7 DEF PlusSpan
<1> HIDE DEF later
<1>9. Difference(later, dt) = span /\ MinusSpan(later, span) = dt
  BY <1>5, <1>6, <1>7, <1>8 DEF Difference, MinusSpan, dt
<1>10. Earlier(dt, later) /\ ~Earlier(later, dt)
  <2> DEFINE a == n - 10957
             f == e - 10957
  <2>1. /\ UInt32(a, s) /\ UInt32(f, t) /\ (a < f \/ (a = f /\ s < t))
    BY <1>1, <1>2 DEF UInt32
  <2>2. /\ Minus(Pair(n, s), Epoch) = Pair(a, s) /\ Minus(Pair(e, t), Epoch) = Pair(f, t)
    BY <1>2, <1>3, EpochMoves
  <2>3. IsDate(dt, a, s) /\ IsDate(later, f, t)
    BY <1>8, <2>1, <2>2, DateOfSeconds DEF dt
  <2> QED
    BY <2>1, <2>3, LaterDates
<1> QED
  BY <1>9, <1>10 DEF dt, span, later

-----------------------------------------------------------------------------
(* The registers *)

\* bin2bcd and bcd2bin of RTClib.h, for the numbers a register holds.
LEMMA BcdRoundTrip ==
  ASSUME NEW n \in 0..99
  PROVE  /\ bin2bcd(n) \in Byte
         /\ bcd2bin(bin2bcd(n)) = n
<1>1. PICK t \in 0..9, u \in 0..9 : n = 10 * t + u
  <2>1. n \div 10 \in 0..9 /\ n % 10 \in 0..9 /\ n = 10 * (n \div 10) + (n % 10)
    OBVIOUS
  <2> QED
    BY <2>1
<1>2. n \div 10 = t
  BY <1>1
<1>3. bin2bcd(n) = 16 * t + u
  BY <1>1, <1>2 DEF bin2bcd
<1>4. (16 * t + u) \div 16 = t
  OBVIOUS
<1> QED
  BY <1>1, <1>3, <1>4 DEF bcd2bin, Byte

\* The seven registers after a write of the time, one by one.
LEMMA TimeRegisters ==
  ASSUME NEW bank, NEW dt
  PROVE  /\ SetTime(bank, dt)[0] = bin2bcd(dt.ss)
         /\ SetTime(bank, dt)[1] = bin2bcd(dt.mm)
         /\ SetTime(bank, dt)[2] = bin2bcd(dt.hh)
         /\ SetTime(bank, dt)[4] = bin2bcd(dt.d)
         /\ SetTime(bank, dt)[5] = bin2bcd(dt.m)
         /\ SetTime(bank, dt)[6] = bin2bcd(dt.yOff)
<1> DEFINE dow == dowToDS3231(dayOfTheWeek(dt))
           bytes == <<bin2bcd(dt.ss), bin2bcd(dt.mm), bin2bcd(dt.hh),
                      bin2bcd(dow), bin2bcd(dt.d), bin2bcd(dt.m),
                      bin2bcd(dt.yOff)>>
<1>1. SetTime(bank, dt) = Write(bank, TIME, bytes)
  BY DEF SetTime
<1> HIDE DEF dow
<1>2. Len(bytes) = 7
  OBVIOUS
<1>3. ASSUME NEW r \in 0..6 PROVE SetTime(bank, dt)[r] = bytes[r + 1]
  BY <1>1, <1>2 DEF Write, TIME, Registers
<1> QED
  BY <1>3

\* What adjust writes is what now() reads, for every date of the library's
\* century whose fields are in their ranges, whatever the registers held and
\* whether or not the write of the stop flag comes through.
THEOREM TimeReadsBack ==
  ASSUME NEW bank,
         NEW y \in 0..99, NEW m \in 1..12, NEW d \in 1..31,
         NEW hh \in 0..23, NEW mm \in 0..59, NEW ss \in 0..59
  PROVE  LET dt == Date(y, m, d, hh, mm, ss)
         IN  now(SetTime(bank, dt)) = dt /\ now(adjust(bank, dt)) = dt
<1> DEFINE dt == Date(y, m, d, hh, mm, ss)
           regs == SetTime(bank, dt)
<1>1. /\ dt = [yOff |-> y, m |-> m, d |-> d, hh |-> hh, mm |-> mm, ss |-> ss]
      /\ dt.yOff = y /\ dt.m = m /\ dt.d = d
      /\ dt.hh = hh /\ dt.mm = mm /\ dt.ss = ss
  BY DEF Date
<1> HIDE DEF dt
<1>2. /\ regs[0] = bin2bcd(ss) /\ regs[1] = bin2bcd(mm) /\ regs[2] = bin2bcd(hh)
      /\ regs[4] = bin2bcd(d) /\ regs[5] = bin2bcd(m) /\ regs[6] = bin2bcd(y)
  BY <1>1, TimeRegisters
<1>3. \A r \in 0..6 : adjust(bank, dt)[r] = regs[r]
  BY DEF adjust, ClearStopFlag, write_register, Write, Registers, STATUSREG,
         SetTime
<1> HIDE DEF regs
<1>4. \A n \in 0..99 : bcd2bin(bin2bcd(n)) = n
  BY BcdRoundTrip
<1>5. bin2bcd(ss) % 128 = bin2bcd(ss) /\ bin2bcd(m) % 128 = bin2bcd(m)
  BY DEF bin2bcd
<1>6. /\ bcd2bin(bin2bcd(y)) = y /\ bcd2bin(bin2bcd(m)) = m
      /\ bcd2bin(bin2bcd(d)) = d /\ bcd2bin(bin2bcd(hh)) = hh
      /\ bcd2bin(bin2bcd(mm)) = mm /\ bcd2bin(bin2bcd(ss)) = ss
  <2>1. /\ y \in 0..99 /\ m \in 0..99 /\ d \in 0..99
        /\ hh \in 0..99 /\ mm \in 0..99 /\ ss \in 0..99
    OBVIOUS
  <2> QED
    BY <1>4, <2>1
<1>7. Date(y + 2000, m, d, hh, mm, ss) = dt
  BY <1>1 DEF Date
<1>8. ASSUME NEW f, \A r \in 0..6 : f[r] = regs[r] PROVE now(f) = dt
  <2>1. now(f) = Date(bcd2bin(f[6]) + 2000, bcd2bin(f[5] % 128), bcd2bin(f[4]),
                      bcd2bin(f[2]), bcd2bin(f[1]), bcd2bin(f[0] % 128))
    BY DEF now, DateIn, ReadFrom, TIME
  <2>2. now(f) = Date(y + 2000, m, d, hh, mm, ss)
    BY <1>2, <1>5, <1>6, <1>8, <2>1
  <2> QED
    BY <1>7, <2>2
<1>9. now(regs) = dt /\ now(adjust(bank, dt)) = dt
  BY <1>3, <1>8
<1> QED
  BY <1>9 DEF dt, regs

-----------------------------------------------------------------------------
(* The alarms *)

\* A byte of an alarm: a field in BCD below the bit that leaves it out.
LEMMA AlarmBytes ==
  ASSUME NEW k \in 0..1
  PROVE  /\ \A n \in 0..59 : LET v == bin2bcd(n) + 128 * k
                             IN  Bit(v, 7) = k /\ bcd2bin(v % 128) = n
         /\ \A n \in 0..23 : LET v == bin2bcd(n) + 128 * k
                             IN  Bit(v, 7) = k /\ bcd2bin(v % 64) = n
         /\ \A n \in 1..31 : LET v == bin2bcd(n) + 128 * k + 64 * 0
                             IN  Bit(v, 7) = k /\ Bit(v, 6) = 0 /\ ReadAlarmDay(v) = n
         /\ \A n \in 1..7  : LET v == bin2bcd(n) + 128 * k + 64 * 1
                             IN  Bit(v, 7) = k /\ Bit(v, 6) = 1 /\ ReadAlarmDay(v) = n
<1>1. ASSUME NEW n \in 0..59
      PROVE  /\ bin2bcd(n) \in 0..89 /\ bcd2bin(bin2bcd(n)) = n
             /\ n <= 31 => bin2bcd(n) <= 49
             /\ n <= 7 => bin2bcd(n) = n
  <2>1. bcd2bin(bin2bcd(n)) = n
    BY BcdRoundTrip
  <2>2. n = 10 * (n \div 10) + (n % 10) /\ n \div 10 \in 0..5 /\ n % 10 \in 0..9
    OBVIOUS
  <2>3. bin2bcd(n) = n + 6 * (n \div 10)
    BY <2>2 DEF bin2bcd
  <2> QED
    BY <2>1, <2>2, <2>3
<1>2. ASSUME NEW x \in 0..89
      PROVE  /\ ((x + 128 * k) \div 128) % 2 = k /\ (x + 128 * k) % 128 = x
             /\ x <= 49 => /\ (x + 128 * k) % 64 = x
                           /\ ((x + 128 * k) \div 64) % 2 = 0
             /\ x <= 7 => /\ (x + 128 * k + 64) % 16 = x
                          /\ ((x + 128 * k + 64) \div 64) % 2 = 1
                          /\ ((x + 128 * k + 64) \div 128) % 2 = k
  BY SMTT(30)
<1>3. ASSUME NEW v \in Nat
      PROVE  Bit(v, 7) = (v \div 128) % 2 /\ Bit(v, 6) = (v \div 64) % 2
  BY DEF Bit
<1>4. ASSUME NEW n \in 0..59
      PROVE  LET v == bin2bcd(n) + 128 * k
             IN  /\ v \in Nat /\ Bit(v, 7) = k /\ bcd2bin(v % 128) = n
                 /\ n <= 31 => bcd2bin(v % 64) = n /\ Bit(v, 6) = 0
  <2> DEFINE x == bin2bcd(n)
             v == x + 128 * k
  <2>1. x \in 0..89 /\ bcd2bin(x) = n /\ (n <= 31 => x <= 49)
    BY <1>1
  <2> HIDE DEF x
  <2>2. v \in Nat
    BY <2>1
  <2>3. /\ (v \div 128) % 2 = k /\ v % 128 = x
        /\ x <= 49 => v % 64 = x /\ (v \div 64) % 2 = 0
    BY <1>2, <2>1
  <2> HIDE DEF v
  <2>4. Bit(v, 7) = k /\ (n <= 31 => Bit(v, 6) = 0)
    BY <1>3, <2>1, <2>2, <2>3
  <2> QED
    BY <2>1, <2>2, <2>3, <2>4 DEF v, x
<1>5. ASSUME NEW n \in 1..31
      PROVE  LET v == bin2bcd(n) + 128 * k + 64 * 0
             IN  Bit(v, 7) = k /\ Bit(v, 6) = 0 /\ ReadAlarmDay(v) = n
  <2>1. bin2bcd(n) + 128 * k + 64 * 0 = bin2bcd(n) + 128 * k
    BY <1>1
  <2> QED
    BY <1>4, <2>1 DEF ReadAlarmDay
<1>6. ASSUME NEW n \in 1..7
      PROVE  LET v == bin2bcd(n) + 128 * k + 64 * 1
             IN  Bit(v, 7) = k /\ Bit(v, 6) = 1 /\ ReadAlarmDay(v) = n
  <2>1. bin2bcd(n) = n /\ bcd2bin(n) = n
    BY <1>1
  <2>2. n + 128 * k + 64 * 1 = n + 128 * k + 64 /\ n + 128 * k + 64 \in Nat
    OBVIOUS
  <2> DEFINE v == n + 128 * k + 64
  <2>3. (v \div 128) % 2 = k /\ (v \div 64) % 2 = 1 /\ v % 16 = n
    <3>1. n \in 0..89 /\ n <= 7
      OBVIOUS
    <3> QED
      BY <1>2, <3>1
  <2> HIDE DEF v
  <2>4. Bit(v, 7) = k /\ Bit(v, 6) = 1
    <3>1. v \in Nat
      BY <2>2 DEF v
    <3> QED
      BY <1>3, <2>3, <3>1
  <2> QED
    BY <2>1, <2>2, <2>3, <2>4 DEF ReadAlarmDay, v
<1> QED
  BY <1>4, <1>5, <1>6

\* The fields of a date as an alarm takes them.
AlarmDate(dt) ==
  /\ dt.d \in 1..31 /\ dt.hh \in 0..23 /\ dt.mm \in 0..59 /\ dt.ss \in 0..59
  /\ dayOfTheWeek(dt) \in 0..6

AlarmWeek(dt, weekday) == IF weekday THEN dowToDS3231(dayOfTheWeek(dt)) ELSE dt.d

LEMMA AlarmDayReadsBack ==
  ASSUME NEW dt, AlarmDate(dt), NEW k \in 0..1, NEW w \in 0..1
  PROVE  LET v == AlarmDay(dt, k, w)
         IN  /\ Bit(v, 7) = k /\ Bit(v, 6) = w
             /\ ReadAlarmDay(v) = AlarmWeek(dt, w = 1)
<1>1. CASE w = 0
  BY <1>1, AlarmBytes DEF AlarmDay, AlarmWeek, AlarmDate
<1>2. CASE w = 1
  <2>1. dowToDS3231(dayOfTheWeek(dt)) \in 1..7
    BY DEF dowToDS3231, AlarmDate
  <2> QED
    BY <1>2, <2>1, AlarmBytes DEF AlarmDay, AlarmWeek
<1> QED
  BY <1>1, <1>2

\* With the pin free for alarms one that is set reads back, and nothing else
\* changes.
LEMMA Alarm1ReadsBack ==
  ASSUME NEW regs, regs[CONTROL] = OFF, NEW dt, AlarmDate(dt), NEW mode \in A1Modes
  PROVE  LET after == setAlarm1(regs, dt, mode)
         IN  /\ getAlarm1Mode(after) = mode
             /\ getAlarm1(after) = Date(2000, 5, AlarmWeek(dt, mode = A1_Day),
                                        dt.hh, dt.mm, dt.ss)
             /\ \A r \in (0..6) \cup (11..13) : after[r] = regs[r]
             /\ disableAlarm(after, 1)[CONTROL] = regs[CONTROL]
             /\ Bit(after[CONTROL], 0) = 1
             /\ Bit(after[CONTROL], 1) = Bit(regs[CONTROL], 1)
             /\ Bit(disableAlarm(after, 1)[CONTROL], 0) = 0
<1> DEFINE b0 == bin2bcd(dt.ss) + 128 * Bit(mode, 0)
           b1 == bin2bcd(dt.mm) + 128 * Bit(mode, 1)
           b2 == bin2bcd(dt.hh) + 128 * Bit(mode, 2)
           b3 == AlarmDay(dt, Bit(mode, 3), Bit(mode, 4))
           bytes == <<b0, b1, b2, b3>>
           after == setAlarm1(regs, dt, mode)
<1>1. /\ \A i \in 0..4 : Bit(mode, i) \in 0..1
      /\ mode = Bit(mode, 0) + 2 * Bit(mode, 1) + 4 * Bit(mode, 2)
                  + 8 * Bit(mode, 3) + 16 * Bit(mode, 4)
      /\ Bit(mode, 4) = 1 <=> mode = A1_Day
  <2>1. mode \in {15, 14, 12, 8, 0, 16}
    BY DEF A1Modes
  <2> QED
    BY <2>1 DEF Bit, A1_Day
<1>2. /\ Bit(b0, 7) = Bit(mode, 0) /\ bcd2bin(b0 % 128) = dt.ss
      /\ Bit(b1, 7) = Bit(mode, 1) /\ bcd2bin(b1 % 128) = dt.mm
      /\ Bit(b2, 7) = Bit(mode, 2) /\ bcd2bin(b2 % 64) = dt.hh
  BY <1>1, AlarmBytes DEF AlarmDate
<1>3. /\ Bit(b3, 7) = Bit(mode, 3) /\ Bit(b3, 6) = Bit(mode, 4)
      /\ ReadAlarmDay(b3) = AlarmWeek(dt, mode = A1_Day)
  BY <1>1, AlarmDayReadsBack
<1> HIDE DEF b0, b1, b2, b3
<1>4. after = write_register(Write(regs, 7, bytes), 14, 29)
  <2>1. Bit(28, 2) # 0 /\ Set(28, 0) = 29
    BY DEF Bit, Set, Clear
  <2>2. ~AlarmsRefused(regs)
    BY <2>1 DEF AlarmsRefused, read_register, OFF
  <2> QED
    BY <2>1, <2>2 DEF setAlarm1, ALARM1, CONTROL, OFF, b0, b1, b2, b3
<1>5. Len(bytes) = 4 /\ bytes[1] = b0 /\ bytes[2] = b1 /\ bytes[3] = b2 /\ bytes[4] = b3
  OBVIOUS
<1> HIDE DEF bytes, after
<1>6. after = [r \in 0..15 |-> IF r = 14 THEN 29
                               ELSE IF r \in 7..10 THEN bytes[r - 6] ELSE regs[r]]
  <2>1. \A r \in 0..15 : r - 7 + 1 = r - 6
    OBVIOUS
  <2> QED
    BY <1>4, <1>5, <2>1 DEF write_register, Write, Registers
<1>7. /\ after[7] = b0 /\ after[8] = b1 /\ after[9] = b2 /\ after[10] = b3
      /\ after[14] = 29 /\ \A r \in (0..6) \cup (11..13) : after[r] = regs[r]
  BY <1>5, <1>6
<1>8. getAlarm1Mode(after) = mode
  <2> DEFINE buffer == ReadFrom(after, ALARM1, 4)
  <2>1. buffer[0] = b0 /\ buffer[1] = b1 /\ buffer[2] = b2 /\ buffer[3] = b3
    BY <1>7 DEF ReadFrom, ALARM1
  <2> HIDE DEF buffer
  <2>2. Bit(buffer[0], 7) + 2 * Bit(buffer[1], 7) + 4 * Bit(buffer[2], 7)
          + 8 * Bit(buffer[3], 7) + 16 * Bit(buffer[3], 6) = mode
    BY <1>1, <1>2, <1>3, <2>1
  <2> QED
    BY <2>2 DEF getAlarm1Mode, buffer
<1>9. getAlarm1(after) = Date(2000, 5, AlarmWeek(dt, mode = A1_Day),
                              dt.hh, dt.mm, dt.ss)
  <2> DEFINE buffer == ReadFrom(after, ALARM1, 4)
  <2>1. buffer[0] = b0 /\ buffer[1] = b1 /\ buffer[2] = b2 /\ buffer[3] = b3
    BY <1>7 DEF ReadFrom, ALARM1
  <2> HIDE DEF buffer
  <2> QED
    BY <1>2, <1>3, <2>1 DEF getAlarm1, buffer
<1>10. disableAlarm(after, 1)[14] = 28
  <2>1. Clear(29, 0) = 28 /\ 1 - 1 = 0
    BY DEF Clear, Bit
  <2> QED
    BY <1>7, <2>1 DEF disableAlarm, write_register, read_register, Write, Registers,
       CONTROL
<1>11. /\ Bit(29, 0) = 1 /\ Bit(29, 1) = 0
       /\ Bit(28, 0) = 0 /\ Bit(28, 1) = 0
  BY DEF Bit
<1> QED
  BY <1>7, <1>8, <1>9, <1>10, <1>11 DEF after, CONTROL, OFF

LEMMA Alarm2ReadsBack ==
  ASSUME NEW regs, regs[CONTROL] = OFF, NEW dt, AlarmDate(dt), NEW mode \in A2Modes
  PROVE  LET after == setAlarm2(regs, dt, mode)
         IN  /\ getAlarm2Mode(after) = mode
             /\ getAlarm2(after) = Date(2000, 5, AlarmWeek(dt, mode = A2_Day),
                                        dt.hh, dt.mm, 0)
             /\ \A r \in 0..10 : after[r] = regs[r]
             /\ disableAlarm(after, 2)[CONTROL] = regs[CONTROL]
             /\ Bit(after[CONTROL], 1) = 1
             /\ Bit(after[CONTROL], 0) = Bit(regs[CONTROL], 0)
             /\ Bit(disableAlarm(after, 2)[CONTROL], 1) = 0
<1> DEFINE b0 == bin2bcd(dt.mm) + 128 * Bit(mode, 0)
           b1 == bin2bcd(dt.hh) + 128 * Bit(mode, 1)
           b2 == AlarmDay(dt, Bit(mode, 2), Bit(mode, 3))
           bytes == <<b0, b1, b2>>
           after == setAlarm2(regs, dt, mode)
<1>1. /\ \A i \in 0..3 : Bit(mode, i) \in 0..1
      /\ mode = Bit(mode, 0) + 2 * Bit(mode, 1) + 4 * Bit(mode, 2) + 8 * Bit(mode, 3)
      /\ Bit(mode, 3) = 1 <=> mode = A2_Day
  <2>1. mode \in {7, 6, 4, 0, 8}
    BY DEF A2Modes
  <2> QED
    BY <2>1 DEF Bit, A2_Day
<1>2. /\ Bit(b0, 7) = Bit(mode, 0) /\ bcd2bin(b0 % 128) = dt.mm
      /\ Bit(b1, 7) = Bit(mode, 1) /\ bcd2bin(b1 % 64) = dt.hh
  BY <1>1, AlarmBytes DEF AlarmDate
<1>3. /\ Bit(b2, 7) = Bit(mode, 2) /\ Bit(b2, 6) = Bit(mode, 3)
      /\ ReadAlarmDay(b2) = AlarmWeek(dt, mode = A2_Day)
  BY <1>1, AlarmDayReadsBack
<1> HIDE DEF b0, b1, b2
<1>4. after = write_register(Write(regs, 11, bytes), 14, 30)
  <2>1. Bit(28, 2) # 0 /\ Set(28, 1) = 30
    BY DEF Bit, Set, Clear
  <2>2. ~AlarmsRefused(regs)
    BY <2>1 DEF AlarmsRefused, read_register, OFF
  <2> QED
    BY <2>1, <2>2 DEF setAlarm2, ALARM2, CONTROL, OFF, b0, b1, b2
<1>5. Len(bytes) = 3 /\ bytes[1] = b0 /\ bytes[2] = b1 /\ bytes[3] = b2
  OBVIOUS
<1> HIDE DEF bytes, after
<1>6. after = [r \in 0..15 |-> IF r = 14 THEN 30
                               ELSE IF r \in 11..13 THEN bytes[r - 10] ELSE regs[r]]
  <2>1. \A r \in 0..15 : r - 11 + 1 = r - 10
    OBVIOUS
  <2> QED
    BY <1>4, <1>5, <2>1 DEF write_register, Write, Registers
<1>7. /\ after[11] = b0 /\ after[12] = b1 /\ after[13] = b2
      /\ after[14] = 30 /\ \A r \in 0..10 : after[r] = regs[r]
  BY <1>5, <1>6
<1>8. getAlarm2Mode(after) = mode
  <2> DEFINE buffer == ReadFrom(after, ALARM2, 3)
  <2>1. buffer[0] = b0 /\ buffer[1] = b1 /\ buffer[2] = b2
    BY <1>7 DEF ReadFrom, ALARM2
  <2> HIDE DEF buffer
  <2>2. Bit(buffer[0], 7) + 2 * Bit(buffer[1], 7) + 4 * Bit(buffer[2], 7)
          + 8 * Bit(buffer[2], 6) = mode
    BY <1>1, <1>2, <1>3, <2>1
  <2> QED
    BY <2>2 DEF getAlarm2Mode, buffer
<1>9. getAlarm2(after) = Date(2000, 5, AlarmWeek(dt, mode = A2_Day), dt.hh, dt.mm, 0)
  <2> DEFINE buffer == ReadFrom(after, ALARM2, 3)
  <2>1. buffer[0] = b0 /\ buffer[1] = b1 /\ buffer[2] = b2
    BY <1>7 DEF ReadFrom, ALARM2
  <2> HIDE DEF buffer
  <2> QED
    BY <1>2, <1>3, <2>1 DEF getAlarm2, buffer
<1>10. disableAlarm(after, 2)[14] = 28
  <2>1. Clear(30, 1) = 28 /\ 2 - 1 = 1
    BY DEF Clear, Bit
  <2> QED
    BY <1>7, <2>1 DEF disableAlarm, write_register, read_register, Write, Registers,
       CONTROL
<1>11. /\ Bit(30, 1) = 1 /\ Bit(30, 0) = 0
       /\ Bit(28, 0) = 0 /\ Bit(28, 1) = 0
  BY DEF Bit
<1> QED
  BY <1>7, <1>8, <1>9, <1>10, <1>11 DEF after, CONTROL, OFF

\* Each bit of the status register is its own.
LEMMA ByteBits ==
  ASSUME NEW v \in Byte
  PROVE  /\ \A k \in {0, 1, 3} :
              /\ Clear(v, k) \in Byte /\ Bit(Clear(v, k), k) = 0
              /\ \A j \in {0, 1, 3, 7} : j # k => Bit(Clear(v, k), j) = Bit(v, j)
         /\ Set(v, 3) \in Byte /\ Bit(Set(v, 3), 3) = 1
         /\ Bit(Set(v, 3), 7) = Bit(v, 7)
<1>1. PICK b7 \in 0..1, q \in 0..7, b3 \in 0..1, b2 \in 0..1, b1 \in 0..1, b0 \in 0..1 :
        v = 128 * b7 + 16 * q + 8 * b3 + 4 * b2 + 2 * b1 + b0
  <2>1. PICK a \in 0..15, c \in 0..15 : v = 16 * a + c
    <3>1. v \div 16 \in 0..15 /\ v % 16 \in 0..15 /\ v = 16 * (v \div 16) + (v % 16)
      BY DEF Byte
    <3> QED
      BY <3>1
  <2>2. \E b7 \in 0..1, q \in 0..7 : a = 8 * b7 + q
    <3>1. a \div 8 \in 0..1 /\ a % 8 \in 0..7 /\ a = 8 * (a \div 8) + (a % 8)
      OBVIOUS
    <3> QED
      BY <3>1
  <2>3. \E b3 \in 0..1, b2 \in 0..1, b1 \in 0..1, b0 \in 0..1 :
          c = 8 * b3 + 4 * b2 + 2 * b1 + b0
    <3>1. PICK f \in 0..1, g \in 0..7 : c = 8 * f + g
      <4>1. c = 8 * 0 + c \/ c = 8 * 1 + (c - 8)
        OBVIOUS
      <4> QED
        BY <4>1
    <3>2. PICK h \in 0..1, j \in 0..3 : g = 4 * h + j
      <4>1. g = 4 * 0 + g \/ g = 4 * 1 + (g - 4)
        OBVIOUS
      <4> QED
        BY <4>1
    <3>3. PICK k \in 0..1, l \in 0..1 : j = 2 * k + l
      <4>1. j = 2 * 0 + j \/ j = 2 * 1 + (j - 2)
        OBVIOUS
      <4> QED
        BY <4>1
    <3>4. c = 8 * f + 4 * h + 2 * k + l
      BY <3>1, <3>2, <3>3
    <3> QED
      BY <3>4
  <2> QED
    BY <2>1, <2>2, <2>3
<1>2. ASSUME NEW c \in 0..1, NEW d \in 0..1, NEW e \in 0..1
      PROVE  LET u == 128 * b7 + 16 * q + 8 * c + 4 * b2 + 2 * d + e
             IN  /\ u \in Byte /\ Bit(u, 7) = b7 /\ Bit(u, 3) = c
                 /\ Bit(u, 1) = d /\ Bit(u, 0) = e
  BY DEF Bit, Byte
<1>3. /\ Clear(v, 0) = 128 * b7 + 16 * q + 8 * b3 + 4 * b2 + 2 * b1 + 0
      /\ Clear(v, 1) = 128 * b7 + 16 * q + 8 * b3 + 4 * b2 + 2 * 0 + b0
      /\ Clear(v, 3) = 128 * b7 + 16 * q + 8 * 0 + 4 * b2 + 2 * b1 + b0
      /\ Set(v, 3) = 128 * b7 + 16 * q + 8 * 1 + 4 * b2 + 2 * b1 + b0
  BY <1>1, <1>2 DEF Clear, Set
<1> QED
  BY <1>1, <1>2, <1>3

LEMMA StatusBits ==
  ASSUME NEW regs, regs[STATUSREG] \in Byte
  PROVE  /\ \A n \in 1..2 :
              LET after == clearAlarm(regs, n)
              IN  /\ ~alarmFired(after, n) /\ lostPower(after) = lostPower(regs)
                  /\ alarmFired(after, 3 - n) = alarmFired(regs, 3 - n)
                  /\ isEnabled32K(after) = isEnabled32K(regs)
         /\ isEnabled32K(enable32K(regs))
         /\ lostPower(enable32K(regs)) = lostPower(regs)
         /\ ~isEnabled32K(disable32K(regs))
         /\ lostPower(disable32K(regs)) = lostPower(regs)
<1> DEFINE After(val) == [r \in Registers |-> IF r = STATUSREG THEN val ELSE regs[r]]
<1>1. /\ \A n \in 1..2 : clearAlarm(regs, n) = After(Clear(regs[STATUSREG], n - 1))
      /\ enable32K(regs) = After(Set(regs[STATUSREG], 3))
      /\ disable32K(regs) = After(Clear(regs[STATUSREG], 3))
  BY DEF clearAlarm, enable32K, disable32K, write_register, read_register, Write,
     STATUSREG, Registers
<1>2. \A val : After(val)[STATUSREG] = val
  BY DEF Registers, STATUSREG
<1> HIDE DEF After
<1>3. /\ 1 - 1 = 0 /\ 2 - 1 = 1 /\ 3 - 1 = 2 /\ 3 - 2 = 1
  OBVIOUS
<1>4. ASSUME NEW n \in 1..2
      PROVE  LET after == clearAlarm(regs, n)
             IN  /\ ~alarmFired(after, n) /\ lostPower(after) = lostPower(regs)
                 /\ alarmFired(after, 3 - n) = alarmFired(regs, 3 - n)
                 /\ isEnabled32K(after) = isEnabled32K(regs)
  <2>1. n = 1 \/ n = 2
    OBVIOUS
  <2> QED
    BY <1>1, <1>2, <1>3, <2>1, ByteBits
       DEF alarmFired, lostPower, isEnabled32K, read_register
<1> QED
  BY <1>1, <1>2, <1>4, ByteBits DEF lostPower, isEnabled32K, read_register

-----------------------------------------------------------------------------
(* Texts *)

NoDigit(c) == \A n \in 0..9 : Digit(n) # c

LEMMA DigitsAreApart ==
  /\ \A n \in 0..9 : Digit(n) = digits[n + 1] /\ Value(Digit(n)) = n
  /\ \A n \in Nat : Digit(n) = Digit(n % 10)
  /\ NoDigit(" ")
<1>1. \A n \in 0..9 : n % 10 = n
  OBVIOUS
<1>2. \A n \in 0..9 : Digit(n) = digits[n + 1]
  BY <1>1 DEF Digit
<1>3. /\ Digit(0) = "0" /\ Digit(1) = "1" /\ Digit(2) = "2" /\ Digit(3) = "3"
      /\ Digit(4) = "4" /\ Digit(5) = "5" /\ Digit(6) = "6" /\ Digit(7) = "7"
      /\ Digit(8) = "8" /\ Digit(9) = "9"
  BY <1>2 DEF digits
<1>4. \A n \in 0..9 : Digit(n) # " "
  <2>1. \A n \in 0..9 : n \in {0, 1, 2, 3, 4, 5, 6, 7, 8, 9}
    OBVIOUS
  <2> QED
    BY <1>3, <2>1
<1>5. \A n \in 0..9, k \in 0..9 : Digit(n) = Digit(k) => n = k
  <2>1. \A n \in 0..9 : n \in {0, 1, 2, 3, 4, 5, 6, 7, 8, 9}
    OBVIOUS
  <2> QED
    BY <1>3, <2>1
<1>6. \A n \in 0..9 : Value(Digit(n)) = n
  BY <1>5 DEF Value
<1>7. \A n \in Nat : Digit(n) = Digit(n % 10)
  <2>1. \A n \in Nat : (n % 10) % 10 = n % 10
    OBVIOUS
  <2> QED
    BY <2>1 DEF Digit
<1>8. NoDigit(" ")
  BY <1>4, Zenon DEF NoDigit
<1> QED
  BY <1>2, <1>6, <1>7, <1>8, Zenon

\* Two digits read back, also with a blank for a leading zero.
LEMMA TwoDigitsRead ==
  ASSUME NEW n \in 0..99
  PROVE  /\ conv2d(TwoDigits(n)) = n
         /\ \A c : NoDigit(c) /\ n < 10 => conv2d(<<c, Digit(n)>>) = n
<1> DEFINE t == n \div 10
           u == n % 10
<1>1. t \in 0..9 /\ u \in 0..9 /\ n = 10 * t + u /\ (n < 10 => u = n)
  OBVIOUS
<1>2. Digit(n) = Digit(u) /\ TwoDigits(n) = <<Digit(t), Digit(u)>>
  <2>1. n \in Nat
    OBVIOUS
  <2>2. Digit(n) = Digit(u)
    BY <2>1, DigitsAreApart
  <2> QED
    BY <2>2 DEF TwoDigits
<1> HIDE DEF t, u
<1>3. conv2d(<<Digit(t), Digit(u)>>) = n
  <2>1. \E k \in 0..9 : Digit(k) = Digit(t)
    BY <1>1
  <2>2. conv2d(<<Digit(t), Digit(u)>>) = 10 * Value(Digit(t)) + Value(Digit(u))
    BY <2>1 DEF conv2d
  <2> QED
    BY <1>1, <2>2, DigitsAreApart
<1>4. ASSUME NEW c, NoDigit(c) PROVE conv2d(<<c, Digit(u)>>) = u
  <2>1. conv2d(<<c, Digit(u)>>) = 10 * 0 + Value(Digit(u))
    BY <1>4 DEF conv2d, NoDigit
  <2>2. Value(Digit(u)) = u
    BY <1>1, DigitsAreApart
  <2>3. 10 * 0 + u = u
    BY <1>1
  <2> QED
    BY <2>1, <2>2, <2>3
<1> QED
  BY <1>1, <1>2, <1>3, <1>4

LEMMA MonthNamesRead == ASSUME NEW m \in 1..12 PROVE MonthOfName(month_names[m]) = m
<1>1. m \in {1, 2, 3, 4, 5, 6, 7, 8, 9, 10, 11, 12}
  OBVIOUS
<1>2. /\ month_names[1] = <<"J", "a", "n">> /\ month_names[2] = <<"F", "e", "b">>
      /\ month_names[3] = <<"M", "a", "r">> /\ month_names[4] = <<"A", "p", "r">>
      /\ month_names[5] = <<"M", "a", "y">> /\ month_names[6] = <<"J", "u", "n">>
      /\ month_names[7] = <<"J", "u", "l">> /\ month_names[8] = <<"A", "u", "g">>
      /\ month_names[9] = <<"S", "e", "p">> /\ month_names[10] = <<"O", "c", "t">>
      /\ month_names[11] = <<"N", "o", "v">> /\ month_names[12] = <<"D", "e", "c">>
  BY DEF month_names
<1>3. ASSUME NEW x, NEW y, NEW z
      PROVE  LET name == <<x, y, z>> IN name[1] = x /\ name[2] = y /\ name[3] = z
  OBVIOUS
<1>4. ASSUME NEW name
      PROVE  /\ name[1] = "J" /\ name[2] = "a" => MonthOfName(name) = 1
             /\ name[1] = "F" => MonthOfName(name) = 2
             /\ name[1] = "M" /\ name[3] = "r" => MonthOfName(name) = 3
             /\ name[1] = "A" /\ name[3] = "r" => MonthOfName(name) = 4
             /\ name[1] = "M" /\ name[3] = "y" => MonthOfName(name) = 5
             /\ name[1] = "J" /\ name[2] = "u" /\ name[3] = "n" => MonthOfName(name) = 6
             /\ name[1] = "J" /\ name[2] = "u" /\ name[3] = "l" => MonthOfName(name) = 7
             /\ name[1] = "A" /\ name[3] = "g" => MonthOfName(name) = 8
             /\ name[1] = "S" => MonthOfName(name) = 9
             /\ name[1] = "O" => MonthOfName(name) = 10
             /\ name[1] = "N" => MonthOfName(name) = 11
             /\ name[1] = "D" => MonthOfName(name) = 12
  BY ZenonT(60) DEF MonthOfName
<1> QED
  BY <1>1, <1>2, <1>3, <1>4

\* What the specifiers become.
LEMMA Pieces ==
  ASSUME NEW dt
  PROVE  /\ Specified("hh", dt, FALSE) = TwoDigits(dt.hh)
         /\ Specified("mm", dt, FALSE) = TwoDigits(dt.mm)
         /\ Specified("ss", dt, FALSE) = TwoDigits(dt.ss)
         /\ Specified("DD", dt, FALSE) = TwoDigits(dt.d)
         /\ Specified("MM", dt, FALSE) = TwoDigits(dt.m)
         /\ Specified("MMM", dt, FALSE) = month_names[dt.m]
         /\ Specified("YYYY", dt, FALSE) = <<"2", "0">> \o TwoDigits(dt.yOff)
         /\ Specified("hh", dt, TRUE) = TwoDigits(twelveHour(dt))
         /\ Specified("AP", dt, TRUE) = <<IF isPM(dt) THEN "P" ELSE "A", "M">>
<1>1. Specified("hh", dt, FALSE) = TwoDigits(dt.hh)
  BY Zenon DEF Specified
<1>2. Specified("mm", dt, FALSE) = TwoDigits(dt.mm)
  BY Zenon DEF Specified
<1>3. Specified("ss", dt, FALSE) = TwoDigits(dt.ss)
  BY Zenon DEF Specified
<1>4. Specified("DD", dt, FALSE) = TwoDigits(dt.d)
  BY Zenon DEF Specified
<1>5. Specified("MM", dt, FALSE) = TwoDigits(dt.m)
  BY Zenon DEF Specified
<1>6. Specified("MMM", dt, FALSE) = month_names[dt.m]
  BY Zenon DEF Specified
<1>7. Specified("YYYY", dt, FALSE) = <<"2", "0">> \o TwoDigits(dt.yOff)
  BY Zenon DEF Specified
<1>8. Specified("hh", dt, TRUE) = TwoDigits(twelveHour(dt))
  BY Zenon DEF Specified
<1>9. Specified("AP", dt, TRUE) = <<IF isPM(dt) THEN "P" ELSE "A", "M">>
  BY Zenon DEF Specified
<1> QED
  BY <1>1, <1>2, <1>3, <1>4, <1>5, <1>6, <1>7, <1>8, <1>9

\* The pieces of the formats.
LEMMA FullFormat ==
  /\ DOMAIN TIMESTAMP_FULL = 1..11 /\ TIMESTAMP_FULL[1] = "YYYY"
  /\ TIMESTAMP_FULL[3] = "MM" /\ TIMESTAMP_FULL[5] = "DD"
  /\ TIMESTAMP_FULL[7] = "hh" /\ TIMESTAMP_FULL[9] = "mm"
  /\ TIMESTAMP_FULL[11] = "ss"
<1> DEFINE S == {"YYYY", "MM", "DD", "hh", "mm", "ss", "-", "T", ":"}
           day == <<"YYYY", "-", "MM", "-", "DD">>
           sep == <<"T">>
           time == <<"hh", ":", "mm", ":", "ss">>
<1>1. day \in Seq(S) /\ sep \in Seq(S) /\ time \in Seq(S)
  OBVIOUS
<1>2. /\ Len(day) = 5 /\ Len(sep) = 1 /\ Len(time) = 5
      /\ day[1] = "YYYY" /\ day[3] = "MM" /\ day[5] = "DD"
      /\ time[1] = "hh" /\ time[3] = "mm" /\ time[5] = "ss"
  OBVIOUS
<1>3. TIMESTAMP_FULL = (day \o sep) \o time
  BY DEF TIMESTAMP_FULL, TIMESTAMP_DATE, TIMESTAMP_TIME
<1> HIDE DEF S, day, sep, time
<1>4. ASSUME NEW s \in Seq(S), NEW t \in Seq(S)
      PROVE  /\ s \o t \in Seq(S) /\ Len(s \o t) = Len(s) + Len(t)
             /\ \A i \in 1..(Len(s) + Len(t)) :
                  (s \o t)[i] = IF i <= Len(s) THEN s[i] ELSE t[i - Len(s)]
  BY ConcatProperties
<1> DEFINE u == day \o sep
<1>5. /\ u \in Seq(S) /\ Len(u) = 6
      /\ u[1] = day[1] /\ u[3] = day[3] /\ u[5] = day[5]
  <2>1. /\ u \in Seq(S) /\ Len(u) = Len(day) + Len(sep)
        /\ \A i \in 1..(Len(day) + Len(sep)) :
             u[i] = IF i <= Len(day) THEN day[i] ELSE sep[i - Len(day)]
    BY <1>1, <1>4, Zenon
  <2> HIDE DEF u
  <2> QED
    BY <1>2, <2>1
<1> HIDE DEF u
<1> DEFINE full == u \o time
<1>6. /\ full \in Seq(S) /\ Len(full) = Len(u) + Len(time)
      /\ \A i \in 1..(Len(u) + Len(time)) :
           full[i] = IF i <= Len(u) THEN u[i] ELSE time[i - Len(u)]
  BY <1>1, <1>4, <1>5, Zenon
<1> HIDE DEF full
<1>7. /\ DOMAIN full = 1..11 /\ full[1] = u[1] /\ full[3] = u[3] /\ full[5] = u[5]
      /\ full[7] = time[1] /\ full[9] = time[3] /\ full[11] = time[5]
  BY <1>2, <1>5, <1>6
<1> QED
  BY <1>2, <1>3, <1>5, <1>7 DEF full, u

LEMMA FormatPieces ==
  ASSUME NEW dt
  PROVE  LET iso  == timestamp(TIMESTAMP_FULL, dt)
             day  == timestamp(TIMESTAMP_DATE, dt)
             time == timestamp(TIMESTAMP_TIME, dt)
             year == <<"2", Digit(dt.yOff \div 100)>> \o TwoDigits(dt.yOff)
         IN  /\ DOMAIN iso = 1..11 /\ iso[1] = year /\ iso[3] = TwoDigits(dt.m)
             /\ iso[5] = TwoDigits(dt.d) /\ iso[7] = TwoDigits(dt.hh)
             /\ iso[9] = TwoDigits(dt.mm) /\ iso[11] = TwoDigits(dt.ss)
             /\ DOMAIN day = 1..5 /\ day[1] = year /\ day[3] = TwoDigits(dt.m)
             /\ day[5] = TwoDigits(dt.d)
             /\ time[1] = TwoDigits(dt.hh) /\ time[3] = TwoDigits(dt.mm)
             /\ time[5] = TwoDigits(dt.ss)
<1> DEFINE year == <<"2", Digit(dt.yOff \div 100)>> \o TwoDigits(dt.yOff)
<1>1. ASSUME NEW opt
      PROVE  /\ DOMAIN timestamp(opt, dt) = DOMAIN opt
             /\ \A i \in DOMAIN opt :
                  timestamp(opt, dt)[i] =
                    IF opt[i] = "YYYY" THEN year ELSE Specified(opt[i], dt, FALSE)
  BY DEF timestamp
<1>2. ASSUME NEW opt, NEW i \in DOMAIN opt
      PROVE  /\ opt[i] = "YYYY" => timestamp(opt, dt)[i] = year
             /\ opt[i] = "MM" => timestamp(opt, dt)[i] = TwoDigits(dt.m)
             /\ opt[i] = "DD" => timestamp(opt, dt)[i] = TwoDigits(dt.d)
             /\ opt[i] = "hh" => timestamp(opt, dt)[i] = TwoDigits(dt.hh)
             /\ opt[i] = "mm" => timestamp(opt, dt)[i] = TwoDigits(dt.mm)
             /\ opt[i] = "ss" => timestamp(opt, dt)[i] = TwoDigits(dt.ss)
  <2>1. timestamp(opt, dt)[i] =
          IF opt[i] = "YYYY" THEN year ELSE Specified(opt[i], dt, FALSE)
    BY <1>1
  <2> HIDE DEF year
  <2> QED
    BY <2>1, Pieces, Zenon
<1>3. /\ DOMAIN TIMESTAMP_DATE = 1..5 /\ TIMESTAMP_DATE[1] = "YYYY"
      /\ TIMESTAMP_DATE[3] = "MM" /\ TIMESTAMP_DATE[5] = "DD"
      /\ DOMAIN TIMESTAMP_TIME = 1..5 /\ TIMESTAMP_TIME[1] = "hh"
      /\ TIMESTAMP_TIME[3] = "mm" /\ TIMESTAMP_TIME[5] = "ss"
  BY DEF TIMESTAMP_DATE, TIMESTAMP_TIME
<1>4. /\ 1 \in 1..5 /\ 3 \in 1..5 /\ 5 \in 1..5
      /\ \A i \in {1, 3, 5, 7, 9, 11} : i \in 1..11
  OBVIOUS
<1> HIDE DEF year
<1>5. LET iso == timestamp(TIMESTAMP_FULL, dt)
      IN  /\ DOMAIN iso = 1..11 /\ iso[1] = year /\ iso[3] = TwoDigits(dt.m)
          /\ iso[5] = TwoDigits(dt.d) /\ iso[7] = TwoDigits(dt.hh)
          /\ iso[9] = TwoDigits(dt.mm) /\ iso[11] = TwoDigits(dt.ss)
  BY <1>1, <1>2, <1>4, FullFormat
<1>6. LET day == timestamp(TIMESTAMP_DATE, dt)
      IN  /\ DOMAIN day = 1..5 /\ day[1] = year /\ day[3] = TwoDigits(dt.m)
          /\ day[5] = TwoDigits(dt.d)
  BY <1>1, <1>2, <1>3, <1>4
<1>7. LET time == timestamp(TIMESTAMP_TIME, dt)
      IN  /\ time[1] = TwoDigits(dt.hh) /\ time[3] = TwoDigits(dt.mm)
          /\ time[5] = TwoDigits(dt.ss)
  BY <1>2, <1>3, <1>4
<1> QED
  BY <1>5, <1>6, <1>7 DEF year

LEMMA StringPieces ==
  ASSUME NEW dt
  PROVE  LET built == toString(BUILD_DATE, dt)
             noon  == toString(<<"hh", " ", "AP">>, dt)
         IN  /\ built = [i \in 1..5 |-> built[i]]
             /\ built[1] = month_names[dt.m] /\ built[3] = TwoDigits(dt.d)
             /\ built[5] = <<"2", "0">> \o TwoDigits(dt.yOff)
             /\ noon[1] = TwoDigits(twelveHour(dt))
             /\ noon[3] = <<IF isPM(dt) THEN "P" ELSE "A", "M">>
<1>1. /\ DOMAIN BUILD_DATE = 1..5 /\ BUILD_DATE[1] = "MMM" /\ BUILD_DATE[2] = " "
      /\ BUILD_DATE[3] = "DD" /\ BUILD_DATE[4] = " " /\ BUILD_DATE[5] = "YYYY"
  BY DEF BUILD_DATE
<1> DEFINE format == <<"hh", " ", "AP">>
<1>2. /\ DOMAIN format = 1..3 /\ format[1] = "hh" /\ format[3] = "AP"
  OBVIOUS
<1> HIDE DEF format
<1>3. ASSUME NEW f
      PROVE  LET apTag == \E i \in DOMAIN f : f[i] \in {"AP", "ap"}
             IN  /\ toString(f, dt) = [i \in DOMAIN f |-> Specified(f[i], dt, apTag)]
                 /\ apTag \in BOOLEAN
  BY DEF toString
<1>4. \E i \in DOMAIN format : format[i] \in {"AP", "ap"}
  BY <1>2
<1>5. toString(format, dt) = [i \in 1..3 |-> Specified(format[i], dt, TRUE)]
  BY <1>2, <1>3, <1>4
<1>6. \A i \in DOMAIN BUILD_DATE : BUILD_DATE[i] \notin {"AP", "ap"}
  <2>1. \A i \in 1..5 : i \in {1, 2, 3, 4, 5}
    OBVIOUS
  <2> QED
    BY <1>1, <2>1
<1>7. toString(BUILD_DATE, dt) = [i \in 1..5 |-> Specified(BUILD_DATE[i], dt, FALSE)]
  BY <1>1, <1>3, <1>6
<1> DEFINE built == toString(BUILD_DATE, dt)
           noon == toString(format, dt)
<1>8. 1 \in 1..5 /\ 3 \in 1..5 /\ 5 \in 1..5 /\ 1 \in 1..3 /\ 3 \in 1..3
  OBVIOUS
<1>9. /\ built[1] = month_names[dt.m] /\ built[3] = TwoDigits(dt.d)
      /\ built[5] = <<"2", "0">> \o TwoDigits(dt.yOff)
  <2>1. \A i \in 1..5 : built[i] = Specified(BUILD_DATE[i], dt, FALSE)
    BY <1>7
  <2> QED
    BY <1>1, <1>8, <2>1, Pieces, Zenon
<1>10. /\ noon[1] = TwoDigits(twelveHour(dt))
       /\ noon[3] = <<IF isPM(dt) THEN "P" ELSE "A", "M">>
  <2>1. \A i \in 1..3 : noon[i] = Specified(format[i], dt, TRUE)
    BY <1>5
  <2> QED
    BY <1>2, <1>8, <2>1, Pieces, Zenon
<1>11. built = [i \in 1..5 |-> built[i]]
  BY <1>7
<1> HIDE DEF built, noon
<1> QED
  BY <1>9, <1>10, <1>11 DEF format, built, noon

\* Reading a text takes the two last pieces of its year.
LEMMA YearRead ==
  ASSUME NEW y \in 0..99, NEW x, NEW z
  PROVE  conv2d(Tail(Tail(<<x, z>> \o TwoDigits(y)))) = y
<1> DEFINE two == <<x, z>>
           digs == TwoDigits(y)
           year == two \o digs
           p == Tail(Tail(year))
<1>1. digs = <<Digit(y \div 10), Digit(y)>>
  BY DEF TwoDigits
<1> DEFINE S == {x, z, Digit(y \div 10), Digit(y)}
<1>2. two \in Seq(S) /\ digs \in Seq(S) /\ Len(two) = 2 /\ Len(digs) = 2
  BY <1>1
<1> HIDE DEF S, two, digs
<1>3. /\ year \in Seq(S) /\ Len(year) = Len(two) + Len(digs)
      /\ \A i \in 1..(Len(two) + Len(digs)) :
           year[i] = IF i <= Len(two) THEN two[i] ELSE digs[i - Len(two)]
  BY <1>2, ConcatProperties, Zenon
<1> HIDE DEF year
<1>4. year \in Seq(S) /\ Len(year) = 4 /\ year[3] = digs[1] /\ year[4] = digs[2]
  BY <1>2, <1>3
<1>5. p[1] = digs[1] /\ p[2] = digs[2]
  <2> DEFINE rest == Tail(year)
  <2>1. ASSUME NEW s \in Seq(S), s # << >>
        PROVE  /\ Tail(s) \in Seq(S) /\ Len(Tail(s)) = Len(s) - 1
               /\ \A i \in 1..Len(Tail(s)) : Tail(s)[i] = s[i + 1]
    BY <2>1, HeadTailProperties
  <2>2. year # << >>
    BY <1>4
  <2>3. /\ rest \in Seq(S) /\ Len(rest) = Len(year) - 1
        /\ \A i \in 1..Len(rest) : rest[i] = year[i + 1]
    BY <1>4, <2>1, <2>2
  <2> HIDE DEF rest
  <2>4. Len(rest) = 3 /\ rest # << >> /\ rest[2] = year[3] /\ rest[3] = year[4]
    <3>1. Len(rest) = 3
      BY <1>4, <2>3
    <3>2. \A i \in 1..3 : rest[i] = year[i + 1]
      BY <2>3, <3>1
    <3>3. rest[2] = year[2 + 1] /\ rest[3] = year[3 + 1]
      BY <3>2
    <3> QED
      BY <3>1, <3>3
  <2>5. /\ Len(Tail(rest)) = Len(rest) - 1
        /\ \A i \in 1..Len(Tail(rest)) : Tail(rest)[i] = rest[i + 1]
    BY <2>1, <2>3, <2>4
  <2>6. Tail(rest)[1] = rest[2] /\ Tail(rest)[2] = rest[3]
    BY <2>4, <2>5
  <2> QED
    BY <1>4, <2>4, <2>6 DEF rest
<1> HIDE DEF p
<1>6. conv2d(p) = conv2d(digs)
  BY <1>5 DEF conv2d
<1> QED
  BY <1>6, TwoDigitsRead DEF p, year, two, digs

\* A date as its texts give it.
TextDate(dt) ==
  /\ dt = [yOff |-> dt.yOff, m |-> dt.m, d |-> dt.d,
           hh |-> dt.hh, mm |-> dt.mm, ss |-> dt.ss]
  /\ dt.yOff \in 0..99 /\ dt.m \in 1..12 /\ dt.d \in 1..31
  /\ dt.hh \in 0..23 /\ dt.mm \in 0..59 /\ dt.ss \in 0..59

LEMMA DateOfFields ==
  ASSUME NEW dt, TextDate(dt)
  PROVE  /\ Date(dt.yOff, dt.m, dt.d, dt.hh, dt.mm, dt.ss) = dt
         /\ Date(dt.yOff, dt.m, dt.d, 0, 0, 0) =
              [dt EXCEPT !.hh = 0, !.mm = 0, !.ss = 0]
<1>1. dt.yOff \in 0..99
  BY DEF TextDate
<1>2. PICK y, m, d, hh, mm, ss :
        dt = [yOff |-> y, m |-> m, d |-> d, hh |-> hh, mm |-> mm, ss |-> ss]
  BY Zenon DEF TextDate
<1>3. /\ dt.yOff = y /\ dt.m = m /\ dt.d = d /\ dt.hh = hh /\ dt.mm = mm /\ dt.ss = ss
      /\ [dt EXCEPT !.hh = 0, !.mm = 0, !.ss = 0] =
           [yOff |-> y, m |-> m, d |-> d, hh |-> 0, mm |-> 0, ss |-> 0]
  <2>1. /\ dt.yOff = y /\ dt.m = m /\ dt.d = d
        /\ dt.hh = hh /\ dt.mm = mm /\ dt.ss = ss
    BY <1>2
  <2> DEFINE Rec(h, n, s) ==
               [yOff |-> y, m |-> m, d |-> d, hh |-> h, mm |-> n, ss |-> s]
  <2>2. ASSUME NEW r, NEW h, NEW n, NEW s, r = Rec(h, n, s)
        PROVE  /\ [r EXCEPT !.hh = 0] = Rec(0, n, s)
               /\ [r EXCEPT !.mm = 0] = Rec(h, 0, s)
               /\ [r EXCEPT !.ss = 0] = Rec(h, n, 0)
    BY <2>2
  <2>3. [dt EXCEPT !.hh = 0, !.mm = 0, !.ss = 0] =
          [[[dt EXCEPT !.hh = 0] EXCEPT !.mm = 0] EXCEPT !.ss = 0]
    OBVIOUS
  <2>4. dt = Rec(hh, mm, ss)
    BY <1>2
  <2> HIDE DEF Rec
  <2>5. PICK r1 : r1 = [dt EXCEPT !.hh = 0]
    OBVIOUS
  <2>6. r1 = Rec(0, mm, ss)
    BY <2>2, <2>4, <2>5
  <2>7. PICK r2 : r2 = [r1 EXCEPT !.mm = 0]
    OBVIOUS
  <2>8. r2 = Rec(0, 0, ss)
    BY <2>2, <2>6, <2>7
  <2>9. [r2 EXCEPT !.ss = 0] = Rec(0, 0, 0)
    BY <2>2, <2>8
  <2> QED
    BY <2>1, <2>3, <2>5, <2>7, <2>9 DEF Rec
<1>4. (IF y >= 2000 THEN y - 2000 ELSE y) % 256 = y
  BY <1>1, <1>3
<1>5. ASSUME NEW h, NEW n, NEW s
      PROVE  Date(y, m, d, h, n, s) =
               [yOff |-> y, m |-> m, d |-> d, hh |-> h, mm |-> n, ss |-> s]
  BY <1>4 DEF Date
<1> QED
  BY <1>2, <1>3, <1>5

\* An ISO text reads back, and one of the day alone as its midnight.
LEMMA IsoTextsRead ==
  ASSUME NEW dt, TextDate(dt)
  PROVE  /\ IsoDate(timestamp(TIMESTAMP_FULL, dt)) = dt
         /\ IsoDate(timestamp(TIMESTAMP_DATE, dt)) =
              [dt EXCEPT !.hh = 0, !.mm = 0, !.ss = 0]
<1> DEFINE year == <<"2", Digit(dt.yOff \div 100)>> \o TwoDigits(dt.yOff)
<1>1. /\ conv2d(Tail(Tail(year))) = dt.yOff
      /\ conv2d(TwoDigits(dt.m)) = dt.m /\ conv2d(TwoDigits(dt.d)) = dt.d
      /\ conv2d(TwoDigits(dt.hh)) = dt.hh /\ conv2d(TwoDigits(dt.mm)) = dt.mm
      /\ conv2d(TwoDigits(dt.ss)) = dt.ss
  <2>1. /\ dt.yOff \in 0..99 /\ dt.m \in 0..99 /\ dt.d \in 0..99
        /\ dt.hh \in 0..99 /\ dt.mm \in 0..99 /\ dt.ss \in 0..99
    BY DEF TextDate
  <2> QED
    BY <2>1, YearRead, TwoDigitsRead
<1> HIDE DEF year
<1>2. IsoDate(timestamp(TIMESTAMP_FULL, dt)) = dt
  <2> DEFINE iso == timestamp(TIMESTAMP_FULL, dt)
  <2>1. /\ DOMAIN iso = 1..11 /\ iso[1] = year /\ iso[3] = TwoDigits(dt.m)
        /\ iso[5] = TwoDigits(dt.d) /\ iso[7] = TwoDigits(dt.hh)
        /\ iso[9] = TwoDigits(dt.mm) /\ iso[11] = TwoDigits(dt.ss)
    BY FormatPieces DEF year
  <2>2. \A i \in {1, 3, 5, 7, 9, 11} : i \in DOMAIN iso
    BY <2>1
  <2> HIDE DEF iso
  <2>3. IsoDate(iso) = Date(conv2d(Tail(Tail(iso[1]))), conv2d(iso[3]), conv2d(iso[5]),
                            conv2d(iso[7]), conv2d(iso[9]), conv2d(iso[11]))
    BY <2>2 DEF IsoDate
  <2>4. IsoDate(iso) = Date(dt.yOff, dt.m, dt.d, dt.hh, dt.mm, dt.ss)
    BY <1>1, <2>1, <2>3
  <2> QED
    BY <2>4, DateOfFields DEF iso
<1>3. IsoDate(timestamp(TIMESTAMP_DATE, dt)) = [dt EXCEPT !.hh = 0, !.mm = 0, !.ss = 0]
  <2> DEFINE day == timestamp(TIMESTAMP_DATE, dt)
             first == Date(2000, 1, 1, 0, 0, 0)
             ref == timestamp(TIMESTAMP_FULL, first)
  <2>1. first.hh = 0 /\ first.mm = 0 /\ first.ss = 0
    BY DEF Date
  <2> HIDE DEF first
  <2>2. /\ ref[7] = TwoDigits(0) /\ ref[9] = TwoDigits(0) /\ ref[11] = TwoDigits(0)
    BY <2>1, FormatPieces
  <2>3. /\ DOMAIN day = 1..5 /\ day[1] = year /\ day[3] = TwoDigits(dt.m)
        /\ day[5] = TwoDigits(dt.d)
    BY FormatPieces DEF year
  <2>4. /\ 1 \in DOMAIN day /\ 3 \in DOMAIN day /\ 5 \in DOMAIN day
        /\ 7 \notin DOMAIN day /\ 9 \notin DOMAIN day /\ 11 \notin DOMAIN day
    BY <2>3
  <2> HIDE DEF day, ref
  <2>5. IsoDate(day) = Date(conv2d(Tail(Tail(day[1]))), conv2d(day[3]), conv2d(day[5]),
                            conv2d(ref[7]), conv2d(ref[9]), conv2d(ref[11]))
    BY <2>4 DEF IsoDate, ref, first
  <2>6. conv2d(TwoDigits(0)) = 0
    <3>1. 0 \in 0..99
      OBVIOUS
    <3> QED
      BY <3>1, TwoDigitsRead
  <2>7. IsoDate(day) = Date(dt.yOff, dt.m, dt.d, 0, 0, 0)
    BY <1>1, <2>2, <2>3, <2>5, <2>6
  <2> QED
    BY <2>7, DateOfFields DEF day
<1> QED
  BY <1>2, <1>3

\* So does the compiler's form, a day below 10 written with a blank too.
LEMMA BuildTextsRead ==
  ASSUME NEW dt, TextDate(dt)
  PROVE  LET built == toString(BUILD_DATE, dt)
             time  == timestamp(TIMESTAMP_TIME, dt)
         IN  /\ BuildDate(built, time) = dt
             /\ dt.d < 10 => BuildDate([built EXCEPT ![3][1] = " "], time) = dt
<1> DEFINE built == toString(BUILD_DATE, dt)
           time == timestamp(TIMESTAMP_TIME, dt)
           year == <<"2", "0">> \o TwoDigits(dt.yOff)
<1>1. /\ dt.yOff \in 0..99 /\ dt.m \in 1..12 /\ dt.d \in 0..99
      /\ dt.hh \in 0..99 /\ dt.mm \in 0..99 /\ dt.ss \in 0..99
  BY DEF TextDate
<1>2. /\ conv2d(Tail(Tail(year))) = dt.yOff /\ MonthOfName(month_names[dt.m]) = dt.m
      /\ conv2d(TwoDigits(dt.d)) = dt.d
      /\ \A c : NoDigit(c) /\ dt.d < 10 => conv2d(<<c, Digit(dt.d)>>) = dt.d
      /\ conv2d(TwoDigits(dt.hh)) = dt.hh /\ conv2d(TwoDigits(dt.mm)) = dt.mm
      /\ conv2d(TwoDigits(dt.ss)) = dt.ss
  BY <1>1, YearRead, TwoDigitsRead, MonthNamesRead
<1>3. /\ time[1] = TwoDigits(dt.hh) /\ time[3] = TwoDigits(dt.mm)
      /\ time[5] = TwoDigits(dt.ss)
  BY FormatPieces
<1>4. /\ built = [i \in 1..5 |-> built[i]]
      /\ built[1] = month_names[dt.m] /\ built[3] = TwoDigits(dt.d) /\ built[5] = year
  BY StringPieces
<1> HIDE DEF year, built, time
<1>5. dt = Date(dt.yOff, dt.m, dt.d, dt.hh, dt.mm, dt.ss)
  BY DateOfFields
<1>6. BuildDate(built, time) = dt
  BY <1>2, <1>3, <1>4, <1>5 DEF BuildDate
<1>7. ASSUME NEW c, NoDigit(c), dt.d < 10, NEW blank, blank = [built EXCEPT ![3][1] = c]
      PROVE  BuildDate(blank, time) = dt
  <2>1. /\ blank[1] = built[1] /\ blank[3] = [built[3] EXCEPT ![1] = c]
        /\ blank[5] = built[5]
    BY <1>4, <1>7
  <2>2. PICK s : s = built[3]
    OBVIOUS
  <2>3. s = <<Digit(dt.d \div 10), Digit(dt.d)>>
    BY <1>4, <2>2 DEF TwoDigits
  <2>4. [s EXCEPT ![1] = c] = <<c, Digit(dt.d)>>
    BY <2>3
  <2>5. blank[3] = <<c, Digit(dt.d)>>
    BY <2>1, <2>2, <2>4
  <2> QED
    BY <1>2, <1>3, <1>4, <1>5, <1>7, <2>1, <2>5 DEF BuildDate
<1>8. dt.d < 10 => BuildDate([built EXCEPT ![3][1] = " "], time) = dt
  BY <1>7, DigitsAreApart, Zenon
<1> QED
  BY <1>6, <1>8, Zenon DEF built, time

\* The hour of twelve with AM or PM is one of the day.
LEMMA HoursOfTwelve ==
  ASSUME NEW dt, TextDate(dt)
  PROVE  LET noon == toString(<<"hh", " ", "AP">>, dt)
         IN  dt.hh = (conv2d(noon[1]) % 12) + (IF noon[3][1] = "P" THEN 12 ELSE 0)
<1> DEFINE noon == toString(<<"hh", " ", "AP">>, dt)
<1>1. /\ noon[1] = TwoDigits(twelveHour(dt))
      /\ noon[3] = <<IF isPM(dt) THEN "P" ELSE "A", "M">>
  BY StringPieces
<1> HIDE DEF noon
<1>2. dt.hh \in 0..23
  BY DEF TextDate
<1>3. twelveHour(dt) \in 0..99 /\ twelveHour(dt) % 12 = dt.hh % 12
  BY <1>2 DEF twelveHour
<1>4. conv2d(noon[1]) = twelveHour(dt)
  BY <1>1, <1>3, TwoDigitsRead
<1>5. noon[3][1] = "P" <=> dt.hh >= 12
  BY <1>1 DEF isPM
<1>6. dt.hh = (dt.hh % 12) + (IF dt.hh >= 12 THEN 12 ELSE 0)
  BY <1>2
<1> QED
  BY <1>3, <1>4, <1>5, <1>6 DEF noon

=============================================================================
