-------------------------- MODULE ClockModuleProofs --------------------------
(***************************************************************************)
(* Theorems about the clock.  The bounds of RealTimeClock on the local     *)
(* clock are not inductive: DriftInv adds what is known while a caller of  *)
(* update_local_clock_with_rtc has read the module and not yet written.    *)
(* ClockModule implements RealTimeClock, and its registers hold the date   *)
(* of the module's time (CalendarInv), which the driver reads, the task    *)
(* derives and the app is told.                                            *)
(***************************************************************************)
EXTENDS ClockModule, CalendarProofs

-----------------------------------------------------------------------------
(* RealTimeClock *)

\* Before the interrupt handler is installed nothing is notified or configured.
Starting ==
  ~isr =>
    /\ tickPc = "wait" /\ ~notified
    /\ ~configured /\ ~failed
    /\ misread => callPc = "isr"
    /\ callPc # "idle"

\* Where the caller is tells whether it is begin or configureRtc.
Caller ==
  /\ callPc \in {"isr", "alone", "halted"} => ~isr
  /\ isr /\ callPc \in {"take", "read", "write", "unread"} => configured

\* Being prompt, the task has one tick at most and never times out.
Ticks ==
  /\ lost => tickPc = "dead"
  /\ prompt => Pending <= 1 /\ tickPc # "dead"

\* How far ahead the local clock is, or will be once the caller has written.
AtMost == IF prompt THEN 1 ELSE 2

Written ==
  isr /\ callPc = "write" =>
    /\ seen + Pending - hw <= AtMost
    /\ prompt /\ pin => seen + Pending - hw >= 0

Begun ==
  ~isr /\ ~misread /\ callPc \in {"write", "isr"} =>
    /\ seen <= hw
    /\ prompt => hw <= seen + 1
    /\ callPc = "isr" => seconds = seen

DriftInv ==
  TypeOK /\ Starting /\ Caller /\ Ticks /\ Written /\ Begun
    /\ NeverAhead /\ NeverBehind

-----------------------------------------------------------------------------
LEMMA DriftStart == Init => DriftInv
<1> SUFFICES ASSUME Init PROVE DriftInv
  OBVIOUS
<1>1. TypeOK
  <2>1. hw \in Nat /\ seconds \in Int /\ seen \in Int
    BY ClockAssumption DEF ClockAssumption, Init
  <2>2. mutex = "tick" <=> tickPc = "count"
    BY DEF Init
  <2>3. mutex = "call" <=> callPc \in {"read", "write", "unread"}
    BY DEF Init
  <2> QED
    BY <2>1, <2>2, <2>3, Zenon DEF Init, TypeOK
<1>2. Starting /\ Caller /\ Written /\ Begun /\ NeverAhead /\ NeverBehind
  BY DEF Init, Starting, Caller, Written, Begun, NeverAhead, NeverBehind, Steady
<1>3. Ticks
  BY DEF Init, Ticks, Pending
<1> QED
  BY <1>1, <1>2, <1>3 DEF DriftInv

LEMMA TypeStep == TypeOK /\ [Next]_vars => TypeOK'
<1> SUFFICES ASSUME TypeOK, [Next]_vars PROVE TypeOK'
  OBVIOUS
<1> USE ClockAssumption DEF TypeOK, history
<1>1. CASE Tick
  BY <1>1 DEF Tick
<1>2. CASE TickWait
  BY <1>2 DEF TickWait
<1>3. CASE TickTake
  BY <1>3 DEF TickTake
<1>4. CASE TickTimeout
  BY <1>4 DEF TickTimeout
<1>5. CASE TickCount
  <2>1. seconds' \in Int
    BY <1>5 DEF TickCount
  <2> QED
    BY <1>5, <2>1 DEF TickCount
<1>6. ASSUME NEW time \in NewTimes, Configure(time) PROVE TypeOK'
  BY <1>6 DEF Configure
<1>7. CASE UpdateTake
  BY <1>7 DEF UpdateTake
<1>8. CASE UpdateTimeout
  BY <1>8 DEF UpdateTimeout
<1>9. CASE UpdateRead
  BY <1>9 DEF UpdateRead
<1>10. CASE UpdateWrite
  BY <1>10 DEF UpdateWrite
<1>11. CASE AddIsr
  BY <1>11 DEF AddIsr
<1>12. CASE PowerCycle
  <2>1. pin' \in BOOLEAN
    BY <1>12 DEF PowerCycle, Start
  <2>2. /\ hw' = hw /\ prompt' = prompt /\ seconds' = 0 /\ seen' = 0
        /\ mutex' = "free" /\ tickPc' = "wait" /\ callPc' \in {"take", "alone"}
    BY <1>12 DEF PowerCycle, Start
  <2>3. ~isr' /\ ~notified' /\ ~lost' /\ ~configured' /\ ~failed' /\ ~misread'
    BY <1>12 DEF PowerCycle, Start
  <2>4. /\ isr' \in BOOLEAN /\ notified' \in BOOLEAN /\ lost' \in BOOLEAN
        /\ configured' \in BOOLEAN /\ failed' \in BOOLEAN /\ misread' \in BOOLEAN
    BY <1>12 DEF PowerCycle, Start
  <2> QED
    BY <2>1, <2>2, <2>4
<1>13. ASSUME NEW time \in NewTimes, ConfigureAlone(time) PROVE TypeOK'
  BY <1>13 DEF ConfigureAlone
<1>14. CASE UpdateMisread
  BY <1>14 DEF UpdateMisread
<1>15. CASE UNCHANGED vars
  BY <1>15 DEF vars
<1> QED
  BY <1>1, <1>2, <1>3, <1>4, <1>5, <1>6, <1>7, <1>8, <1>9, <1>10, <1>11, <1>12,
     <1>13, <1>14, <1>15 DEF Next

LEMMA DriftStep == DriftInv /\ [Next]_vars => DriftInv'
<1> SUFFICES ASSUME DriftInv, [Next]_vars PROVE DriftInv'
  OBVIOUS
<1>0. TypeOK'
  BY TypeStep DEF DriftInv
<1> USE <1>0, ClockAssumption DEF DriftInv, TypeOK, Starting, Caller, Ticks,
    Written, Begun, NeverAhead, NeverBehind, Steady, Drift, Pending, AtMost,
    history
<1>1. CASE Tick
  BY <1>1 DEF Tick
<1>2. CASE TickWait
  BY <1>2 DEF TickWait
<1>3. CASE TickTake
  BY <1>3 DEF TickTake
<1>4. CASE TickTimeout
  BY <1>4 DEF TickTimeout
<1>5. CASE TickCount
  BY <1>5 DEF TickCount
<1>6. ASSUME NEW time \in NewTimes, Configure(time) PROVE DriftInv'
  BY <1>6 DEF Configure
<1>7. CASE UpdateTake
  BY <1>7 DEF UpdateTake
<1>8. CASE UpdateTimeout
  BY <1>8 DEF UpdateTimeout
<1>9. CASE UpdateRead
  BY <1>9 DEF UpdateRead
<1>10. CASE UpdateWrite
  BY <1>10 DEF UpdateWrite
<1>11. CASE AddIsr
  BY <1>11 DEF AddIsr
<1>12. CASE PowerCycle
  BY <1>12 DEF PowerCycle, Start
<1>13. ASSUME NEW time \in NewTimes, ConfigureAlone(time) PROVE DriftInv'
  BY <1>13 DEF ConfigureAlone
<1>14. CASE UpdateMisread
  BY <1>14 DEF UpdateMisread
<1>15. CASE UNCHANGED vars
  BY <1>15 DEF vars
<1> QED
  BY <1>1, <1>2, <1>3, <1>4, <1>5, <1>6, <1>7, <1>8, <1>9, <1>10, <1>11, <1>12,
     <1>13, <1>14, <1>15 DEF Next

LEMMA DriftAlways == Spec => []DriftInv
BY DriftStart, DriftStep, PTL DEF Spec

-----------------------------------------------------------------------------
\* The variables of the clock keep their types, and _rtc_mutex is held exactly
\* while its holder works: update_local_clock_1s_handler and
\* update_local_clock_with_rtc.
THEOREM ClockTypeCorrect == Spec => []TypeOK
<1>1. DriftInv => TypeOK
  BY DEF DriftInv
<1> QED
  BY <1>1, DriftAlways, PTL

\* The local clock of the gateway never gets more than a second ahead of the
\* module (two if the mutex can be held for a second), for every sequence of
\* configurations.
THEOREM ClockNeverAhead == Spec => []NeverAhead
<1>1. DriftInv => NeverAhead
  BY DEF DriftInv
<1> QED
  BY <1>1, DriftAlways, PTL

\* No tick is lost after gpio_isr_handler_add, and a configuration makes up
\* for the one that may be lost before.
THEOREM ClockNeverBehind == Spec => []NeverBehind
<1>1. DriftInv => NeverBehind
  BY DEF DriftInv
<1> QED
  BY <1>1, DriftAlways, PTL

-----------------------------------------------------------------------------
(* The registers beside the clock *)

\* Every step of the gateway with its module is a step of RealTimeClock, or
\* does not concern it, so that what is proved of RealTimeClock holds here.
THEOREM ModuleImplementsClock == ModuleSpec => Spec
<1>1. ModuleInit => Init
  BY DEF ModuleInit
<1>2. [ModuleNext]_moduleVars => [Next]_vars
  <2> SUFFICES ASSUME [ModuleNext]_moduleVars PROVE [Next]_vars
    OBVIOUS
  <2>1. CASE BatteryDay
    BY <2>1 DEF BatteryDay
  <2>2. CASE Begin
    BY <2>2 DEF Begin
  <2>3. CASE ModuleTick
    BY <2>3 DEF ModuleTick, Next
  <2>4. CASE CountDate
    BY <2>4 DEF CountDate, Next
  <2>5. ASSUME NEW time \in NewTimes, ModuleConfigure(time) PROVE [Next]_vars
    BY <2>5 DEF ModuleConfigure, Next
  <2>6. CASE ReadDate
    BY <2>6 DEF ReadDate, Next
  <2>7. CASE WriteDate
    BY <2>7 DEF WriteDate, Next
  <2>8. CASE OtherStep
    BY <2>8 DEF OtherStep, Next
  <2>9. CASE ModulePowerCycle
    BY <2>9 DEF ModulePowerCycle, Next
  <2>10. CASE MisreadDate
    BY <2>10 DEF MisreadDate, Next
  <2>11. CASE UNCHANGED moduleVars
    BY <2>11 DEF moduleVars
  <2> QED
    BY <2>1, <2>2, <2>3, <2>4, <2>5, <2>6, <2>7, <2>8, <2>9, <2>10, <2>11
       DEF ModuleNext
<1> QED
  BY <1>1, <1>2, PTL DEF ModuleSpec, Spec

-----------------------------------------------------------------------------
(* The module's calendar *)

\* The registers of the time hold a date.
Holds(regs, dt) ==
  /\ regs[0] = Coded(dt.ss) /\ regs[1] = Coded(dt.mm) /\ regs[2] = Coded(dt.hh)
  /\ regs[4] = Coded(dt.d) /\ regs[5] = Coded(dt.m) /\ regs[6] = Coded(dt.yOff)

\* And beside it the day of the week of day a.
HoldsWeekday(regs, a) == regs[3] = dowToDS3231((a + 6) % 7)

\* The module and the driver write two digits in the same way.
LEMMA DecimalCoded ==
  ASSUME NEW n \in 0..99
  PROVE  /\ Coded(n) \in Nat /\ Coded(n) < 256
         /\ Decimal(Coded(n)) = n
         /\ bin2bcd(n) = Coded(n) /\ bcd2bin(Coded(n)) = n
         /\ n < 80 => Coded(n) % 128 = Coded(n)
<1>1. PICK t \in 0..9, u \in 0..9 : n = 10 * t + u
  <2>1. n \div 10 \in 0..9 /\ n % 10 \in 0..9 /\ n = 10 * (n \div 10) + (n % 10)
    OBVIOUS
  <2> QED
    BY <2>1
<1>2. n \div 10 = t /\ n % 10 = u
  BY <1>1
<1>3. Coded(n) = 16 * t + u
  BY <1>2 DEF Coded
<1>4. (16 * t + u) \div 16 = t /\ (16 * t + u) % 16 = u
  OBVIOUS
<1>5. Decimal(Coded(n)) = n
  BY <1>1, <1>3, <1>4 DEF Decimal
<1>6. bin2bcd(n) = Coded(n)
  BY <1>1, <1>2, <1>3 DEF bin2bcd
<1>7. n < 80 => Coded(n) % 128 = Coded(n)
  <2>1. n < 80 => t < 8
    BY <1>1
  <2> QED
    BY <1>3, <2>1
<1> QED
  BY <1>3, <1>5, <1>6, <1>7, BcdRoundTrip

LEMMA MonthsAgree ==
  ASSUME NEW y \in Nat, NEW m \in 1..12
  PROVE  MonthLength(y, m) = DaysOf(m, IsLeap(y))
<1>1. m \in {1, 2, 3, 4, 5, 6, 7, 8, 9, 10, 11, 12}
  OBVIOUS
<1> QED
  BY <1>1 DEF MonthLength, DaysOf, DaysPerMonth, daysInMonth, IsLeap

\* The day after a day: in its month, on the first of the next, or of the next
\* year.
LEMMA DayAfter ==
  ASSUME NEW n, NEW y, NEW m, NEW d, IsDay(n, y, m, d)
  PROVE  /\ d # MonthLength(y, m) => IsDay(n + 1, y, m, d + 1)
         /\ d = MonthLength(y, m) /\ m # 12 => IsDay(n + 1, y, m + 1, 1)
         /\ d = MonthLength(y, m) /\ m = 12 => IsDay(n + 1, y + 1, 1, 1)
<1> DEFINE leap == IsLeap(y)
           days == DaysOf(m, leap)
<1>1. /\ y \in Nat /\ m \in 1..12 /\ d \in 1..days
      /\ n = YearStart(y) + StartOfMonth(m, leap) + d - 1
  BY DEF IsDay
<1>2. MonthLength(y, m) = days
  BY <1>1, MonthsAgree
<1>3. /\ leap \in BOOLEAN /\ YearStart(y) \in Nat
      /\ StartOfMonth(m, leap) \in Nat /\ days \in 28..31
  BY <1>1, YearLengths, MonthLengths DEF IsLeap
<1>4. CASE d # days
  <2>1. d + 1 \in 1..days /\ n + 1 = YearStart(y) + StartOfMonth(m, leap) + (d + 1) - 1
    <3> HIDE DEF leap, days
    <3> QED
      BY <1>1, <1>3, <1>4
  <2> QED
    BY <1>1, <1>2, <1>4, <2>1 DEF IsDay
<1>5. CASE d = days /\ m # 12
  <2>1. /\ m + 1 \in 1..12 /\ 1 \in 1..DaysOf(m + 1, leap)
        /\ StartOfMonth(m + 1, leap) = StartOfMonth(m, leap) + days
    BY <1>1, <1>3, <1>5, MonthLengths
  <2>2. n + 1 = YearStart(y) + StartOfMonth(m + 1, leap) + 1 - 1
    <3> HIDE DEF leap, days
    <3> QED
      BY <1>1, <1>3, <1>5, <2>1
  <2> QED
    BY <1>1, <1>2, <1>5, <2>1, <2>2 DEF IsDay
<1>6. CASE d = days /\ m = 12
  <2>1. /\ y + 1 \in Nat /\ IsLeap(y + 1) \in BOOLEAN
        /\ YearStart(y + 1) = YearStart(y) + IF leap THEN 366 ELSE 365
    BY <1>1, YearLengths DEF YearLength, IsLeap
  <2>2. StartOfMonth(12, leap) + days = IF leap THEN 366 ELSE 365
    BY <1>3, <1>6, MonthLengths
  <2>3. /\ StartOfMonth(1, IsLeap(y + 1)) = 0
        /\ DaysOf(1, IsLeap(y + 1)) \in 28..31
    BY <2>1, MonthLengths
  <2>4. n + 1 = YearStart(y + 1) + 0 + 1 - 1
    <3> HIDE DEF leap, days
    <3> QED
      BY <1>1, <1>3, <1>6, <2>1, <2>2
  <2> QED
    BY <1>2, <1>6, <2>1, <2>3, <2>4 DEF IsDay
<1> QED
  BY <1>2, <1>4, <1>5, <1>6

\* The date a day later, as the module makes it.
NextDate(dt) ==
  LET newMonth == dt.d = MonthLength(dt.yOff, dt.m)
      newYear  == newMonth /\ dt.m = 12
  IN  [yOff |-> IF newYear THEN dt.yOff + 1 ELSE dt.yOff,
       m |-> IF newYear THEN 1 ELSE IF newMonth THEN dt.m + 1 ELSE dt.m,
       d |-> IF newMonth THEN 1 ELSE dt.d + 1,
       hh |-> dt.hh, mm |-> dt.mm, ss |-> dt.ss]

LEMMA NextDateIsNext ==
  ASSUME NEW dt, NEW a, NEW b, IsDate(dt, a, b)
  PROVE  IsDate(NextDate(dt), a + 1, b)
<1>1. /\ IsDay(a, dt.yOff, dt.m, dt.d)
      /\ dt.hh \in 0..23 /\ dt.mm \in 0..59 /\ dt.ss \in 0..59
      /\ (dt.hh * 60 + dt.mm) * 60 + dt.ss = b
  BY DEF IsDate
<1>2. IsDay(a + 1, NextDate(dt).yOff, NextDate(dt).m, NextDate(dt).d)
  BY <1>1, DayAfter DEF NextDate
<1>3. /\ NextDate(dt).hh = dt.hh /\ NextDate(dt).mm = dt.mm
      /\ NextDate(dt).ss = dt.ss
      /\ NextDate(dt) = [yOff |-> NextDate(dt).yOff, m |-> NextDate(dt).m,
                         d |-> NextDate(dt).d, hh |-> NextDate(dt).hh,
                         mm |-> NextDate(dt).mm, ss |-> NextDate(dt).ss]
  BY DEF NextDate
<1> QED
  BY <1>1, <1>2, <1>3 DEF IsDate

\* The fields of a date of the century have two digits.
LEMMA TwoDigitFields ==
  ASSUME NEW dt, NEW a, NEW b, IsDate(dt, a, b), a < 36525
  PROVE  /\ dt.yOff \in 0..99 /\ dt.m \in 1..12 /\ dt.d \in 1..31
         /\ dt.hh \in 0..23 /\ dt.mm \in 0..59 /\ dt.ss \in 0..59
         /\ a \in Nat /\ b \in Nat /\ b < 86400
<1>1. /\ IsDay(a, dt.yOff, dt.m, dt.d)
      /\ dt.hh \in 0..23 /\ dt.mm \in 0..59 /\ dt.ss \in 0..59
      /\ (dt.hh * 60 + dt.mm) * 60 + dt.ss = b
  BY DEF IsDate
<1>2. /\ dt.m \in 1..12 /\ dt.d \in 1..31 /\ dt.yOff \in Nat /\ a \in Nat
      /\ YearStart(dt.yOff) <= a
  BY <1>1, DayInYear DEF IsDay, InYear
<1>3. dt.yOff \in 0..99
  <2> DEFINE y == dt.yOff
  <2>1. y > 99 => YearStart(99 + 1) <= YearStart(y)
    BY <1>2, YearsInOrder
  <2>2. YearStart(100) = 36525
    BY DEF YearStart
  <2>3. YearStart(y) \in Nat
    BY <1>2, YearLengths
  <2> QED
    BY <1>2, <2>1, <2>2, <2>3
<1>4. b \in Nat /\ b < 86400
  <2> DEFINE h == dt.hh
             m == dt.mm
             s == dt.ss
  <2>1. h \in 0..23 /\ m \in 0..59 /\ s \in 0..59 /\ (h * 60 + m) * 60 + s = b
    BY <1>1
  <2> HIDE DEF h, m, s
  <2> QED
    BY <2>1
<1> QED
  BY <1>1, <1>2, <1>3, <1>4

\* The module's day.
LEMMA NextDayRegisters ==
  ASSUME NEW regs, NEW dt, NEW a, NEW b, IsDate(dt, a, b), a < 36525,
         Holds(regs, dt)
  PROVE  /\ Holds(NextDay(regs), NextDate(dt))
         /\ HoldsWeekday(regs, a) => HoldsWeekday(NextDay(regs), a + 1)
         /\ \A r \in 7..15 : NextDay(regs)[r] = regs[r]
         /\ \A r \in 0..2 : NextDay(regs)[r] = regs[r]
<1> DEFINE y == dt.yOff
           m == dt.m
           d == dt.d
           newMonth == d = MonthLength(y, m)
           newYear == newMonth /\ m = 12
           bytes == <<(regs[3] % 7) + 1,
                      Coded(IF newMonth THEN 1 ELSE d + 1),
                      Coded(IF newYear THEN 1 ELSE IF newMonth THEN m + 1 ELSE m),
                      Coded(IF newYear THEN y + 1 ELSE y)>>
<1>1. y \in 0..99 /\ m \in 1..12 /\ d \in 1..31 /\ a \in Nat
  BY TwoDigitFields
<1>2. regs[4] = Coded(d) /\ regs[5] = Coded(m) /\ regs[6] = Coded(y)
  BY DEF Holds
<1>3. /\ Decimal(regs[4]) = d /\ Decimal(regs[5] % 128) = m
      /\ Decimal(regs[6]) = y
  <2>1. \A n \in 0..99 : Decimal(Coded(n)) = n /\ (n < 80 => Coded(n) % 128 = Coded(n))
    BY DecimalCoded
  <2>2. y \in 0..99 /\ m \in 0..99 /\ m < 80 /\ d \in 0..99
    BY <1>1
  <2> QED
    BY <1>2, <2>1, <2>2
<1>4. NextDay(regs) = Write(regs, 3, bytes)
  BY <1>3 DEF NextDay
<1>5. Len(bytes) = 4
  OBVIOUS
<1>6. /\ bytes[1] = (regs[3] % 7) + 1 /\ bytes[2] = Coded(NextDate(dt).d)
      /\ bytes[3] = Coded(NextDate(dt).m) /\ bytes[4] = Coded(NextDate(dt).yOff)
  BY DEF NextDate
<1> HIDE DEF bytes
<1>7. NextDay(regs) = [r \in 0..15 |-> IF r \in 3..6 THEN bytes[r - 2] ELSE regs[r]]
  <2>1. \A r \in 0..15 : r - 3 + 1 = r - 2
    OBVIOUS
  <2> QED
    BY <1>4, <1>5, <2>1 DEF Write, Registers
<1>8. /\ NextDay(regs)[3] = bytes[1] /\ NextDay(regs)[4] = bytes[2]
      /\ NextDay(regs)[5] = bytes[3] /\ NextDay(regs)[6] = bytes[4]
  BY <1>7
<1>9. \A r \in (0..2) \cup (7..15) : NextDay(regs)[r] = regs[r]
  BY <1>7
<1>10. Holds(NextDay(regs), NextDate(dt))
  <2>1. /\ NextDate(dt).hh = dt.hh /\ NextDate(dt).mm = dt.mm
        /\ NextDate(dt).ss = dt.ss
    BY DEF NextDate
  <2>2. /\ NextDay(regs)[0] = Coded(dt.ss) /\ NextDay(regs)[1] = Coded(dt.mm)
        /\ NextDay(regs)[2] = Coded(dt.hh)
    BY <1>9 DEF Holds
  <2> QED
    BY <1>6, <1>8, <2>1, <2>2 DEF Holds
<1>11. HoldsWeekday(regs, a) => HoldsWeekday(NextDay(regs), a + 1)
  <2> SUFFICES ASSUME HoldsWeekday(regs, a) PROVE HoldsWeekday(NextDay(regs), a + 1)
    OBVIOUS
  <2> DEFINE w == (a + 6) % 7
             v == (a + 1 + 6) % 7
  <2>1. w \in 0..6 /\ v = IF w = 6 THEN 0 ELSE w + 1
    BY <1>1
  <2>2. regs[3] = IF w = 0 THEN 7 ELSE w
    BY DEF HoldsWeekday, dowToDS3231
  <2> HIDE DEF w, v
  <2>3. (regs[3] % 7) + 1 = IF v = 0 THEN 7 ELSE v
    <3>1. w \in {0, 1, 2, 3, 4, 5, 6}
      BY <2>1
    <3> QED
      BY <2>1, <2>2, <3>1
  <2> QED
    BY <1>6, <1>8, <2>3 DEF HoldsWeekday, dowToDS3231, v
<1> QED
  BY <1>9, <1>10, <1>11

\* The module's second, with its carry into the day.
LEMMA NextSecondRegisters ==
  ASSUME NEW regs, NEW dt, NEW a, NEW b, IsDate(dt, a, b), a < 36525,
         Holds(regs, dt)
  PROVE  LET e == IF b = 86399 THEN a + 1 ELSE a
             t == IF b = 86399 THEN 0 ELSE b + 1
         IN  /\ \E du : IsDate(du, e, t) /\ Holds(NextSecond(regs), du)
             /\ HoldsWeekday(regs, a) => HoldsWeekday(NextSecond(regs), e)
             /\ \A r \in 7..15 : NextSecond(regs)[r] = regs[r]
<1> DEFINE e == IF b = 86399 THEN a + 1 ELSE a
           t == IF b = 86399 THEN 0 ELSE b + 1
           base == IF t = 0 THEN NextDay(regs) ELSE regs
           bdt == IF t = 0 THEN NextDate(dt) ELSE dt
           ss == t % 60
           mm == (t \div 60) % 60
           hh == t \div 3600
           du == [yOff |-> bdt.yOff, m |-> bdt.m, d |-> bdt.d,
                  hh |-> hh, mm |-> mm, ss |-> ss]
           time == <<Coded(ss), Coded(mm), Coded(hh)>>
<1>1. /\ a \in Nat /\ b \in Nat /\ b < 86400
      /\ dt.hh \in 0..23 /\ dt.mm \in 0..59 /\ dt.ss \in 0..59
  BY TwoDigitFields
<1>2. t \in Nat /\ t < 86400 /\ (t = 0 <=> b = 86399)
  BY <1>1
<1>3. Decimal(regs[0]) + 60 * Decimal(regs[1]) + 3600 * Decimal(regs[2]) + 1 = b + 1
  <2>1. /\ Decimal(regs[0]) = dt.ss /\ Decimal(regs[1]) = dt.mm
        /\ Decimal(regs[2]) = dt.hh
    <3>1. dt.hh \in 0..99 /\ dt.mm \in 0..99 /\ dt.ss \in 0..99
      BY <1>1
    <3>2. \A n \in 0..99 : Decimal(Coded(n)) = n
      BY DecimalCoded
    <3> QED
      BY <3>1, <3>2 DEF Holds
  <2>2. (dt.hh * 60 + dt.mm) * 60 + dt.ss = b
    BY DEF IsDate
  <2> DEFINE h == dt.hh
             m == dt.mm
             s == dt.ss
  <2>3. h \in 0..23 /\ m \in 0..59 /\ s \in 0..59 /\ (h * 60 + m) * 60 + s = b
    BY <1>1, <2>2
  <2> HIDE DEF h, m, s
  <2>4. s + 60 * m + 3600 * h + 1 = b + 1
    BY <2>3
  <2> QED
    BY <2>1, <2>4 DEF h, m, s
<1>4. (b + 1) % SecondsPerDay = t
  <2>1. b = 86399 => (b + 1) % 86400 = 0
    OBVIOUS
  <2>2. b < 86399 => (b + 1) % 86400 = b + 1
    BY <1>1
  <2> QED
    BY <1>1, <2>1, <2>2 DEF SecondsPerDay
<1>5. NextSecond(regs) = Write(base, TIME, time)
  BY <1>3, <1>4 DEF NextSecond
<1>6. /\ hh \in 0..23 /\ mm \in 0..59 /\ ss \in 0..59
      /\ (hh * 60 + mm) * 60 + ss = t
  BY <1>2, TimeOfDay
<1>7. /\ IsDate(bdt, e, b) /\ Holds(base, bdt)
      /\ HoldsWeekday(regs, a) => HoldsWeekday(base, e)
      /\ \A r \in 7..15 : base[r] = regs[r]
  <2>1. CASE t = 0
    BY <1>2, <2>1, NextDateIsNext, NextDayRegisters
  <2>2. CASE t # 0
    BY <1>2, <2>2
  <2> QED
    BY <2>1, <2>2
<1> HIDE DEF base, bdt, hh, mm, ss, t, e
<1>8. IsDate(du, e, t)
  BY <1>6, <1>7 DEF IsDate
<1>9. NextSecond(regs) = [r \in 0..15 |-> IF r \in 0..2 THEN time[r + 1] ELSE base[r]]
  <2>1. Len(time) = 3
    OBVIOUS
  <2>2. \A r \in 0..15 : r - 0 + 1 = r + 1
    OBVIOUS
  <2> HIDE DEF time
  <2> QED
    BY <1>5, <2>1, <2>2 DEF Write, Registers, TIME
<1>10. /\ NextSecond(regs)[0] = Coded(ss) /\ NextSecond(regs)[1] = Coded(mm)
       /\ NextSecond(regs)[2] = Coded(hh)
       /\ \A r \in 3..15 : NextSecond(regs)[r] = base[r]
  BY <1>9
<1>11. Holds(NextSecond(regs), du)
  BY <1>7, <1>10 DEF Holds
<1>12. HoldsWeekday(regs, a) => HoldsWeekday(NextSecond(regs), e)
  BY <1>7, <1>10 DEF HoldsWeekday
<1>13. \A r \in 7..15 : NextSecond(regs)[r] = regs[r]
  BY <1>7, <1>10
<1> QED
  BY <1>8, <1>11, <1>12, <1>13 DEF e, t

\* What the driver reads is the date the registers hold.
LEMMA NowReads ==
  ASSUME NEW regs, NEW dt, NEW a, NEW b, IsDate(dt, a, b), a < 36525,
         Holds(regs, dt)
  PROVE  now(regs) = dt
<1>1. /\ dt.yOff \in 0..99 /\ dt.m \in 1..12 /\ dt.d \in 1..31
      /\ dt.hh \in 0..23 /\ dt.mm \in 0..59 /\ dt.ss \in 0..59
  BY TwoDigitFields
<1>2. \A n \in 0..99 : bcd2bin(Coded(n)) = n /\ (n < 80 => Coded(n) % 128 = Coded(n))
  BY DecimalCoded
<1>3. /\ bcd2bin(Coded(dt.yOff)) = dt.yOff /\ bcd2bin(Coded(dt.m) % 128) = dt.m
      /\ bcd2bin(Coded(dt.d)) = dt.d /\ bcd2bin(Coded(dt.hh)) = dt.hh
      /\ bcd2bin(Coded(dt.mm)) = dt.mm /\ bcd2bin(Coded(dt.ss) % 128) = dt.ss
  <2>1. /\ dt.yOff \in 0..99 /\ dt.m \in 0..99 /\ dt.m < 80 /\ dt.d \in 0..99
        /\ dt.hh \in 0..99 /\ dt.mm \in 0..99 /\ dt.ss \in 0..99 /\ dt.ss < 80
    BY <1>1
  <2> QED
    BY <1>2, <2>1
<1>4. now(regs) = Date(bcd2bin(regs[6]) + 2000, bcd2bin(regs[5] % 128), bcd2bin(regs[4]),
                       bcd2bin(regs[2]), bcd2bin(regs[1]), bcd2bin(regs[0] % 128))
  BY DEF now, DateIn, ReadFrom, TIME
<1>5. now(regs) = Date(dt.yOff + 2000, dt.m, dt.d, dt.hh, dt.mm, dt.ss)
  BY <1>3, <1>4 DEF Holds
<1> DEFINE y == dt.yOff
           z == y + 2000
<1>6. (IF z >= 2000 THEN z - 2000 ELSE z) % 256 = y
  <2> HIDE DEF y
  <2> QED
    BY <1>1 DEF y
<1> HIDE DEF z
<1>7. Date(z, dt.m, dt.d, dt.hh, dt.mm, dt.ss) =
        [yOff |-> y, m |-> dt.m, d |-> dt.d,
         hh |-> dt.hh, mm |-> dt.mm, ss |-> dt.ss]
  BY <1>6 DEF Date
<1>8. dt = [yOff |-> dt.yOff, m |-> dt.m, d |-> dt.d,
            hh |-> dt.hh, mm |-> dt.mm, ss |-> dt.ss]
  BY DEF IsDate
<1> QED
  BY <1>5, <1>7, <1>8 DEF z

\* What adjust writes is the date, and the day of the week.
LEMMA AdjustWrites ==
  ASSUME NEW regs, NEW dt, NEW a, NEW b, IsDate(dt, a, b), a < 36525
  PROVE  /\ Holds(SetTime(regs, dt), dt)
         /\ HoldsWeekday(SetTime(regs, dt), a)
         /\ \A r \in 7..15 : SetTime(regs, dt)[r] = regs[r]
<1>1. /\ dt.yOff \in 0..99 /\ dt.m \in 1..12 /\ dt.d \in 1..31
      /\ dt.hh \in 0..23 /\ dt.mm \in 0..59 /\ dt.ss \in 0..59 /\ a \in Nat
  BY TwoDigitFields
<1>2. Holds(SetTime(regs, dt), dt)
  <2>1. /\ dt.yOff \in 0..99 /\ dt.m \in 0..99 /\ dt.d \in 0..99
        /\ dt.hh \in 0..99 /\ dt.mm \in 0..99 /\ dt.ss \in 0..99
    BY <1>1
  <2>2. \A n \in 0..99 : bin2bcd(n) = Coded(n)
    BY DecimalCoded
  <2> QED
    BY <2>1, <2>2, TimeRegisters DEF Holds
<1>3. dayOfTheWeek(dt) = (a + 6) % 7
  <2>1. date2days(dt.yOff, dt.m, dt.d) = a % 65536
    BY DaysAreCounted DEF IsDate
  <2>2. a % 65536 = a
    BY <1>1
  <2> QED
    BY <2>1, <2>2 DEF dayOfTheWeek
<1> DEFINE dow == dowToDS3231(dayOfTheWeek(dt))
           bytes == <<bin2bcd(dt.ss), bin2bcd(dt.mm), bin2bcd(dt.hh),
                      bin2bcd(dow), bin2bcd(dt.d), bin2bcd(dt.m),
                      bin2bcd(dt.yOff)>>
<1>4. dow \in 1..7
  <2>1. (a + 6) % 7 \in 0..6
    BY <1>1
  <2> QED
    BY <1>3, <2>1 DEF dowToDS3231
<1>5. SetTime(regs, dt) = Write(regs, TIME, bytes)
  BY DEF SetTime
<1> HIDE DEF dow
<1>6. Len(bytes) = 7 /\ bytes[4] = bin2bcd(dow)
  OBVIOUS
<1> HIDE DEF bytes
<1>7. /\ SetTime(regs, dt)[3] = bytes[4]
      /\ \A r \in 7..15 : SetTime(regs, dt)[r] = regs[r]
  BY <1>5, <1>6 DEF Write, TIME, Registers
<1>8. bin2bcd(dow) = dow
  BY <1>4 DEF bin2bcd
<1> QED
  BY <1>2, <1>3, <1>6, <1>7, <1>8 DEF HoldsWeekday, dow

-----------------------------------------------------------------------------
(* The registers and both forms of the local time *)

\* Time n as a day since 2000 and a second of it.
DayOf(n)    == day - Days1970To2000 + (StartSecond + n) \div SecondsPerDay
SecondOf(n) == (StartSecond + n) % SecondsPerDay

\* A gateway that is off has not begun.
PowerOff == ~on => ~isr /\ callPc \in {"take", "alone"}

\* The module is within its bounds and its registers hold its time; its pin gives
\* the seconds from the first begin on whose write has reached it.
ModuleHolds ==
  /\ day \in Nat /\ Days1970To2000 <= day /\ day <= LastDay
  /\ hw <= MaxTime \/ hw \in NewTimes
  /\ Holds(mem, DateTime(Moment(hw)))
  /\ set => HoldsWeekday(mem, DayOf(hw))
  /\ mem[CONTROL] \in Byte /\ mem[STATUSREG] \in Byte
  /\ on => (pin <=> PinGives(mem))
  /\ ~on => mem[CONTROL] = OFF

\* What the caller has read, and what the clock holds from a reading on, is a date
\* with its seconds.
DatesHold ==
  /\ callPc = "write" => seenDate = DateTime(Moment(seen))
  /\ (isr \/ callPc = "isr") /\ ~misread => date = DateTime(Moment(seconds))

CalendarInv == PowerOff /\ ModuleHolds /\ DatesHold

LEMMA SecondsCarry ==
  ASSUME NEW x \in Nat
  PROVE  /\ x \div SecondsPerDay \in Nat
         /\ x % SecondsPerDay \in Nat /\ x % SecondsPerDay < 86400
         /\ x % SecondsPerDay = 86399 =>
              /\ (x + 1) \div SecondsPerDay = (x \div SecondsPerDay) + 1
              /\ (x + 1) % SecondsPerDay = 0
         /\ x % SecondsPerDay # 86399 =>
              /\ (x + 1) \div SecondsPerDay = x \div SecondsPerDay
              /\ (x + 1) % SecondsPerDay = (x % SecondsPerDay) + 1
<1>1. /\ x \div 86400 \in Nat /\ x % 86400 \in Nat /\ x % 86400 < 86400
      /\ x = 86400 * (x \div 86400) + (x % 86400)
  OBVIOUS
<1>2. PICK q \in Nat, r \in Nat : /\ q = x \div 86400 /\ r = x % 86400
                                  /\ x = 86400 * q + r /\ r < 86400
  BY <1>1
<1>3. CASE r = 86399
  <2>1. x + 1 = 86400 * (q + 1)
    BY <1>2, <1>3
  <2>2. (86400 * (q + 1)) \div 86400 = q + 1 /\ (86400 * (q + 1)) % 86400 = 0
    OBVIOUS
  <2> QED
    BY <1>2, <1>3, <2>1, <2>2 DEF SecondsPerDay
<1>4. CASE r # 86399
  <2>1. x + 1 = 86400 * q + (r + 1) /\ r + 1 \in Nat /\ r + 1 < 86400
    BY <1>2, <1>4
  <2>2. (x + 1) \div 86400 = q /\ (x + 1) % 86400 = r + 1
    BY <2>1
  <2> QED
    BY <1>2, <1>4, <2>2 DEF SecondsPerDay
<1> QED
  BY <1>3, <1>4

\* Time n of a gateway whose day is k.
LEMMA MomentHasDate ==
  ASSUME NEW k \in Nat, NEW n \in Nat, Days1970To2000 <= k,
         k + (StartSecond + n) \div SecondsPerDay < Days1970To2000 + 36525
  PROVE  LET a == k - Days1970To2000 + (StartSecond + n) \div SecondsPerDay
             b == (StartSecond + n) % SecondsPerDay
             t == Seconds(k, StartSecond + n)
         IN  /\ a \in Nat /\ a < 36525 /\ b \in Nat /\ b < 86400
             /\ t = Pair(a + 10957, b) /\ UInt32(a + 10957, b)
             /\ IsDate(DateTime(t), a, b)
<1> DEFINE q == (StartSecond + n) \div SecondsPerDay
           a == k - Days1970To2000 + q
           b == (StartSecond + n) % SecondsPerDay
           t == Seconds(k, StartSecond + n)
<1>1. StartSecond + n \in Nat
  BY ModuleAssumption DEF ModuleAssumption, SecondsPerDay
<1>2. q \in Nat /\ b \in Nat /\ b < 86400
  BY <1>1, SecondsCarry
<1>3. t = Pair(k + q, b)
  BY DEF Seconds, Pair
<1> HIDE DEF q, b, t
<1>4. a \in Nat /\ a < 36525 /\ k + q = a + 10957
  BY <1>2 DEF Days1970To2000, q
<1> HIDE DEF a
<1>5. UInt32(a, b) /\ UInt32(a + 10957, b)
  BY <1>2, <1>4 DEF UInt32
<1>6. Minus(t, Epoch) = Pair(a, b)
  <2>1. Minus(Pair(a + 10957, b), Epoch) = Pair(a + 10957 - 10957, b)
    BY <1>4, <1>5, EpochMoves
  <2>2. a + 10957 - 10957 = a
    BY <1>4
  <2> QED
    BY <1>3, <1>4, <2>1, <2>2
<1>7. IsDate(DateTime(t), a, b)
  BY <1>5, <1>6, DateOfSeconds
<1> QED
  BY <1>2, <1>3, <1>4, <1>5, <1>7 DEF q, a, b, t

\* The module's time stays in the century.
LEMMA TimesInCentury ==
  ASSUME NEW k \in Nat, k <= LastDay, NEW n \in Nat, n <= MaxTime \/ n \in NewTimes
  PROVE  k + (StartSecond + n) \div SecondsPerDay < Days1970To2000 + 36525
<1>1. /\ StartSecond \in Nat /\ LastDay \in Nat /\ MaxTime \in Nat
  BY ModuleAssumption, ClockAssumption
     DEF ModuleAssumption, ClockAssumption, SecondsPerDay
<1>2. CASE n \in NewTimes
  <2>1. LastDay + (StartSecond + n) \div SecondsPerDay < Days1970To2000 + 36525
    BY <1>2, CenturyAssumption DEF CenturyAssumption
  <2>2. (StartSecond + n) \div SecondsPerDay \in Nat
    BY <1>1, SecondsCarry
  <2> QED
    BY <1>1, <2>1, <2>2 DEF Days1970To2000
<1>3. CASE n <= MaxTime
  <2>1. LastDay + (StartSecond + MaxTime) \div SecondsPerDay < Days1970To2000 + 36525
    BY <1>1, CenturyAssumption DEF CenturyAssumption
  <2>2. /\ (StartSecond + n) \div SecondsPerDay \in Nat
        /\ (StartSecond + MaxTime) \div SecondsPerDay \in Nat
    BY <1>1, SecondsCarry
  <2>3. (StartSecond + n) \div SecondsPerDay <= (StartSecond + MaxTime) \div SecondsPerDay
    <3>1. StartSecond + n <= StartSecond + MaxTime
      BY <1>1, <1>3
    <3>2. \A x \in Nat, y \in Nat : x <= y => x \div 86400 <= y \div 86400
      OBVIOUS
    <3> QED
      BY <1>1, <3>1, <3>2 DEF SecondsPerDay
  <2> QED
    BY <1>1, <2>1, <2>2, <2>3 DEF Days1970To2000
<1> QED
  BY <1>2, <1>3

\* What the registers hold is the date of the module's time, and the driver
\* reads it.
LEMMA ModuleNow ==
  ASSUME TypeOK, ModuleHolds
  PROVE  LET dt == DateTime(Moment(hw))
         IN  /\ DayOf(hw) \in Nat /\ DayOf(hw) < 36525
             /\ SecondOf(hw) \in Nat /\ SecondOf(hw) < 86400
             /\ Moment(hw) = Pair(DayOf(hw) + 10957, SecondOf(hw))
             /\ UInt32(DayOf(hw) + 10957, SecondOf(hw))
             /\ IsDate(dt, DayOf(hw), SecondOf(hw)) /\ now(mem) = dt
<1>1. /\ hw \in Nat /\ day \in Nat /\ Days1970To2000 <= day /\ day <= LastDay
      /\ hw <= MaxTime \/ hw \in NewTimes
  BY DEF TypeOK, ModuleHolds
<1>2. day + (StartSecond + hw) \div SecondsPerDay < Days1970To2000 + 36525
  BY <1>1, TimesInCentury
<1>3. /\ DayOf(hw) \in Nat /\ DayOf(hw) < 36525
      /\ SecondOf(hw) \in Nat /\ SecondOf(hw) < 86400
      /\ Moment(hw) = Pair(DayOf(hw) + 10957, SecondOf(hw))
      /\ UInt32(DayOf(hw) + 10957, SecondOf(hw))
      /\ IsDate(DateTime(Moment(hw)), DayOf(hw), SecondOf(hw))
  BY <1>1, <1>2, MomentHasDate DEF Moment, DayOf, SecondOf
<1>4. now(mem) = DateTime(Moment(hw))
  BY <1>3, NowReads DEF ModuleHolds
<1> QED
  BY <1>3, <1>4

LEMMA CalendarStart == ModuleInit => CalendarInv
<1> SUFFICES ASSUME ModuleInit PROVE CalendarInv
  OBVIOUS
<1>1. /\ hw = 0 /\ ~on /\ day = Days1970To2000 /\ mem = FirstRegisters /\ ~set
      /\ ~isr /\ callPc \in {"take", "alone"}
  BY DEF ModuleInit, Init
<1>2. /\ StartSecond \in Nat /\ StartSecond < 86400 /\ LastDay \in Nat
      /\ MaxTime \in Nat
  BY ModuleAssumption, ClockAssumption
     DEF ModuleAssumption, ClockAssumption, SecondsPerDay
<1> DEFINE ss == StartSecond % 60
           mm == (StartSecond \div 60) % 60
           hh == StartSecond \div 3600
           dt == [yOff |-> 0, m |-> 1, d |-> 1, hh |-> hh, mm |-> mm, ss |-> ss]
<1>3. /\ hh \in 0..23 /\ mm \in 0..59 /\ ss \in 0..59
      /\ (hh * 60 + mm) * 60 + ss = StartSecond
  BY <1>2, TimeOfDay
<1>4. IsDay(0, 0, 1, 1)
  <2>1. YearStart(0) = 0
    BY YearLengths
  <2>2. IsLeap(0) \in BOOLEAN
    BY DEF IsLeap
  <2>3. StartOfMonth(1, IsLeap(0)) = 0 /\ DaysOf(1, IsLeap(0)) \in 28..31
    BY <2>2, MonthLengths
  <2> QED
    BY <2>1, <2>3 DEF IsDay
<1> HIDE DEF hh, mm, ss
<1>5. IsDate(dt, 0, StartSecond)
  BY <1>3, <1>4 DEF IsDate
<1>6. IsDate(DateTime(Moment(0)), 0, StartSecond)
  <2>1. StartSecond + 0 = StartSecond /\ 0 \in Nat
    BY <1>2
  <2>2. StartSecond \div SecondsPerDay = 0 /\ StartSecond % SecondsPerDay = StartSecond
    BY <1>2 DEF SecondsPerDay
  <2>3. Days1970To2000 + (StartSecond + 0) \div SecondsPerDay < Days1970To2000 + 36525
    BY <2>1, <2>2 DEF Days1970To2000
  <2>4. Days1970To2000 - Days1970To2000 + (StartSecond + 0) \div SecondsPerDay = 0
    BY <2>1, <2>2 DEF Days1970To2000
  <2>5. Days1970To2000 \in Nat /\ Days1970To2000 <= Days1970To2000
    BY DEF Days1970To2000
  <2>6. IsDate(DateTime(Seconds(Days1970To2000, StartSecond + 0)),
               Days1970To2000 - Days1970To2000 + (StartSecond + 0) \div SecondsPerDay,
               (StartSecond + 0) % SecondsPerDay)
    BY <2>1, <2>3, <2>5, MomentHasDate
  <2> QED
    BY <1>1, <2>1, <2>2, <2>4, <2>6 DEF Moment
<1>7. DateTime(Moment(0)) = dt
  BY <1>5, <1>6, MomentHasOneDate
<1>8. /\ FirstRegisters[0] = Coded(ss) /\ FirstRegisters[1] = Coded(mm)
      /\ FirstRegisters[2] = Coded(hh)
      /\ FirstRegisters[4] = 1 /\ FirstRegisters[5] = 1 /\ FirstRegisters[6] = 0
      /\ FirstRegisters[14] = OFF /\ FirstRegisters[15] = 136
  <2> DEFINE time == <<Coded(ss), Coded(mm), Coded(hh)>>
             power == [r \in Registers |->
                         IF r \in {3, 4, 5} THEN 1 ELSE IF r = CONTROL THEN OFF
                         ELSE IF r = STATUSREG THEN 136 ELSE 0]
  <2>1. FirstRegisters = Write(power, TIME, time)
    BY DEF FirstRegisters, hh, mm, ss
  <2>2. Len(time) = 3 /\ time[1] = Coded(ss) /\ time[2] = Coded(mm) /\ time[3] = Coded(hh)
    OBVIOUS
  <2>3. /\ power[4] = 1 /\ power[5] = 1 /\ power[6] = 0
        /\ power[14] = OFF /\ power[15] = 136
    BY DEF Registers, CONTROL, STATUSREG
  <2> HIDE DEF time, power
  <2>4. FirstRegisters = [r \in 0..15 |-> IF r \in 0..2 THEN time[r + 1] ELSE power[r]]
    <3>1. \A r \in 0..15 : r - 0 + 1 = r + 1
      OBVIOUS
    <3> QED
      BY <2>1, <2>2, <3>1 DEF Write, Registers, TIME
  <2> QED
    BY <2>2, <2>3, <2>4
<1>9. Holds(mem, DateTime(Moment(hw)))
  <2>1. Coded(1) = 1 /\ Coded(0) = 0
    BY DEF Coded
  <2> QED
    BY <1>1, <1>7, <1>8, <2>1 DEF Holds
<1>10. Days1970To2000 <= LastDay
  BY ModuleAssumption DEF ModuleAssumption
<1>11. ModuleHolds
  BY <1>1, <1>2, <1>8, <1>9, <1>10
     DEF ModuleHolds, CONTROL, STATUSREG, OFF, Byte, Days1970To2000
<1> QED
  BY <1>1, <1>11 DEF CalendarInv, PowerOff, DatesHold

\* The pin given to the square wave of a second, and the stop flag cleared,
\* whatever was read before; the other registers stay.
LEMMA PinGiven ==
  ASSUME NEW regs, NEW ctrl \in Byte
  PROVE  LET after == writeSqwPinMode(regs, ctrl, SquareWave1Hz)
         IN  /\ after[CONTROL] \in Byte /\ PinGives(after)
             /\ \A r \in (0..13) \cup {15} : after[r] = regs[r]
<1> DEFINE c == Clear(Clear(Clear(ctrl, 2), 3), 4)
           after == writeSqwPinMode(regs, ctrl, SquareWave1Hz)
<1>1. after = Write(regs, 14, <<c + 0>>)
  BY DEF writeSqwPinMode, write_register, CONTROL, SquareWave1Hz
<1>2. PICK p \in 0..7, b4 \in 0..1, b3 \in 0..1, b2 \in 0..1, q \in 0..3 :
        ctrl = 32 * p + 16 * b4 + 8 * b3 + 4 * b2 + q
  <2>1. PICK p \in 0..7, f \in 0..31 : ctrl = 32 * p + f
    <3>1. ctrl \div 32 \in 0..7 /\ ctrl % 32 \in 0..31 /\ ctrl = 32 * (ctrl \div 32) + (ctrl % 32)
      BY DEF Byte
    <3> QED
      BY <3>1
  <2>2. PICK b4 \in 0..1, g \in 0..15 : f = 16 * b4 + g
    <3>1. f = 16 * 0 + f \/ f = 16 * 1 + (f - 16)
      OBVIOUS
    <3> QED
      BY <3>1
  <2>3. PICK b3 \in 0..1, h \in 0..7 : g = 8 * b3 + h
    <3>1. g = 8 * 0 + g \/ g = 8 * 1 + (g - 8)
      OBVIOUS
    <3> QED
      BY <3>1
  <2>4. PICK b2 \in 0..1, q \in 0..3 : h = 4 * b2 + q
    <3>1. h = 4 * 0 + h \/ h = 4 * 1 + (h - 4)
      OBVIOUS
    <3> QED
      BY <3>1
  <2> QED
    BY <2>1, <2>2, <2>3, <2>4
<1>3. c = 32 * p + q
  <2>1. Clear(ctrl, 2) = 32 * p + 16 * b4 + 8 * b3 + q
    BY <1>2 DEF Clear, Bit
  <2>2. Clear(32 * p + 16 * b4 + 8 * b3 + q, 3) = 32 * p + 16 * b4 + q
    BY DEF Clear, Bit
  <2>3. Clear(32 * p + 16 * b4 + q, 4) = 32 * p + q
    BY DEF Clear, Bit
  <2> QED
    BY <2>1, <2>2, <2>3
<1> HIDE DEF c, after
<1>4. c \in Byte /\ Bit(c, 2) = 0 /\ 8 * ((c \div 8) % 4) = 0
  BY <1>3 DEF Byte, Bit
<1>5. after = [r \in 0..15 |-> IF r = 14 THEN c ELSE regs[r]]
  <2>1. c + 0 = c
    BY <1>4 DEF Byte
  <2> QED
    BY <1>1, <2>1 DEF Write, Registers
<1>6. after[14] = c /\ \A r \in (0..13) \cup {15} : after[r] = regs[r]
  BY <1>5
<1>7. PinGives(after)
  BY <1>4, <1>6 DEF PinGives, readSqwPinMode, read_register, CONTROL, SquareWave1Hz
<1> QED
  BY <1>4, <1>6, <1>7 DEF after, CONTROL

LEMMA StopFlagCleared ==
  ASSUME NEW regs, NEW statreg \in Byte
  PROVE  LET after == ClearStopFlag(regs, statreg)
         IN  /\ after[STATUSREG] \in Byte
             /\ \A r \in 0..14 : after[r] = regs[r]
<1> DEFINE status == Clear(statreg, 7)
           after == ClearStopFlag(regs, statreg)
<1>1. after = Write(regs, 15, <<status>>)
  BY DEF ClearStopFlag, write_register, STATUSREG
<1>2. status \in Byte
  <2>1. statreg < 128 \/ statreg \div 128 = 1
    BY DEF Byte
  <2>2. statreg < 128 => status = statreg
    BY DEF Clear, Bit, Byte
  <2>3. statreg \div 128 = 1 => status = statreg - 128 /\ statreg >= 128
    BY DEF Clear, Bit, Byte
  <2> QED
    BY <2>1, <2>2, <2>3 DEF Byte
<1> HIDE DEF status, after
<1>3. after = [r \in 0..15 |-> IF r = 15 THEN status ELSE regs[r]]
  BY <1>1, <1>2 DEF Write, Registers
<1> QED
  BY <1>2, <1>3 DEF STATUSREG, after

-----------------------------------------------------------------------------
(* CalendarInv step by step *)

\* The registers of the time of one bank are those of another.
SameTime(regs, other) == \A r \in 0..6 : regs[r] = other[r]

LEMMA SameTimeHolds ==
  ASSUME NEW regs, NEW other, SameTime(other, regs), NEW dt, NEW a
  PROVE  /\ Holds(regs, dt) => Holds(other, dt)
         /\ HoldsWeekday(regs, a) => HoldsWeekday(other, a)
BY DEF SameTime, Holds, HoldsWeekday

LEMMA BatteryDayHolds ==
  ASSUME TypeOK, CalendarInv, BatteryDay PROVE ModuleHolds'
<1> DEFINE dt == DateTime(Moment(hw))
           a == DayOf(hw)
           b == SecondOf(hw)
<1>1. /\ ~on /\ day < LastDay /\ day' = day + 1 /\ mem' = NextDay(mem)
      /\ UNCHANGED <<hw, on, set, callPc>>
  BY DEF BatteryDay, vars
<1>2. /\ hw \in Nat /\ day \in Nat /\ LastDay \in Nat /\ Days1970To2000 <= day
      /\ hw <= MaxTime \/ hw \in NewTimes
      /\ Holds(mem, dt) /\ (set => HoldsWeekday(mem, a))
      /\ mem[CONTROL] = OFF /\ mem[CONTROL] \in Byte /\ mem[STATUSREG] \in Byte
  BY <1>1, ModuleAssumption DEF TypeOK, CalendarInv, ModuleHolds, ModuleAssumption
<1>3. a \in Nat /\ a < 36525 /\ IsDate(dt, a, b)
  BY ModuleNow DEF CalendarInv
<1>4. /\ Holds(mem', NextDate(dt)) /\ (HoldsWeekday(mem, a) => HoldsWeekday(mem', a + 1))
      /\ \A r \in 7..15 : mem'[r] = mem[r]
  BY <1>1, <1>2, <1>3, NextDayRegisters
<1>5. day + 1 \in Nat /\ Days1970To2000 <= day + 1 /\ day + 1 <= LastDay
  BY <1>1, <1>2 DEF Days1970To2000
<1> DEFINE q == (StartSecond + hw) \div SecondsPerDay
           k == day + 1
<1>6. /\ DayOf(hw)' = a + 1 /\ SecondOf(hw)' = b
      /\ k - Days1970To2000 + q = a + 1
  <2>1. q \in Nat
    BY <1>2, ModuleAssumption, SecondsCarry DEF ModuleAssumption, SecondsPerDay
  <2>2. DayOf(hw)' = k - Days1970To2000 + q
    BY <1>1 DEF DayOf
  <2>3. SecondOf(hw)' = b
    BY <1>1 DEF SecondOf
  <2>4. a = day - Days1970To2000 + q
    BY DEF DayOf
  <2> HIDE DEF q, a, b
  <2>5. k - Days1970To2000 + q = a + 1
    BY <1>2, <2>1, <2>4 DEF Days1970To2000
  <2> QED
    BY <2>2, <2>3, <2>5
<1>7. IsDate(DateTime(Moment(hw))', a + 1, b)
  <2>1. DateTime(Moment(hw))' = DateTime(Seconds(k, StartSecond + hw))
    BY <1>1 DEF Moment
  <2>2. b = (StartSecond + hw) % SecondsPerDay
    BY DEF SecondOf
  <2> HIDE DEF k, a, b
  <2>3. k \in Nat /\ Days1970To2000 <= k /\ k <= LastDay
    BY <1>5 DEF k
  <2>4. k + q < Days1970To2000 + 36525
    BY <1>2, <2>3, TimesInCentury
  <2>5. IsDate(DateTime(Seconds(k, StartSecond + hw)), k - Days1970To2000 + q,
               (StartSecond + hw) % SecondsPerDay)
    BY <1>2, <2>3, <2>4, MomentHasDate
  <2> QED
    BY <1>6, <2>1, <2>2, <2>5
<1>8. DateTime(Moment(hw))' = NextDate(dt)
  BY <1>3, <1>7, NextDateIsNext, MomentHasOneDate
<1>9. mem'[CONTROL] = OFF /\ mem'[CONTROL] \in Byte /\ mem'[STATUSREG] \in Byte
  BY <1>2, <1>4 DEF CONTROL, STATUSREG
<1> HIDE DEF dt, a, b
<1>10. Holds(mem, DateTime(Moment(hw)))'
  BY <1>4, <1>8
<1>11. (set => HoldsWeekday(mem, DayOf(hw)))'
  BY <1>1, <1>2, <1>4, <1>6
<1> QED
  BY <1>1, <1>2, <1>5, <1>9, <1>10, <1>11 DEF ModuleHolds

LEMMA TickHolds ==
  ASSUME TypeOK, CalendarInv, ModuleTick PROVE ModuleHolds'
<1> DEFINE dt == DateTime(Moment(hw))
           a == DayOf(hw)
           b == SecondOf(hw)
           e == IF b = 86399 THEN a + 1 ELSE a
           t == IF b = 86399 THEN 0 ELSE b + 1
<1>1. /\ on /\ hw < MaxTime /\ hw' = hw + 1 /\ mem' = NextSecond(mem)
      /\ UNCHANGED <<day, on, set, callPc>>
  BY DEF ModuleTick, Tick
<1>2. /\ hw \in Nat /\ hw + 1 \in Nat /\ MaxTime \in Nat /\ hw + 1 <= MaxTime
      /\ day \in Nat /\ LastDay \in Nat /\ Days1970To2000 <= day /\ day <= LastDay
      /\ Holds(mem, dt) /\ (set => HoldsWeekday(mem, a))
  BY <1>1, ModuleAssumption, ClockAssumption
     DEF TypeOK, CalendarInv, ModuleHolds, ModuleAssumption, ClockAssumption
<1>3. a \in Nat /\ a < 36525 /\ IsDate(dt, a, b)
  BY ModuleNow DEF CalendarInv
<1>4. PICK du : IsDate(du, e, t) /\ Holds(mem', du)
  BY <1>1, <1>2, <1>3, NextSecondRegisters
<1>5. /\ HoldsWeekday(mem, a) => HoldsWeekday(mem', e)
      /\ \A r \in 7..15 : mem'[r] = mem[r]
  BY <1>1, <1>2, <1>3, NextSecondRegisters
<1>6. DayOf(hw + 1) = e /\ SecondOf(hw + 1) = t
  <2> DEFINE x == StartSecond + hw
  <2>1. x \in Nat /\ StartSecond + (hw + 1) = x + 1
    BY <1>2, ModuleAssumption DEF ModuleAssumption, SecondsPerDay
  <2>2. SecondOf(hw + 1) = t
    BY <2>1, SecondsCarry DEF SecondOf
  <2>3. x \div SecondsPerDay \in Nat
    BY <2>1, SecondsCarry
  <2>4. (x + 1) \div SecondsPerDay =
          IF b = 86399 THEN (x \div SecondsPerDay) + 1 ELSE x \div SecondsPerDay
    BY <2>1, SecondsCarry DEF SecondOf
  <2>5. DayOf(hw + 1) = day - Days1970To2000 + (x + 1) \div SecondsPerDay
    BY <2>1 DEF DayOf
  <2>6. a = day - Days1970To2000 + x \div SecondsPerDay
    BY DEF DayOf
  <2> HIDE DEF x, a, b
  <2>7. DayOf(hw + 1) = e
    BY <1>2, <2>3, <2>4, <2>5, <2>6 DEF Days1970To2000
  <2> QED
    BY <2>2, <2>7
<1>7. IsDate(DateTime(Moment(hw + 1)), e, t)
  <2>1. day + (StartSecond + (hw + 1)) \div SecondsPerDay < Days1970To2000 + 36525
    BY <1>2, TimesInCentury
  <2>2. IsDate(DateTime(Moment(hw + 1)), DayOf(hw + 1), SecondOf(hw + 1))
    BY <1>2, <2>1, MomentHasDate DEF Moment, DayOf, SecondOf
  <2> QED
    BY <1>6, <2>2
<1> HIDE DEF dt, e, t
<1>8. DateTime(Moment(hw + 1)) = du
  BY <1>4, <1>7, MomentHasOneDate
<1>9. DateTime(Moment(hw))' = DateTime(Moment(hw + 1)) /\ DayOf(hw)' = DayOf(hw + 1)
  BY <1>1 DEF Moment, DayOf
<1>10. Holds(mem, DateTime(Moment(hw)))'
  BY <1>4, <1>8, <1>9
<1>11. (set => HoldsWeekday(mem, DayOf(hw)))'
  BY <1>1, <1>2, <1>5, <1>6, <1>9
<1>12. mem'[CONTROL] = mem[CONTROL] /\ mem'[STATUSREG] = mem[STATUSREG] /\ pin' = pin
  BY <1>5 DEF CONTROL, STATUSREG, ModuleTick, Tick, history
<1>13. PinGives(mem') <=> PinGives(mem)
  BY <1>12 DEF PinGives, readSqwPinMode, read_register
<1>14. (on => (pin <=> PinGives(mem)))'
  BY <1>1, <1>12, <1>13 DEF CalendarInv, ModuleHolds, PinGives
<1> QED
  BY <1>1, <1>2, <1>10, <1>11, <1>12, <1>14 DEF ModuleHolds, CalendarInv

\* begin and configureRtc leave the time of day in the registers or set it, and
\* leave the status of a module that has been set.
LEMMA BeginHolds ==
  ASSUME TypeOK, CalendarInv, Begin \/ ModulePowerCycle PROVE ModuleHolds'
<1>1. PICK gave \in BOOLEAN :
        /\ UNCHANGED <<hw, day, set>> /\ on'
        /\ mem' \in Started(callPc' = "take", gave, pin')
        /\ gave <=> (on /\ pin)
  <2>1. CASE Begin
    <3>1. /\ ~on /\ on' /\ UNCHANGED <<hw, day, set, callPc, pin>>
          /\ mem' \in Started(callPc = "take", FALSE, pin)
      BY <2>1 DEF Begin, vars
    <3>2. mem' \in Started(callPc' = "take", FALSE, pin')
      BY <3>1
    <3> QED
      BY <3>1, <3>2
  <2>2. CASE ModulePowerCycle
    <3>1. on /\ on' /\ UNCHANGED <<hw, day, set>>
      BY <2>2 DEF ModulePowerCycle, PowerCycle
    <3>2. mem' \in Started(callPc' = "take", pin, pin')
      BY <2>2 DEF ModulePowerCycle
    <3>3. pin \in BOOLEAN
      BY DEF TypeOK
    <3> QED
      BY <3>1, <3>2, <3>3
  <2> QED
    BY <2>1, <2>2
<1>2. ModuleHolds /\ mem[CONTROL] \in Byte
  BY DEF CalendarInv, ModuleHolds
<1>3. \/ mem' = mem /\ (pin' <=> gave)
      \/ /\ pin'
         /\ \E ctrl \in Byte : mem' = writeSqwPinMode(mem, ctrl, SquareWave1Hz)
  <2>1. StrayBytes \subseteq Byte
    BY ModuleAssumption DEF ModuleAssumption
  <2> QED
    BY <1>1, <1>2, <2>1 DEF Started, read_register
<1>4. gave <=> PinGives(mem)
  <2>1. ~on => ~PinGives(mem)
    <3>1. Bit(28, 2) = 1 /\ 28 # 0
      BY DEF Bit
    <3> QED
      BY <1>2, <3>1 DEF ModuleHolds, PinGives, readSqwPinMode, read_register, OFF,
         SquareWave1Hz
  <2> QED
    BY <1>1, <1>2, <2>1 DEF ModuleHolds
<1>5. /\ SameTime(mem', mem) /\ mem'[CONTROL] \in Byte /\ mem'[STATUSREG] \in Byte
      /\ pin' <=> PinGives(mem')
  <2>1. CASE mem' = mem /\ (pin' <=> gave)
    BY <1>2, <1>4, <2>1 DEF SameTime, ModuleHolds
  <2>2. ASSUME pin', NEW ctrl \in Byte, mem' = writeSqwPinMode(mem, ctrl, SquareWave1Hz)
        PROVE  /\ SameTime(mem', mem) /\ mem'[CONTROL] \in Byte /\ mem'[STATUSREG] \in Byte
               /\ PinGives(mem')
    BY <1>2, <2>2, PinGiven DEF SameTime, ModuleHolds, STATUSREG
  <2> QED
    BY <1>3, <2>1, <2>2
<1>6. /\ Holds(mem, DateTime(Moment(hw)))'
      /\ (set => HoldsWeekday(mem, DayOf(hw)))'
  <2>1. DateTime(Moment(hw))' = DateTime(Moment(hw)) /\ DayOf(hw)' = DayOf(hw)
    BY <1>1 DEF Moment, DayOf
  <2> QED
    BY <1>1, <1>2, <1>5, <2>1, SameTimeHolds DEF ModuleHolds
<1>7. (on => (pin <=> PinGives(mem)))'
  BY <1>5 DEF PinGives
<1> QED
  BY <1>1, <1>2, <1>5, <1>6, <1>7 DEF ModuleHolds

LEMMA ConfigureHolds ==
  ASSUME TypeOK, CalendarInv, NEW time \in NewTimes, ModuleConfigure(time)
  PROVE  ModuleHolds'
<1> DEFINE dt == DateTime(Moment(time))
<1>1. PICK sent \in BOOLEAN :
        /\ on /\ UNCHANGED <<on, day>>
        /\ Configure(time) \/ ConfigureAlone(time)
        /\ hw' = IF sent THEN time ELSE hw
        /\ LET regs == IF sent THEN SetTime(mem, dt) ELSE mem
           IN  mem' \in Adjusted(regs)
        /\ set' = (set \/ sent)
  BY DEF ModuleConfigure
<1> DEFINE regs == IF sent THEN SetTime(mem, dt) ELSE mem
<1>2. ModuleHolds /\ mem' \in Adjusted(regs)
  BY <1>1 DEF CalendarInv
<1>3. time \in Nat
  BY ClockAssumption DEF ClockAssumption
<1>4. IsDate(dt, DayOf(time), SecondOf(time)) /\ DayOf(time) < 36525
  <2>1. day \in Nat /\ Days1970To2000 <= day /\ day <= LastDay
    BY <1>2 DEF ModuleHolds
  <2>2. day + (StartSecond + time) \div SecondsPerDay < Days1970To2000 + 36525
    BY <1>3, <2>1, TimesInCentury
  <2> QED
    BY <1>3, <2>1, <2>2, MomentHasDate DEF Moment, DayOf, SecondOf
<1>5. \A r \in 7..15 : regs[r] = mem[r]
  BY <1>4, AdjustWrites
<1>6. /\ Holds(regs, DateTime(Moment(hw))')
      /\ set' => HoldsWeekday(regs, DayOf(hw)')
  <2>1. CASE sent
    <3>1. DateTime(Moment(hw))' = dt /\ DayOf(hw)' = DayOf(time)
      BY <1>1, <2>1 DEF Moment, DayOf
    <3> QED
      BY <1>4, <2>1, <3>1, AdjustWrites
  <2>2. CASE ~sent
    <3>1. DateTime(Moment(hw))' = DateTime(Moment(hw)) /\ DayOf(hw)' = DayOf(hw)
      BY <1>1, <2>2 DEF Moment, DayOf
    <3> QED
      BY <1>1, <1>2, <2>2, <3>1 DEF ModuleHolds
  <2> QED
    BY <1>1, <2>1, <2>2
<1>7. regs[CONTROL] = mem[CONTROL] /\ regs[STATUSREG] \in Byte
  BY <1>2, <1>5 DEF CONTROL, STATUSREG, ModuleHolds
<1> HIDE DEF regs
<1>8. /\ mem'[CONTROL] = mem[CONTROL] /\ mem'[STATUSREG] \in Byte
      /\ SameTime(mem', regs)
  <2>1. mem' = regs \/ \E statreg \in Byte : mem' = ClearStopFlag(regs, statreg)
    BY <1>2, <1>7, ModuleAssumption DEF Adjusted, read_register, ModuleAssumption
  <2> QED
    BY <1>7, <2>1, StopFlagCleared DEF CONTROL, SameTime
<1>9. /\ Holds(mem, DateTime(Moment(hw)))'
      /\ (set => HoldsWeekday(mem, DayOf(hw)))'
  BY <1>6, <1>8, SameTimeHolds
<1>10. pin' = pin /\ (PinGives(mem') <=> PinGives(mem))
  BY <1>1, <1>8
     DEF Configure, ConfigureAlone, history, PinGives, readSqwPinMode, read_register
<1>11. (on => (pin <=> PinGives(mem)))'
  BY <1>1, <1>2, <1>10 DEF ModuleHolds, PinGives
<1> QED
  BY <1>1, <1>2, <1>8, <1>9, <1>11 DEF ModuleHolds

LEMMA ModuleStep ==
  ASSUME TypeOK, CalendarInv, ModuleNext PROVE ModuleHolds'
<1>1. ASSUME CountDate \/ ReadDate \/ MisreadDate \/ WriteDate \/ OtherStep
      PROVE  ModuleHolds'
  <2>1. ModuleHolds /\ UNCHANGED <<hw, day, mem, set, on, pin>> /\ on
    BY <1>1 DEF CalendarInv, CountDate, ReadDate, MisreadDate, WriteDate, OtherStep,
       TickCount, UpdateRead, UpdateMisread, UpdateWrite, TickWait, TickTake,
       TickTimeout, UpdateTake, UpdateTimeout, AddIsr, history
  <2>2. DateTime(Moment(hw))' = DateTime(Moment(hw)) /\ DayOf(hw)' = DayOf(hw)
    BY <2>1 DEF Moment, DayOf
  <2> QED
    BY <2>1, <2>2 DEF ModuleHolds, PinGives
<1> QED
  BY <1>1, BatteryDayHolds, TickHolds, BeginHolds, ConfigureHolds DEF ModuleNext

\* Only a running gateway has a date, and it is one with the seconds wherever
\* the two are written.
LEMMA DatesStep ==
  ASSUME DriftInv, CalendarInv, ModuleNext PROVE PowerOff' /\ DatesHold'
<1>1. TypeOK /\ Starting /\ Caller /\ Ticks /\ ModuleHolds /\ PowerOff /\ DatesHold
  BY DEF DriftInv, CalendarInv
<1>2. CASE BatteryDay
  <2>1. ~on' /\ ~isr' /\ callPc' \in {"take", "alone"}
    BY <1>1, <1>2 DEF BatteryDay, PowerOff, vars
  <2> QED
    BY <2>1 DEF PowerOff, DatesHold
<1>3. CASE Begin
  <2>1. on' /\ ~isr' /\ callPc' \in {"take", "alone"}
    BY <1>1, <1>3 DEF Begin, PowerOff, vars
  <2> QED
    BY <2>1 DEF PowerOff, DatesHold
<1>4. CASE ModuleTick
  <2>1. on' /\ UNCHANGED <<isr, callPc, seen, seconds, seenDate, date, day, misread>>
    BY <1>4 DEF ModuleTick, Tick, history
  <2> QED
    BY <1>1, <2>1 DEF PowerOff, DatesHold, Moment
<1>5. CASE CountDate
  <2>1. on' /\ UNCHANGED <<isr, callPc, seen, seenDate, day, misread>>
    BY <1>5 DEF CountDate, TickCount, history
  <2>2. ~lost /\ date' = DateTime(Moment(seconds + 1)) /\ seconds' = seconds + 1
    BY <1>1, <1>5 DEF CountDate, TickCount, Ticks
  <2> QED
    BY <1>1, <2>1, <2>2 DEF PowerOff, DatesHold, Moment
<1>6. ASSUME NEW time \in NewTimes, ModuleConfigure(time)
      PROVE  PowerOff' /\ DatesHold'
  <2>1. /\ on' /\ UNCHANGED <<isr, seconds, date, day, misread>>
        /\ callPc' \in {"take", "halted"}
    BY <1>6 DEF ModuleConfigure, Configure, ConfigureAlone, history
  <2> QED
    BY <1>1, <2>1 DEF PowerOff, DatesHold, Moment
<1>7. CASE ReadDate
  <2>1. /\ on' /\ UNCHANGED <<isr, seconds, date, day, misread>> /\ callPc' = "write"
        /\ seen' = hw /\ seenDate' = now(mem) /\ callPc = "read"
    BY <1>7 DEF ReadDate, UpdateRead, history
  <2>2. seenDate' = DateTime(Moment(hw))
    BY <1>1, <2>1, ModuleNow
  <2> QED
    BY <1>1, <2>1, <2>2 DEF PowerOff, DatesHold, Moment
<1>8. CASE WriteDate
  <2>1. /\ on' /\ callPc \in {"write", "unread"} /\ callPc' \in {"idle", "isr"}
        /\ day' = day /\ seconds' = seen /\ date' = seenDate
        /\ callPc = "unread" => misread'
    BY <1>8 DEF WriteDate, UpdateWrite
  <2> QED
    BY <1>1, <2>1 DEF PowerOff, DatesHold, Moment
<1>9. CASE OtherStep
  <2>1. /\ on' /\ UNCHANGED <<seen, seconds, seenDate, date, day, misread>>
        /\ callPc' = "write" => callPc = "write"
        /\ isr' \/ callPc' = "isr" => isr \/ callPc = "isr"
    BY <1>9 DEF OtherStep, TickWait, TickTake, TickTimeout, UpdateTake,
       UpdateTimeout, AddIsr, history
  <2> QED
    BY <1>1, <2>1 DEF PowerOff, DatesHold, Moment
<1>10. CASE ModulePowerCycle
  <2>1. on' /\ ~isr' /\ callPc' \in {"take", "alone"}
    BY <1>10 DEF ModulePowerCycle, PowerCycle, Start
  <2> QED
    BY <2>1 DEF PowerOff, DatesHold
<1>11. CASE MisreadDate
  <2>1. /\ on' /\ UNCHANGED <<isr, seconds, date, day, misread>> /\ callPc' = "unread"
        /\ callPc = "read"
    BY <1>11 DEF MisreadDate, UpdateMisread, history
  <2> QED
    BY <1>1, <2>1 DEF PowerOff, DatesHold, Moment
<1> QED
  BY <1>2, <1>3, <1>4, <1>5, <1>6, <1>7, <1>8, <1>9, <1>10, <1>11 DEF ModuleNext

LEMMA CalendarStep == DriftInv /\ CalendarInv /\ [ModuleNext]_moduleVars => CalendarInv'
<1> SUFFICES ASSUME DriftInv, CalendarInv, [ModuleNext]_moduleVars PROVE CalendarInv'
  OBVIOUS
<1>1. CASE ModuleNext
  BY <1>1, ModuleStep, DatesStep DEF CalendarInv, DriftInv
<1>2. CASE UNCHANGED moduleVars
  BY <1>2 DEF CalendarInv, PowerOff, ModuleHolds, DatesHold, Moment, DayOf,
     moduleVars, vars
<1> QED
  BY <1>1, <1>2

LEMMA CalendarAlways == ModuleSpec => [](DriftInv /\ CalendarInv)
<1>1. ModuleSpec => []DriftInv
  BY ModuleImplementsClock, DriftAlways, PTL
<1> QED
  BY <1>1, CalendarStart, CalendarStep, PTL DEF ModuleSpec

\* The date the clock holds is its seconds' date, across midnight, the ends of
\* months and of years, whatever configureRtc and power cycles do and whichever
\* writes to the module are lost, unless the last reading of the module was.
THEOREM ClockDateAgrees == ModuleSpec => []DateAgrees
<1>1. CalendarInv => DateAgrees
  BY DEF CalendarInv, DatesHold, DateAgrees
<1> QED
  BY <1>1, CalendarAlways, PTL

\* From 2000 to 2099 a read of the registers that is not lost, and which the module
\* counts in its own calendar, gives the time the module has counted to, with the
\* right day of the week once the time has been set.  Its pin gives the seconds
\* exactly from the first begin on whose write has reached it, and for good.
THEOREM RegistersKeepTime == ModuleSpec => []ModuleKeepsTime
<1>1. ASSUME DriftInv, CalendarInv PROVE ModuleKeepsTime
  <2> DEFINE a == DayOf(hw)
             b == SecondOf(hw)
             dt == DateTime(Moment(hw))
  <2>1. TypeOK /\ ModuleHolds /\ PowerOff /\ Caller
    BY <1>1 DEF DriftInv, CalendarInv
  <2>2. /\ a \in Nat /\ a < 36525 /\ b \in Nat /\ b < 86400
        /\ Moment(hw) = Pair(a + 10957, b) /\ UInt32(a + 10957, b)
        /\ IsDate(dt, a, b) /\ now(mem) = dt
    BY <2>1, ModuleNow
  <2>3. unixtime(now(mem)) = Moment(hw)
    BY <2>2, SecondsReadBack
  <2>4. set => mem[3] = dowToDS3231(dayOfTheWeek(now(mem)))
    <3>1. date2days(dt.yOff, dt.m, dt.d) = a % 65536
      BY <2>2, DaysAreCounted DEF IsDate
    <3>2. a % 65536 = a
      BY <2>2
    <3> QED
      BY <2>1, <2>2, <3>1, <3>2 DEF dayOfTheWeek, ModuleHolds, HoldsWeekday
  <2>5. on => (pin <=> PinGives(mem))
    BY <2>1 DEF ModuleHolds
  <2> QED
    BY <2>3, <2>4, <2>5 DEF ModuleKeepsTime
<1> QED
  BY <1>1, CalendarAlways, PTL

\* An alarm set with the pin free is enabled and reads back, with its mode and the
\* fields it compares, leaving the time and the other alarm alone, and disabling
\* it takes the enabling back; a module whose pin gives seconds is refused one; the
\* flags of the status are apart.
THEOREM AlarmsAreKept == ModuleSpec => []AlarmsReadBack
<1>1. ASSUME DriftInv, CalendarInv PROVE AlarmsReadBack
  <2> DEFINE dt == now(mem)
  <2>1. TypeOK /\ ModuleHolds /\ PowerOff /\ Caller
    BY <1>1 DEF DriftInv, CalendarInv
  <2>2. AlarmDate(dt)
    <3>1. IsDate(dt, DayOf(hw), SecondOf(hw)) /\ DayOf(hw) < 36525
      BY <2>1, ModuleNow
    <3>2. /\ dt.d \in 1..31 /\ dt.hh \in 0..23 /\ dt.mm \in 0..59 /\ dt.ss \in 0..59
      BY <3>1, TwoDigitFields
    <3>3. dayOfTheWeek(dt) \in 0..6
      <4>1. date2days(dt.yOff, dt.m, dt.d) = DayOf(hw) % 65536 /\ DayOf(hw) \in Nat
        BY <3>1, DaysAreCounted, TwoDigitFields DEF IsDate
      <4> DEFINE n == DayOf(hw) % 65536
      <4>2. n \in Nat
        BY <4>1
      <4> HIDE DEF n
      <4>3. (n + 6) % 7 \in 0..6
        BY <4>2
      <4> QED
        BY <4>1, <4>3 DEF dayOfTheWeek, n
    <3> QED
      BY <3>2, <3>3 DEF AlarmDate
  <2>3. PinGives(mem) => setAlarm1(mem, dt, 0) = mem /\ setAlarm2(mem, dt, 0) = mem
    <3>1. mem[CONTROL] \in Byte
      BY <2>1 DEF ModuleHolds
    <3>2. \A v \in Byte : Bit(v, 2) = 1 \/ Bit(v, 2) = 0
      BY DEF Bit, Byte
    <3>3. PinGives(mem) => Bit(mem[CONTROL], 2) = 0
      BY <3>1, <3>2 DEF PinGives, readSqwPinMode, read_register, OFF, SquareWave1Hz
    <3> QED
      BY <3>3 DEF setAlarm1, setAlarm2, AlarmsRefused, read_register
  <2>4. mem[STATUSREG] \in Byte /\ (~on => mem[CONTROL] = OFF)
    BY <2>1 DEF ModuleHolds
  <2> HIDE DEF dt
  <2>5. 1 - 1 = 0 /\ 2 - 1 = 1 /\ 0 # 1
    OBVIOUS
  <2>6. ~on => \A mode \in A1Modes :
          LET regs == setAlarm1(mem, dt, mode)
          IN  /\ getAlarm1Mode(regs) = mode
              /\ getAlarm1(regs) = Date(2000, 5, AlarmWeek(dt, mode = A1_Day),
                                        dt.hh, dt.mm, dt.ss)
              /\ \A r \in 0..6 \cup 11..13 : regs[r] = mem[r]
              /\ disableAlarm(regs, 1)[CONTROL] = mem[CONTROL]
              /\ Enabled(regs, 1) /\ ~Enabled(disableAlarm(regs, 1), 1)
              /\ Enabled(regs, 2) = Enabled(mem, 2)
    BY <2>2, <2>4, <2>5, Alarm1ReadsBack DEF Enabled
  <2>7. ~on => \A mode \in A2Modes :
          LET regs == setAlarm2(mem, dt, mode)
          IN  /\ getAlarm2Mode(regs) = mode
              /\ getAlarm2(regs) = Date(2000, 5, AlarmWeek(dt, mode = A2_Day),
                                        dt.hh, dt.mm, 0)
              /\ \A r \in 0..6 \cup 7..10 : regs[r] = mem[r]
              /\ disableAlarm(regs, 2)[CONTROL] = mem[CONTROL]
              /\ Enabled(regs, 2) /\ ~Enabled(disableAlarm(regs, 2), 2)
              /\ Enabled(regs, 1) = Enabled(mem, 1)
    BY <2>2, <2>4, <2>5, Alarm2ReadsBack DEF Enabled
  <2>8. /\ \A n \in 1..2 :
             LET after == clearAlarm(mem, n)
             IN  /\ ~alarmFired(after, n) /\ lostPower(after) = lostPower(mem)
                 /\ alarmFired(after, 3 - n) = alarmFired(mem, 3 - n)
                 /\ isEnabled32K(after) = isEnabled32K(mem)
        /\ isEnabled32K(enable32K(mem)) /\ lostPower(enable32K(mem)) = lostPower(mem)
        /\ ~isEnabled32K(disable32K(mem)) /\ lostPower(disable32K(mem)) = lostPower(mem)
    BY <2>4, StatusBits
  <2> QED
    BY <2>3, <2>6, <2>7, <2>8 DEF AlarmsReadBack, AlarmWeek, dt
<1> QED
  BY <1>1, CalendarAlways, PTL

\* The driver's two directions agree: a date's seconds, its texts and the spans
\* added to it lead back to it, for every date the module can hold.
THEOREM DatesLeadBack == ModuleSpec => []DatesRoundTrip
<1>1. ASSUME DriftInv, CalendarInv PROVE DatesRoundTrip
  <2> DEFINE dt == DateTime(Moment(hw))
             a == DayOf(hw)
             b == SecondOf(hw)
  <2>1. /\ a \in Nat /\ a < 36525 /\ b \in Nat /\ b < 86400
        /\ Moment(hw) = Pair(a + 10957, b) /\ UInt32(a + 10957, b)
        /\ IsDate(dt, a, b)
    BY <1>1, ModuleNow DEF DriftInv, CalendarInv
  <2>2. unixtime(dt) = Moment(hw)
    BY <2>1, SecondsReadBack
  <2>3. LET t == Plus(Moment(hw), Seconds(36525, 0)) IN unixtime(DateTime(t)) = t
    <3>1. Seconds(36525, 0) = Pair(36525, 0)
      BY Carry
    <3>2. UInt32(36525, 0)
      BY DEF UInt32
    <3>3. PICK p, q : UInt32(p, q) /\ Plus(Pair(a + 10957, b), Pair(36525, 0)) = Pair(p, q)
      BY <2>1, <3>2, SumsAreWords
    <3> QED
      BY <2>1, <3>1, <3>3, SecondsReadBack
  <2>4. /\ dt.yOff \in 0..99 /\ dt.m \in 1..12 /\ dt.d \in 1..31
        /\ dt.hh \in 0..23 /\ dt.mm \in 0..59 /\ dt.ss \in 0..59
    BY <2>1, TwoDigitFields
  <2>5. TextDate(dt)
    BY <2>1, <2>4 DEF TextDate, IsDate
  <2>6. isValid(dt)
    BY <2>2, <2>4 DEF isValid
  <2>7. TextsReadBack(dt)
    BY <2>5, IsoTextsRead, BuildTextsRead, HoursOfTwelve, Zenon DEF TextsReadBack
  <2>8. ASSUME NEW span \in Spans
        PROVE  /\ span = TimeSpan(span.day, SpanHours(span), SpanMinutes(span), span.sec % 60)
               /\ Earlier(dt, PlusSpan(dt, span)) /\ ~Earlier(PlusSpan(dt, span), dt)
               /\ Difference(PlusSpan(dt, span), dt) = span
               /\ MinusSpan(PlusSpan(dt, span), span) = dt
    <3>1. PICK c \in Nat, d \in Nat : /\ span = Pair(c, d) /\ d < 86400
                                      /\ c > 0 \/ d > 0
                                      /\ c <= 366
      <4>1. /\ TimeSpan(0, 0, 0, 2) = Pair(0, 2)
            /\ TimeSpan(1, 0, 30, 0) = Pair(1, 1800)
            /\ TimeSpan(366, 23, 0, 1) = Pair(366, 82801)
        BY Carry DEF TimeSpan
      <4> QED
        BY <4>1 DEF Spans
    <3>2. a + 10957 + c + 1 < 49710 /\ a + 10957 >= 10957
      BY <2>1, <3>1
    <3> QED
      BY <2>1, <3>1, <3>2, SpansAddUp, SpansAreParts
  <2> QED
    BY <2>1, <2>2, <2>3, <2>6, <2>7, <2>8 DEF DatesRoundTrip
<1> QED
  BY <1>1, CalendarAlways, PTL

=============================================================================
