----------------------------- MODULE ClockModule -----------------------------
(***************************************************************************)
(* RealTimeClock with the module it reads: the registers of the DS3231,    *)
(* its calendar, and the two forms the gateway keeps the time in, seconds  *)
(* since 1970 and the broken-down date the reports are named by.  A time n *)
(* of RealTimeClock is n seconds after StartSecond of the current day.     *)
(*                                                                         *)
(* With the gateway off the module's battery takes it through the days; it *)
(* is switched on on one of StartDays.                                     *)
(***************************************************************************)
EXTENDS RealTimeClock, DS3231, DateText

CONSTANTS
  StartDays,    \* days, since 1970, on which the gateway is switched on
  StartSecond,  \* of the day
  LastDay,      \* bound: the module's days
  Unwritten,    \* what now()'s buffer may hold when its read is lost
  StrayBytes    \* what a byte to be read into may hold when the read is lost

ASSUME ModuleAssumption ==
  /\ LastDay \in Nat /\ Days1970To2000 <= LastDay
  /\ StartDays \subseteq Days1970To2000..LastDay
  /\ StartSecond \in 0..(SecondsPerDay - 1)
  /\ Unwritten \subseteq [0..6 -> Byte] /\ StrayBytes \subseteq Byte

\* The module's calendar ends with 2099.
ASSUME CenturyAssumption ==
  \A n \in {0, MaxTime} \cup NewTimes :
    LastDay + (StartSecond + n) \div SecondsPerDay < Days1970To2000 + 36525

VARIABLES
  on,        \* the gateway has power
  day,       \* the day of time 0
  mem,       \* the module's registers
  date,      \* _dateTime
  seenDate,  \* what _rtc.now() has returned to the caller
  set        \* history: an adjust has reached the module

moduleVars == <<vars, on, day, mem, date, seenDate, set>>

Moment(n) == Seconds(day, StartSecond + n)

-----------------------------------------------------------------------------
(* The module's own calendar, in its registers *)

Decimal(val) == 10 * (val \div 16) + (val % 16)
Coded(n)     == 16 * (n \div 10) + (n % 10)

MonthLength(y, m) ==
  IF m = 2 /\ y % 4 = 0 THEN 29
  ELSE <<31, 28, 31, 30, 31, 30, 31, 31, 30, 31, 30, 31>>[m]

NextDay(regs) ==
  LET d == Decimal(regs[4])
      m == Decimal(regs[5] % 128)
      y == Decimal(regs[6])
      newMonth == d = MonthLength(y, m)
      newYear  == newMonth /\ m = 12
  IN  Write(regs, 3, <<(regs[3] % 7) + 1,
                       Coded(IF newMonth THEN 1 ELSE d + 1),
                       Coded(IF newYear THEN 1 ELSE IF newMonth THEN m + 1 ELSE m),
                       Coded(IF newYear THEN y + 1 ELSE y)>>)

NextSecond(regs) ==
  LET s == Decimal(regs[0]) + 60 * Decimal(regs[1]) + 3600 * Decimal(regs[2]) + 1
      t == s % SecondsPerDay
      time == <<Coded(t % 60), Coded((t \div 60) % 60), Coded(t \div 3600)>>
  IN  Write(IF t = 0 THEN NextDay(regs) ELSE regs, TIME, time)

-----------------------------------------------------------------------------
\* A module whose battery has just been put in has the first day of 2000, its
\* stop flag set and the pin its alarms'; it has reached StartSecond.
FirstRegisters ==
  LET power == [r \in Registers |->
                  IF r \in {3, 4, 5} THEN 1 ELSE IF r = CONTROL THEN OFF
                  ELSE IF r = STATUSREG THEN 136 ELSE 0]
  IN  Write(power, TIME, <<Coded(StartSecond % 60),
                           Coded((StartSecond \div 60) % 60),
                           Coded(StartSecond \div 3600)>>)

ModuleInit ==
  /\ Init /\ hw = 0
  /\ on = FALSE /\ day = Days1970To2000
  /\ pin => callPc = "take"
  /\ mem = FirstRegisters
  /\ date = DateTime([day |-> Days1970To2000, sec |-> 0]) /\ seenDate = date
  /\ set = FALSE

\* A day with the gateway off.
BatteryDay ==
  /\ ~on /\ day < LastDay
  /\ day' = day + 1
  /\ mem' = NextDay(mem)
  /\ UNCHANGED <<vars, on, date, seenDate, set>>

PinGives(regs) == readSqwPinMode(regs) = SquareWave1Hz

\* begin, up to its call of update_local_clock_with_rtc: a module that is not found
\* is left as it is, as is one that the write of the pin's mode does not reach;
\* which of them is told by the pulses that the module gave and gives.  If the read
\* of the register before the write is lost, its other bits are anything.
Started(found, gave, gives) ==
  LET Read == {read_register(mem, CONTROL)} \cup StrayBytes
  IN  (IF gave = gives THEN {mem} ELSE {}) \cup
      (IF found /\ gives THEN {writeSqwPinMode(mem, ctrl, SquareWave1Hz) : ctrl \in Read}
                         ELSE {})

Begin ==
  /\ ~on /\ day \in StartDays
  /\ on' = TRUE
  /\ mem' \in Started(callPc = "take", FALSE, pin)
  /\ UNCHANGED <<vars, day, date, seenDate, set>>

\* The module counts.
ModuleTick ==
  /\ on /\ Tick
  /\ mem' = NextSecond(mem)
  /\ UNCHANGED <<on, day, date, seenDate, set>>

\* Mutant: the date is that of the second before.
LateDate ==
  /\ on /\ TickCount
  /\ date' = IF lost THEN now(mem) ELSE DateTime(Moment(seconds))
  /\ UNCHANGED <<on, day, mem, seenDate, set>>

\* The task derives the date from the seconds; after a lost second it reads it.
CountDate ==
  /\ on /\ TickCount
  /\ date' = IF lost THEN now(mem) ELSE DateTime(Moment(seconds + 1))
  /\ UNCHANGED <<on, day, mem, seenDate, set>>

\* adjust writes the time and then the stop flag, each of which may fail, as may
\* the read of the status in between.
Adjusted(regs) ==
  {regs} \cup {ClearStopFlag(regs, statreg) :
               statreg \in {read_register(regs, STATUSREG)} \cup StrayBytes}

ModuleConfigure(time) ==
  \E sent \in BOOLEAN :
    /\ on
    /\ Configure(time) \/ ConfigureAlone(time)
    /\ hw' = IF sent THEN time ELSE hw
    /\ LET regs == IF sent THEN SetTime(mem, DateTime(Moment(time))) ELSE mem
       IN  mem' \in Adjusted(regs)
    /\ set' = (set \/ sent)
    /\ UNCHANGED <<on, day, date, seenDate>>

ReadDate ==
  /\ on /\ UpdateRead
  /\ seenDate' = now(mem)
  /\ UNCHANGED <<on, day, mem, date, set>>

\* now() does not look at the result of the read: its date is of what the buffer
\* held, but for the first byte, which it has set to 0 itself.
MisreadDate ==
  /\ on /\ UpdateMisread
  /\ \E buffer \in Unwritten : seenDate' = DateIn([buffer EXCEPT ![0] = 0])
  /\ Moment(seen') = unixtime(seenDate')
  /\ UNCHANGED <<on, day, mem, date, set>>

WriteDate ==
  /\ on /\ UpdateWrite
  /\ date' = seenDate
  /\ UNCHANGED <<on, day, mem, seenDate, set>>

\* The steps that touch neither the module nor the date.
OtherStep ==
  /\ on
  /\ TickWait \/ TickTake \/ TickTimeout \/ UpdateTake \/ UpdateTimeout \/ AddIsr
  /\ UNCHANGED <<on, day, mem, date, seenDate, set>>

\* The module keeps its registers; begin runs again.
ModulePowerCycle ==
  /\ on /\ PowerCycle
  /\ mem' \in Started(callPc' = "take", pin, pin')
  /\ date' = DateTime([day |-> Days1970To2000, sec |-> 0]) /\ seenDate' = date'
  /\ UNCHANGED <<on, day, set>>

ModuleNext ==
  \/ BatteryDay \/ Begin
  \/ ModuleTick \/ CountDate
  \/ \E time \in NewTimes : ModuleConfigure(time)
  \/ ReadDate \/ MisreadDate \/ WriteDate
  \/ OtherStep
  \/ ModulePowerCycle

ModuleSpec == ModuleInit /\ [][ModuleNext]_moduleVars

-----------------------------------------------------------------------------
\* The driver's arithmetic and the module's agree on every day from 2000 on:
\* what now() reads, if the read is not lost, is the time the module has counted
\* to, and once the time has been set the day of the week is right too, although
\* adjust computes it and the module counts it.  Once the write of a begin has
\* reached the module its pin gives the seconds for good, through everything that
\* is lost on the bus afterwards and every loss of power; before that it does not.
ModuleKeepsTime ==
  /\ unixtime(now(mem)) = Moment(hw)
  /\ set => mem[3] = dowToDS3231(dayOfTheWeek(now(mem)))
  /\ on => (pin <=> PinGives(mem))

\* _unixSeconds and _dateTime, one counted and the other derived from it or
\* read from the module, are the same time, across midnight, the ends of months
\* and of years, and whatever configureRtc does in between, as long as the last
\* reading of the module has not been lost.
DateAgrees == isr /\ ~misread => date = DateTime(Moment(seconds))

TextsReadBack(dt) ==
  LET built  == toString(BUILD_DATE, dt)
      noon   == toString(<<"hh", " ", "AP">>, dt)
      twelve == conv2d(noon[1]) % 12
  IN  /\ IsoDate(timestamp(TIMESTAMP_FULL, dt)) = dt
      /\ IsoDate(timestamp(TIMESTAMP_DATE, dt)) = [dt EXCEPT !.hh = 0, !.mm = 0, !.ss = 0]
      /\ BuildDate(built, timestamp(TIMESTAMP_TIME, dt)) = dt
      /\ dt.d < 10 =>
           BuildDate([built EXCEPT ![3][1] = " "], timestamp(TIMESTAMP_TIME, dt)) = dt
      /\ dt.hh = twelve + (IF noon[3][1] = "P" THEN 12 ELSE 0)

Spans == {TimeSpan(0, 0, 0, 2), TimeSpan(1, 0, 30, 0), TimeSpan(366, 23, 0, 1)}

\* A date of the century and the same time a century later, which is past the
\* end of the 32-bit seconds for most: the seconds of the date of a number of
\* seconds are that number, and adding a span to a date gives a later date,
\* the span apart, from which subtracting it leads back.  A span's parts lose
\* nothing, and neither do the texts of a date: an ISO timestamp and the
\* compiler's form read back as the date, a timestamp of the day as its midnight,
\* and the hour of twelve with AM or PM is one hour of the day.
DatesRoundTrip ==
  LET moments == {Moment(hw), Plus(Moment(hw), Seconds(36525, 0))}
      dt      == DateTime(Moment(hw))
  IN  /\ \A t \in moments : unixtime(DateTime(t)) = t
      /\ isValid(dt)
      /\ TextsReadBack(dt)
      /\ \A span \in Spans :
           /\ span = TimeSpan(span.day, SpanHours(span), SpanMinutes(span), span.sec % 60)
           /\ Earlier(dt, PlusSpan(dt, span))
           /\ ~Earlier(PlusSpan(dt, span), dt)
           /\ Difference(PlusSpan(dt, span), dt) = span
           /\ MinusSpan(PlusSpan(dt, span), span) = dt

Enabled(regs, n) == Bit(regs[CONTROL], n - 1) = 1

\* An alarm set on a module whose pin is free for alarms reads back with its
\* mode and the fields that mode compares, and is enabled, until disabling it
\* takes that bit back; setting, disabling and clearing one alarm leaves the
\* time and the other alarm, its enabling too, alone; with the pin giving
\* seconds no alarm is set at all.  The flags of the status register are set
\* and cleared one by one.
AlarmsReadBack ==
  LET dt   == now(mem)
      Kept(regs, other) == \A r \in 0..6 \cup other : regs[r] = mem[r]
      SameStatus(regs) == lostPower(regs) = lostPower(mem)
      Week(weekday) == IF weekday THEN dowToDS3231(dayOfTheWeek(dt)) ELSE dt.d
  IN  /\ PinGives(mem) => setAlarm1(mem, dt, 0) = mem /\ setAlarm2(mem, dt, 0) = mem
      /\ \A n \in 1..2 :
           LET regs == clearAlarm(mem, n)
           IN  /\ ~alarmFired(regs, n) /\ SameStatus(regs)
               /\ alarmFired(regs, 3 - n) = alarmFired(mem, 3 - n)
               /\ isEnabled32K(regs) = isEnabled32K(mem)
      /\ isEnabled32K(enable32K(mem)) /\ SameStatus(enable32K(mem))
      /\ ~isEnabled32K(disable32K(mem)) /\ SameStatus(disable32K(mem))
      /\ ~on =>
           /\ \A mode \in A1Modes :
                LET regs == setAlarm1(mem, dt, mode)
                IN  /\ getAlarm1Mode(regs) = mode
                    /\ getAlarm1(regs) = Date(2000, 5, Week(mode = A1_Day),
                                              dt.hh, dt.mm, dt.ss)
                    /\ Kept(regs, 11..13)
                    /\ Enabled(regs, 1) /\ ~Enabled(disableAlarm(regs, 1), 1)
                    /\ Enabled(regs, 2) = Enabled(mem, 2)
                    /\ disableAlarm(regs, 1)[CONTROL] = mem[CONTROL]
           /\ \A mode \in A2Modes :
                LET regs == setAlarm2(mem, dt, mode)
                IN  /\ getAlarm2Mode(regs) = mode
                    /\ getAlarm2(regs) = Date(2000, 5, Week(mode = A2_Day),
                                              dt.hh, dt.mm, 0)
                    /\ Kept(regs, 7..10)
                    /\ Enabled(regs, 2) /\ ~Enabled(disableAlarm(regs, 2), 2)
                    /\ Enabled(regs, 1) = Enabled(mem, 1)
                    /\ disableAlarm(regs, 2)[CONTROL] = mem[CONTROL]

=============================================================================
