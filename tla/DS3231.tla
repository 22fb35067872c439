------------------------------- MODULE DS3231 -------------------------------
(***************************************************************************)
(* The driver of the clock module, class RTC_DS3231 in                     *)
(* src/main/lib/RTC_lib/src/RTC_DS3231.cpp, as operators on the module's   *)
(* registers 0 to 15: the time, two alarms, control and status.  mem is    *)
(* the registers before a call; an operator is the registers after it, or  *)
(* what it returns.                                                        *)
(***************************************************************************)
EXTENDS Calendar

Registers == 0..15
Byte      == 0..255

TIME == 0
ALARM1 == 7
ALARM2 == 11
CONTROL == 14
STATUSREG == 15

-----------------------------------------------------------------------------
(* Bytes *)

bcd2bin(val) == (val - 6 * (val \div 16)) % 256

bin2bcd(val) == (val + 6 * (val \div 10)) % 256

Bit(val, k)   == (val \div 2^k) % 2
Clear(val, k) == val - 2^k * Bit(val, k)
Set(val, k)   == Clear(val, k) + 2^k

\* Mutant: Sunday is day 0, as in the library.
SundayZero(d) == d

dowToDS3231(d) == IF d = 0 THEN 7 ELSE d

-----------------------------------------------------------------------------
(* The bus: a write is a register number and the bytes from there on *)

Write(mem, reg, bytes) ==
  [r \in Registers |-> IF r \in reg..(reg + Len(bytes) - 1)
                       THEN bytes[r - reg + 1] ELSE mem[r]]

write_register(mem, reg, val) == Write(mem, reg, <<val>>)

read_register(mem, reg) == mem[reg]

\* write_then_read of one register's number: n bytes from there on.
ReadFrom(mem, reg, n) == [i \in 0..(n - 1) |-> mem[reg + i]]

-----------------------------------------------------------------------------
(* Time *)

lostPower(mem) == Bit(read_register(mem, STATUSREG), 7) = 1

\* The first seven registers, in one write.
SetTime(mem, dt) ==
  LET b(val) == bin2bcd(val)
  IN  Write(mem, TIME, <<b(dt.ss), b(dt.mm), b(dt.hh),
                         b(dowToDS3231(dayOfTheWeek(dt))),
                         b(dt.d), b(dt.m), b(dt.yOff)>>)

\* statreg is what reading the register has returned.
ClearStopFlag(mem, statreg) == write_register(mem, STATUSREG, Clear(statreg, 7))

adjust(mem, dt) ==
  LET regs == SetTime(mem, dt)
  IN  ClearStopFlag(regs, read_register(regs, STATUSREG))

DateIn(buffer) ==
  Date(bcd2bin(buffer[6]) + 2000, bcd2bin(buffer[5] % 128),
       bcd2bin(buffer[4]), bcd2bin(buffer[2]), bcd2bin(buffer[1]),
       bcd2bin(buffer[0] % 128))

now(mem) == DateIn(ReadFrom(mem, TIME, 7))

-----------------------------------------------------------------------------
(* The square wave; bit 2 of control sends alarms to the pin instead *)

OFF == 28
SquareWave1Hz == 0
SquareWave1kHz == 8
SquareWave4kHz == 16
SquareWave8kHz == 24

readSqwPinMode(mem) ==
  LET ctrl == read_register(mem, CONTROL)
  IN  IF Bit(ctrl, 2) = 1 THEN OFF ELSE 8 * ((ctrl \div 8) % 4)

\* ctrl is what reading the register has returned.
writeSqwPinMode(mem, ctrl, mode) ==
  write_register(mem, CONTROL, Clear(Clear(Clear(ctrl, 2), 3), 4) + mode)

-----------------------------------------------------------------------------
(* Alarms; an alarm's mode is the bits 7 of its registers and bit 6 of the *)
(* last one, which selects the day of the week instead of the day          *)

A1Modes == {15, 14, 12, 8, 0, 16}
A2Modes == {7, 6, 4, 0, 8}
A_Date == 0
A1_Day == 16
A2_Day == 8

\* Mutant: the bit of the day of the week is one place too low.
AlarmDayLow(dt, m4, weekday) ==
  bin2bcd(IF weekday = 1 THEN dowToDS3231(dayOfTheWeek(dt)) ELSE dt.d)
    + 128 * m4 + 32 * weekday

AlarmDay(dt, m4, weekday) ==
  bin2bcd(IF weekday = 1 THEN dowToDS3231(dayOfTheWeek(dt)) ELSE dt.d)
    + 128 * m4 + 64 * weekday

\* Alarms need the pin: otherwise nothing is written and false returned.
AlarmsRefused(mem) == Bit(read_register(mem, CONTROL), 2) = 0

setAlarm1(mem, dt, mode) ==
  IF AlarmsRefused(mem) THEN mem
  ELSE LET alarm == Write(mem, ALARM1,
             <<bin2bcd(dt.ss) + 128 * Bit(mode, 0),
               bin2bcd(dt.mm) + 128 * Bit(mode, 1),
               bin2bcd(dt.hh) + 128 * Bit(mode, 2),
               AlarmDay(dt, Bit(mode, 3), Bit(mode, 4))>>)
       IN  write_register(alarm, CONTROL, Set(mem[CONTROL], 0))

setAlarm2(mem, dt, mode) ==
  IF AlarmsRefused(mem) THEN mem
  ELSE LET alarm == Write(mem, ALARM2,
             <<bin2bcd(dt.mm) + 128 * Bit(mode, 0),
               bin2bcd(dt.hh) + 128 * Bit(mode, 1),
               AlarmDay(dt, Bit(mode, 2), Bit(mode, 3))>>)
       IN  write_register(alarm, CONTROL, Set(mem[CONTROL], 1))

\* The day of an alarm; in May 2000 the day of the week is the day's number.
ReadAlarmDay(val) == bcd2bin(IF Bit(val, 6) = 1 THEN val % 16 ELSE val % 64)

getAlarm1(mem) ==
  LET buffer == ReadFrom(mem, ALARM1, 4)
  IN  Date(2000, 5, ReadAlarmDay(buffer[3]), bcd2bin(buffer[2] % 64),
           bcd2bin(buffer[1] % 128), bcd2bin(buffer[0] % 128))

getAlarm2(mem) ==
  LET buffer == ReadFrom(mem, ALARM2, 3)
  IN  Date(2000, 5, ReadAlarmDay(buffer[2]), bcd2bin(buffer[1] % 64),
           bcd2bin(buffer[0] % 128), 0)

getAlarm1Mode(mem) ==
  LET buffer == ReadFrom(mem, ALARM1, 4)
      mode == Bit(buffer[0], 7) + 2 * Bit(buffer[1], 7) + 4 * Bit(buffer[2], 7)
                + 8 * Bit(buffer[3], 7) + 16 * Bit(buffer[3], 6)
  IN  IF mode \in A1Modes THEN mode ELSE A_Date

getAlarm2Mode(mem) ==
  LET buffer == ReadFrom(mem, ALARM2, 3)
      mode == Bit(buffer[0], 7) + 2 * Bit(buffer[1], 7) + 4 * Bit(buffer[2], 7)
                + 8 * Bit(buffer[2], 6)
  IN  IF mode \in A2Modes THEN mode ELSE A_Date

disableAlarm(mem, n) ==
  write_register(mem, CONTROL, Clear(read_register(mem, CONTROL), n - 1))

clearAlarm(mem, n) ==
  write_register(mem, STATUSREG, Clear(read_register(mem, STATUSREG), n - 1))

alarmFired(mem, n) == Bit(read_register(mem, STATUSREG), n - 1) = 1

-----------------------------------------------------------------------------
(* The 32 kHz output *)

enable32K(mem) ==
  write_register(mem, STATUSREG, Set(read_register(mem, STATUSREG), 3))

disable32K(mem) ==
  write_register(mem, STATUSREG, Clear(read_register(mem, STATUSREG), 3))

isEnabled32K(mem) == Bit(read_register(mem, STATUSREG), 3) = 1

=============================================================================
