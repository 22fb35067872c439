---------------------------- MODULE RealTimeClock ----------------------------
(***************************************************************************)
(* The local clock: src/main/src/perifericos/real_time_clock.cpp.  A       *)
(* DS3231 module keeps the time and interrupts once a second; the          *)
(* interrupt notifies a task that counts _unixSeconds up; begin (in        *)
(* app_main) and configureRtc (in the web server task) read the module     *)
(* again under _rtc_mutex.  The caller of update_local_clock_with_rtc is   *)
(* one process, since the web server starts after begin.                   *)
(* _dateTime is written wherever _unixSeconds is, to the same time;        *)
(* _unixDay, which nobody reads, is left out.                              *)
(***************************************************************************)
EXTENDS Integers

CONSTANTS
  MaxTime,     \* bound: the module's time
  NewTimes,    \* times the app configures
  Unread       \* times now() may return when its read is lost on the bus

ASSUME ClockAssumption ==
  /\ MaxTime \in Nat
  /\ NewTimes \subseteq Nat
  /\ Unread \subseteq Int

VARIABLES
  prompt,    \* never changes: less than a second passes in the few
             \* milliseconds of I2C traffic under the mutex, and between the
             \* last steps of begin
  hw,        \* the module's time; its battery keeps it through a power cycle
  pin,       \* the module gives a pulse every second, as some begin has told it
  seconds,   \* _unixSeconds
  seen,      \* what _rtc.now() has returned to the caller
  isr,       \* the interrupt handler is installed
  notified,  \* the task has a notification it has not taken yet
  lost,      \* lost_track
  mutex,     \* who holds _rtc_mutex: "tick", "call" or "free"
  tickPc,    \* the task: "wait", "take", "count", or "dead" once it returned
  callPc,    \* the caller: "take", "read", "write" or, if nothing was read,
             \* "unread", "isr" (in begin), "idle"; "alone" when begin has found
             \* no module, "halted" after that
  configured, \* history: configureRtc has adjusted the module since the start
  failed,     \* history: its last update_local_clock_with_rtc failed
  misread     \* history: that one's read of the module was lost

vars == <<prompt, hw, pin, seconds, seen, isr, notified, lost, mutex, tickPc,
          callPc, configured, failed, misread>>

\* What changes at no step but those that say so.
history == <<prompt, pin, configured, failed, misread>>

\* Where begin calls update_local_clock_with_rtc, or returns, because the module
\* does not answer, before it has created the mutex; app_main goes on either way.
\* Nobody looks at the result of begin's write of the pin's mode: if it is lost,
\* the pin is as the module has kept it.
Start ==
  /\ seconds' = 0 /\ seen' = 0
  /\ isr' = FALSE /\ notified' = FALSE /\ lost' = FALSE
  /\ mutex' = "free" /\ tickPc' = "wait" /\ callPc' \in {"take", "alone"}
  /\ pin' \in {pin} \cup (IF callPc' = "take" THEN {TRUE} ELSE {})
  /\ configured' = FALSE /\ failed' = FALSE /\ misread' = FALSE

Init ==
  /\ prompt \in BOOLEAN /\ pin \in BOOLEAN
  /\ hw \in {0} \cup NewTimes
  /\ seconds = 0 /\ seen = 0
  /\ isr = FALSE /\ notified = FALSE /\ lost = FALSE
  /\ mutex = "free" /\ tickPc = "wait" /\ callPc \in {"take", "alone"}
  /\ configured = FALSE /\ failed = FALSE /\ misread = FALSE

-----------------------------------------------------------------------------
(* The module and its interrupt *)

\* Ticks the task has been told of and has not counted.
Pending ==
  (IF notified THEN 1 ELSE 0) + (IF tickPc \in {"take", "count"} THEN 1 ELSE 0)

\* update_local_clock_1s_interrupt: eNoAction only marks the notification, so
\* two that are not taken are one.
Tick ==
  /\ hw < MaxTime
  /\ prompt /\ isr => Pending = 0
  /\ prompt /\ ~isr /\ ~misread /\ callPc \in {"write", "isr"} => hw = seen
  /\ hw' = hw + 1
  /\ notified' = (notified \/ (isr /\ pin))
  /\ UNCHANGED <<seconds, seen, isr, lost, mutex, tickPc, callPc, history>>

-----------------------------------------------------------------------------
(* update_local_clock_1s_handler *)

TickWait ==
  /\ tickPc = "wait" /\ notified
  /\ notified' = FALSE
  /\ tickPc' = "take"
  /\ UNCHANGED <<hw, seconds, seen, isr, lost, mutex, callPc, history>>

\* Mutant: the task counts without the mutex.
TickTakeAnyway ==
  /\ tickPc = "take"
  /\ tickPc' = "count"
  /\ UNCHANGED <<hw, seconds, seen, isr, notified, lost, mutex, callPc, history>>

TickTake ==
  /\ tickPc = "take" /\ mutex = "free"
  /\ mutex' = "tick"
  /\ tickPc' = "count"
  /\ UNCHANGED <<hw, seconds, seen, isr, notified, lost, callPc, history>>

\* One second without the mutex: the task notes it and returns, which
\* FreeRTOS answers with abort().
TickTimeout ==
  /\ tickPc = "take" /\ mutex # "free" /\ ~prompt
  /\ lost' = TRUE
  /\ tickPc' = "dead"
  /\ UNCHANGED <<hw, seconds, seen, isr, notified, mutex, callPc, history>>

TickCount ==
  /\ tickPc = "count"
  /\ seconds' = IF lost THEN hw ELSE seconds + 1
  /\ lost' = FALSE
  /\ mutex' = "free"
  /\ tickPc' = "wait"
  /\ UNCHANGED <<hw, seen, isr, notified, callPc, history>>

-----------------------------------------------------------------------------
(* update_local_clock_with_rtc, from begin and from configureRtc *)

\* configureRtc adjusts the module before it asks for the mutex; nobody looks
\* at the result of the write, which may have failed.  (A clock that failed
\* configurations have left ahead is bounded here.)
Configure(time) ==
  /\ callPc = "idle" /\ tickPc # "dead"
  /\ seconds <= MaxTime
  /\ hw' \in {time, hw}
  /\ configured' = TRUE
  /\ callPc' = "take"
  /\ UNCHANGED <<prompt, pin, seconds, seen, isr, notified, lost, mutex, tickPc,
                 failed, misread>>

\* Without a mutex the caller asserts once the module, which may answer by now,
\* is adjusted.
ConfigureAlone(time) ==
  /\ callPc = "alone"
  /\ hw' \in {time, hw}
  /\ callPc' = "halted"
  /\ UNCHANGED <<seconds, seen, isr, notified, lost, mutex, tickPc, history>>

UpdateTake ==
  /\ callPc = "take" /\ mutex = "free" /\ tickPc # "dead"
  /\ mutex' = "call"
  /\ callPc' = "read"
  /\ UNCHANGED <<hw, seconds, seen, isr, notified, lost, tickPc, history>>

\* ESP_FAIL: the module is adjusted, the local clock is not.
UpdateTimeout ==
  /\ callPc = "take" /\ mutex # "free" /\ ~prompt /\ tickPc # "dead"
  /\ failed' = TRUE
  /\ callPc' = "idle"
  /\ UNCHANGED <<prompt, hw, pin, seconds, seen, isr, notified, lost, mutex,
                 tickPc, configured, misread>>

UpdateRead ==
  /\ callPc = "read" /\ tickPc # "dead"
  /\ seen' = hw
  /\ callPc' = "write"
  /\ UNCHANGED <<hw, seconds, isr, notified, lost, mutex, tickPc, history>>

\* The read is lost on the bus; nobody looks at its result, and the time is that
\* of whatever the buffer held.
UpdateMisread ==
  /\ callPc = "read" /\ tickPc # "dead"
  /\ seen' \in Unread
  /\ callPc' = "unread"
  /\ UNCHANGED <<hw, seconds, isr, notified, lost, mutex, tickPc, history>>

\* Mutant: _unixSeconds is not refreshed.
UpdateWriteForgets ==
  /\ callPc \in {"write", "unread"} /\ tickPc # "dead"
  /\ mutex' = "free"
  /\ failed' = FALSE /\ misread' = (callPc = "unread")
  /\ callPc' = IF isr THEN "idle" ELSE "isr"
  /\ UNCHANGED <<prompt, hw, pin, seconds, seen, isr, notified, lost, tickPc,
                 configured>>

UpdateWrite ==
  /\ callPc \in {"write", "unread"} /\ tickPc # "dead"
  /\ seconds' = seen
  /\ mutex' = "free"
  /\ failed' = FALSE /\ misread' = (callPc = "unread")
  /\ callPc' = IF isr THEN "idle" ELSE "isr"
  /\ UNCHANGED <<prompt, hw, pin, seen, isr, notified, lost, tickPc, configured>>

\* The last step of begin.
AddIsr ==
  /\ callPc = "isr" /\ tickPc # "dead"
  /\ isr' = TRUE
  /\ callPc' = "idle"
  /\ UNCHANGED <<hw, seconds, seen, notified, lost, mutex, tickPc, history>>

\* Power fails and comes back, at any time; a halted gateway needs it.
PowerCycle == Start /\ UNCHANGED <<prompt, hw>>

-----------------------------------------------------------------------------
Next ==
  \/ Tick
  \/ TickWait \/ TickTake \/ TickTimeout \/ TickCount
  \/ \E time \in NewTimes : Configure(time) \/ ConfigureAlone(time)
  \/ UpdateTake \/ UpdateTimeout \/ UpdateRead \/ UpdateMisread \/ UpdateWrite
  \/ AddIsr
  \/ PowerCycle

Spec == Init /\ [][Next]_vars

-----------------------------------------------------------------------------
\* Types, and the mutex is held by the process that works under it.
TypeOK ==
  /\ prompt \in BOOLEAN /\ pin \in BOOLEAN
  /\ hw \in Nat /\ seconds \in Int /\ seen \in Int
  /\ isr \in BOOLEAN /\ notified \in BOOLEAN /\ lost \in BOOLEAN
  /\ mutex \in {"free", "tick", "call"}
  /\ tickPc \in {"wait", "take", "count", "dead"}
  /\ callPc \in {"take", "read", "write", "unread", "isr", "idle", "alone", "halted"}
  /\ configured \in BOOLEAN /\ failed \in BOOLEAN /\ misread \in BOOLEAN
  /\ mutex = "tick" <=> tickPc = "count"
  /\ mutex = "call" <=> callPc \in {"read", "write", "unread"}

\* The gateway runs and its clock was last set from a reading of the module, by
\* its last configuration if there was one.
Steady == isr /\ callPc = "idle" /\ ~failed /\ ~misread /\ tickPc # "dead"

\* How far the local clock will be ahead of the module once the pending ticks
\* are counted.
Drift == seconds + Pending - hw

\* A tick that comes between configureRtc's adjust and its read of the module
\* is in what it reads and is counted again, but a local clock that was last set
\* from a reading of the module never gets more than that one second ahead of it
\* (two if the mutex can be held for a second), however often the clock is
\* configured and however the interrupt falls among the steps of
\* update_local_clock_with_rtc.
NeverAhead == Steady => Drift <= IF prompt THEN 1 ELSE 2

\* If a begin has told the module to give its pulses, no tick is lost once the
\* interrupt handler is installed: a clock that was last set from a reading is at
\* most the one second behind that begin loses between its read of the module
\* and gpio_isr_handler_add, and a configuration makes up for it.
NeverBehind ==
  Steady /\ prompt /\ pin => Drift >= IF configured THEN 0 ELSE -1

=============================================================================
