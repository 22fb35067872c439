-------------------------- MODULE WifiManagerProofs --------------------------
(***************************************************************************)
(* Theorems about WifiManager, for all settings, all limits and everything *)
(* that may go wrong outside.  TypeOK, then what is known of the tasks and *)
(* the driver while one of them works on the wifi (WorkInv); on these rest *)
(* what the driver runs with (DriverInv) and what keeps a disconnected     *)
(* station going (StationInv).                                             *)
(***************************************************************************)
EXTENDS WifiManager, TLAPS

\* What a power cycle leaves the tasks and the driver in.
LEMMA AsleepTypes ==
  /\ Asleep \in [Tasks -> MainPcs \cup DaemonPcs \cup RestartPcs]
  /\ Asleep["main"] = "begin" /\ Asleep[Daemon] = "idle"
  /\ \A p \in Restarters : Asleep[p] = "idle"
BY DEF Asleep, Tasks, Restarters, Daemon, MainPcs, DaemonPcs, RestartPcs

LEMMA OffTypes ==
  /\ Off \in [started : BOOLEAN, mode : Modes, ap : ApConfigs,
              sta : StaConfigs]
  /\ Defaults \in Settings
BY WifiAssumption DEF WifiAssumption, Off, Defaults, Settings, Modes, Ips

LEMMA TypeInit == Init => TypeOK
<1> SUFFICES ASSUME Init PROVE TypeOK
  OBVIOUS
<1>1. events \in Seq(StaEvents)
  BY DEF Init
<1>2. want \in [Restarters -> Modes]
  BY DEF Init, Modes
<1>3. /\ pc \in [Tasks -> MainPcs \cup DaemonPcs \cup RestartPcs]
      /\ pc["main"] \in MainPcs /\ pc[Daemon] \in DaemonPcs
      /\ \A p \in Restarters : pc[p] \in RestartPcs
  BY AsleepTypes DEF Init, MainPcs, DaemonPcs, RestartPcs
<1>4. conf \in Settings /\ nvs \in Settings /\ newIp \in Ips
      /\ driver \in [started : BOOLEAN, mode : Modes, ap : ApConfigs,
                     sta : StaConfigs]
  BY OffTypes DEF Init, Ips
<1>5. attempts \in 0..MaxAttempts
  BY WifiAssumption DEF WifiAssumption, Init
<1> QED
  BY <1>1, <1>2, <1>3, <1>4, <1>5 DEF Init, TypeOK

LEMMA EventsGrow ==
  ASSUME events \in Seq(StaEvents), NEW e \in StaEvents
  PROVE Append(events, e) \in Seq(StaEvents)
OBVIOUS

LEMMA EventsShrink ==
  ASSUME events \in Seq(StaEvents), events # <<>>
  PROVE Tail(events) \in Seq(StaEvents)
OBVIOUS

LEMMA TypeStep == TypeOK /\ [Next]_vars => TypeOK'
<1> SUFFICES ASSUME TypeOK, [Next]_vars PROVE TypeOK'
  OBVIOUS
<1> USE WifiAssumption
    DEF WifiAssumption, TypeOK, settings, flags, retry, tasks, radio, Goto, Return,
        Restarters, Daemon, Free, Tasks, MainPcs, DaemonPcs, RestartPcs, Modes,
        Settings
<1>1. CASE Boot
  BY <1>1 DEF Boot, Configured
<1>2. CASE BootRejected
  BY <1>2 DEF BootRejected
<1>3. ASSUME NEW saved \in Settings, Reboot(saved) PROVE TypeOK'
  <2>1. events' \in Seq(StaEvents)
    BY <1>3 DEF Reboot
  <2>2. attempts' \in 0..MaxAttempts
    BY <1>3 DEF Reboot
  <2>3. want' \in [Restarters -> Modes]
    BY <1>3 DEF Reboot
  <2> HIDE DEF Tasks, MainPcs, DaemonPcs, RestartPcs, Restarters, Settings
  <2>4. /\ pc' \in [Tasks -> MainPcs \cup DaemonPcs \cup RestartPcs]
        /\ pc'["main"] \in MainPcs /\ pc'[Daemon] \in DaemonPcs
        /\ \A p \in Restarters : pc'[p] \in RestartPcs
    BY <1>3, AsleepTypes DEF Reboot, MainPcs, DaemonPcs, RestartPcs
  <2>5. /\ conf' \in Settings /\ nvs' \in Settings /\ newIp' \in Ips
        /\ driver' \in [started : BOOLEAN, mode : Modes, ap : ApConfigs,
                        sta : StaConfigs]
    BY <1>3, OffTypes DEF Reboot, Ips
  <2> QED
    BY <1>3, <2>1, <2>2, <2>3, <2>4, <2>5 DEF Reboot
<1>13. CASE PowerCycle
  BY <1>3, <1>13 DEF PowerCycle
<1>14. CASE MessageCrash
  BY <1>14 DEF MessageCrash
<1>15. CASE Saves
  <2>1. conf' \in Settings /\ newIp' \in Ips
    BY <1>15 DEF Saves, SaveAp, SaveSta, SaveIp, IpGiven, Ips
  <2>2. nvs' \in Settings
    BY <1>15 DEF Saves, SaveAp, SaveSta, SaveIp, IpGiven
  <2> HIDE DEF Settings
  <2> QED
    BY <1>15, <2>1, <2>2 DEF Saves, SaveAp, SaveSta, SaveIp
<1>4. ASSUME NEW p \in Restarters, NEW m \in Modes, AskMode(p, m) PROVE TypeOK'
  BY <1>4 DEF AskMode
<1>5. ASSUME NEW c \in ApConfigs, ApChange(c) PROVE TypeOK'
  BY <1>5 DEF ApChange
<1>6. ASSUME NEW c \in StaConfigs, NEW a \in Ips, StaChange(c, a)
      PROVE TypeOK'
  BY <1>6 DEF StaChange
<1>7. CASE ReadMode
  BY <1>7 DEF ReadMode
<1>8. ASSUME NEW p \in Restarters, Restarts(p) PROVE TypeOK'
  <2>1. CASE RestartTake(p)
    BY <2>1 DEF RestartTake
  <2>2. CASE RestartTimeout(p)
    BY <2>2 DEF RestartTimeout
  <2>3. CASE RestartStop(p)
    <3>1. events' \in Seq(StaEvents)
      BY <2>3, EventsGrow DEF RestartStop, Stop, StaEvents
    <3>2. CASE running
      BY <2>3, <3>1, <3>2 DEF RestartStop, Stop
    <3>3. CASE ~running
      BY <2>3, <3>3 DEF RestartStop
    <3> QED
      BY <3>2, <3>3
  <2>4. CASE RestartSwitch(p)
    <3>1. conf' \in Settings
      BY <2>4 DEF RestartSwitch
    <3>2. nvs' \in Settings
      BY <2>4 DEF RestartSwitch
    <3> HIDE DEF Settings
    <3> QED
      BY <2>4, <3>1, <3>2 DEF RestartSwitch
  <2>5. CASE RestartConfig(p)
    <3>1. driver' \in [started : BOOLEAN, mode : Modes, ap : ApConfigs,
                      sta : StaConfigs]
      BY <2>5 DEF RestartConfig, Configured
    <3> QED
      BY <2>5, <3>1 DEF RestartConfig
  <2>6. CASE RestartRejected(p)
    BY <2>6 DEF RestartRejected
  <2>7. CASE RestartStart(p)
    BY <2>7 DEF RestartStart
  <2> QED
    BY <1>7, <1>8, <2>1, <2>2, <2>3, <2>4, <2>5, <2>6, <2>7 DEF Restarts
<1>9. CASE EventNext
  <2>1. events' \in Seq(StaEvents)
    BY <1>9, EventsShrink DEF EventNext, EventDrop, EventIgnored,
      StaDisconnected, StaConnected
  <2>2. CASE EventDrop \/ EventIgnored
    BY <2>1, <2>2 DEF EventDrop, EventIgnored
  <2>3. CASE StaDisconnected
    <3>1. attempts' \in 0..MaxAttempts
      BY <2>3 DEF StaDisconnected
    <3>2. link' \in {"down", "connecting", "up"} /\ timer' \in BOOLEAN
      BY <2>3 DEF StaDisconnected, Connect
    <3> QED
      BY <2>1, <2>3, <3>1, <3>2 DEF StaDisconnected
  <2>4. CASE StaConnected
    <3>1. attempts' \in 0..MaxAttempts
      BY <2>4 DEF StaConnected
    <3>2. timer' \in BOOLEAN
      BY <2>4, Zenon DEF StaConnected
    <3>3. UNCHANGED <<settings, flags, tasks, driver, link, halted, faults>>
      BY <2>4 DEF StaConnected
    <3> QED
      BY <2>1, <3>1, <3>2, <3>3
  <2> QED
    BY <1>9, <2>2, <2>3, <2>4 DEF EventNext
<1>10. CASE DaemonNext
  <2>1. CASE ReconnectTick
    BY <2>1 DEF ReconnectTick, Connect
  <2>2. CASE RssiWeak
    <3>1. events' \in Seq(StaEvents)
      BY <2>2, EventsGrow DEF RssiWeak, Stop, StaEvents
    <3> QED
      BY <2>2, <3>1 DEF RssiWeak, Stop
  <2>3. CASE RssiStart
    BY <2>3 DEF RssiStart
  <2>4. CASE RssiWake \/ RssiTake \/ RssiTimeout \/ RssiNoList \/ RssiGood
    BY <2>4 DEF RssiWake, RssiTake, RssiTimeout, RssiNoList, RssiGood
  <2> QED
    BY <1>10, <2>1, <2>2, <2>3, <2>4 DEF DaemonNext
<1>11. CASE DriverNext
  <2>1. events' \in Seq(StaEvents)
    BY <1>11, EventsGrow DEF DriverNext, LinkUp, LinkFail, LinkLost, LinkChange,
      StaEvents
  <2> QED
    BY <1>11, <2>1 DEF DriverNext, LinkUp, LinkFail, LinkLost, LinkChange
<1>12. CASE UNCHANGED vars
  BY <1>12 DEF vars
<1> QED
  BY <1>1, <1>2, <1>13, <1>14, <1>15, <1>4, <1>5, <1>6, <1>8, <1>9, <1>10,
     <1>11, <1>12
  DEF Next, Asks

-----------------------------------------------------------------------------
(* While a task works on the wifi *)

Stopped(p) == pc[p] \in {"switch", "config", "start"}

\* Before Boot nothing has happened.
Unbooted ==
  pc["main"] = "begin" =>
    /\ mutex = Free /\ ~restarting
    /\ link = "down" /\ events = <<>>
    /\ pc[Daemon] = "idle" /\ \A p \in Restarters : pc[p] = "idle"

\* The mutex tells who is in restart, is_restarting that the driver is stopped.
WorkInv ==
  /\ RestartExclusive
  /\ Unbooted
  /\ \A p \in Restarters : mutex = p => InRestart(p)
  /\ \A p \in Restarters : Stopped(p) <=> restarting /\ mutex = p
  /\ pc["main"] = "done" => (running <=> ~restarting)
  /\ restarting => ~driver.started /\ link = "down"

LEMMA WorkInit == Init => WorkInv
BY AsleepTypes
DEF Init, WorkInv, RestartExclusive, Unbooted, InRestart, Stopped, Restarters,
    Free, Daemon

LEMMA WorkStep == TypeOK /\ WorkInv /\ [Next]_vars => WorkInv'
<1> SUFFICES ASSUME TypeOK, WorkInv, [Next]_vars PROVE WorkInv'
  OBVIOUS
<1> USE DEF WorkInv, RestartExclusive, Unbooted, InRestart, Stopped,
            settings, flags, retry, tasks, radio, Goto, Return,
            Restarters, Daemon, Free, Tasks, MainPcs, DaemonPcs
<1>a. /\ pc \in [Tasks -> MainPcs \cup DaemonPcs \cup RestartPcs]
      /\ pc["main"] \in MainPcs /\ pc[Daemon] \in DaemonPcs
      /\ mutex \in Restarters \cup {Daemon, Free}
      /\ driver \in [started : BOOLEAN, mode : Modes, ap : ApConfigs,
                    sta : StaConfigs]
  BY DEF TypeOK
<1> USE <1>a
<1>1. CASE Boot
  BY <1>1 DEF Boot
<1>2. CASE BootRejected
  BY <1>2 DEF BootRejected
<1>3. ASSUME NEW saved, Reboot(saved) PROVE WorkInv'
  BY <1>3, AsleepTypes DEF Reboot
<1>13. CASE PowerCycle
  BY <1>3, <1>13 DEF PowerCycle
<1>14. CASE MessageCrash
  BY <1>14 DEF MessageCrash, Up
<1>15. CASE Saves
  BY <1>15 DEF Saves, SaveAp, SaveSta, SaveIp
<1>4. ASSUME NEW p \in Restarters, NEW m \in Modes, AskMode(p, m) PROVE WorkInv'
  BY <1>4 DEF AskMode, Up
<1>5. ASSUME NEW c \in ApConfigs, ApChange(c) PROVE WorkInv'
  BY <1>5 DEF ApChange, Up
<1>6. ASSUME NEW c \in StaConfigs, NEW a \in Ips, StaChange(c, a)
      PROVE WorkInv'
  BY <1>6 DEF StaChange, Up
<1>7. CASE ReadMode
  BY <1>7 DEF ReadMode
<1>8. ASSUME NEW p \in Restarters, Restarts(p) PROVE WorkInv'
  <2>1. CASE RestartTake(p)
    BY <2>1 DEF RestartTake
  <2>2. CASE RestartTimeout(p)
    BY <2>2 DEF RestartTimeout
  <2>3. CASE RestartStop(p)
    BY <2>3 DEF RestartStop, Stop
  <2>4. CASE RestartSwitch(p)
    BY <2>4 DEF RestartSwitch
  <2>5. CASE RestartConfig(p)
    BY <2>5 DEF RestartConfig, Configured
  <2>6. CASE RestartRejected(p)
    BY <2>6 DEF RestartRejected
  <2>7. CASE RestartStart(p)
    BY <2>7 DEF RestartStart
  <2> QED
    BY <1>7, <1>8, <2>1, <2>2, <2>3, <2>4, <2>5, <2>6, <2>7 DEF Restarts
<1>9. CASE EventNext
  BY <1>9 DEF EventNext, EventDrop, EventIgnored, StaDisconnected, StaConnected,
    Up
<1>10. CASE DaemonNext
  <2>1. CASE ReconnectTick
    BY <2>1 DEF ReconnectTick, Connect, Up
  <2>2. CASE RssiWeak
    BY <2>2 DEF RssiWeak, Stop
  <2>3. CASE RssiStart
    BY <2>3 DEF RssiStart
  <2>4. CASE RssiWake \/ RssiTake \/ RssiTimeout \/ RssiNoList \/ RssiGood
    BY <2>4 DEF RssiWake, RssiTake, RssiTimeout, RssiNoList, RssiGood, Up
  <2> QED
    BY <1>10, <2>1, <2>2, <2>3, <2>4 DEF DaemonNext
<1>11. CASE DriverNext
  BY <1>11 DEF DriverNext, LinkUp, LinkFail, LinkLost, LinkChange, Up
<1>12. CASE UNCHANGED vars
  BY <1>12 DEF vars
<1> QED
  BY <1>1, <1>2, <1>13, <1>14, <1>15, <1>4, <1>5, <1>6, <1>8, <1>9, <1>10,
     <1>11, <1>12
  DEF Next, Asks

-----------------------------------------------------------------------------
(* What the driver runs with *)

\* The driver has the settings of the program.
Matches ==
  /\ driver.ap = conf.ap
  /\ UsesSta(conf.mode) => driver.sta = conf.sta

\* The web server task has no restart to do for settings it has written, and
\* the mesh task is not between reading and configuring.
Settled ==
  \/ pc["httpd"] = "start"
  \/ pc["httpd"] = "idle" /\ ~Leaked /\ pc["mesh"] \notin {"switch", "config"}

Near == "weakSignal" \notin faults

\* The flash has the settings of the program, those that are being saved apart.
Saved ==
  /\ nvs.mode = conf.mode /\ nvs.ip = conf.ip
  /\ pc["httpd"] # "saveAp" => nvs.ap = conf.ap
  /\ pc["httpd"] # "saveSta" => nvs.sta = conf.sta

DriverInv ==
  /\ Saved
  /\ \A p \in Restarters : pc[p] \in {"config", "start"} => conf.mode = want[p]
  /\ pc[Daemon] = "delay" => ~Near
  /\ pc["main"] = "done" =>
       /\ Settled => Matches
       /\ (\A p \in Restarters : pc[p] # "config") => driver.mode = conf.mode
       /\ ~restarting /\ pc[Daemon] # "delay" =>
            driver.started \/ ("driverFails" \in faults /\ ~Near)
  /\ HaltsOnBadSettings

LEMMA DriverInit == Init => DriverInv
BY AsleepTypes DEF Init, DriverInv, Saved, HaltsOnBadSettings, Restarters, Daemon

LEMMA DriverStep == TypeOK /\ WorkInv /\ DriverInv /\ [Next]_vars => DriverInv'
<1> SUFFICES ASSUME TypeOK, WorkInv, DriverInv, [Next]_vars PROVE DriverInv'
  OBVIOUS
<1> USE DEF DriverInv, Saved, Matches, Settled, Near, Leaked, Up,
            HaltsOnBadSettings, BadInFlash, BadUnsaved,
            WorkInv, RestartExclusive, Unbooted, InRestart, Stopped, UsesSta,
            settings, flags, retry, tasks, radio, Goto, Return,
            Restarters, Daemon, Free, Tasks, MainPcs, DaemonPcs
<1>a. /\ pc \in [Tasks -> MainPcs \cup DaemonPcs \cup RestartPcs]
      /\ pc["main"] \in MainPcs /\ pc[Daemon] \in DaemonPcs
      /\ want \in [Restarters -> Modes]
      /\ conf \in Settings /\ nvs \in Settings
      /\ driver \in [started : BOOLEAN, mode : Modes, ap : ApConfigs,
                    sta : StaConfigs]
  BY DEF TypeOK
<1> USE <1>a DEF Settings
<1>1. CASE Boot
  BY <1>1 DEF Boot, Configured
<1>2. CASE BootRejected
  BY <1>2 DEF BootRejected, Rejected
<1>3. ASSUME NEW saved, Reboot(saved) PROVE DriverInv'
  BY <1>3, AsleepTypes DEF Reboot
<1>13. CASE PowerCycle
  BY <1>3, <1>13 DEF PowerCycle
<1>14. CASE MessageCrash
  BY <1>14 DEF MessageCrash
<1>15. CASE Saves
  BY <1>15 DEF Saves, SaveAp, SaveSta, SaveIp
<1>4. ASSUME NEW p \in Restarters, NEW m \in Modes, AskMode(p, m) PROVE DriverInv'
  BY <1>4 DEF AskMode
<1>5. ASSUME NEW c \in ApConfigs, ApChange(c) PROVE DriverInv'
  BY <1>5 DEF ApChange
<1>6. ASSUME NEW c \in StaConfigs, NEW a \in Ips, StaChange(c, a)
      PROVE DriverInv'
  BY <1>6 DEF StaChange
<1>7. CASE ReadMode
  BY <1>7 DEF ReadMode
<1>8. ASSUME NEW p \in Restarters, Restarts(p) PROVE DriverInv'
  <2>1. CASE RestartTake(p)
    BY <2>1 DEF RestartTake
  <2>2. CASE RestartTimeout(p)
    BY <2>2 DEF RestartTimeout
  <2>3. CASE RestartStop(p)
    BY <2>3 DEF RestartStop, Stop
  <2>4. CASE RestartSwitch(p)
    BY <2>4 DEF RestartSwitch
  <2>5. CASE RestartConfig(p)
    BY <2>5 DEF RestartConfig, Configured
  <2>6. CASE RestartRejected(p)
    BY <2>6 DEF RestartRejected, Rejected
  <2>7. CASE RestartStart(p)
    BY <2>7 DEF RestartStart
  <2> QED
    BY <1>7, <1>8, <2>1, <2>2, <2>3, <2>4, <2>5, <2>6, <2>7 DEF Restarts
<1>9. CASE EventNext
  BY <1>9 DEF EventNext, EventDrop, EventIgnored, StaDisconnected, StaConnected
<1>10. CASE DaemonNext
  <2>1. CASE ReconnectTick
    BY <2>1 DEF ReconnectTick, Connect
  <2>2. CASE RssiWeak
    BY <2>2 DEF RssiWeak, Stop
  <2>3. CASE RssiStart
    BY <2>3 DEF RssiStart
  <2>4. CASE RssiWake \/ RssiTake \/ RssiTimeout \/ RssiNoList \/ RssiGood
    BY <2>4 DEF RssiWake, RssiTake, RssiTimeout, RssiNoList, RssiGood
  <2> QED
    BY <1>10, <2>1, <2>2, <2>3, <2>4 DEF DaemonNext
<1>11. CASE DriverNext
  BY <1>11 DEF DriverNext, LinkUp, LinkFail, LinkLost, LinkChange
<1>12. CASE UNCHANGED vars
  BY <1>12 DEF vars
<1> QED
  BY <1>1, <1>2, <1>13, <1>14, <1>15, <1>4, <1>5, <1>6, <1>8, <1>9, <1>10,
     <1>11, <1>12
  DEF Next, Asks

-----------------------------------------------------------------------------
(* What keeps a disconnected station going *)

NoRestart == \A p \in Restarters : ~InRestart(p)

\* The last event of a station that is down is its disconnection.
LastDown ==
  link = "down" /\ events # <<>> => events[Len(events)] = "disconnected"

\* With near phones and nobody at work, a station that is down has the timer
\* or an event to come.
Pursued ==
  Near /\ Up /\ ~Leaked /\ NoRestart /\ UsesSta(conf.mode) /\ link = "down" =>
    timer \/ events # <<>>

StationInv == LastDown /\ Pursued

LEMMA LastOfAppend ==
  ASSUME events \in Seq(StaEvents), NEW e \in StaEvents
  PROVE Append(events, e)[Len(Append(events, e))] = e
OBVIOUS

LEMMA LastOfTail ==
  ASSUME events \in Seq(StaEvents), events # <<>>, Tail(events) # <<>>
  PROVE Tail(events)[Len(Tail(events))] = events[Len(events)]
OBVIOUS

LEMMA HeadIsNotLast ==
  ASSUME events \in Seq(StaEvents), events # <<>>,
         Head(events) # events[Len(events)]
  PROVE Tail(events) # <<>>
<1>1. Len(events) \in Nat /\ Len(events) # 0 /\ Len(events) # 1
  OBVIOUS
<1>2. Len(Tail(events)) = Len(events) - 1
  OBVIOUS
<1>3. Len(Tail(events)) # 0
  BY <1>1, <1>2
<1>4. Len(<<>>) = 0
  OBVIOUS
<1> QED
  BY <1>3, <1>4, Zenon

LEMMA StationInit == Init => StationInv
BY AsleepTypes DEF Init, StationInv, LastDown, Pursued, Up

LEMMA StationStep ==
  TypeOK /\ WorkInv /\ DriverInv /\ StationInv /\ [Next]_vars => StationInv'
<1> SUFFICES ASSUME TypeOK, WorkInv, DriverInv, StationInv, [Next]_vars
             PROVE StationInv'
  OBVIOUS
<1> USE DEF StationInv, LastDown, Pursued, NoRestart, InRestart, Near, Leaked,
            Up, settings, flags, retry, tasks, radio, Goto, Return,
            Restarters, Daemon, Free, Tasks, MainPcs, DaemonPcs
<1>a. /\ pc \in [Tasks -> MainPcs \cup DaemonPcs \cup RestartPcs]
      /\ pc["main"] \in MainPcs /\ pc[Daemon] \in DaemonPcs
      /\ events \in Seq(StaEvents)
  BY DEF TypeOK
\* What WorkInv and DriverInv are needed for.
<1>b. /\ pc["main"] = "begin" => link = "down" /\ events = <<>>
      /\ \A p \in Restarters : InRestart(p) => mutex = p
      /\ \A p \in Restarters : mutex = p => InRestart(p)
      /\ pc[Daemon] \in {"check", "delay"} => mutex = Daemon
      /\ pc[Daemon] = "delay" => ~Near
  BY DEF WorkInv, Unbooted, RestartExclusive, DriverInv
<1> USE <1>a, <1>b
<1>1. CASE Boot
  BY <1>1 DEF Boot
<1>2. CASE BootRejected
  BY <1>2 DEF BootRejected
<1>3. ASSUME NEW saved, Reboot(saved) PROVE StationInv'
  BY <1>3, AsleepTypes DEF Reboot
<1>13. CASE PowerCycle
  BY <1>3, <1>13 DEF PowerCycle
<1>14. CASE MessageCrash
  BY <1>14 DEF MessageCrash
<1>15. CASE Saves
  <2>1. conf'.mode = conf.mode
    BY <1>15 DEF Saves, SaveAp, SaveSta, SaveIp, TypeOK, Settings
  <2> QED
    BY <1>15, <2>1 DEF Saves, SaveAp, SaveSta, SaveIp
<1>4. ASSUME NEW p \in Restarters, NEW m \in Modes, AskMode(p, m) PROVE StationInv'
  BY <1>4 DEF AskMode
<1>5. ASSUME NEW c \in ApConfigs, ApChange(c) PROVE StationInv'
  BY <1>5 DEF ApChange
<1>6. ASSUME NEW c \in StaConfigs, NEW a \in Ips, StaChange(c, a)
      PROVE StationInv'
  BY <1>6 DEF StaChange
<1>7. CASE ReadMode
  BY <1>7 DEF ReadMode
<1>8. ASSUME NEW p \in Restarters, Restarts(p) PROVE StationInv'
  <2>1. CASE RestartTake(p)
    BY <2>1 DEF RestartTake
  <2>2. CASE RestartTimeout(p)
    BY <2>2 DEF RestartTimeout
  <2>3. CASE RestartStop(p)
    <3>1. running
      BY <2>3 DEF RestartStop, WorkInv, Unbooted, Stopped, RestartExclusive
    <3>2. LastDown'
      BY <2>3, <3>1, LastOfAppend DEF RestartStop, Stop, StaEvents
    <3>3. pc'[p] = "switch"
      BY <2>3, <3>1 DEF RestartStop
    <3> QED
      BY <3>2, <3>3
  <2>4. CASE RestartSwitch(p)
    BY <2>4 DEF RestartSwitch
  <2>5. CASE RestartConfig(p)
    BY <2>5 DEF RestartConfig
  <2>6. CASE RestartRejected(p)
    BY <2>6 DEF RestartRejected
  <2>7. CASE RestartStart(p)
    <3>1. link = "down" /\ conf.mode = want[p]
      BY <2>7 DEF RestartStart, WorkInv, Stopped, DriverInv
    <3> QED
      BY <2>7, <3>1 DEF RestartStart
  <2> QED
    BY <1>7, <1>8, <2>1, <2>2, <2>3, <2>4, <2>5, <2>6, <2>7 DEF Restarts
<1>9. CASE EventNext
  <2>1. events # <<>> /\ events' = Tail(events)
    BY <1>9 DEF EventNext, EventDrop, EventIgnored, StaDisconnected, StaConnected
  <2>2. link' # "connecting" => link' = link
    BY <1>9 DEF EventNext, EventDrop, EventIgnored, StaDisconnected,
      StaConnected, Connect
  <2>3. LastDown'
    BY <2>1, <2>2, LastOfTail
  <2>4. CASE EventDrop
    BY <2>3, <2>4 DEF EventDrop, LongHeld
  <2>5. CASE EventIgnored
    BY <2>3, <2>5 DEF EventIgnored
  <2>6. CASE StaDisconnected
    <3>1. /\ ~restarting /\ pc[Daemon] # "delay"
          /\ \A p \in Restarters : ~InRestart(p)
      BY <2>6 DEF StaDisconnected, WorkInv, RestartExclusive
    <3>2. /\ driver.mode = conf.mode
          /\ Near => driver.started
      BY <2>6, <3>1 DEF StaDisconnected, DriverInv
    <3>3. Near => timer' \/ link' # "down"
      BY <2>6, <3>2, Zenon DEF StaDisconnected, Connect
    <3> QED
      BY <2>3, <2>6, <3>3 DEF StaDisconnected
  <2>7. CASE StaConnected
    <3>1. link = "down" => Tail(events) # <<>>
      BY <2>7, HeadIsNotLast DEF StaConnected
    <3> QED
      BY <2>1, <2>3, <2>7, <3>1 DEF StaConnected
  <2> QED
    BY <1>9, <2>4, <2>5, <2>6, <2>7 DEF EventNext
<1>10. CASE DaemonNext
  <2>1. CASE ReconnectTick
    BY <2>1 DEF ReconnectTick, Connect
  <2>2. CASE RssiWeak
    <3>1. LastDown'
      BY <2>2, LastOfAppend DEF RssiWeak, Stop, StaEvents
    <3> QED
      BY <2>2, <3>1 DEF RssiWeak, Stop
  <2>3. CASE RssiStart
    BY <2>3 DEF RssiStart
  <2>4. CASE RssiWake \/ RssiTake \/ RssiTimeout \/ RssiNoList \/ RssiGood
    BY <2>4 DEF RssiWake, RssiTake, RssiTimeout, RssiNoList, RssiGood
  <2> QED
    BY <1>10, <2>1, <2>2, <2>3, <2>4 DEF DaemonNext
<1>11. CASE DriverNext
  <2>1. LastDown'
    BY <1>11, LastOfAppend DEF DriverNext, LinkUp, LinkFail, LinkLost,
      LinkChange, StaEvents
  <2>2. events' # <<>>
    BY <1>11 DEF DriverNext, LinkUp, LinkFail, LinkLost, LinkChange
  <2> QED
    BY <2>1, <2>2
<1>12. CASE UNCHANGED vars
  BY <1>12 DEF vars
<1> QED
  BY <1>1, <1>2, <1>13, <1>14, <1>15, <1>4, <1>5, <1>6, <1>8, <1>9, <1>10,
     <1>11, <1>12
  DEF Next, Asks

-----------------------------------------------------------------------------
LEMMA WifiAlways == Spec => [](TypeOK /\ WorkInv /\ DriverInv /\ StationInv)
BY TypeInit, WorkInit, DriverInit, StationInit,
   TypeStep, WorkStep, DriverStep, StationStep, PTL DEF Spec

\* The settings, the tasks' places, the attempts of sta_disconnected_handler
\* and the driver's events keep their types.
THEOREM WifiTypeCorrect == Spec => []TypeOK
BY WifiAlways, PTL

\* restart and rssi_check stop, configure and start the driver under
\* _wifi_mutex alone, though start skips the mutex when is_restarting is set.
THEOREM RestartIsExclusive == Spec => []RestartExclusive
<1>1. WorkInv => RestartExclusive
  BY DEF WorkInv
<1> QED
  BY <1>1, WifiAlways, PTL

\* Whatever ap_configuration, sta_configuration, restart and a loss of power
\* do to each other, a wifi nobody works on runs with the settings in flash.
THEOREM SettingsAreInForce == Spec => []SettingsInForce
<1>1. TypeOK /\ WorkInv /\ DriverInv => SettingsInForce
  <2> SUFFICES ASSUME TypeOK, WorkInv, DriverInv, AtRest PROVE SettingsInForce
    BY DEF SettingsInForce
  <2>1. /\ pc["main"] = "done" /\ mutex = Free
        /\ \A p \in Restarters : pc[p] = "idle"
    BY DEF AtRest, Up
  <2>2. Settled /\ \A p \in Restarters : pc[p] # "config"
    BY <2>1 DEF Settled, Leaked, Restarters, Free, Daemon
  <2>3. ~restarting /\ pc[Daemon] # "delay"
    BY <2>1 DEF WorkInv, RestartExclusive, Restarters, Free, Daemon
  <2>4. nvs = conf
    <3>1. /\ nvs.mode = conf.mode /\ nvs.ap = conf.ap
          /\ nvs.sta = conf.sta /\ nvs.ip = conf.ip
      BY <2>1 DEF DriverInv, Saved, Restarters
    <3> QED
      BY <3>1 DEF TypeOK, Settings
  <2> QED
    BY <2>1, <2>2, <2>3, <2>4 DEF DriverInv, Matches, SettingsInForce
<1> QED
  BY <1>1, WifiAlways, PTL

\* The gateway halts only on a message without its fields, or by ESP_ERROR_CHECK
\* in start for settings the driver rejects: they are in the flash, or between a
\* setter's assignment and its save.
THEOREM HaltsOnlyOnBadSettings == Spec => []HaltsOnBadSettings
<1>1. DriverInv => HaltsOnBadSettings
  BY DEF DriverInv
<1> QED
  BY <1>1, WifiAlways, PTL

\* With near phones a disconnected station always has an event to come for
\* sta_disconnected_handler, or the timer of reconnect_task_handler.
THEOREM StationReconnects == Spec => []ReconnectPendingNear
<1>1. TypeOK /\ WorkInv /\ StationInv => ReconnectPendingNear
  <2> SUFFICES ASSUME TypeOK, WorkInv, StationInv, Near, Up, mutex = Free,
                      UsesSta(conf.mode), link = "down", ~timer
               PROVE \E i \in DOMAIN events : events[i] = "disconnected"
    BY DEF ReconnectPendingNear, ReconnectPending, Near
  <2>1. ~Leaked /\ NoRestart
    BY DEF Leaked, NoRestart, WorkInv, RestartExclusive, Restarters, Free, Daemon
  <2>2. events # <<>> /\ events[Len(events)] = "disconnected"
    BY <2>1 DEF StationInv, LastDown, Pursued
  <2>3. events \in Seq(StaEvents)
    BY DEF TypeOK
  <2>4. Len(events) \in DOMAIN events
    BY <2>2, <2>3
  <2> QED
    BY <2>2, <2>4
<1> QED
  BY <1>1, WifiAlways, PTL

=============================================================================
