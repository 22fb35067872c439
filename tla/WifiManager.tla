----------------------------- MODULE WifiManager -----------------------------
(***************************************************************************)
(* The wifi: src/main/src/wifi/wifi_wetzel_esp32.cpp, the direct messages  *)
(* of wifi_direct_msg_handlers.cpp, and rssi_check of esp-interface.cpp.   *)
(* The web server task (direct messages) and the mesh task (_update_ssid)  *)
(* restart the wifi, the event task reacts to the driver's events, the     *)
(* timer daemon runs rssi_check and the reconnect timer; _wifi_mutex is    *)
(* between them.  A failed ESP_ERROR_CHECK halts the gateway, and so does  *)
(* a direct message without its fields; power may fail at any time and the *)
(* settings come back from NVS.  The copy of a struct is one step.         *)
(***************************************************************************)
EXTENDS Naturals, Sequences

CONSTANTS
  ApConfigs, StaConfigs,   \* settings of the access point and of the station
  DefaultAp, DefaultSta,   \* default_ap_config, default_sta_config
  Addresses,               \* addresses of the station, its net and its gateway
  NoIp,                    \* none has been given: _ipv4_info is all zeros
  Accepted,                \* the settings esp_wifi_set_config accepts
  MaxAttempts,             \* MAX_NUMBER_OF_STA_CONNECTION_ATTEMPTS
  EventCap                 \* bound: events the driver has posted

ASSUME WifiAssumption ==
  /\ DefaultAp \in ApConfigs \cap Accepted
  /\ DefaultSta \in StaConfigs \cap Accepted
  /\ MaxAttempts \in Nat
  /\ EventCap \in Nat \ {0}

VARIABLES
  conf,       \* _current_mode, _ap_config, _sta_config, _ipv4_info
  nvs,        \* the same in flash
  newIp,      \* the addresses that sta_ip_configuration is still to handle
  running,    \* is_running
  restarting, \* is_restarting
  mutex,      \* who holds _wifi_mutex
  attempts,   \* number_of_connection_attempts
  timer,      \* xReconnectSTATask is active
  pc,         \* where each task is
  want,       \* the mode a task has passed to restart, "AP" out of it
  driver,     \* what the wifi driver runs with
  link,       \* the station: "down", "connecting" or "up"
  events,     \* events the event task has not handled
  halted,     \* abort() was called
  faults      \* what may go wrong outside; never changes

settings == <<conf, nvs, newIp>>
flags == <<running, restarting>>
retry == <<attempts, timer>>
tasks == <<mutex, pc, want>>
radio == <<driver, link, events>>
vars == <<settings, flags, retry, tasks, radio, halted, faults>>

Restarters == {"httpd", "mesh"}
Free == "free"
Daemon == "daemon"
Tasks == Restarters \cup {Daemon, "main"}

\* Of app_main, of the timer daemon, of a task that restarts.
MainPcs == {"begin", "done"}
DaemonPcs == {"idle", "take", "check", "delay"}
RestartPcs == {"idle", "saveAp", "saveSta", "saveIp", "mode", "take", "stop",
               "switch", "config", "start", "crashed"}

\* WIFI_DEFAULT_MODE and the modes a direct message may ask for.
Modes == {"AP", "APSTA"}
UsesSta(m) == m = "APSTA"
Ips == Addresses \cup {NoIp}
StaEvents == {"connected", "disconnected"}

Defaults == [mode |-> "AP", ap |-> DefaultAp, sta |-> DefaultSta, ip |-> NoIp]
Off == [started |-> FALSE, mode |-> "AP", ap |-> DefaultAp, sta |-> DefaultSta]
Asleep == [p \in Tasks |-> IF p = "main" THEN "begin" ELSE "idle"]

\* A phone whose signal is weak; calls of the driver that fail.
Faults == {"weakSignal", "driverFails"}

Init ==
  /\ conf = Defaults /\ nvs = Defaults /\ newIp = NoIp
  /\ running = FALSE /\ restarting = FALSE
  /\ attempts = 0 /\ timer = FALSE
  /\ mutex = Free /\ pc = Asleep /\ want = [p \in Restarters |-> "AP"]
  /\ driver = Off /\ link = "down" /\ events = <<>>
  /\ halted = FALSE
  /\ faults \in SUBSET Faults

Up == pc["main"] = "done" /\ ~halted

Goto(p, place) == pc' = [pc EXCEPT ![p] = place]

-----------------------------------------------------------------------------
(* The driver: external *)

\* esp_wifi_set_config or esp_wifi_connect rejects the settings.
Rejected(m) ==
  conf.ap \notin Accepted \/ (UsesSta(m) /\ conf.sta \notin Accepted)

Configured(m) ==
  [driver EXCEPT !.mode = m, !.ap = conf.ap,
                 !.sta = IF UsesSta(m) THEN conf.sta ELSE DefaultSta]

\* esp_wifi_connect does nothing for a station that is connected, connecting
\* or stopped.
Connect ==
  link' = IF driver.started /\ UsesSta(driver.mode) /\ link = "down"
          THEN "connecting" ELSE link

\* esp_wifi_stop disconnects the station, which posts an event.
Stop ==
  /\ driver' = [driver EXCEPT !.started = FALSE]
  /\ link' = "down"
  /\ IF link = "down" THEN events' = events
     ELSE Len(events) < EventCap /\ events' = Append(events, "disconnected")

\* The station connects, fails to, or loses its network.
LinkChange(from, to, event) ==
  /\ Up /\ link = from
  /\ Len(events) < EventCap
  /\ link' = to
  /\ events' = Append(events, event)
  /\ UNCHANGED <<settings, flags, retry, tasks, driver, halted, faults>>

LinkUp == LinkChange("connecting", "up", "connected")
LinkFail == LinkChange("connecting", "down", "disconnected")
LinkLost == LinkChange("up", "down", "disconnected")

-----------------------------------------------------------------------------
(* begin and start, called by app_main *)

\* The settings were read from NVS.  The mode is the one of NVS, so that
\* start has nothing to save, and no other task works on the wifi yet.
BootRejected ==
  /\ pc["main"] = "begin" /\ ~halted
  /\ Rejected(conf.mode)
  /\ halted' = TRUE
  /\ UNCHANGED <<settings, flags, retry, tasks, radio, faults>>

Boot ==
  /\ pc["main"] = "begin" /\ ~halted
  /\ ~Rejected(conf.mode)
  /\ driver' = [Configured(conf.mode) EXCEPT !.started = TRUE]
  /\ link' = IF UsesSta(conf.mode) THEN "connecting" ELSE "down"
  /\ running' = TRUE
  /\ Goto("main", "done")
  /\ UNCHANGED <<settings, restarting, retry, mutex, want, events, halted, faults>>

\* The gateway starts with what was saved in flash: begin reads NVS.
Reboot(saved) ==
  /\ conf' = saved /\ nvs' = saved /\ newIp' = NoIp
  /\ running' = FALSE /\ restarting' = FALSE
  /\ attempts' = 0 /\ timer' = FALSE
  /\ mutex' = Free /\ pc' = Asleep /\ want' = [p \in Restarters |-> "AP"]
  /\ driver' = Off /\ link' = "down" /\ events' = <<>>
  /\ halted' = FALSE
  /\ UNCHANGED faults

\* Power fails and comes back.
PowerCycle == (pc["main"] = "done" \/ halted) /\ Reboot(nvs)

-----------------------------------------------------------------------------
(* What calls restart *)

\* sta_ip_configuration changes nothing when the addresses do not parse.
IpGiven(ip, a) == IF a = NoIp THEN ip ELSE a

\* msg_handler_wifi_mode_change; the mesh task asks for WIFI_DEFAULT_MODE.
AskMode(p, m) ==
  /\ Up /\ pc[p] = "idle"
  /\ p = "mesh" => m = "AP"
  /\ want' = [want EXCEPT ![p] = m]
  /\ Goto(p, "take")
  /\ UNCHANGED <<settings, flags, retry, mutex, radio, halted, faults>>

\* msg_handler_wifi_ap_config_change up to _ap_config in ap_configuration: no
\* mutex is taken.
ApChange(c) ==
  /\ Up /\ pc["httpd"] = "idle"
  /\ conf' = [conf EXCEPT !.ap = c]
  /\ Goto("httpd", "saveAp")
  /\ UNCHANGED <<nvs, newIp, flags, retry, mutex, want, radio, halted, faults>>

\* Mutant: the new access point is not saved.
SaveApNot ==
  /\ ~halted /\ pc["httpd"] = "saveAp"
  /\ Goto("httpd", "mode")
  /\ UNCHANGED <<settings, flags, retry, mutex, want, radio, halted, faults>>

\* save_in_nvs of ap_configuration.
SaveAp ==
  /\ ~halted /\ pc["httpd"] = "saveAp"
  /\ nvs' = [nvs EXCEPT !.ap = conf.ap]
  /\ Goto("httpd", "mode")
  /\ UNCHANGED <<conf, newIp, flags, retry, mutex, want, radio, halted, faults>>

\* msg_handler_wifi_sta_config_change up to _sta_config in sta_configuration,
\* with addresses or none that parse.
StaChange(c, a) ==
  /\ Up /\ pc["httpd"] = "idle"
  /\ conf' = [conf EXCEPT !.sta = c]
  /\ newIp' = a
  /\ Goto("httpd", "saveSta")
  /\ UNCHANGED <<nvs, flags, retry, mutex, want, radio, halted, faults>>

\* save_in_nvs of sta_configuration.
SaveSta ==
  /\ ~halted /\ pc["httpd"] = "saveSta"
  /\ nvs' = [nvs EXCEPT !.sta = conf.sta]
  /\ Goto("httpd", "saveIp")
  /\ UNCHANGED <<conf, newIp, flags, retry, mutex, want, radio, halted, faults>>

\* sta_ip_configuration.  Nobody reads the addresses between its assignments
\* and its save; the netif, which gets them too, is not followed.
SaveIp ==
  /\ ~halted /\ pc["httpd"] = "saveIp"
  /\ conf' = [conf EXCEPT !.ip = IpGiven(@, newIp)]
  /\ nvs' = [nvs EXCEPT !.ip = IpGiven(@, newIp)]
  /\ newIp' = NoIp
  /\ Goto("httpd", "mode")
  /\ UNCHANGED <<flags, retry, mutex, want, radio, halted, faults>>

Saves == SaveAp \/ SaveSta \/ SaveIp

\* A message without a field its handler takes for granted: strtok_r's NULL is
\* used.
MessageCrash ==
  /\ Up /\ pc["httpd"] = "idle"
  /\ halted' = TRUE
  /\ Goto("httpd", "crashed")
  /\ UNCHANGED <<settings, flags, retry, mutex, want, radio, faults>>

\* Both read current_mode(), without the mutex, to restart in it.
ReadMode ==
  /\ ~halted /\ pc["httpd"] = "mode"
  /\ want' = [want EXCEPT !["httpd"] = conf.mode]
  /\ Goto("httpd", "take")
  /\ UNCHANGED <<settings, flags, retry, mutex, radio, halted, faults>>

-----------------------------------------------------------------------------
(* restart, and start within it *)

\* restart returns to its caller.
Return(p) == Goto(p, "idle") /\ want' = [want EXCEPT ![p] = "AP"]

RestartTake(p) ==
  /\ ~halted /\ pc[p] = "take" /\ mutex = Free
  /\ mutex' = p
  /\ Goto(p, "stop")
  /\ UNCHANGED <<settings, flags, retry, want, radio, halted, faults>>

\* Nobody works on the wifi and the mutex is not free: rssi_check kept it.
Leaked == mutex = Daemon /\ pc[Daemon] \in {"idle", "take"}

\* Mutant: the result of xSemaphoreTake is not looked at.
RestartTimeoutGoesOn(p) ==
  /\ ~halted /\ pc[p] = "take" /\ Leaked
  /\ Goto(p, "stop")
  /\ UNCHANGED <<settings, flags, retry, mutex, want, radio, halted, faults>>

\* Mutant: the wait starts again.
RestartTimeoutRetries(p) ==
  /\ ~halted /\ pc[p] = "take" /\ Leaked
  /\ UNCHANGED vars

\* 10 s without the mutex.  A restart and the 5 s of rssi_check are shorter.
RestartTimeout(p) ==
  /\ ~halted /\ pc[p] = "take" /\ Leaked
  /\ Return(p)
  /\ UNCHANGED <<settings, flags, retry, mutex, radio, halted, faults>>

\* A wifi that does not run is not restarted; esp_wifi_restore makes the
\* driver forget its settings.
RestartStop(p) ==
  /\ ~halted /\ pc[p] = "stop"
  /\ IF running
     THEN /\ Stop
          /\ restarting' = TRUE /\ running' = FALSE
          /\ timer' = FALSE
          /\ Goto(p, "switch")
          /\ UNCHANGED <<mutex, want>>
     ELSE /\ mutex' = Free
          /\ Return(p)
          /\ UNCHANGED <<flags, timer, radio>>
  /\ UNCHANGED <<settings, attempts, halted, faults>>

\* Mutant: the mode is not saved.
RestartSwitchUnsaved(p) ==
  /\ ~halted /\ pc[p] = "switch"
  /\ conf' = [conf EXCEPT !.mode = want[p]]
  /\ Goto(p, "config")
  /\ UNCHANGED <<nvs, newIp, flags, retry, mutex, want, radio, halted, faults>>

\* start: the mode, saved when it changes.
RestartSwitch(p) ==
  /\ ~halted /\ pc[p] = "switch"
  /\ conf' = [conf EXCEPT !.mode = want[p]]
  /\ nvs' = IF conf.mode # want[p] THEN [nvs EXCEPT !.mode = want[p]] ELSE nvs
  /\ Goto(p, "config")
  /\ UNCHANGED <<newIp, flags, retry, mutex, want, radio, halted, faults>>

\* start: the driver gets the settings as they are now, or aborts.
RestartConfig(p) ==
  /\ ~halted /\ pc[p] = "config" /\ ~Rejected(want[p])
  /\ driver' = Configured(want[p])
  /\ Goto(p, "start")
  /\ UNCHANGED <<settings, flags, retry, mutex, want, link, events, halted, faults>>

RestartRejected(p) ==
  /\ ~halted /\ pc[p] = "config" /\ Rejected(want[p])
  /\ halted' = TRUE
  /\ UNCHANGED <<settings, flags, retry, tasks, radio, faults>>

\* start: esp_wifi_start and esp_wifi_connect, and the end of restart.
RestartStart(p) ==
  /\ ~halted /\ pc[p] = "start"
  /\ driver' = [driver EXCEPT !.started = TRUE]
  /\ link' = IF UsesSta(want[p]) THEN "connecting" ELSE "down"
  /\ running' = TRUE /\ restarting' = FALSE
  /\ mutex' = Free
  /\ Return(p)
  /\ UNCHANGED <<settings, retry, events, halted, faults>>

-----------------------------------------------------------------------------
(* any_event_handler *)

\* The holder keeps the mutex for more than the 50 ms the event task waits;
\* rssi_check's look at the signal and another event do not.
LongHeld == mutex \in Restarters \/ Leaked \/ pc[Daemon] = "delay"

\* The event is lost.
EventDrop ==
  /\ ~halted /\ events # <<>> /\ LongHeld
  /\ events' = Tail(events)
  /\ UNCHANGED <<settings, flags, retry, tasks, driver, link, halted, faults>>

\* An event of a station that the mode does not use.
EventIgnored ==
  /\ Up /\ events # <<>> /\ mutex = Free
  /\ ~UsesSta(conf.mode)
  /\ events' = Tail(events)
  /\ UNCHANGED <<settings, flags, retry, tasks, driver, link, halted, faults>>

\* Mutant: the attempts are not limited.
StaDisconnectedUnlimited ==
  /\ Up /\ events # <<>> /\ Head(events) = "disconnected" /\ mutex = Free
  /\ UsesSta(conf.mode)
  /\ attempts' = attempts + 1 /\ timer' = timer /\ Connect
  /\ events' = Tail(events)
  /\ UNCHANGED <<settings, flags, tasks, driver, halted, faults>>

\* Mutant: the timer is not started after the last attempt.
StaDisconnectedGivesUp ==
  /\ Up /\ events # <<>> /\ Head(events) = "disconnected" /\ mutex = Free
  /\ UsesSta(conf.mode)
  /\ IF attempts < MaxAttempts
     THEN attempts' = attempts + 1 /\ timer' = timer /\ Connect
     ELSE UNCHANGED <<attempts, timer, link>>
  /\ events' = Tail(events)
  /\ UNCHANGED <<settings, flags, tasks, driver, halted, faults>>

\* sta_disconnected_handler: some attempts at once, then the timer.
StaDisconnected ==
  /\ Up /\ events # <<>> /\ Head(events) = "disconnected" /\ mutex = Free
  /\ UsesSta(conf.mode)
  /\ IF attempts < MaxAttempts
     THEN attempts' = attempts + 1 /\ timer' = timer /\ Connect
     ELSE timer' = TRUE /\ UNCHANGED <<attempts, link>>
  /\ events' = Tail(events)
  /\ UNCHANGED <<settings, flags, tasks, driver, halted, faults>>

\* sta_connected_handler
StaConnected ==
  /\ Up /\ events # <<>> /\ Head(events) = "connected" /\ mutex = Free
  /\ UsesSta(conf.mode)
  /\ timer' = FALSE /\ attempts' = 0
  /\ events' = Tail(events)
  /\ UNCHANGED <<settings, flags, tasks, driver, link, halted, faults>>

-----------------------------------------------------------------------------
(* The timer daemon *)

\* reconnect_task_handler: no mutex is taken.
ReconnectTick ==
  /\ Up /\ timer /\ pc[Daemon] = "idle"
  /\ Connect
  /\ UNCHANGED <<settings, flags, retry, tasks, driver, events, halted, faults>>

RssiWake ==
  /\ Up /\ pc[Daemon] = "idle"
  /\ Goto(Daemon, "take")
  /\ UNCHANGED <<settings, flags, retry, mutex, want, radio, halted, faults>>

RssiTake ==
  /\ ~halted /\ pc[Daemon] = "take" /\ mutex = Free
  /\ mutex' = Daemon
  /\ Goto(Daemon, "check")
  /\ UNCHANGED <<settings, flags, retry, want, radio, halted, faults>>

RssiTimeout ==
  /\ ~halted /\ pc[Daemon] = "take" /\ Leaked
  /\ Goto(Daemon, "idle")
  /\ UNCHANGED <<settings, flags, retry, mutex, want, radio, halted, faults>>

\* esp_wifi_ap_get_sta_list fails, of a stopped wifi at least: rssi_check
\* returns and keeps the mutex.
RssiNoList ==
  /\ ~halted /\ pc[Daemon] = "check"
  /\ ~driver.started \/ "driverFails" \in faults
  /\ Goto(Daemon, "idle")
  /\ UNCHANGED <<settings, flags, retry, mutex, want, radio, halted, faults>>

RssiGood ==
  /\ ~halted /\ pc[Daemon] = "check" /\ driver.started
  /\ mutex' = Free
  /\ Goto(Daemon, "idle")
  /\ UNCHANGED <<settings, flags, retry, want, radio, halted, faults>>

\* The signal is weak: the wifi is stopped for 5 s.
RssiWeak ==
  /\ ~halted /\ pc[Daemon] = "check" /\ driver.started
  /\ "weakSignal" \in faults
  /\ Stop
  /\ Goto(Daemon, "delay")
  /\ UNCHANGED <<settings, flags, retry, mutex, want, halted, faults>>

\* The result of esp_wifi_start is not looked at, and nothing connects.
RssiStart ==
  /\ ~halted /\ pc[Daemon] = "delay"
  /\ \/ driver' = [driver EXCEPT !.started = TRUE]
     \/ "driverFails" \in faults /\ driver' = driver
  /\ mutex' = Free
  /\ Goto(Daemon, "idle")
  /\ UNCHANGED <<settings, flags, retry, want, link, events, halted, faults>>

-----------------------------------------------------------------------------
DriverNext == LinkUp \/ LinkFail \/ LinkLost

Asks(p) ==
  \/ \E m \in Modes : AskMode(p, m)
  \/ p = "httpd" /\ \E c \in ApConfigs : ApChange(c)
  \/ p = "httpd" /\ \E c \in StaConfigs, a \in Ips : StaChange(c, a)

Restarts(p) ==
  \/ p = "httpd" /\ ReadMode
  \/ RestartTake(p) \/ RestartTimeout(p) \/ RestartStop(p) \/ RestartSwitch(p)
  \/ RestartConfig(p) \/ RestartRejected(p) \/ RestartStart(p)

EventNext == EventDrop \/ EventIgnored \/ StaDisconnected \/ StaConnected

DaemonNext ==
  \/ ReconnectTick
  \/ RssiWake \/ RssiTake \/ RssiTimeout \/ RssiNoList \/ RssiGood
  \/ RssiWeak \/ RssiStart

Next ==
  \/ Boot \/ BootRejected \/ PowerCycle
  \/ Saves \/ MessageCrash
  \/ \E p \in Restarters : Asks(p) \/ Restarts(p)
  \/ EventNext \/ DaemonNext \/ DriverNext

Spec == Init /\ [][Next]_vars

-----------------------------------------------------------------------------
(* Safety *)

Settings == [mode : Modes, ap : ApConfigs, sta : StaConfigs, ip : Ips]

TypeOK ==
  /\ conf \in Settings /\ nvs \in Settings /\ newIp \in Ips
  /\ running \in BOOLEAN /\ restarting \in BOOLEAN /\ halted \in BOOLEAN
  /\ mutex \in Restarters \cup {Daemon, Free}
  /\ attempts \in 0..MaxAttempts /\ timer \in BOOLEAN
  /\ pc \in [Tasks -> MainPcs \cup DaemonPcs \cup RestartPcs]
  /\ pc["main"] \in MainPcs /\ pc[Daemon] \in DaemonPcs
  /\ \A p \in Restarters : pc[p] \in RestartPcs
  /\ want \in [Restarters -> Modes]
  /\ driver \in [started : BOOLEAN, mode : Modes, ap : ApConfigs,
                 sta : StaConfigs]
  /\ link \in {"down", "connecting", "up"}
  /\ events \in Seq(StaEvents)
  /\ faults \subseteq Faults

InRestart(p) == pc[p] \in {"stop", "switch", "config", "start"}

\* Who stops, configures and starts the driver has _wifi_mutex all the while,
\* and is_restarting, which lets start skip the mutex, is set by its holder
\* alone: no restart and no rssi_check works on a driver another one stopped.
RestartExclusive ==
  /\ \A p \in Restarters : InRestart(p) => mutex = p
  /\ pc[Daemon] \in {"check", "delay"} => mutex = Daemon
  /\ restarting => mutex \in Restarters /\ InRestart(mutex)

\* Nobody works on the wifi.
AtRest == Up /\ mutex = Free /\ \A p \in Restarters : pc[p] = "idle"

\* When nobody works on the wifi the flash holds the settings of the program
\* and the driver runs, and with them, though they are written without the mutex,
\* in the middle of another task's restart, and power may fail in between.
SettingsInForce ==
  AtRest =>
    /\ nvs = conf
    /\ driver.mode = conf.mode /\ driver.ap = conf.ap
    /\ UsesSta(conf.mode) => driver.sta = conf.sta
    /\ driver.started \/ "driverFails" \in faults

\* What begin and start would reject after a power cycle.
BadInFlash ==
  nvs.ap \notin Accepted \/ (UsesSta(nvs.mode) /\ nvs.sta \notin Accepted)

\* What a restart may find between a setter's assignment and its save.
BadUnsaved ==
  \/ pc["httpd"] = "saveAp" /\ conf.ap \notin Accepted
  \/ pc["httpd"] = "saveSta" /\ UsesSta(conf.mode) /\ conf.sta \notin Accepted

\* The gateway halts on a message without its fields or on settings the driver
\* rejects.  These are in the flash, where the next start finds them, or the web
\* server task has just set them and has not saved them yet: restart never calls
\* the driver in a state it is not made for.
HaltsOnBadSettings ==
  halted => BadInFlash \/ BadUnsaved \/ pc["httpd"] = "crashed"

\* wifi_wetzel_esp32.cpp:89-93 on sta_disconnected_handler: "Tenta reconectar
\* ate o limite de conexoes, e depois ativa a task de reconexao periodica".  A
\* disconnected station has an event to come that makes it connect, or the
\* periodic timer.
ReconnectPending ==
  Up /\ mutex = Free /\ UsesSta(conf.mode) /\ link = "down" =>
    timer \/ \E i \in DOMAIN events : events[i] = "disconnected"

\* With phones that keep near, whatever restarts and lost events come together.
ReconnectPendingNear == "weakSignal" \notin faults => ReconnectPending

-----------------------------------------------------------------------------
(* Liveness *)

\* Ready tasks run.  The daemon serves both its timers in turn, and the mutex
\* is free between two restarts long enough for the task that waits for it.
Fairness ==
  /\ WF_vars(Boot \/ BootRejected)
  /\ WF_vars(Saves)
  /\ SF_vars(EventNext)
  /\ WF_vars(RssiTimeout \/ RssiNoList \/ RssiGood \/ RssiWeak \/ RssiStart)
  /\ SF_vars(RssiTake)
  /\ SF_vars(ReconnectTick)
  /\ \A p \in Restarters : SF_vars(Restarts(p))

FairSpec == Spec /\ Fairness

\* Every restart comes back to its caller, the web server task or the mesh
\* task, unless the gateway halts: also when rssi_check has kept the mutex.
RestartReturns ==
  \A p \in Restarters : pc[p] # "idle" ~> pc[p] = "idle" \/ halted

\* A station that has lost its network goes on trying, when nothing goes wrong
\* around it: any_event_handler, reconnect_task_handler and restart.
StationGoesOn ==
  faults = {} => []<>(halted \/ ~UsesSta(conf.mode) \/ link # "down")

=============================================================================
