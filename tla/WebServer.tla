------------------------------ MODULE WebServer ------------------------------
(***************************************************************************)
(* The life of the web server (AsyncServer::begin, the handlers of the     *)
(* wifi and IP events, /echo and the dispatch of /direct, all in           *)
(* src/main/src/async_server.cpp): who starts it, who stops it, and for    *)
(* which phone it is there.                                                *)
(*                                                                         *)
(* Three tasks meet here.  The main task runs begin step by step; the      *)
(* event task calls one handler after another for the events the driver    *)
(* has queued; the server's own task runs one request at a time, and       *)
(* httpd_stop waits for it.  The access point is up before begin starts    *)
(* (app_main), so all of them may be busy at once.                         *)
(*                                                                         *)
(* The gateway accepts one phone (DEFAULT_SOFT_AP_MAX_CONNECTIONS).        *)
(***************************************************************************)
EXTENDS Integers, Sequences

CONSTANTS
  Codes,      \* codes of direct messages a client may send
  MaxEvents   \* bound: events in the driver's queue (the program has 32)

ASSUME WebAssumption == Codes \subseteq Int /\ MaxEvents \in Nat \ {0}

VARIABLES
  begun,     \* how far begin has come
  handle,    \* begin's static variable server is not NULL
  live,      \* a server has the port and its task runs
  dispatch,  \* what the event task does
  events,    \* the driver's queue
  phone,     \* the phone at the access point
  request,   \* what the server's task is answering
  halted,    \* abort() or a failed assertion: nothing runs any more
  early,     \* history: a handler took the server in hand before begin had set
             \* its handle
  message    \* history: "handled" once a direct message has had the wifi
             \* restarted, "crashed" when one is why the gateway has halted

webVars == <<begun, handle, live, dispatch, events, phone, request, halted, early, message>>

WebTypeOK ==
  /\ begun \in {"ip", "wifi", "start", "assign", "mutex", "done"}
  /\ handle \in BOOLEAN /\ live \in BOOLEAN /\ halted \in BOOLEAN /\ early \in BOOLEAN
  /\ dispatch \in {"idle", "start", "assign", "stop", "clear"}
  /\ events \in UNION {[1..n -> {"assigned", "left"}] : n \in 0..MaxEvents}
  /\ phone \in {"away", "joined", "assigned"}
  /\ request \in {"none", "bridge", "echo", "direct"}
  /\ message \in {"none", "handled", "crashed"}

WebInit ==
  /\ begun = "ip" /\ dispatch = "idle" /\ events = <<>>
  /\ handle = FALSE /\ live = FALSE /\ halted = FALSE /\ early = FALSE
  /\ phone = "away" /\ request = "none" /\ message = "none"

-----------------------------------------------------------------------------
(* start_webserver: a second server cannot bind the port, and the program   *)
(* aborts.                                                                  *)
StartWebserver ==
  IF live THEN halted' = TRUE /\ UNCHANGED live
          ELSE live' = TRUE /\ UNCHANGED halted

(* begin, in the main task. *)
RegisterIp ==
  /\ begun = "ip" /\ ~halted
  /\ begun' = "wifi"
  /\ UNCHANGED <<handle, live, dispatch, events, phone, request, halted, early, message>>

RegisterWifi ==
  /\ begun = "wifi" /\ ~halted
  /\ begun' = "start"
  /\ UNCHANGED <<handle, live, dispatch, events, phone, request, halted, early, message>>

BeginStart ==
  /\ begun = "start" /\ ~halted
  /\ StartWebserver
  /\ begun' = "assign"
  /\ UNCHANGED <<handle, dispatch, events, phone, request, early, message>>

BeginAssign ==
  /\ begun = "assign" /\ ~halted
  /\ handle' = TRUE
  /\ begun' = "mutex"
  /\ UNCHANGED <<live, dispatch, events, phone, request, halted, early, message>>

\* The mutex of the serial line and the two tasks that use it.
BeginMutex ==
  /\ begun = "mutex" /\ ~halted
  /\ begun' = "done"
  /\ UNCHANGED <<handle, live, dispatch, events, phone, request, halted, early, message>>

-----------------------------------------------------------------------------
(* The phone, and what the driver reports of it. *)
Post(e) == Len(events) < MaxEvents /\ events' = Append(events, e)

PhoneJoins ==
  /\ phone = "away" /\ ~halted
  /\ phone' = "joined"
  /\ UNCHANGED <<begun, handle, live, dispatch, events, request, halted, early, message>>

\* The DHCP server gives the phone its address, the first time or again.
PhoneAssigned ==
  /\ phone # "away" /\ ~halted
  /\ phone' = "assigned"
  /\ Post("assigned")
  /\ UNCHANGED <<begun, handle, live, dispatch, request, halted, early, message>>

PhoneLeaves ==
  /\ phone # "away" /\ ~halted
  /\ phone' = "away"
  /\ Post("left")
  /\ UNCHANGED <<begun, handle, live, dispatch, request, halted, early, message>>

\* A restart of the wifi drops the phone, with or without its event, or gives
\* up before it has stopped anything.
WifiRestarts ==
  \/ UNCHANGED <<phone, events>>
  \/ /\ phone' = "away"
     /\ \/ UNCHANGED events
        \/ phone # "away" /\ Post("left")

-----------------------------------------------------------------------------
(* The event task. *)
Dispatched(e) ==
  /\ dispatch = "idle" /\ events # <<>> /\ ~halted
  /\ Head(events) = e
  /\ events' = Tail(events)

\* ip_any_handler, connect_handler.
ConnectHandler ==
  /\ Dispatched("assigned")
  /\ dispatch' = IF begun # "ip" /\ ~handle THEN "start" ELSE "idle"
  /\ early' = (early \/ (dispatch' # "idle" /\ begun \notin {"mutex", "done"}))
  /\ UNCHANGED <<begun, handle, live, phone, request, halted, message>>

ConnectStart ==
  /\ dispatch = "start" /\ ~halted
  /\ StartWebserver
  /\ dispatch' = "assign"
  /\ UNCHANGED <<begun, handle, events, phone, request, early, message>>

ConnectAssign ==
  /\ dispatch = "assign" /\ ~halted
  /\ handle' = TRUE
  /\ dispatch' = "idle"
  /\ UNCHANGED <<begun, live, events, phone, request, halted, early, message>>

\* wifi_any_handler, disconnect_handler.
DisconnectHandler ==
  /\ Dispatched("left")
  /\ dispatch' = IF begun \notin {"ip", "wifi"} /\ handle THEN "stop" ELSE "idle"
  /\ early' = (early \/ (dispatch' # "idle" /\ begun \notin {"mutex", "done"}))
  /\ UNCHANGED <<begun, handle, live, phone, request, halted, message>>

\* Mutant: the server is forgotten and goes on.
StopWebserverNot ==
  /\ dispatch = "stop" /\ request = "none" /\ ~halted
  /\ dispatch' = "clear"
  /\ UNCHANGED <<begun, handle, live, events, phone, request, halted, early, message>>

\* httpd_stop waits for the server's task, and so for the request it answers.
StopWebserver ==
  /\ dispatch = "stop" /\ request = "none" /\ ~halted
  /\ live' = FALSE
  /\ dispatch' = "clear"
  /\ UNCHANGED <<begun, handle, events, phone, request, halted, early, message>>

\* Mutant: the stopped server's handle stays.
ClearHandleNot ==
  /\ dispatch = "clear" /\ ~halted
  /\ dispatch' = "idle"
  /\ UNCHANGED <<begun, handle, live, events, phone, request, halted, early, message>>

ClearHandle ==
  /\ dispatch = "clear" /\ ~halted
  /\ handle' = FALSE
  /\ dispatch' = "idle"
  /\ UNCHANGED <<begun, live, events, phone, request, halted, early, message>>

-----------------------------------------------------------------------------
(* The server's task.  /out and /ans are the module UartBridge: here they   *)
(* end, as HttpdReturns says there, and /out needs the mutex of the line.   *)
RequestStarts(kind) ==
  /\ live /\ phone = "assigned" /\ request = "none" /\ dispatch # "stop" /\ ~halted
  /\ IF kind = "bridge" /\ begun # "done"
       THEN halted' = TRUE /\ UNCHANGED request     \* xSemaphoreTake(NULL)
       ELSE request' = kind /\ UNCHANGED halted
  /\ UNCHANGED <<begun, handle, live, dispatch, events, phone, early, message>>

BridgeEnds ==
  /\ request = "bridge" /\ ~halted
  /\ request' = "none"
  /\ UNCHANGED <<begun, handle, live, dispatch, events, phone, halted, early, message>>

\* /echo returns when the announced body has come or the client has closed
\* the connection; a timeout of httpd_req_recv only makes it try again.
EchoEnds ==
  /\ request = "echo" /\ phone = "assigned" /\ ~halted
  /\ request' = "none"
  /\ UNCHANGED <<begun, handle, live, dispatch, events, phone, halted, early, message>>

\* The code's number is cut to 8 bits before the switch; a message without a
\* "text" field has whatever number the uninitialized param holds.
MessageCode(code) == code % 256

WIFI_MODE_CHANGE_CODE       == 1
WIFI_AP_CONFIG_CHANGE_CODE  == 2
WIFI_STA_CONFIG_CHANGE_CODE == 3

RestartCodes ==
  {WIFI_MODE_CHANGE_CODE, WIFI_AP_CONFIG_CHANGE_CODE, WIFI_STA_CONFIG_CHANGE_CODE}

\* The three handlers of module WifiManager restart the wifi, if they accept
\* their parameters; no other code touches phone or server.
DirectMsg(code) ==
  /\ request = "direct" /\ ~halted
  /\ IF MessageCode(code) \in RestartCodes
       THEN WifiRestarts /\ message' = "handled"
       ELSE UNCHANGED <<phone, events, message>>
  /\ request' = "none"
  /\ UNCHANGED <<begun, handle, live, dispatch, halted, early>>

\* A field that is not there is used all the same (strtok_r's NULL), a message
\* without text is whatever param holds, and settings that the driver rejects
\* make restart abort.
DirectCrash ==
  /\ request = "direct" /\ ~halted
  /\ halted' = TRUE /\ message' = "crashed"
  /\ UNCHANGED <<begun, handle, live, dispatch, events, phone, request, early>>

-----------------------------------------------------------------------------
WebPowerCycle ==
  /\ begun' = "ip" /\ dispatch' = "idle" /\ events' = <<>>
  /\ handle' = FALSE /\ live' = FALSE /\ halted' = FALSE /\ early' = FALSE
  /\ phone' = "away" /\ request' = "none" /\ message' = "none"

Begin == RegisterIp \/ RegisterWifi \/ BeginStart \/ BeginAssign \/ BeginMutex

EventTask ==
  \/ ConnectHandler \/ ConnectStart \/ ConnectAssign
  \/ DisconnectHandler \/ StopWebserver \/ ClearHandle

WebStep ==
  \/ Begin
  \/ EventTask
  \/ PhoneJoins \/ PhoneAssigned \/ PhoneLeaves
  \/ \E kind \in {"bridge", "echo", "direct"} : RequestStarts(kind)
  \/ BridgeEnds \/ EchoEnds
  \/ \E code \in Codes : DirectMsg(code)
  \/ DirectCrash

=============================================================================
