---------------------------- MODULE GatewayProofs ----------------------------
(***************************************************************************)
(* Theorems about the mesh memory and the web server, for all statuses,    *)
(* networks, message codes and lengths of the event queue.  MeshInv says   *)
(* what _update_ssid remembers after one message, WebInv what the handle   *)
(* and the server are while the event task is at work.                     *)
(***************************************************************************)
EXTENDS Gateway, TLAPS

(* The mesh memory, on its own *)

\* One message makes the memory know the network at least, unless it is the
\* initial one.
MeshInv ==
  /\ TypeOK
  /\ streak = 0 => poll = NoPoll
  /\ streak >= 1 => poll \in Polls /\ (KeptOldNetwork \/ lastSsid = poll.ssid)
  /\ MemoryCatchesUp

\* Passwords are not empty, so that SsidChange is a change of the name.
LEMMA NameChange ==
  ASSUME NEW p \in Polls
  PROVE  SsidChange(p) <=> p.ssid # lastSsid
BY MeshAssumption DEF MeshAssumption, SsidChange, LastPassword, Polls

LEMMA MeshStart == Init => MeshInv
BY MeshAssumption
   DEF Init, MeshInit, MeshInv, TypeOK, MeshTypeOK, Outcomes, MaxStreak,
       MemoryCatchesUp

LEMMA NoPollIsNone == NoPoll \notin Polls
BY MeshAssumption DEF MeshAssumption, NoPoll, Polls

\* _update_ssid, for one message.
LEMMA ReceiveStep ==
  ASSUME MeshInv, NEW p \in Polls, Receive(p)
  PROVE  /\ MeshInv'
         /\ streak >= 2 /\ poll' = poll => outcome' # "restart"
<1> USE NameChange DEF MeshInv, TypeOK, MeshTypeOK, Polls, Outcomes, MaxStreak,
        Receive, KeptOldNetwork, MemoryCatchesUp, StatusChange
<1>1. CASE Dismiss(p)
  BY <1>1, NoPollIsNone DEF Dismiss
<1>2. CASE StatusOnly(p)
  BY <1>2, NoPollIsNone DEF StatusOnly
<1>3. CASE SsidOnly(p)
  BY <1>3, NoPollIsNone DEF SsidOnly
<1>4. CASE BothInitial(p)
  BY <1>4, NoPollIsNone DEF BothInitial
<1>5. CASE BothChanged(p)
  BY <1>5, NoPollIsNone DEF BothChanged
<1> QED
  BY <1>1, <1>2, <1>3, <1>4, <1>5 DEF UpdateSsid

LEMMA MeshStep ==
  ASSUME MeshInv, [Next]_pollVars
  PROVE  /\ MeshInv'
         /\ [streak >= 2 /\ poll' = poll => outcome' # "restart"]_pollVars
<1>1. ASSUME NEW p \in Polls, Receive(p)
      PROVE  MeshInv' /\ (streak >= 2 /\ poll' = poll => outcome' # "restart")
  BY <1>1, ReceiveStep
<1>2. CASE ReceiveMalformed
  BY <1>2 DEF ReceiveMalformed, Malformed, MeshInv, TypeOK, MeshTypeOK, Outcomes,
              KeptOldNetwork, MemoryCatchesUp
<1>3. CASE PowerCycle
  BY <1>3, MeshStart DEF PowerCycle, MeshInv, TypeOK, MeshTypeOK, Outcomes,
              MaxStreak, MemoryCatchesUp
<1>4. CASE UNCHANGED pollVars
  BY <1>4 DEF pollVars, MeshInv, TypeOK, MeshTypeOK, KeptOldNetwork,
              MemoryCatchesUp
<1> QED
  BY <1>1, <1>2, <1>3, <1>4 DEF Next

\* _last_status and _last_ssid and what is counted of the mesh keep their types.
THEOREM MeshTypeCorrect == Spec => []TypeOK
<1>1. MeshInv => TypeOK
  BY DEF MeshInv
<1> QED
  BY <1>1, MeshStart, MeshStep, PTL DEF Spec

\* Once the same message has come twice, _update_ssid remembers it, whatever came
\* before, or has kept the old network for the initial one.
THEOREM MemoryFollowsMesh == Spec => []MemoryCatchesUp
<1>1. MeshInv => MemoryCatchesUp
  BY DEF MeshInv
<1> QED
  BY <1>1, MeshStart, MeshStep, PTL DEF Spec

\* A mesh that repeats its message makes _update_ssid restart the wifi twice at
\* most.
THEOREM StableMeshIsQuiet == Spec => QuietWhenStable
BY MeshStart, MeshStep, PTL DEF Spec, QuietWhenStable

-----------------------------------------------------------------------------
(* The web server beside it *)

\* The gateway's mesh task and power cycles are those of MeshPolls, so that what
\* is proved of _update_ssid above holds with the web server beside it.
THEOREM GatewayImplementsMesh == GatewaySpec => Spec
<1>1. GatewayInit => Init
  BY DEF GatewayInit
<1>2. [GatewayNext]_gatewayVars => [Next]_pollVars
  BY DEF GatewayNext, gatewayVars, MeshPoll, MeshPollHalts, MeshMalformed, GatewayPowerCycle, Next
<1> QED
  BY <1>1, <1>2, PTL DEF GatewaySpec, Spec

Happenings == {"assigned", "left"}

\* The types, with the queue as a sequence.
WebTypes ==
  /\ begun \in {"ip", "wifi", "start", "assign", "mutex", "done"}
  /\ handle \in BOOLEAN /\ live \in BOOLEAN /\ halted \in BOOLEAN /\ early \in BOOLEAN
  /\ dispatch \in {"idle", "start", "assign", "stop", "clear"}
  /\ events \in Seq(Happenings) /\ Len(events) <= MaxEvents
  /\ phone \in {"away", "joined", "assigned"}
  /\ request \in {"none", "bridge", "echo", "direct"}
  /\ message \in {"none", "handled", "crashed"}

\* A phone with an address: its event is the last in the queue, or the server
\* has been started for it or is about to be.
Awaited ==
  \/ events # <<>> /\ events[Len(events)] = "assigned"
  \/ /\ events = <<>>
     /\ \/ dispatch = "idle" /\ live
        \/ dispatch \in {"start", "assign"}

\* Handle and server at each step of begin and of the event task, if no handler
\* came before begin had set the handle.
ServerInv ==
  ~early =>
    /\ begun \in {"ip", "wifi", "start"} => dispatch = "idle" /\ ~handle /\ ~live
    /\ begun = "assign" => dispatch = "idle" /\ ~handle /\ live
    /\ begun \in {"mutex", "done"} =>
         /\ dispatch = "idle" => handle = live
         /\ dispatch \in {"start", "clear"} => handle = (dispatch = "clear") /\ ~live
         /\ dispatch = "assign" => ~handle /\ live
         /\ dispatch = "stop" => handle /\ live
         /\ phone = "assigned" => Awaited
    /\ phone = "assigned" /\ events # <<>> => events[Len(events)] = "assigned"

WebInv == WebTypes /\ ServerInv /\ HaltsAtBootOrOnMessage

LEMMA NoEvents == <<>> \in Seq(Happenings) /\ Len(<<>>) <= MaxEvents
<1>1. Len(<<>>) = 0
  OBVIOUS
<1> QED
  BY <1>1, WebAssumption DEF WebAssumption

LEMMA WebStart == WebInit => WebInv
BY NoEvents DEF WebInit, WebInv, WebTypes, ServerInv, HaltsAtBootOrOnMessage

\* What the driver posts is the last in the queue.
LEMMA Posted ==
  ASSUME WebTypes, NEW e \in Happenings, Post(e)
  PROVE  /\ events' \in Seq(Happenings) /\ Len(events') <= MaxEvents
         /\ events' # <<>> /\ events'[Len(events')] = e
BY WebAssumption DEF WebAssumption, WebTypes, Post

\* What the event task takes leaves the last in the queue, or nothing.
LEMMA Taken ==
  ASSUME WebTypes, NEW e \in Happenings, Dispatched(e)
  PROVE  /\ events' \in Seq(Happenings) /\ Len(events') <= MaxEvents
         /\ events' # <<>> => events'[Len(events')] = events[Len(events)]
         /\ events' = <<>> => events[Len(events)] = e
<1>1. events \in Seq(Happenings) /\ events # <<>> /\ Head(events) = e
      /\ events' = Tail(events)
  BY DEF WebTypes, Dispatched
<1>2. /\ Len(events) > 0 /\ Len(Tail(events)) = Len(events) - 1
      /\ \A i \in 1..(Len(events) - 1) : Tail(events)[i] = events[i + 1]
  BY <1>1
<1>3. Tail(events) # <<>> => Len(events) > 1
  BY <1>1
<1>4. Tail(events) = <<>> => Len(events) = 1
  <2>1. Len(<<>>) = 0
    OBVIOUS
  <2>2. Tail(events) = <<>> => Len(Tail(events)) = Len(<<>>)
    BY Zenon
  <2>3. Len(events) \in Nat
    BY <1>1
  <2> QED
    BY <1>2, <2>1, <2>2, <2>3
<1>5. Tail(events) \in Seq(Happenings)
  BY <1>1
<1>6. events' # <<>> => events'[Len(events')] = events[Len(events)]
  BY <1>1, <1>2, <1>3
<1>7. events' = <<>> => events[Len(events)] = e
  BY <1>1, <1>4
<1>8. Len(events') <= MaxEvents
  BY <1>1, <1>2, WebAssumption DEF WebTypes, WebAssumption
<1> QED
  BY <1>1, <1>5, <1>6, <1>7, <1>8

\* Steps of the phone and of a restart of the wifi.
LEMMA PhoneStep ==
  ASSUME WebInv, UNCHANGED <<begun, handle, live, dispatch, halted, early>>,
         request' \in {"none", "bridge", "echo", "direct"},
         message' \in {"none", "handled", "crashed"}, halted => message' = message,
         \/ UNCHANGED <<phone, events>>
         \/ phone' \in {"away", "joined"} /\ events' = events
         \/ phone' = "away" /\ Post("left")
         \/ phone' = "assigned" /\ Post("assigned")
  PROVE  WebInv'
<1> USE DEF WebInv, WebTypes, ServerInv, HaltsAtBootOrOnMessage, Awaited, Happenings
<1>1. CASE UNCHANGED <<phone, events>>
  BY <1>1
<1>2. CASE phone' \in {"away", "joined"} /\ events' = events
  BY <1>2
<1>3. CASE phone' = "away" /\ Post("left")
  <2>1. events' \in Seq(Happenings) /\ Len(events') <= MaxEvents
    BY <1>3, Posted
  <2> QED
    BY <1>3, <2>1
<1>4. CASE phone' = "assigned" /\ Post("assigned")
  <2>1. /\ events' \in Seq(Happenings) /\ Len(events') <= MaxEvents
        /\ events' # <<>> /\ events'[Len(events')] = "assigned"
    BY <1>4, Posted
  <2> QED
    BY <1>4, <2>1
<1> QED
  BY <1>1, <1>2, <1>3, <1>4

LEMMA WebStepInv ==
  ASSUME WebInv, WebStep
  PROVE  WebInv'
<1>a. message \in {"none", "handled", "crashed"}
  BY DEF WebInv, WebTypes
<1>1. CASE Begin
  <2> USE DEF WebInv, WebTypes, ServerInv, HaltsAtBootOrOnMessage, Awaited
  <2>1. CASE RegisterIp
    BY <2>1 DEF RegisterIp
  <2>2. CASE RegisterWifi
    BY <2>2 DEF RegisterWifi
  <2>3. CASE BeginStart
    BY <2>3 DEF BeginStart, StartWebserver
  <2>4. CASE BeginAssign
    BY <2>4 DEF BeginAssign
  <2>5. CASE BeginMutex
    BY <2>5 DEF BeginMutex
  <2> QED
    BY <1>1, <2>1, <2>2, <2>3, <2>4, <2>5 DEF Begin
<1>2. CASE ConnectHandler
  <2>1. /\ events' \in Seq(Happenings) /\ Len(events') <= MaxEvents
        /\ events' # <<>> => events'[Len(events')] = events[Len(events)]
        /\ events # <<>> /\ dispatch = "idle"
    BY <1>2, Taken DEF ConnectHandler, Dispatched, Happenings, WebInv
  <2> QED
    BY <1>2, <2>1 DEF ConnectHandler, WebInv, WebTypes, ServerInv,
                      HaltsAtBootOrOnMessage, Awaited
<1>3. CASE DisconnectHandler
  <2>1. /\ events' \in Seq(Happenings) /\ Len(events') <= MaxEvents
        /\ events' # <<>> => events'[Len(events')] = events[Len(events)]
        /\ events' = <<>> => events[Len(events)] = "left"
        /\ events # <<>> /\ dispatch = "idle"
    BY <1>3, Taken DEF DisconnectHandler, Dispatched, Happenings, WebInv
  <2> QED
    BY <1>3, <2>1 DEF DisconnectHandler, WebInv, WebTypes, ServerInv,
                      HaltsAtBootOrOnMessage, Awaited
<1>4. CASE ConnectStart \/ ConnectAssign \/ StopWebserver \/ ClearHandle
  <2> USE DEF WebInv, WebTypes, ServerInv, HaltsAtBootOrOnMessage, Awaited
  <2>1. CASE ConnectStart
    BY <2>1 DEF ConnectStart, StartWebserver
  <2>2. CASE ConnectAssign
    BY <2>2 DEF ConnectAssign
  <2>3. CASE StopWebserver
    BY <2>3 DEF StopWebserver
  <2>4. CASE ClearHandle
    BY <2>4 DEF ClearHandle
  <2> QED
    BY <1>4, <2>1, <2>2, <2>3, <2>4
<1>5. CASE PhoneJoins \/ PhoneAssigned \/ PhoneLeaves
  <2>1. request \in {"none", "bridge", "echo", "direct"}
    BY DEF WebInv, WebTypes
  <2> QED
    BY <1>5, <1>a, <2>1, PhoneStep DEF PhoneJoins, PhoneAssigned, PhoneLeaves
<1>6. ASSUME NEW kind \in {"bridge", "echo", "direct"}, RequestStarts(kind)
      PROVE  WebInv'
  BY <1>6 DEF RequestStarts, WebInv, WebTypes, ServerInv, HaltsAtBootOrOnMessage, Awaited
<1>7. CASE BridgeEnds \/ EchoEnds
  BY <1>7, <1>a, PhoneStep DEF BridgeEnds, EchoEnds
<1>8. ASSUME NEW code \in Codes, DirectMsg(code) PROVE WebInv'
  BY <1>8, <1>a, PhoneStep DEF DirectMsg, WifiRestarts
<1>9. CASE DirectCrash
  BY <1>9 DEF DirectCrash, WebInv, WebTypes, ServerInv, HaltsAtBootOrOnMessage,
              Awaited
<1> QED
  BY <1>1, <1>2, <1>3, <1>4, <1>5, <1>6, <1>7, <1>8, <1>9 DEF WebStep, EventTask

LEMMA GatewayStep ==
  ASSUME WebInv, [GatewayNext]_gatewayVars
  PROVE  WebInv'
<1>1. ASSUME NEW p \in Polls, MeshPoll(p) PROVE WebInv'
  <2>1. /\ request \in {"none", "bridge", "echo", "direct"}
        /\ message \in {"none", "handled", "crashed"}
    BY DEF WebInv, WebTypes
  <2> QED
    BY <1>1, <2>1, PhoneStep DEF MeshPoll, WifiRestarts
<1>5. ASSUME NEW p \in Polls, MeshPollHalts(p) PROVE WebInv'
  BY <1>5 DEF MeshPollHalts, WebInv, WebTypes, ServerInv, HaltsAtBootOrOnMessage,
              Awaited
<1>2. CASE MeshMalformed \/ UNCHANGED gatewayVars
  BY <1>2 DEF MeshMalformed, gatewayVars, webVars, WebInv, WebTypes, ServerInv,
              HaltsAtBootOrOnMessage, Awaited
<1>3. CASE WebStep
  BY <1>3, WebStepInv
<1>4. CASE GatewayPowerCycle
  BY <1>4, NoEvents DEF GatewayPowerCycle, WebPowerCycle, WebInv, WebTypes,
              ServerInv, HaltsAtBootOrOnMessage
<1> QED
  BY <1>1, <1>2, <1>3, <1>4, <1>5 DEF GatewayNext

LEMMA WebAlways == GatewaySpec => []WebInv
<1>1. GatewayInit => WebInv
  BY WebStart DEF GatewayInit
<1> QED
  BY <1>1, GatewayStep, PTL DEF GatewaySpec

\* The mesh memory and the server keep their types, and the queue its length.
THEOREM GatewayTypeCorrect == GatewaySpec => []GatewayTypeOK
<1>1. WebInv => WebTypeOK
  <2> SUFFICES ASSUME WebInv PROVE WebTypeOK
    OBVIOUS
  <2>1. /\ Len(events) \in 0..MaxEvents
        /\ events \in [1..Len(events) -> {"assigned", "left"}]
    BY WebAssumption DEF WebAssumption, WebInv, WebTypes, Happenings
  <2> QED
    BY <2>1 DEF WebTypeOK, WebInv, WebTypes
<1> QED
  BY <1>1, WebAlways, GatewayImplementsMesh, MeshTypeCorrect, PTL DEF GatewayTypeOK

\* The gateway halts in begin, because a handler was early (start_webserver and
\* the mutex of /out), or on a direct message and the settings it has left: never
\* for the order in which begin, the event task and the phone did their steps.
THEOREM GatewayHaltsForAReason == GatewaySpec => []HaltsAtBootOrOnMessage
<1>1. WebInv => HaltsAtBootOrOnMessage
  BY DEF WebInv
<1> QED
  BY <1>1, WebAlways, PTL

\* After any comings and goings of the phone, restarts of the wifi and requests,
\* connect_handler and disconnect_handler leave a phone that has its address
\* with a server once they have nothing to do.
THEOREM PhoneIsServed == GatewaySpec => []ServesThePhone
<1>1. WebInv => ServesThePhone
  BY DEF WebInv, WebTypes, ServerInv, Awaited, ServesThePhone
<1> QED
  BY <1>1, WebAlways, PTL

\* With the web server beside it the mesh memory follows the mesh as well.
THEOREM GatewayFollowsMesh == GatewaySpec => []MemoryCatchesUp
BY GatewayImplementsMesh, MemoryFollowsMesh, PTL

\* And a mesh at rest leaves the wifi, and so the phone, alone.
THEOREM GatewayIsQuiet == GatewaySpec => QuietWhenStable
BY GatewayImplementsMesh, StableMeshIsQuiet, PTL

=============================================================================
