------------------------------- MODULE Gateway -------------------------------
(***************************************************************************)
(* The web server and the mesh task together.  They meet in the wifi: a    *)
(* status poll that makes _update_ssid restart it throws the phone out,    *)
(* the event task stops the server, and the phone's return starts it again.*)
(* So the phone is served for good only once the mesh task has come to     *)
(* rest.                                                                   *)
(***************************************************************************)
EXTENDS MeshPolls, WebServer

gatewayVars == <<pollVars, webVars>>

GatewayInit == Init /\ WebInit

\* check_mesh_connection_task exists once begin has created it.
MeshPoll(p) ==
  /\ begun = "done" /\ ~halted
  /\ Receive(p)
  /\ IF outcome' = "restart" THEN WifiRestarts ELSE UNCHANGED <<phone, events>>
  /\ UNCHANGED <<begun, handle, live, dispatch, request, halted, early, message>>

\* The restart finds settings of a direct message that the driver rejects: of one
\* that is just being handled, or whose own restart did not come to the driver.
MeshPollHalts(p) ==
  /\ begun = "done" /\ ~halted
  /\ request = "direct" \/ message = "handled"
  /\ Receive(p) /\ outcome' = "restart"
  /\ halted' = TRUE /\ message' = "crashed"
  /\ UNCHANGED <<begun, handle, live, dispatch, events, phone, request, early>>

MeshMalformed ==
  /\ begun = "done" /\ ~halted
  /\ ReceiveMalformed
  /\ UNCHANGED webVars

GatewayPowerCycle == PowerCycle /\ WebPowerCycle

GatewayNext ==
  \/ \E p \in Polls : MeshPoll(p) \/ MeshPollHalts(p)
  \/ MeshMalformed
  \/ WebStep /\ UNCHANGED pollVars
  \/ GatewayPowerCycle

\* The main task and the event task run when they can; the app's requests end
\* (HttpdReturns of UartBridge, RestartReturns of WifiManager), except that of
\* /echo, which waits for its client; and a phone that is away comes back and
\* asks for an address.
Fairness ==
  /\ WF_gatewayVars(Begin /\ UNCHANGED pollVars)
  /\ WF_gatewayVars(EventTask /\ UNCHANGED pollVars)
  /\ WF_gatewayVars(BridgeEnds /\ UNCHANGED pollVars)
  /\ WF_gatewayVars((\E code \in Codes : DirectMsg(code)) /\ UNCHANGED pollVars)
  /\ WF_gatewayVars(PhoneJoins /\ UNCHANGED pollVars)
  /\ WF_gatewayVars(phone = "joined" /\ PhoneAssigned /\ UNCHANGED pollVars)

GatewaySpec == GatewayInit /\ [][GatewayNext]_gatewayVars /\ Fairness

-----------------------------------------------------------------------------
GatewayTypeOK == TypeOK /\ WebTypeOK

\* begin registers the handlers before it starts the server they look at (line
\* 69 against 75) and starts the server before it creates the mutex its requests
\* take (75 against 79): a phone that is early can make the program abort, at
\* once or, when a handler was at work while begin started its server, later.
\* Later it may halt on a direct message, for what is in it or for the settings
\* it has left.  There is no other reason: no order of connections, requests and
\* restarts starts a second server once begin is over.
HaltsAtBootOrOnMessage == halted => begun # "done" \/ early \/ message = "crashed"

\* Whenever the event task has nothing left to do, the server the handle stands
\* for runs, and a phone with an address has one, however its comings and goings
\* and the restarts of the wifi followed each other; but for a handler that ran
\* before begin had set the handle, which may leave a server without one.
ServesThePhone ==
  (begun = "done" /\ dispatch = "idle" /\ ~halted /\ ~early) =>
    /\ handle = live
    /\ (events = <<>> /\ phone = "assigned") => live

\* Something that takes the phone away and is not the mesh's doing.
Disturbs == PhoneLeaves \/ GatewayPowerCycle \/ (request = "direct" /\ phone' # phone)

\* With a mesh that has come to rest, a phone that stays and clients of /echo
\* that send the body they have announced, the phone is in the end served and
\* stays so: the mesh task stops throwing it out and the event task, which waits
\* in httpd_stop for the requests, works off what is queued.
StaysServed ==
  /\ <>[](streak >= 2)
  /\ <>[][~Disturbs]_gatewayVars
  /\ []<>(request # "echo")
  => <>[](halted \/ (live /\ phone = "assigned"))

=============================================================================
