------------------------------ MODULE MeshPolls ------------------------------
(***************************************************************************)
(* The status polls as a sequence: each step hands one message to          *)
(* _update_ssid.  Two history variables, which the program does not have,  *)
(* say what the mesh has been answering: the last well-formed message and  *)
(* for how many messages in a row it has been the same.                    *)
(***************************************************************************)
EXTENDS MeshStatus

VARIABLES
  poll,    \* the last well-formed message
  streak   \* how often it came in a row, up to MaxStreak

pollVars == <<lastStatus, lastSsid, outcome, poll, streak>>

MaxStreak == 3

NoPoll == [status |-> WIFI_NOT_CONNECTED, ssid |-> Empty, password |-> Empty]

Init ==
  /\ MeshInit
  /\ poll = NoPoll
  /\ streak = 0

Receive(p) ==
  /\ UpdateSsid(p)
  /\ poll' = p
  /\ streak' = IF p # poll THEN 1
               ELSE IF streak < MaxStreak THEN streak + 1 ELSE streak

ReceiveMalformed ==
  /\ Malformed
  /\ UNCHANGED <<poll, streak>>

\* The static variables start anew, and so does what is counted of the mesh.
PowerCycle ==
  /\ lastStatus' = WIFI_NOT_CONNECTED /\ lastSsid' = Empty /\ outcome' = "none"
  /\ poll' = NoPoll
  /\ streak' = 0

Next ==
  \/ \E p \in Polls : Receive(p)
  \/ ReceiveMalformed
  \/ PowerCycle

Spec == Init /\ [][Next]_pollVars

-----------------------------------------------------------------------------
TypeOK ==
  /\ MeshTypeOK
  /\ poll \in Polls \cup {NoPoll}
  /\ streak \in 0..MaxStreak

\* The mesh has left for the initial network and the gateway, which had
\* another name and status stored, has kept those.
KeptOldNetwork ==
  /\ poll.status = WIFI_NOT_CONNECTED /\ poll.ssid = InitialSsid
  /\ lastStatus # poll.status /\ lastSsid # poll.ssid

\* The memory catches up with a stable mesh: once the same message has come
\* twice, _last_status and _last_ssid are what it says, whatever came before,
\* with the one exception the both-changed branch makes (lines 337-343).
MemoryCatchesUp ==
  streak >= 2 =>
    \/ KeptOldNetwork
    \/ lastStatus = poll.status /\ lastSsid = poll.ssid

\* A stable mesh does not keep restarting the wifi (and dropping the app
\* that is connected to it): a third identical message changes nothing.  The
\* second one still may, since the both-changed branch forgets the status.
QuietWhenStable ==
  [][streak >= 2 /\ poll' = poll => outcome' # "restart"]_pollVars

\* A message dismissed with the log "SSID e Password nao mudaram" (line 283)
\* has the name and the password of the message before it, once that one has
\* been seen twice.
DismissedMeansSame ==
  [][streak >= 2 /\ outcome' = "dismissed" /\ outcome = "dismissed" =>
       poll'.ssid = poll.ssid /\ poll'.password = poll.password]_pollVars

=============================================================================
