----------------------------- MODULE MeshStatus -----------------------------
(***************************************************************************)
(* What the gateway remembers of the sensor mesh and what it does with a   *)
(* new status message: AsyncServer::_update_ssid (src/main/src/            *)
(* async_server.cpp).  The status poll reads a message                     *)
(* "<status>,<ssid>,<password>" and compares it with two static variables, *)
(* _last_status and _last_ssid; on some differences it restarts the wifi   *)
(* in its default mode.                                                    *)
(*                                                                         *)
(* This module has the state and the operations, without a next-state      *)
(* relation: MeshPolls runs them on a sequence of polls, UartBridge calls  *)
(* them from the mesh task.                                                *)
(***************************************************************************)
EXTENDS Naturals

CONSTANTS
  Statuses,     \* status numbers a message can carry (atoi into a uint8_t)
  Ssids,        \* network names a message can carry
  InitialSsid,  \* "123456", the name of the initial network
  Passwords,    \* passwords a message can carry
  Empty         \* "", the initial value of _last_ssid and _last_password

\* enum Wifi_Status.
WIFI_NOT_CONNECTED == 1
WIFI_CONNECTED     == 2

ASSUME MeshAssumption ==
  /\ Statuses \subseteq 0..255
  /\ InitialSsid \in Ssids
  /\ Empty \notin Ssids        \* strtok_r never returns an empty token
  /\ Empty \notin Passwords

VARIABLES
  lastStatus,   \* _last_status
  lastSsid,     \* _last_ssid
  outcome       \* what the last message led to, "none" before the first

meshVars == <<lastStatus, lastSsid, outcome>>

\* A status message after strtok_r has cut it into its three fields.
Polls == [status : Statuses, ssid : Ssids, password : Passwords]

Outcomes == {"none", "malformed", "dismissed", "noted", "initial", "restart"}

MeshTypeOK ==
  /\ lastStatus \in Statuses \cup {WIFI_NOT_CONNECTED}
  /\ lastSsid \in Ssids \cup {Empty}
  /\ outcome \in Outcomes

MeshInit ==
  /\ lastStatus = WIFI_NOT_CONNECTED
  /\ lastSsid = Empty
  /\ outcome = "none"

-----------------------------------------------------------------------------
StatusChange(p) == p.status # lastStatus

\* _last_password is compared but never assigned.
LastPassword == Empty

\* ssid_change, which both comparisons clear: the second one was meant for
\* password_change, and can never be equal.
SsidChange(p) == p.ssid # lastSsid /\ p.password # LastPassword

\* Fewer or more than three fields: _update_ssid returns at once.
Malformed ==
  /\ outcome' = "malformed"
  /\ UNCHANGED <<lastStatus, lastSsid>>

\* "SSID e Password nao mudaram".
Dismiss(p) ==
  /\ ~StatusChange(p) /\ ~SsidChange(p)
  /\ outcome' = "dismissed"
  /\ UNCHANGED <<lastStatus, lastSsid>>

\* Mutant: the new status is not stored.
StatusOnlyForgets(p) ==
  /\ StatusChange(p) /\ ~SsidChange(p)
  /\ outcome' = IF p.ssid = InitialSsid THEN "initial" ELSE "restart"
  /\ UNCHANGED <<lastStatus, lastSsid>>

\* Only the status changed: it is remembered, and the wifi restarts for the
\* two statuses the switch names, unless the network is the initial one.
StatusOnly(p) ==
  /\ StatusChange(p) /\ ~SsidChange(p)
  /\ lastStatus' = p.status
  /\ outcome' = IF p.status \notin {WIFI_NOT_CONNECTED, WIFI_CONNECTED} THEN "noted"
                ELSE IF p.ssid = InitialSsid THEN "initial"
                ELSE "restart"
  /\ UNCHANGED lastSsid

\* Only the name changed: every branch restarts the wifi and remembers it.
SsidOnly(p) ==
  /\ ~StatusChange(p) /\ SsidChange(p)
  /\ lastSsid' = p.ssid
  /\ outcome' = "restart"
  /\ UNCHANGED lastStatus

\* Both changed and the mesh left for the initial network: nothing is stored.
BothInitial(p) ==
  /\ StatusChange(p) /\ SsidChange(p)
  /\ p.status = WIFI_NOT_CONNECTED /\ p.ssid = InitialSsid
  /\ outcome' = "initial"
  /\ UNCHANGED <<lastStatus, lastSsid>>

\* Mutant: the wifi restarts but the new name is not stored.
BothChangedForgets(p) ==
  /\ StatusChange(p) /\ SsidChange(p)
  /\ ~(p.status = WIFI_NOT_CONNECTED /\ p.ssid = InitialSsid)
  /\ outcome' = "restart"
  /\ UNCHANGED <<lastStatus, lastSsid>>

\* Mutant: the wrong field is copied.
BothChangedCopiesPassword(p) ==
  /\ StatusChange(p) /\ SsidChange(p)
  /\ ~(p.status = WIFI_NOT_CONNECTED /\ p.ssid = InitialSsid)
  /\ lastSsid' = p.password
  /\ outcome' = "restart"
  /\ UNCHANGED lastStatus

\* Both changed otherwise: the wifi restarts and the name is stored, but the
\* status is not, so the next message meets a changed status again.
BothChanged(p) ==
  /\ StatusChange(p) /\ SsidChange(p)
  /\ ~(p.status = WIFI_NOT_CONNECTED /\ p.ssid = InitialSsid)
  /\ lastSsid' = p.ssid
  /\ outcome' = "restart"
  /\ UNCHANGED lastStatus

UpdateSsid(p) ==
  \/ Dismiss(p)
  \/ StatusOnly(p)
  \/ SsidOnly(p)
  \/ BothInitial(p)
  \/ BothChanged(p)

=============================================================================
