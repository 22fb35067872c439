----------------------------- MODULE AppExchange -----------------------------
(***************************************************************************)
(* What the bridge promises the phone app, without tasks, mutex or line:   *)
(* one exchange at a time.  A command is asked; it is refused, or accepted *)
(* and then its answer arrives in chunks, which the app takes in order;    *)
(* the answer ends with its final chunk or with a timeout, and the         *)
(* exchange is over only when nothing of the answer is left.               *)
(* UartBridge implements it (see Exchange there).                          *)
(***************************************************************************)
EXTENDS Sequences, Naturals

CONSTANTS Chunks, FinalChunk

VARIABLES
  phase,   \* "idle", "asking" or "open"
  ended,   \* the answer has got its last chunk, or its time is up
  inbox    \* chunks that wait for the app

exchangeVars == <<phase, ended, inbox>>

Init == phase = "idle" /\ ended = FALSE /\ inbox = <<>>

Ask ==
  /\ phase = "idle" /\ phase' = "asking"
  /\ UNCHANGED <<ended, inbox>>

Refuse ==
  /\ phase = "asking" /\ phase' = "idle"
  /\ UNCHANGED <<ended, inbox>>

Accept ==
  /\ phase = "asking" /\ phase' = "open"
  /\ UNCHANGED <<ended, inbox>>

\* A chunk of the answer; the final one ends it.  One that finds no room is
\* lost.
Arrive(c) ==
  /\ phase = "open" /\ ~ended
  /\ ended' = (c = FinalChunk)
  /\ inbox' \in {inbox, Append(inbox, c)}
  /\ UNCHANGED phase

Expire ==
  /\ phase = "open" /\ ~ended
  /\ ended' = TRUE
  /\ UNCHANGED <<phase, inbox>>

Deliver ==
  /\ phase = "open" /\ inbox # <<>>
  /\ inbox' = Tail(inbox)
  /\ UNCHANGED <<phase, ended>>

Close ==
  /\ phase = "open" /\ ended /\ inbox = <<>>
  /\ phase' = "idle" /\ ended' = FALSE
  /\ UNCHANGED inbox

Next ==
  \/ Ask \/ Refuse \/ Accept \/ Expire \/ Deliver \/ Close
  \/ \E c \in Chunks : Arrive(c)

Spec == Init /\ [][Next]_exchangeVars

=============================================================================
