------------------------------ MODULE ReportLog ------------------------------
(***************************************************************************)
(* What the report pipeline promises of the reports it accepts: they are   *)
(* sampled in the order in which they were accepted, each at most once.    *)
(* Any of them may be lost on the way, and all of them when the power      *)
(* fails.                                                                  *)
(***************************************************************************)
EXTENDS Naturals, Sequences, SequencesExt

CONSTANT Numbers   \* reports are numbered as they are read from the line

VARIABLES
  transit,   \* numbers of the accepted reports, the oldest first
  accepted,  \* numbers of the reports accepted so far
  sampled    \* number of the last report sampled, 0 for none

logVars == <<transit, accepted, sampled>>

Init == transit = <<>> /\ accepted = {} /\ sampled = 0

\* Some reports are refused.
Accept(n) ==
  /\ n \notin accepted
  /\ accepted' = accepted \cup {n}
  /\ transit' = Append(transit, n)
  /\ UNCHANGED sampled

Sample ==
  /\ transit # <<>>
  /\ sampled' = Head(transit)
  /\ transit' = Tail(transit)
  /\ UNCHANGED accepted

Lose(i) ==
  /\ i \in DOMAIN transit
  /\ transit' = RemoveAt(transit, i)
  /\ UNCHANGED <<accepted, sampled>>

PowerFails == transit' = <<>> /\ accepted' = {} /\ sampled' = 0

Next ==
  \/ \E n \in Numbers : Accept(n)
  \/ Sample
  \/ \E i \in DOMAIN transit : Lose(i)
  \/ PowerFails

Spec == Init /\ [][Next]_logVars

=============================================================================
