--------------------------- MODULE MCClockModule ---------------------------
(* The module through every day of 2000 to 2098, and the gateway switched  *)
(* on two seconds before the midnight that ends the 28th of February or    *)
(* the year 2000, or the year 2098; its clock runs to the 5th second and   *)
(* is configured to the past, to the present and to the future.            *)
EXTENDS ClockModule

MCNewTimes  == {0, 2, 4}
MCStartDays == {11015, 11322, 47116}

\* The 60th of January 2000 and the 32nd of December 2000 and 2098, at midnight:
\* dates for the driver, but not those of their seconds, which are 2 in this model.
MCUnwritten ==
  {[i \in 0..6 |-> buffer[i + 1]] : buffer \in {<<17, 0, 0, 1, 96, 1, 0>>,
                                               <<17, 0, 0, 1, 50, 18, 0>>,
                                               <<17, 0, 0, 1, 50, 18, 152>>}}
MCUnread     == {2}
MCStrayBytes == {255}

\* Past the year 2000 the days are counted for one state of the gateway that is
\* off, and not again for every other: of 2098 that one is enough.
DaysOnce ==
  on \/ day <= 11322 \/ (prompt /\ pin /\ callPc = "take")

=============================================================================
