------------------------------ MODULE MCGateway ------------------------------
(* Gateway on every status the enumeration has plus an unknown one, three   *)
(* networks, one password (which no branch of _update_ssid can tell from    *)
(* another), and one code of each kind: a handler that restarts the wifi,   *)
(* another, none, and one that only the cut to 8 bits gives a handler.      *)
EXTENDS Gateway

MCStatuses  == {0, 1, 2}
MCSsids     == {"123456", "wetzel", "other"}
MCPasswords == {"pw"}
MCCodes     == {1, 6, 9, 257}

=============================================================================
