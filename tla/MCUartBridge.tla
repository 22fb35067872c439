---------------------------- MODULE MCUartBridge ----------------------------
(* UartBridge with two receiver identities (OneReceiver shows that one of   *)
(* them is always free) and one status message.                             *)
EXTENDS UartBridge, TLC

CONSTANTS v1, v2

MCReceivers == {v1, v2}
MCStatuses  == {1}
MCSsids     == {"123456"}
MCPasswords == {"pw"}

ReceiverSymmetry == Permutations(MCReceivers)

=============================================================================
