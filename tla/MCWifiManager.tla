---------------------------- MODULE MCWifiManager ----------------------------
(* WifiManager with one accepted and one rejected setting of each kind.    *)
EXTENDS WifiManager

MCApConfigs  == {"ap", "ap short password"}
MCStaConfigs == {"sta", "sta no name"}
MCAccepted   == {"ap", "sta"}
MCAddresses  == {"static"}

=============================================================================
