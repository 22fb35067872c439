----------------------------- MODULE MCMeshPolls -----------------------------
(* MeshPolls on every status the enumeration has plus an unknown one, three *)
(* networks and two passwords.                                              *)
EXTENDS MeshPolls

MCStatuses  == {0, 1, 2}
MCSsids     == {"123456", "wetzel", "other"}
MCPasswords == {"pw1", "pw2"}

=============================================================================
