--------------------------- MODULE GatewayMachine ---------------------------
(***************************************************************************)
(* What the Mobile Gateway does to the machine: its Windows settings with  *)
(* the restore file (GatewayRecovery), and the packets it forwards         *)
(* (ForwardPath).  The two share no state: restoring a session stops the   *)
(* filter of its own process only, and a filter ends with its process.  A  *)
(* behaviour follows one of them.                                          *)
(***************************************************************************)
EXTENDS GatewayRecovery, ForwardPath

VARIABLE part

GInit == part \in {"settings", "packets"} /\ RInit /\ PInit

GNext ==
  \/ part = "settings" /\ RNext /\ UNCHANGED <<part, pvars>>
  \/ part = "packets" /\ PNext /\ UNCHANGED <<part, rvars>>

GSpec == GInit /\ [][GNext]_<<part, rvars, pvars>> /\ WF_rvars(Goes /\ part = "settings")
=============================================================================
