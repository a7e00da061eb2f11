---------------------------- MODULE Application ----------------------------
(***************************************************************************)
(* The application around its network work: connecting and switching modes *)
(* in the window (ConnectUi), the switch of the Mobile Gateway             *)
(* (GatewaySwitch), and the processes of the engine across crashes and     *)
(* launches (CoreProcesses).  Each looks at the engine at its own grain    *)
(* and has its own view of it, so a behaviour follows one of them.         *)
(***************************************************************************)
EXTENDS ConnectUi, GatewaySwitch, CoreProcesses

VARIABLE view    \* "connection", "gateway" or "processes"

avars == <<view, cvars, gvars, ovars>>

AInit ==
  /\ view \in {"connection", "gateway", "processes"}
  /\ CInit /\ SInit /\ OInit
  /\ view # "connection" => ui.proxyMode /\ ~ui.tunMode

ANext ==
  \/ view = "connection" /\ CNext /\ UNCHANGED <<view, gvars, ovars>>
  \/ view = "gateway" /\ SNext /\ UNCHANGED <<view, cvars, ovars>>
  \/ view = "processes" /\ ONext /\ UNCHANGED <<view, cvars, gvars>>

ASpec == AInit /\ [][ANext]_avars

\* Every variable of the three parts stays in its range.
AppTypeOK == CTypeOK /\ STypeOK /\ OTypeOK

=============================================================================
