---------------------------- MODULE ProxyRestore ----------------------------
(***************************************************************************)
(* What WindowsProxy promises its user, with no processes, locks or files: *)
(* before the proxy setting is touched its value is saved, while a value   *)
(* is saved the application may write what it likes, and the saved value   *)
(* is given up only once the setting has it again.  A saved value is never *)
(* replaced by another one.                                                *)
(***************************************************************************)

CONSTANTS Setting,   \* all values the proxy setting can have
          Choice,    \* those a user may choose
          None       \* no value is saved

VARIABLES setting, saved

absVars == <<setting, saved>>

Init ==
  /\ setting \in Setting
  /\ saved \in Choice \cup {None}

Save ==
  /\ saved = None
  /\ saved' = setting
  /\ UNCHANGED setting

Override ==
  /\ saved # None
  /\ setting' \in Setting
  /\ UNCHANGED saved

GiveBack ==
  /\ saved # None
  /\ setting = saved
  /\ saved' = None
  /\ UNCHANGED setting

\* The user owns the setting whenever nothing is saved.
Choose ==
  /\ saved = None
  /\ setting' \in Choice
  /\ UNCHANGED saved

Next == Save \/ Override \/ GiveBack \/ Choose

Spec == Init /\ [][Next]_absVars
=============================================================================
