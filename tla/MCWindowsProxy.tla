--------------------------- MODULE MCWindowsProxy ---------------------------
EXTENDS WindowsProxy, TLC

CONSTANTS s1, Absent

\* A user with a proxy of his own, and one without any.
OwnProxy == [n \in Name |-> IF n = "ProxyEnable" THEN "on" ELSE s1]
NoProxy  == [n \in Name |-> IF n = "ProxyEnable" THEN "off" ELSE Absent]
MCUserSettings == {OwnProxy, NoProxy}

\* Processes and tokens are interchangeable; only for runs without liveness.
Symmetry == Permutations(Proc) \cup Permutations(Token)
=============================================================================
