-------------------------------- MODULE SniCores --------------------------------
(***************************************************************************)
(* select_sni_core: the engine owns one of the two cores for the whole of   *)
(* its life, the Pattern core where WinDivert can run and the fragment       *)
(* proxy elsewhere.  The two never run together.                            *)
(***************************************************************************)
EXTENDS PatternCore, FragmentProxy, TlsTools

VARIABLE core    \* "pattern" or "fragment"

svars == <<core, vars, fvars>>

\* The core that was not selected is never constructed: one initial state is
\* enough for its variables.
SInit ==
  /\ core \in {"pattern", "fragment"}
  /\ Init /\ FInit
  /\ core = "pattern" => settings = CHOOSE s \in CarrierModes \X Races : TRUE
  /\ core = "fragment" => strategy = CHOOSE s \in Strategies : TRUE

SNext ==
  \/ core = "pattern" /\ Next /\ UNCHANGED <<core, fvars>>
  \/ core = "fragment" /\ FNext /\ UNCHANGED <<core, vars>>

SSpec == SInit /\ [][SNext]_svars /\ Fairness

Dials == \E c \in Clients : at[c] \in InDial

\* A client that dials through the fragment proxy may have sent any ClientHello,
\* and the host may be tried with any strategy: the pieces put on the wire are
\* the data, whole and in order, and the strategies named for the host name never
\* show it in one piece.
PiecesAreTheData == Dials => PiecesKeepData /\ NameDivided

\* A decoy that left the Pattern core lies outside the window of the edge,
\* wherever the sequence numbers of the connection wrap.
DecoyOutOfWindow == (\E c \in Client : flow[c].sent > 0) => DecoyOutside
=============================================================================
