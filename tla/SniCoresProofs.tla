--------------------------- MODULE SniCoresProofs ---------------------------
(***************************************************************************)
(* Theorems about the two SNI cores and their arithmetic.  PatternCore for *)
(* every set of clients, every number of edges, and every bound on         *)
(* sessions, starts and packets.  The fragment proxy for any number of     *)
(* clients and dial slots, and all four hosts: the types, the health of    *)
(* the preferred hosts and the single flight of discovery.  TlsTools for   *)
(* data of any length and sequence numbers of any width.                   *)
(***************************************************************************)
EXTENDS SniCores, SequenceTheorems, TLAPS

-----------------------------------------------------------------------------
(* The Pattern core *)

PC == {"idle", "queued", "first", "relay", "closed"} \cup Dialling
Flow == [syn : BOOLEAN, synack : BOOLEAN, scheduled : BOOLEAN,
         jobs : Nat, sent : Nat, monitor : BOOLEAN,
         result : {"", "ok", "unexpected_close", "stopped"}]

\* Of one attempt: a decoy is scheduled once and sent once, and only an
\* attempt whose decoy was sent is told "ok".
Ordered(f) ==
  /\ f.jobs + f.sent <= 1
  /\ ~f.scheduled => f.jobs = 0
  /\ ~f.scheduled /\ f.monitor => f.sent = 0
  /\ f.result = "ok" => f.sent = 1

\* The conjuncts of TypeOK, by the thread that writes them.
ControlOK ==
  /\ ctl \in {"idle", "clear", "injector", "join", "init", "server"}
  /\ starting \in BOOLEAN /\ starts \in Nat /\ stopped \in BOOLEAN
  /\ listening \in BOOLEAN /\ loop \in BOOLEAN /\ injector \in {"off", "on", "dead"}
RoutingOK ==
  /\ strategy \in Strategies /\ preferred \in 0..NumEdges /\ failed \subseteq Edge
  /\ edgeLock \in Client \cup {Nobody}
AttemptOK ==
  /\ registered \subseteq Client
  /\ pc \in [Client -> PC]
  /\ todo \in [Client -> SUBSET Edge] /\ edge \in [Client -> 0..NumEdges]
  /\ net \in [Client -> {"none", "syn", "open", "refused"}]
  /\ wire \in [Client -> Seq(Packets)]
FlowOK == flow \in [Client -> Flow]
TypesOK == ControlOK /\ RoutingOK /\ AttemptOK /\ FlowOK

FlowsOrdered == \A c \in Client : Ordered(flow[c])

\* Without the loop no handler runs; the strategy changes only then; and only
\* tls_sni_records leaves the first record to be split by the handler.
Phases ==
  /\ ~loop => \A c \in Client : pc[c] \in {"idle", "closed"}
  /\ ctl \in {"init", "server"} => ~loop
  /\ \A c \in Client : pc[c] = "first" => strategy = "tls_sni_records"

\* Only an edge of _edges is dialled, and only such an edge can fail.
DialledIsEdge == \A c \in Client : pc[c] \in {"connect", "ack"} => edge[c] \in Edge

\* The packets of an attempt that is handed over no longer change its flow:
\* that is why the registry has to be in the invariant.
IInv ==
  /\ TypesOK
  /\ Phases
  /\ DialledIsEdge
  /\ FlowsOrdered
  /\ RegistryLive
  /\ HandedOverSpoofed
  /\ PreferredHealthy

-----------------------------------------------------------------------------
(* What happens to the flow of one attempt. *)

LEMMA FreshIsOrdered == Fresh \in Flow /\ Ordered(Fresh) /\ Fresh.sent = 0
BY DEF Fresh, Flow, Ordered

LEMMA TypesAreTypeOK == TypesOK <=> TypeOK
BY DEF TypesOK, ControlOK, RoutingOK, AttemptOK, FlowOK, TypeOK, PC, Flow

LEMMA FieldsOf ==
  ASSUME NEW f \in Flow
  PROVE  /\ f.syn \in BOOLEAN /\ f.synack \in BOOLEAN /\ f.scheduled \in BOOLEAN
         /\ f.jobs \in Nat /\ f.sent \in Nat /\ f.monitor \in BOOLEAN
BY DEF Flow

LEMMA ForgottenIsOrdered ==
  ASSUME NEW f \in Flow, Ordered(f)
  PROVE  Forgotten(f) \in Flow /\ Ordered(Forgotten(f)) /\ Forgotten(f).sent = f.sent
<1> DEFINE g == Forgotten(f)
<1>1. f.sent \in Nat /\ 0 + f.sent <= 1
  BY FieldsOf DEF Ordered
<1>2. Fresh \in Flow /\ Fresh.jobs = 0 /\ Fresh.scheduled = FALSE /\ Fresh.result = ""
  BY FreshIsOrdered DEF Fresh
<1>3. /\ g \in Flow
      /\ g.jobs = 0 /\ g.sent = f.sent /\ g.monitor = FALSE /\ g.result = ""
  BY <1>1, <1>2 DEF Forgotten, Flow
<1> QED
  BY <1>1, <1>3 DEF Ordered

LEMMA StoppedIsOrdered ==
  ASSUME NEW f \in Flow, Ordered(f)
  PROVE  LET g == [f EXCEPT !.monitor = FALSE, !.result = "stopped"]
         IN  g \in Flow /\ Ordered(g) /\ g.sent = f.sent
<1> DEFINE g == [f EXCEPT !.monitor = FALSE, !.result = "stopped"]
<1>1. /\ g \in Flow
      /\ g.jobs = f.jobs /\ g.sent = f.sent /\ g.scheduled = f.scheduled
      /\ g.monitor = FALSE /\ g.result = "stopped"
  BY DEF Flow
<1> QED
  BY <1>1 DEF Ordered

LEMMA AbortIsOrdered ==
  ASSUME NEW f \in Flow, Ordered(f)
  PROVE  Abort(f) \in Flow /\ Ordered(Abort(f)) /\ Abort(f).sent = f.sent
<1> DEFINE g == Abort(f)
<1>1. /\ g \in Flow
      /\ g.jobs = f.jobs /\ g.sent = f.sent /\ g.scheduled = f.scheduled
      /\ g.monitor = FALSE /\ g.result = "unexpected_close"
  BY DEF Flow, Abort
<1> QED
  BY <1>1 DEF Ordered

LEMMA InboundIsOrdered ==
  ASSUME NEW f \in Flow, Ordered(f), NEW p \in Packets
  PROVE  Inbound(f, p) \in Flow /\ Ordered(Inbound(f, p)) /\ Inbound(f, p).sent = f.sent
<1> DEFINE seen == [f EXCEPT !.synack = TRUE]
           done == [f EXCEPT !.monitor = FALSE, !.result = "ok"]
<1>1. Inbound(f, p) = Abort(f) \/ Inbound(f, p) = seen \/ (f.sent > 0 /\ Inbound(f, p) = done)
  BY DEF Inbound
<1>2. seen \in Flow /\ Ordered(seen) /\ seen.sent = f.sent
  <2>1. /\ seen \in Flow
        /\ seen.jobs = f.jobs /\ seen.sent = f.sent /\ seen.scheduled = f.scheduled
        /\ seen.monitor = f.monitor /\ seen.result = f.result
    BY DEF Flow
  <2> QED
    BY <2>1 DEF Ordered
<1>3. ASSUME f.sent > 0
      PROVE  done \in Flow /\ Ordered(done) /\ done.sent = f.sent
  <2>1. f.sent = 1
    BY <1>3, FieldsOf DEF Ordered
  <2>2. /\ done \in Flow
        /\ done.jobs = f.jobs /\ done.sent = f.sent /\ done.scheduled = f.scheduled
        /\ done.monitor = FALSE
    BY DEF Flow
  <2> QED
    BY <2>1, <2>2 DEF Ordered
<1> QED
  BY <1>1, <1>2, <1>3, AbortIsOrdered

LEMMA OutboundIsOrdered ==
  ASSUME NEW f \in Flow, Ordered(f), f.monitor, NEW p \in Packets
  PROVE  Outbound(f, p) \in Flow /\ Ordered(Outbound(f, p)) /\ Outbound(f, p).sent = f.sent
<1> DEFINE seen == [f EXCEPT !.syn = TRUE]
           due == [f EXCEPT !.scheduled = TRUE, !.jobs = @ + 1]
<1>1. Outbound(f, p) = Abort(f) \/ Outbound(f, p) = seen
        \/ (~f.scheduled /\ Outbound(f, p) = due)
  BY DEF Outbound
<1>2. seen \in Flow /\ Ordered(seen) /\ seen.sent = f.sent
  <2>1. /\ seen \in Flow
        /\ seen.jobs = f.jobs /\ seen.sent = f.sent /\ seen.scheduled = f.scheduled
        /\ seen.monitor = f.monitor /\ seen.result = f.result
    BY DEF Flow
  <2> QED
    BY <2>1 DEF Ordered
<1>3. ASSUME ~f.scheduled
      PROVE  due \in Flow /\ Ordered(due) /\ due.sent = f.sent
  <2>1. f.jobs = 0 /\ f.sent = 0 /\ f.jobs + 1 = 1
    BY <1>3 DEF Ordered
  <2>2. f.jobs + 1 \in Nat
    BY FieldsOf
  <2>3. /\ due \in Flow
        /\ due.jobs = f.jobs + 1 /\ due.sent = f.sent /\ due.scheduled = TRUE
        /\ due.result = f.result
    BY <2>2 DEF Flow
  <2> QED
    BY <2>1, <2>3 DEF Ordered
<1> QED
  BY <1>1, <1>2, <1>3, AbortIsOrdered

\* A sender finds that no decoy has been sent.
LEMMA SenderIsOrdered ==
  ASSUME NEW f \in Flow, Ordered(f), f.jobs > 0, NEW sends \in BOOLEAN
  PROVE  LET g == [f EXCEPT !.jobs = @ - 1, !.sent = IF sends THEN @ + 1 ELSE @]
         IN  g \in Flow /\ Ordered(g) /\ f.sent = 0
<1> DEFINE n == IF sends THEN f.sent + 1 ELSE f.sent
           j == f.jobs - 1
           g == [f EXCEPT !.jobs = @ - 1, !.sent = IF sends THEN @ + 1 ELSE @]
<1>1. f.jobs = 1 /\ f.sent = 0 /\ f.scheduled /\ f.result # "ok"
  BY FieldsOf DEF Ordered
<1>2. j = 0 /\ j \in Nat /\ n \in Nat /\ 0 + n <= 1
  BY <1>1
<1> HIDE DEF n, j
<1>3. g = [f EXCEPT !.jobs = j, !.sent = n]
  BY DEF n, j
<1>4. j \in Nat /\ n \in Nat
  BY <1>2
<1>5. /\ g \in Flow
      /\ g.jobs = j /\ g.sent = n /\ g.scheduled = f.scheduled /\ g.result = f.result
  <2> HIDE DEF g
  <2> QED
    BY <1>3, <1>4 DEF Flow
<1> HIDE DEF g
<1>6. Ordered(g)
  BY <1>1, <1>2, <1>5 DEF Ordered
<1> QED
  BY <1>1, <1>5, <1>6 DEF g

-----------------------------------------------------------------------------
(* The invariant holds initially. *)

LEMMA InitIInv == Init => IInv
<1> SUFFICES ASSUME Init PROVE IInv
  OBVIOUS
<1>1. ControlOK
  BY DEF Init, ControlOK
<1>2. RoutingOK
  BY EdgesAssumption DEF Init, RoutingOK
<1>3. AttemptOK
  <2>1. 0 \in 0..NumEdges /\ <<>> \in Seq(Packets)
    BY EdgesAssumption
  <2>2. wire \in [Client -> Seq(Packets)] /\ edge \in [Client -> 0..NumEdges]
    BY <2>1 DEF Init
  <2> QED
    BY <2>2 DEF Init, AttemptOK, PC
<1>4. FlowOK /\ FlowsOrdered /\ HandedOverSpoofed
  BY FreshIsOrdered DEF Init, FlowOK, FlowsOrdered, HandedOverSpoofed
<1>5. Phases /\ DialledIsEdge
  BY DEF Init, Phases, DialledIsEdge
<1>6. RegistryLive /\ PreferredHealthy
  BY DEF Init, RegistryLive, PreferredHealthy
<1> QED
  BY <1>1, <1>2, <1>3, <1>4, <1>5, <1>6 DEF IInv, TypesOK

-----------------------------------------------------------------------------
(* The controller keeps it. *)

LEMMA CallKeeps == ASSUME IInv, NEW start \in BOOLEAN, Call(start) PROVE IInv'
<1>1. ControlOK'
  <2>1. starts' \in Nat
    BY DEF IInv, TypesOK, ControlOK, Call
  <2>2. starting' \in BOOLEAN
    BY Zenon DEF Call
  <2> QED
    BY <2>1, <2>2 DEF IInv, TypesOK, ControlOK, Call, StopListening
<1>2. RoutingOK' /\ AttemptOK' /\ FlowOK'
  BY DEF IInv, TypesOK, RoutingOK, AttemptOK, FlowOK, Call, routing, attempt
<1>3. Phases' /\ DialledIsEdge'
  BY DEF IInv, Phases, DialledIsEdge, Call, StopListening, routing, attempt
<1>4. FlowsOrdered' /\ HandedOverSpoofed'
  BY DEF IInv, FlowsOrdered, HandedOverSpoofed, Call, routing, attempt
<1>5. RegistryLive' /\ PreferredHealthy'
  BY DEF IInv, RegistryLive, PreferredHealthy, Call, routing, attempt
<1> QED
  BY <1>1, <1>2, <1>3, <1>4, <1>5 DEF IInv, TypesOK

LEMMA ClearRegistryKeeps == ASSUME IInv, ClearRegistry PROVE IInv'
<1>1. \A c \in Client : flow'[c] \in Flow /\ Ordered(flow'[c]) /\ flow'[c].sent = flow[c].sent
  BY StoppedIsOrdered DEF IInv, TypesOK, FlowOK, FlowsOrdered, ClearRegistry
<1>2. FlowOK'
  BY <1>1 DEF FlowOK, ClearRegistry
<1>3. ControlOK' /\ RoutingOK' /\ AttemptOK'
  BY DEF IInv, TypesOK, ControlOK, RoutingOK, AttemptOK, ClearRegistry, routing
<1>4. Phases' /\ DialledIsEdge'
  BY DEF IInv, Phases, DialledIsEdge, ClearRegistry, routing
<1>5. FlowsOrdered'
  BY <1>1 DEF FlowsOrdered
<1>6. HandedOverSpoofed'
  BY <1>1 DEF IInv, HandedOverSpoofed, ClearRegistry, routing
<1>7. RegistryLive' /\ PreferredHealthy'
  BY DEF IInv, RegistryLive, PreferredHealthy, ClearRegistry, routing
<1> QED
  BY <1>2, <1>3, <1>4, <1>5, <1>6, <1>7 DEF IInv, TypesOK

LEMMA StopInjectorKeeps == ASSUME IInv, StopInjector \/ Join \/ InjectorDies PROVE IInv'
<1> USE DEF StopInjector, Join, InjectorDies, routing, attempt
<1>1. ControlOK'
  BY DEF IInv, TypesOK, ControlOK
<1>2. RoutingOK' /\ AttemptOK' /\ FlowOK'
  BY DEF IInv, TypesOK, RoutingOK, AttemptOK, FlowOK
<1>3. Phases' /\ DialledIsEdge'
  BY DEF IInv, Phases, DialledIsEdge
<1>4. FlowsOrdered' /\ HandedOverSpoofed'
  BY DEF IInv, FlowsOrdered, HandedOverSpoofed
<1>5. RegistryLive' /\ PreferredHealthy'
  BY DEF IInv, RegistryLive, PreferredHealthy
<1> QED
  BY <1>1, <1>2, <1>3, <1>4, <1>5 DEF IInv, TypesOK

\* The strategy changes while no handler runs.
LEMMA StartInjectorKeeps == ASSUME IInv, StartInjector PROVE IInv'
<1> USE DEF StartInjector, Abandon, StopListening, attempt
<1>1. ~loop /\ \A c \in Client : pc[c] \in {"idle", "closed"}
  BY DEF IInv, Phases
<1>2. \A c \in registered : c \in Client /\ pc[c] \in {"connect", "ack"}
  BY DEF IInv, TypesOK, AttemptOK, RegistryLive
<1>3. registered = {}
  BY <1>1, <1>2
<1>4. ControlOK'
  BY DEF IInv, TypesOK, ControlOK
<1>5. RoutingOK'
  BY EdgesAssumption DEF IInv, TypesOK, RoutingOK
<1>6. AttemptOK' /\ FlowOK' /\ FlowsOrdered'
  BY DEF IInv, TypesOK, AttemptOK, FlowOK, FlowsOrdered
<1>7. Phases' /\ DialledIsEdge'
  BY <1>1 DEF Phases, DialledIsEdge
<1>8. HandedOverSpoofed'
  BY <1>1 DEF IInv, HandedOverSpoofed
<1>9. RegistryLive' /\ PreferredHealthy'
  BY <1>3 DEF RegistryLive, PreferredHealthy
<1> QED
  BY <1>4, <1>5, <1>6, <1>7, <1>8, <1>9 DEF IInv, TypesOK

LEMMA StartServerKeeps == ASSUME IInv, StartServer PROVE IInv'
<1> USE DEF StartServer, Abandon, StopListening, routing
<1>1. ~loop /\ \A c \in Client : pc[c] \in {"idle", "closed"}
  BY DEF IInv, Phases
<1>2. \A c \in registered : c \in Client /\ pc[c] \in {"connect", "ack"}
  BY DEF IInv, TypesOK, AttemptOK, RegistryLive
<1>3. registered = {}
  BY <1>1, <1>2
<1>4. ControlOK' /\ RoutingOK'
  BY DEF IInv, TypesOK, ControlOK, RoutingOK
<1>5. AttemptOK' /\ FlowOK' /\ FlowsOrdered'
  BY DEF IInv, TypesOK, AttemptOK, FlowOK, FlowsOrdered, PC
<1>6. Phases' /\ DialledIsEdge'
  BY <1>1 DEF IInv, Phases, DialledIsEdge
<1>7. HandedOverSpoofed'
  BY DEF IInv, HandedOverSpoofed
<1>8. RegistryLive' /\ PreferredHealthy'
  BY <1>3 DEF IInv, RegistryLive, PreferredHealthy
<1> QED
  BY <1>4, <1>5, <1>6, <1>7, <1>8 DEF IInv, TypesOK

LEMMA LoopEndsKeeps == ASSUME IInv, LoopEnds PROVE IInv'
<1>1. ControlOK' /\ RoutingOK'
  BY DEF IInv, TypesOK, ControlOK, RoutingOK, LoopEnds
<1>2. AttemptOK'
  <2>1. 0 \in 0..NumEdges /\ <<>> \in Seq(Packets)
    BY EdgesAssumption
  <2>2. wire' \in [Client -> Seq(Packets)] /\ edge' \in [Client -> 0..NumEdges]
    BY <2>1 DEF LoopEnds
  <2> QED
    BY <2>2 DEF LoopEnds, AttemptOK, PC
<1>3. FlowOK' /\ FlowsOrdered' /\ HandedOverSpoofed'
  BY FreshIsOrdered DEF FlowOK, FlowsOrdered, HandedOverSpoofed, LoopEnds
<1>4. Phases' /\ DialledIsEdge'
  BY DEF IInv, Phases, DialledIsEdge, LoopEnds
<1>5. RegistryLive' /\ PreferredHealthy'
  BY DEF IInv, RegistryLive, PreferredHealthy, LoopEnds
<1> QED
  BY <1>1, <1>2, <1>3, <1>4, <1>5 DEF IInv, TypesOK

-----------------------------------------------------------------------------
(* The actions on one client keep it. *)

LEMMA SentAtMostOne == ASSUME NEW f \in Flow, Ordered(f) PROVE f.sent <= 1
BY FieldsOf DEF Ordered

LEMMA SequencesOfPackets ==
  /\ <<>> \in Seq(Packets)
  /\ \A p, q \in Packets : <<p>> \in Seq(Packets) /\ <<p, q>> \in Seq(Packets)
  /\ \A s, t \in Seq(Packets) : s \o t \in Seq(Packets)
  /\ \A s \in Seq(Packets) : s # <<>> => Head(s) \in Packets /\ Tail(s) \in Seq(Packets)
OBVIOUS

\* The step moves client c to "to" and its flow to g: what the action has to
\* show of the two, of the registry and of the routing.
LEMMA PatternClientKeeps ==
  ASSUME IInv, NEW c \in Client, NEW to \in PC, NEW g \in Flow, Ordered(g),
         UNCHANGED control, UNCHANGED strategy,
         pc' = [pc EXCEPT ![c] = to], flow' = [flow EXCEPT ![c] = g],
         registered' \subseteq registered \cup {c},
         loop \/ to \in {"idle", "closed"},
         c \in registered' => strategy = "wrong_seq" /\ to \in {"connect", "ack"},
         to = "relay" /\ strategy = "wrong_seq" => g.sent = 1,
         to = "first" => strategy = "tls_sni_records",
         NEW e \in 0..NumEdges, edge' = [edge EXCEPT ![c] = e],
         to \in {"connect", "ack"} => e \in Edge,
         RoutingOK', PreferredHealthy',
         todo' \in [Client -> SUBSET Edge],
         net' \in [Client -> {"none", "syn", "open", "refused"}],
         wire' \in [Client -> Seq(Packets)]
  PROVE  IInv'
<1>1. /\ pc \in [Client -> PC] /\ flow \in [Client -> Flow] /\ registered \subseteq Client
      /\ edge \in [Client -> 0..NumEdges] /\ \A d \in Client : Ordered(flow[d])
  BY DEF IInv, TypesOK, AttemptOK, FlowOK, FlowsOrdered
<1>2. \A d \in Client : /\ pc'[d] = IF d = c THEN to ELSE pc[d]
                        /\ flow'[d] = IF d = c THEN g ELSE flow[d]
  BY <1>1
<1>3. ControlOK'
  BY DEF IInv, TypesOK, ControlOK, control
<1>4. AttemptOK' /\ FlowOK'
  BY <1>1 DEF AttemptOK, FlowOK
<1>5. FlowsOrdered'
  BY <1>1, <1>2 DEF FlowsOrdered
<1>6. Phases' /\ DialledIsEdge'
  BY <1>1, <1>2 DEF IInv, Phases, DialledIsEdge, control
<1>7. RegistryLive'
  BY <1>1, <1>2 DEF IInv, RegistryLive
<1>8. HandedOverSpoofed'
  <2> SUFFICES ASSUME NEW d \in Client
               PROVE  /\ flow'[d].sent <= 1
                      /\ (pc'[d] = "relay" /\ strategy' = "wrong_seq") => flow'[d].sent = 1
    BY DEF HandedOverSpoofed
  <2>1. CASE d = c
    BY <1>2, <2>1, SentAtMostOne
  <2>2. CASE d # c
    BY <1>2, <2>2 DEF IInv, HandedOverSpoofed
  <2> QED
    BY <2>1, <2>2
<1> QED
  BY <1>3, <1>4, <1>5, <1>6, <1>7, <1>8 DEF IInv, TypesOK

\* What every one of them starts from.
LEMMA ClientFacts ==
  ASSUME IInv, NEW c \in Client
  PROVE  /\ flow[c] \in Flow /\ Ordered(flow[c]) /\ flow = [flow EXCEPT ![c] = flow[c]]
         /\ pc[c] \in PC /\ pc = [pc EXCEPT ![c] = pc[c]]
         /\ wire \in [Client -> Seq(Packets)] 
         /\ edge[c] \in 0..NumEdges /\ edge = [edge EXCEPT ![c] = edge[c]]
         /\ pc[c] \in {"connect", "ack"} => edge[c] \in Edge
         /\ registered \subseteq Client
         /\ todo \in [Client -> SUBSET Edge]
         /\ net \in [Client -> {"none", "syn", "open", "refused"}]
         /\ RoutingOK /\ PreferredHealthy
         /\ loop \/ pc[c] \in {"idle", "closed"}
         /\ c \in registered => strategy = "wrong_seq" /\ pc[c] \in {"connect", "ack"}
         /\ pc[c] = "relay" /\ strategy = "wrong_seq" => flow[c].sent = 1
         /\ pc[c] = "first" => strategy = "tls_sni_records"
<1>1. /\ flow \in [Client -> Flow] /\ pc \in [Client -> PC]
      /\ edge \in [Client -> 0..NumEdges]
  BY DEF IInv, TypesOK, AttemptOK, FlowOK
<1>2. flow[c] \in Flow /\ Ordered(flow[c]) /\ flow = [flow EXCEPT ![c] = flow[c]]
  BY <1>1 DEF IInv, FlowsOrdered
<1>3. pc[c] \in PC /\ pc = [pc EXCEPT ![c] = pc[c]]
  BY <1>1
<1>4. edge = [edge EXCEPT ![c] = edge[c]] /\ edge[c] \in 0..NumEdges
  BY <1>1
<1> QED
  BY <1>1, <1>2, <1>3, <1>4
     DEF IInv, TypesOK, AttemptOK, Phases, DialledIsEdge, RegistryLive, HandedOverSpoofed

\* These change no flow, no registry and no socket.
LEMMA WalksKeep ==
  ASSUME IInv, NEW c \in Client,
         Accept(c) \/ EnterSession(c) \/ TryPreferred(c) \/ Connected(c) \/ SendFirst(c)
  PROVE  IInv'
<1> USE DEF Goto, control, routing
<1>1. PICK to \in PC : /\ pc' = [pc EXCEPT ![c] = to] /\ loop
                       /\ c \in registered => to = "ack"
                       /\ to # "connect" /\ (to = "ack" => pc[c] = "connect")
                       /\ to = "relay" => pc[c] = "first"
                       /\ to # "first"
  BY ClientFacts DEF Accept, EnterSession, TryPreferred, Connected, SendFirst, PC, Dialling
<1>2. /\ UNCHANGED <<control, routing, registered, edge, net, wire, flow>>
  BY DEF Accept, EnterSession, TryPreferred, Connected, SendFirst
<1>3. todo' \in [Client -> SUBSET Edge]
  <2>1. CASE UNCHANGED todo
    BY <2>1, ClientFacts
  <2>2. CASE preferred # 0 /\ todo' = [todo EXCEPT ![c] = {preferred}]
    <3>1. preferred \in Edge
      BY <2>2, ClientFacts, EdgesAssumption DEF RoutingOK, Edge
    <3> QED
      BY <2>2, <3>1, ClientFacts
  <2> QED
    BY <2>1, <2>2 DEF Accept, EnterSession, TryPreferred, Connected, SendFirst
<1>4. RoutingOK' /\ PreferredHealthy'
  BY <1>2, ClientFacts DEF RoutingOK, PreferredHealthy
<1>5. flow' = [flow EXCEPT ![c] = flow[c]] /\ edge' = [edge EXCEPT ![c] = edge[c]]
  BY <1>2, ClientFacts
<1> QED
  BY <1>1, <1>2, <1>3, <1>4, <1>5, ClientFacts, PatternClientKeeps

LEMMA TakeEdgeLockKeeps == ASSUME IInv, NEW c \in Client, TakeEdgeLock(c) PROVE IInv'
<1> USE DEF TakeEdgeLock, Goto, control
<1>1. loop /\ c \notin registered
  BY ClientFacts
<1>2. PICK to \in {"choose", "lock", "try", "closed"} : pc' = [pc EXCEPT ![c] = to]
  OBVIOUS
<1>3. to \in PC /\ to \notin {"relay", "first", "connect", "ack"}
  BY DEF PC, Dialling
<1>4. todo' \in [Client -> SUBSET Edge]
  <2>1. Edge \ failed \in SUBSET Edge
    OBVIOUS
  <2>2. UNCHANGED todo \/ todo' = [todo EXCEPT ![c] = Edge \ failed]
    OBVIOUS
  <2> HIDE DEF TakeEdgeLock
  <2> QED
    BY <2>1, <2>2, ClientFacts
<1>5. RoutingOK' /\ PreferredHealthy'
  BY ClientFacts DEF RoutingOK, PreferredHealthy
<1>6. flow' = [flow EXCEPT ![c] = flow[c]] /\ edge' = [edge EXCEPT ![c] = edge[c]]
  BY ClientFacts
<1> QED
  BY <1>1, <1>2, <1>3, <1>4, <1>5, <1>6, ClientFacts, PatternClientKeeps

LEMMA NoEdgeLeftKeeps == ASSUME IInv, NEW c \in Client, NoEdgeLeft(c) PROVE IInv'
<1> USE DEF NoEdgeLeft, Goto, Unlock, control
<1>1. loop /\ c \notin registered
  BY ClientFacts
<1>2. PICK to \in {"choose", "lock", "try", "closed"} : pc' = [pc EXCEPT ![c] = to]
  OBVIOUS
<1>3. to \in PC /\ to \notin {"relay", "first", "connect", "ack"}
  BY DEF PC, Dialling
<1>4. RoutingOK' /\ PreferredHealthy'
  BY ClientFacts DEF RoutingOK, PreferredHealthy
<1>5. flow' = [flow EXCEPT ![c] = flow[c]] /\ edge' = [edge EXCEPT ![c] = edge[c]]
  BY ClientFacts
<1> QED
  BY <1>1, <1>2, <1>3, <1>4, <1>5, ClientFacts, PatternClientKeeps

\* A new attempt starts with no decoy sent: it is in no registry but its own.
LEMMA PatternDialKeeps == ASSUME IInv, NEW c \in Client, Dial(c) PROVE IInv'
<1> USE DEF Goto, control, routing
<1>1. PICK e \in todo[c] :
        /\ loop /\ pc' = [pc EXCEPT ![c] = "connect"]
        /\ todo' = [todo EXCEPT ![c] = @ \ {e}] /\ edge' = [edge EXCEPT ![c] = e]
        /\ flow' = [flow EXCEPT ![c] = Fresh] /\ net' = [net EXCEPT ![c] = "syn"]
        /\ IF strategy = "wrong_seq"
             THEN registered' = registered \cup {c} /\ wire' = [wire EXCEPT ![c] = <<"syn">>]
             ELSE UNCHANGED <<registered, wire>>
        /\ UNCHANGED <<control, routing>>
  BY DEF Dial
<1>2. e \in Edge /\ e \in 0..NumEdges /\ todo[c] \ {e} \in SUBSET Edge
  BY ClientFacts, EdgesAssumption DEF Edge
<1>3. /\ todo' \in [Client -> SUBSET Edge]
      /\ net' \in [Client -> {"none", "syn", "open", "refused"}]
  BY <1>1, <1>2, ClientFacts
<1>4. wire' \in [Client -> Seq(Packets)]
  <2>1. <<"syn">> \in Seq(Packets)
    BY SequencesOfPackets DEF Packets
  <2> QED
    BY <1>1, <2>1, ClientFacts
<1>5. RoutingOK' /\ PreferredHealthy'
  BY <1>1, ClientFacts DEF RoutingOK, PreferredHealthy
<1>6. c \in registered' => strategy = "wrong_seq"
  BY <1>1, ClientFacts
<1>7. "connect" \in PC
  BY DEF PC, Dialling
<1>8. /\ registered' \subseteq registered \cup {c} /\ UNCHANGED control /\ UNCHANGED strategy
  BY <1>1
<1> QED
  BY <1>1, <1>2, <1>3, <1>4, <1>5, <1>6, <1>7, <1>8, FreshIsOrdered, ClientFacts, PatternClientKeeps

\* What closing an attempt does to its flow, its packets and the registry.
LEMMA UnregisterFacts ==
  ASSUME IInv, NEW c \in Client, Unregister(c)
  PROVE  /\ Forgotten(flow[c]) \in Flow /\ Ordered(Forgotten(flow[c]))
         /\ Forgotten(flow[c]).sent = flow[c].sent
         /\ flow' = [flow EXCEPT ![c] = Forgotten(flow[c])]
         /\ registered' \subseteq registered /\ c \notin registered'
         /\ wire' \in [Client -> Seq(Packets)]
BY ForgottenIsOrdered, ClientFacts, SequencesOfPackets DEF Unregister

\* The acknowledgement that hands a client over was accepted after its decoy.
LEMMA HandOverKeeps ==
  ASSUME IInv, NEW c \in Client, HandOver(c) \/ HandOverUnspoofed(c)
  PROVE  IInv'
<1> USE DEF Goto, control
<1>1. PICK to \in PC : /\ loop /\ pc' = [pc EXCEPT ![c] = to] /\ UseEdge(c)
                       /\ to = "relay" => flow[c].result = "ok"
                       /\ to = "first" => strategy = "tls_sni_records"
                       /\ to \notin {"connect", "ack"}
  BY DEF HandOver, HandOverUnspoofed, PC
<1>2. to = "relay" => flow[c].sent = 1
  BY <1>1, ClientFacts DEF Ordered
<1>3. Unregister(c)
  BY <1>1 DEF UseEdge
<1>4. /\ UNCHANGED control /\ UNCHANGED strategy
      /\ todo' \in [Client -> SUBSET Edge] /\ edge' = [edge EXCEPT ![c] = edge[c]]
      /\ net' \in [Client -> {"none", "syn", "open", "refused"}]
  BY <1>1, ClientFacts DEF UseEdge
<1>5. RoutingOK' /\ PreferredHealthy'
  BY <1>1, ClientFacts DEF UseEdge, Unlock, RoutingOK, PreferredHealthy
<1>6. /\ registered' \subseteq registered \cup {c} /\ c \notin registered'
      /\ to = "relay" => Forgotten(flow[c]).sent = 1
  BY <1>2, <1>3, UnregisterFacts
<1> QED
  BY <1>1, <1>3, <1>4, <1>5, <1>6, UnregisterFacts, ClientFacts, PatternClientKeeps

LEMMA AttemptFailsKeeps == ASSUME IInv, NEW c \in Client, AttemptFails(c) PROVE IInv'
<1> USE DEF AttemptFails, Goto, control
<1>1. pc[c] \in {"connect", "ack"} /\ loop /\ pc' = [pc EXCEPT ![c] = "try"] /\ "try" \in PC
  BY DEF PC, Dialling
<1>2. /\ UNCHANGED control /\ UNCHANGED strategy
      /\ todo' \in [Client -> SUBSET Edge]
      /\ net' \in [Client -> {"none", "syn", "open", "refused"}]
  BY ClientFacts
<1>3. 0 \in 0..NumEdges /\ edge' = [edge EXCEPT ![c] = 0]
  BY EdgesAssumption
<1>4. RoutingOK' /\ PreferredHealthy'
  <2>1. edge[c] \in Edge /\ RoutingOK /\ PreferredHealthy
    BY <1>1, ClientFacts
  <2>2. 0 \notin Edge
    BY EdgesAssumption DEF Edge
  <2> QED
    BY <1>3, <2>1, <2>2 DEF RoutingOK, PreferredHealthy
<1>5. Unregister(c)
  OBVIOUS
<1> HIDE DEF AttemptFails
<1> QED
  BY <1>1, <1>2, <1>3, <1>4, <1>5, UnregisterFacts, ClientFacts, PatternClientKeeps

LEMMA RelayEndsKeeps == ASSUME IInv, NEW c \in Client, RelayEnds(c) PROVE IInv'
<1> USE DEF RelayEnds, Goto, control, routing
<1>1. loop /\ pc[c] = "relay" /\ pc' = [pc EXCEPT ![c] = "closed"] /\ "closed" \in PC
  BY DEF PC
<1>2. 0 \in 0..NumEdges /\ edge' = [edge EXCEPT ![c] = 0]
  BY EdgesAssumption
<1>3. net' \in [Client -> {"none", "syn", "open", "refused"}]
  BY ClientFacts
<1>4. RoutingOK' /\ PreferredHealthy'
  BY ClientFacts DEF RoutingOK, PreferredHealthy
<1>5. /\ UNCHANGED control /\ UNCHANGED strategy
      /\ flow' = [flow EXCEPT ![c] = Fresh]
      /\ registered' \subseteq registered \cup {c} /\ c \notin registered'
      /\ todo' \in [Client -> SUBSET Edge] /\ wire' \in [Client -> Seq(Packets)]
  BY <1>1, ClientFacts
<1> HIDE DEF RelayEnds, Goto, routing
<1> QED
  BY <1>1, <1>2, <1>3, <1>4, <1>5, FreshIsOrdered, PatternClientKeeps

-----------------------------------------------------------------------------
(* The network, the injector and its senders keep it. *)

\* A step outside the loop changes at most one flow, no handler and no entry...
LEMMA FlowKeeps ==
  ASSUME IInv, NEW c \in Client, NEW g \in Flow, Ordered(g),
         pc[c] = "relay" /\ strategy = "wrong_seq" => g.sent = flow[c].sent,
         flow' = [flow EXCEPT ![c] = g], wire' \in [Client -> Seq(Packets)],
         net' \in [Client -> {"none", "syn", "open", "refused"}],
         UNCHANGED <<control, routing, registered, pc, todo, edge>>
  PROVE  IInv'
<1>1. /\ UNCHANGED control /\ UNCHANGED strategy
      /\ registered' = registered /\ registered' \subseteq registered \cup {c}
      /\ todo' \in [Client -> SUBSET Edge]
  BY ClientFacts DEF routing
<1>2. RoutingOK' /\ PreferredHealthy'
  BY ClientFacts DEF RoutingOK, PreferredHealthy, routing
<1>3. pc' = [pc EXCEPT ![c] = pc[c]] /\ edge' = [edge EXCEPT ![c] = edge[c]]
  BY ClientFacts
<1>4. /\ pc[c] \in PC /\ edge[c] \in 0..NumEdges
      /\ loop \/ pc[c] \in {"idle", "closed"}
      /\ c \in registered' => strategy = "wrong_seq" /\ pc[c] \in {"connect", "ack"}
      /\ pc[c] = "relay" /\ strategy = "wrong_seq" => g.sent = 1
      /\ pc[c] = "first" => strategy = "tls_sni_records"
      /\ pc[c] \in {"connect", "ack"} => edge[c] \in Edge
  BY <1>1, ClientFacts
<1> QED
  BY <1>1, <1>2, <1>3, <1>4, PatternClientKeeps

\* ... and one that changes no flow only touches sockets and packets.
LEMMA SocketsKeep ==
  ASSUME IInv, NEW c \in Client, wire' \in [Client -> Seq(Packets)],
         net' \in [Client -> {"none", "syn", "open", "refused"}],
         UNCHANGED <<control, routing, registered, pc, todo, edge, flow>>
  PROVE  IInv'
<1>1. flow' = [flow EXCEPT ![c] = flow[c]]
  BY ClientFacts
<1> QED
  BY <1>1, ClientFacts, FlowKeeps

LEMMA OnWireIsPackets ==
  ASSUME IInv, NEW c \in Client, NEW s \in Seq(Packets), OnWire(c, s)
  PROVE  wire' \in [Client -> Seq(Packets)]
<1>1. wire \in [Client -> Seq(Packets)] /\ wire[c] \in Seq(Packets)
  BY ClientFacts
<1>2. wire[c] \o s \in Seq(Packets)
  BY <1>1, SequencesOfPackets
<1> QED
  BY <1>1, <1>2 DEF OnWire

LEMMA PeerKeeps ==
  ASSUME IInv, NEW c \in Client, Answer(c) \/ Stray(c)
  PROVE  IInv'
<1> USE DEF Answer, Stray
<1>1. PICK s \in Seq(Packets) : OnWire(c, s)
  <2>1. CASE Answer(c)
    <3>1. <<"synack", "ack">> \in Seq(Packets)
      BY SequencesOfPackets DEF Packets
    <3> QED
      BY <2>1, <3>1
  <2>2. CASE Stray(c)
    <3>1. \A p \in {"iack", "odd"} : <<p>> \in Seq(Packets)
      BY SequencesOfPackets DEF Packets
    <3> QED
      BY <2>2, <3>1
  <2> QED
    BY <2>1, <2>2
<1>2. net' \in [Client -> {"none", "syn", "open", "refused"}]
  BY ClientFacts
<1>3. UNCHANGED <<control, routing, registered, pc, todo, edge, flow>>
  OBVIOUS
<1> HIDE DEF Answer, Stray
<1>4. wire' \in [Client -> Seq(Packets)]
  BY <1>1, OnWireIsPackets
<1> QED
  BY <1>2, <1>3, <1>4, SocketsKeep

\* The packet WinDivert delivers concerns a handler that still waits, or none.
LEMMA InjectKeeps == ASSUME IInv, NEW c \in Client, Inject(c) PROVE IInv'
<1> DEFINE f == flow[c]
           p == Head(wire[c])
           g == IF c \notin registered \/ ~f.monitor THEN f
                ELSE IF p \in {"syn", "ack"} THEN Outbound(f, p) ELSE Inbound(f, p)
<1>1. /\ f \in Flow /\ Ordered(f) /\ wire \in [Client -> Seq(Packets)]
      /\ flow \in [Client -> Flow]
  BY ClientFacts DEF IInv, TypesOK, FlowOK
<1>2. p \in Packets /\ Tail(wire[c]) \in Seq(Packets)
  BY <1>1, SequencesOfPackets DEF Inject
<1>3. g \in Flow /\ Ordered(g) /\ g.sent = f.sent
  <2>1. CASE c \notin registered \/ ~f.monitor
    BY <1>1, <2>1
  <2>2. CASE ~(c \notin registered \/ ~f.monitor)
    BY <1>1, <1>2, <2>2, InboundIsOrdered, OutboundIsOrdered
  <2> QED
    BY <2>1, <2>2
<1>4. flow' = [flow EXCEPT ![c] = g]
  BY <1>1 DEF Inject
<1>5. wire' \in [Client -> Seq(Packets)]
  BY <1>1, <1>2 DEF Inject
<1>6. /\ UNCHANGED <<control, routing, registered, pc, todo, edge>>
      /\ net' \in [Client -> {"none", "syn", "open", "refused"}]
  BY ClientFacts DEF Inject
<1> HIDE DEF g
<1> QED
  BY <1>3, <1>4, <1>5, <1>6, FlowKeeps

\* A sender that is still to run belongs to a client that was not handed over.
LEMMA FakeSendKeeps == ASSUME IInv, NEW c \in Client, FakeSend(c) PROVE IInv'
<1> DEFINE f == flow[c]
           sends == f.monitor /\ injector # "off"
           g == [f EXCEPT !.jobs = @ - 1, !.sent = IF sends THEN @ + 1 ELSE @]
<1>1. f \in Flow /\ Ordered(f) /\ f.jobs > 0 /\ sends \in BOOLEAN
  BY ClientFacts DEF FakeSend
<1>2. g \in Flow /\ Ordered(g) /\ f.sent = 0
  <2> HIDE DEF sends, f
  <2> QED
    BY <1>1, SenderIsOrdered
<1>3. flow' = [flow EXCEPT ![c] = g]
  BY DEF FakeSend
<1>4. wire' \in [Client -> Seq(Packets)]
  <2>1. <<"iack">> \in Seq(Packets)
    BY SequencesOfPackets DEF Packets
  <2> QED
    BY <2>1, OnWireIsPackets, ClientFacts DEF FakeSend
<1>5. /\ UNCHANGED <<control, routing, registered, pc, todo, edge>>
      /\ net' \in [Client -> {"none", "syn", "open", "refused"}]
  BY ClientFacts DEF FakeSend
<1>6. ~(pc[c] = "relay" /\ strategy = "wrong_seq")
  BY <1>2, ClientFacts
<1> HIDE DEF g
<1> QED
  BY <1>2, <1>3, <1>4, <1>5, <1>6, FlowKeeps

LEMMA CooldownEndsKeeps == ASSUME IInv, NEW e \in Edge, CooldownEnds(e) PROVE IInv'
<1> USE DEF CooldownEnds, attempt, control
<1>1. ControlOK' /\ RoutingOK'
  BY DEF IInv, TypesOK, ControlOK, RoutingOK
<1>2. AttemptOK' /\ FlowOK' /\ FlowsOrdered'
  BY DEF IInv, TypesOK, AttemptOK, FlowOK, FlowsOrdered
<1>3. Phases' /\ DialledIsEdge'
  BY DEF IInv, Phases, DialledIsEdge
<1>4. HandedOverSpoofed' /\ RegistryLive' /\ PreferredHealthy'
  BY DEF IInv, HandedOverSpoofed, RegistryLive, PreferredHealthy
<1> QED
  BY <1>1, <1>2, <1>3, <1>4 DEF IInv, TypesOK

-----------------------------------------------------------------------------
LEMMA NextIInv == ASSUME IInv, [Next]_vars PROVE IInv'
<1>1. CASE UNCHANGED vars
  <2> USE <1>1 DEF vars, control, routing, attempt
  <2>1. TypesOK'
    BY DEF IInv, TypesOK, ControlOK, RoutingOK, AttemptOK, FlowOK
  <2>2. Phases' /\ DialledIsEdge' /\ FlowsOrdered'
    BY DEF IInv, Phases, DialledIsEdge, FlowsOrdered
  <2>3. HandedOverSpoofed' /\ RegistryLive' /\ PreferredHealthy'
    BY DEF IInv, HandedOverSpoofed, RegistryLive, PreferredHealthy
  <2> QED
    BY <2>1, <2>2, <2>3 DEF IInv
<1>2. CASE \E start \in BOOLEAN : Call(start)
  BY <1>2, CallKeeps
<1>3. CASE ClearRegistry \/ StopInjector \/ Join \/ StartInjector \/ StartServer
  BY <1>3, ClearRegistryKeeps, StopInjectorKeeps, StartInjectorKeeps, StartServerKeeps
<1>4. CASE LoopEnds \/ InjectorDies
  BY <1>4, LoopEndsKeeps, StopInjectorKeeps
<1>5. ASSUME NEW c \in Client,
             Accept(c) \/ Handler(c) \/ RelayEnds(c) \/ Answer(c) \/ Stray(c)
               \/ Inject(c) \/ FakeSend(c)
      PROVE  IInv'
  BY <1>5, WalksKeep, TakeEdgeLockKeeps, NoEdgeLeftKeeps, PatternDialKeeps, HandOverKeeps,
     AttemptFailsKeeps, RelayEndsKeeps, PeerKeeps, InjectKeeps, FakeSendKeeps
     DEF Handler
<1>6. CASE \E e \in Edge : CooldownEnds(e)
  BY <1>6, CooldownEndsKeeps
<1> QED
  BY <1>1, <1>2, <1>3, <1>4, <1>5, <1>6 DEF Next

LEMMA SpecIInv == Spec => []IInv
<1>1. IInv /\ [Next]_vars => IInv'
  BY NextIInv
<1> QED
  BY InitIInv, <1>1, PTL DEF Spec

\* The variables keep their types for every set of clients and edges.
THEOREM PatternTypes == Spec => []TypeOK
<1>1. IInv => TypeOK
  BY TypesAreTypeOK DEF IInv
<1> QED
  BY SpecIInv, <1>1, PTL

\* Any number of clients, edges, restarts and packets in any order: a wrong_seq
\* client is relayed behind exactly one decoy, never before it left and never
\* after two (core.py, _inbound, _outbound, _fake_send, _handle).
THEOREM NeverHandedOverInClear == Spec => []HandedOverSpoofed
<1>1. IInv => HandedOverSpoofed
  BY DEF IInv
<1> QED
  BY SpecIInv, <1>1, PTL

\* For every number of edges: the edge new clients try first is not one whose
\* failure the core still remembers (_connect_edge_unlocked).
THEOREM PreferredIsHealthy == Spec => []PreferredHealthy
<1>1. IInv => PreferredHealthy
  BY DEF IInv
<1> QED
  BY SpecIInv, <1>1, PTL

\* For every set of clients: the injector judges only attempts whose handler
\* waits for the connection or for the decoy (_register, _unregister).
THEOREM OnlyLiveAttempts == Spec => []RegistryLive
<1>1. IInv => RegistryLive
  BY DEF IInv
<1> QED
  BY SpecIInv, <1>1, PTL

-----------------------------------------------------------------------------
(* The fragment proxy *)

Places == {"idle", "reading", "queued", "won", "relay", "closed"} \cup InDial
Stages == {"off", "host", "won", "none", "raised"}

\* What _routes returns: mci never has a host of its own.
KnownRoute ==
  {r \in [carrier : Carrier, hosts : SUBSET Host] :
     r.hosts # {} /\ (r.carrier = "mci" => r.hosts \subseteq 3..4)}
DialState == [st : Stages, carrier : Carrier, hosts : SUBSET Host, first : Host \cup {0}]
\* A dialler that tries hosts has one left, and knows its carrier's hosts only.
SoundDial(d) ==
  d.st = "host" => /\ d.hosts # {}
                   /\ d.carrier = "mci" => d.hosts \subseteq 3..4

FlagsOK == down \in BOOLEAN /\ mode \in CarrierModes /\ race \in Races
HealthOK ==
  /\ prefHost \in [Carrier -> Host \cup {0}] /\ prefHost["mci"] \in {0, 3, 4}
  /\ failures \subseteq Host \X Carrier
  /\ \A h \in Host : <<h, "mci">> \in failures => h \in 3..4
  /\ \A k \in Carrier : <<prefHost[k], k>> \notin failures
LocksOK ==
  /\ routeLock \in Clients \cup {NoOne} /\ carrierLock \in Clients \cup {NoOne}
  /\ prefCarrier \in Carrier \cup {""}
PlansOK ==
  /\ at \in [Clients -> Places] /\ learn \in [Clients -> BOOLEAN]
  /\ plan \in [Clients -> Seq(KnownRoute)]
  /\ \A c \in Clients :
       /\ Len(plan[c]) \in {0, 1, 2}
       /\ at[c] \in {"queued", "route", "host", "dialling", "racing"} => Len(plan[c]) # 0
       /\ at[c] \in {"auto", "carrier"} => Len(plan[c]) = 2
DialOK ==
  /\ dial \in [Dialler -> DialState]
  /\ \A d \in Dialler : SoundDial(dial[d])
  /\ \A c \in Clients : at[c] = "host" => dial[Main(c)].st = "host"

\* A race is run by the holder of a lock, who keeps it until the race is over.
RacerHolds ==
  \A c \in Clients : at[c] = "racing" => c \in {routeLock, carrierLock}
HolderWorks ==
  \A c \in Clients :
    /\ c = carrierLock => at[c] \in {"racing", "route", "host", "dialling"}
    /\ c = routeLock => at[c] = "racing"

FInv == FlagsOK /\ HealthOK /\ LocksOK /\ PlansOK /\ DialOK /\ RacerHolds /\ HolderWorks

-----------------------------------------------------------------------------
(* What _routes and _ordered_hosts return                                    *)

LEMMA LeastHost ==
  ASSUME NEW S \in SUBSET (1..4), S # {}
  PROVE  \E h \in S : \A g \in S : h <= g
<1>1. CASE 1 \in S
  BY <1>1
<1>2. CASE 1 \notin S /\ 2 \in S
  BY <1>2
<1>3. CASE 1 \notin S /\ 2 \notin S /\ 3 \in S
  BY <1>3
<1>4. CASE 1 \notin S /\ 2 \notin S /\ 3 \notin S
  <2>1. \A g \in S : g = 4
    BY <1>4
  <2>2. PICK h \in S : h = 4
    BY <2>1
  <2> QED
    BY <2>1, <2>2
<1> QED
  BY <1>1, <1>2, <1>3, <1>4

LEMMA TurnIsOne ==
  ASSUME NEW S \in SUBSET Host, S # {}, NEW f
  PROVE  Turn(S, f) \in S
<1>1. \E h \in S : \A g \in S : h <= g
  BY HostAssumption, LeastHost
<1> QED
  BY <1>1 DEF Turn

LEMMA OrderedHostsSound ==
  ASSUME FInv, NEW r \in KnownRoute
  PROVE  /\ OrderedHosts(r) \in DialState /\ SoundDial(OrderedHosts(r))
         /\ OrderedHosts(r).st = "host"
BY DEF OrderedHosts, KnownRoute, DialState, SoundDial, Stages, FInv, HealthOK

LEMMA SingleSound ==
  ASSUME NEW d \in DialState, d.st = "host", SoundDial(d), NEW h \in d.hosts
  PROVE  Single(d.carrier, h) \in DialState /\ SoundDial(Single(d.carrier, h))
BY DEF Single, DialState, SoundDial, Stages

LEMMA IdleSound == Idle \in DialState /\ SoundDial(Idle) /\ Idle.st = "off"
BY DEF Idle, DialState, SoundDial, Stages, Carrier

LEMMA NoRoutes == <<>> \in Seq(KnownRoute) /\ Len(<<>>) = 0
OBVIOUS

LEMMA RoutesKnown ==
  ASSUME FInv
  PROVE  /\ Routes \in Seq(KnownRoute) /\ Len(Routes) \in {1, 2}
<1>1. /\ Route("mci", 3, 4) \in KnownRoute
      /\ Route("irancell", 1, 2) \in KnownRoute
      /\ Route("irancell", 1, 4) \in KnownRoute
  BY HostAssumption DEF Route, KnownRoute, Carrier
<1> HIDE DEF Route, KnownRoute
<1>2. CASE mode = "auto"
  BY <1>1, <1>2 DEF Routes
<1>3. CASE mode = "mci"
  BY <1>1, <1>3 DEF Routes
<1>4. CASE mode = "irancell"
  BY <1>1, <1>4 DEF Routes
<1> QED
  BY <1>2, <1>3, <1>4, TuningAssumption DEF FInv, FlagsOK

LEMMA HeadKnown ==
  ASSUME FInv, NEW c \in Clients, Len(plan[c]) # 0
  PROVE  Head(plan[c]) \in KnownRoute
BY DEF FInv, PlansOK

LEMMA SortedKnown ==
  ASSUME FInv, NEW c \in Clients, at[c] \in {"auto", "carrier"}
  PROVE  /\ plan[c] \in Seq(KnownRoute) /\ Len(plan[c]) = 2
         /\ plan[c][1] \in KnownRoute /\ plan[c][2] \in KnownRoute
         /\ Sorted(c) \in Seq(KnownRoute) /\ Len(Sorted(c)) = 2
         /\ Preferred(c) \in Seq(KnownRoute) /\ Len(Preferred(c)) = 1
<1>1. /\ plan[c] \in Seq(KnownRoute) /\ Len(plan[c]) = 2
      /\ plan[c][1] \in KnownRoute /\ plan[c][2] \in KnownRoute
  BY DEF FInv, PlansOK
<1>2. Sorted(c) \in Seq(KnownRoute) /\ Len(Sorted(c)) = 2 /\ Sorted(c)[1] \in KnownRoute
  BY <1>1 DEF Sorted
<1> QED
  BY <1>1, <1>2 DEF Preferred

-----------------------------------------------------------------------------
(* A step of one client, part by part of the invariant                       *)

LEMMA LocksKeep ==
  ASSUME FInv, NEW c \in Clients, NEW to \in Places, at' = [at EXCEPT ![c] = to],
         routeLock' \in {routeLock, c, NoOne}, carrierLock' \in {carrierLock, c, NoOne},
         routeLock' # routeLock => routeLock \in {c, NoOne},
         carrierLock' # carrierLock => carrierLock \in {c, NoOne},
         carrierLock' = c => to \in {"racing", "route", "host", "dialling"},
         routeLock' = c => to = "racing",
         to = "racing" => c \in {routeLock', carrierLock'}
  PROVE  RacerHolds' /\ HolderWorks'
<1>1. at'[c] = to /\ \A e \in Clients \ {c} : at'[e] = at[e]
  BY DEF FInv, PlansOK
<1>2. RacerHolds'
  BY <1>1, NoOneAssumption DEF FInv, RacerHolds
<1>3. HolderWorks'
  BY <1>1, NoOneAssumption DEF FInv, HolderWorks
<1> QED
  BY <1>2, <1>3

LEMMA PlansKeep ==
  ASSUME FInv, NEW c \in Clients, NEW to \in Places, at' = [at EXCEPT ![c] = to],
         plan' \in [Clients -> Seq(KnownRoute)],
         \A e \in Clients \ {c} : plan'[e] = plan[e], Len(plan'[c]) \in {0, 1, 2},
         learn' \in [Clients -> BOOLEAN],
         to \in {"queued", "route", "host", "dialling", "racing"} => Len(plan'[c]) # 0,
         to \in {"auto", "carrier"} => Len(plan'[c]) = 2
  PROVE  PlansOK'
<1>1. /\ at' \in [Clients -> Places] /\ at'[c] = to
      /\ \A e \in Clients \ {c} : at'[e] = at[e]
  BY DEF FInv, PlansOK
<1> QED
  BY <1>1 DEF FInv, PlansOK

\* A dialler between the old ones and the new ones of the step.
LEMMA DialKeeps ==
  ASSUME FInv, NEW c \in Clients, NEW to \in Places, at' = [at EXCEPT ![c] = to],
         dial' \in [Dialler -> DialState], \A d \in Dialler : SoundDial(dial'[d]),
         \A d \in Dialler : dial'[d] = dial[d] \/ d \in {<<c, 0>>, <<c, 1>>, <<c, 2>>},
         to = "host" => dial'[Main(c)].st = "host"
  PROVE  DialOK'
<1>1. at'[c] = to /\ \A e \in Clients \ {c} : at'[e] = at[e]
  BY DEF FInv, PlansOK
<1>2. ASSUME NEW e \in Clients, at'[e] = "host" PROVE dial'[Main(e)].st = "host"
  <2>1. Main(e) \in Dialler /\ Main(c) \in Dialler
    BY DEF Main, Dialler
  <2>2. CASE e = c
    BY <1>1, <1>2, <2>1, <2>2
  <2>3. CASE e # c
    <3>1. dial'[Main(e)] = dial[Main(e)]
      BY <2>1, <2>3 DEF Main
    <3> QED
      BY <1>1, <1>2, <2>1, <2>3, <3>1 DEF FInv, DialOK
  <2> QED
    BY <2>2, <2>3
<1> QED
  BY <1>2 DEF DialOK

LEMMA DialStays ==
  ASSUME FInv, NEW c \in Clients, NEW to \in Places, at' = [at EXCEPT ![c] = to],
         UNCHANGED dial, to # "host"
  PROVE  DialOK'
<1>1. at'[c] = to /\ \A e \in Clients \ {c} : at'[e] = at[e]
  BY DEF FInv, PlansOK
<1> QED
  BY <1>1 DEF FInv, DialOK

\* The invariant follows from its parts, where the health is left alone.
LEMMA HealthStays ==
  ASSUME FInv, UNCHANGED <<down, settings, prefHost, failures>>
  PROVE  FlagsOK' /\ HealthOK'
BY DEF FInv, FlagsOK, HealthOK, settings

LEMMA InitHolds == FInit => FInv
<1> SUFFICES ASSUME FInit PROVE FInv
  OBVIOUS
<1>1. FlagsOK /\ LocksOK /\ RacerHolds /\ HolderWorks
  BY NoOneAssumption DEF FInit, FlagsOK, LocksOK, RacerHolds, HolderWorks
<1>2. HealthOK
  BY DEF FInit, HealthOK, Carrier
<1>3. PlansOK
  <2>1. /\ at \in [Clients -> Places] /\ learn \in [Clients -> BOOLEAN]
        /\ plan \in [Clients -> Seq(KnownRoute)]
    BY NoRoutes DEF FInit, Places, InDial
  <2>2. \A c \in Clients : plan[c] = <<>> /\ at[c] = "idle"
    BY DEF FInit
  <2> QED
    BY <2>1, <2>2 DEF PlansOK
<1>4. DialOK
  BY IdleSound DEF FInit, DialOK
<1> QED
  BY <1>1, <1>2, <1>3, <1>4 DEF FInv

\* What every step of the thread of client c keeps by itself, and what it has
\* to show: the locks it takes or gives back, the plan it holds, the diallers.
LEMMA StepHolds ==
  ASSUME FInv, UNCHANGED <<down, settings, prefHost, failures>>,
         PlansOK', DialOK', RacerHolds', HolderWorks',
         routeLock' \in Clients \cup {NoOne}, carrierLock' \in Clients \cup {NoOne},
         prefCarrier' \in Carrier \cup {""}
  PROVE  FInv'
BY HealthStays DEF FInv, LocksOK

-----------------------------------------------------------------------------
(* The steps of a client before, between and after its diallings             *)

LEMMA NoLock ==
  ASSUME FInv, NEW c \in Clients, at[c] \notin {"racing", "route", "host", "dialling"}
  PROVE  c # routeLock /\ c # carrierLock
BY DEF FInv, HolderWorks

LEMMA PlanOf ==
  ASSUME FInv, NEW c \in Clients
  PROVE  /\ plan[c] \in Seq(KnownRoute) /\ Len(plan[c]) \in {0, 1, 2}
         /\ at[c] \in Places /\ at \in [Clients -> Places]
         /\ at[c] \in {"queued", "route", "host", "dialling", "racing"} => Len(plan[c]) # 0
         /\ at[c] \in {"auto", "carrier"} => Len(plan[c]) = 2
         /\ plan \in [Clients -> Seq(KnownRoute)]
         /\ learn \in [Clients -> BOOLEAN]
BY DEF FInv, PlansOK

LEMMA NewPlan ==
  ASSUME FInv, NEW c \in Clients, NEW s \in Seq(KnownRoute), plan' = [plan EXCEPT ![c] = s]
  PROVE  /\ plan' \in [Clients -> Seq(KnownRoute)] /\ plan'[c] = s
         /\ \A e \in Clients \ {c} : plan'[e] = plan[e]
BY DEF FInv, PlansOK

LEMMA NewPlace ==
  ASSUME FInv, NEW c \in Clients, NEW from, NEW to, Move(c, from, to)
  PROVE  at[c] = from /\ at' = [at EXCEPT ![c] = to] /\ at'[c] = to
BY DEF FInv, PlansOK, Move

\* A step that takes no lock, by a client who holds none.
LEMMA WaiterKeeps ==
  ASSUME FInv, NEW c \in Clients, NEW from, NEW to, Move(c, from, to),
         from \in {"idle", "reading", "queued", "won", "relay", "auto", "carrier"},
         to \in {"reading", "queued", "closed", "route", "auto", "relay", "carrier"},
         UNCHANGED <<down, settings, prefHost, prefCarrier, failures, routeLock,
                     carrierLock, dial>>,
         learn' \in [Clients -> BOOLEAN],
         plan' \in [Clients -> Seq(KnownRoute)],
         \A e \in Clients \ {c} : plan'[e] = plan[e], Len(plan'[c]) \in {0, 1, 2},
         to \in {"queued", "route"} => Len(plan'[c]) # 0,
         to \in {"auto", "carrier"} => Len(plan'[c]) = 2
  PROVE  FInv'
<1>1. at[c] = from /\ at' = [at EXCEPT ![c] = to]
  BY NewPlace
<1>2. to \in Places /\ c # routeLock /\ c # carrierLock
  BY <1>1, NoLock DEF Places, InDial
<1>3. PlansOK'
  BY <1>1, <1>2, PlansKeep
<1>4. DialOK'
  BY <1>1, <1>2, DialStays
<1>5. RacerHolds' /\ HolderWorks'
  BY <1>1, <1>2, LocksKeep
<1> QED
  BY <1>3, <1>4, <1>5, StepHolds DEF FInv, LocksOK

LEMMA ReadHelloKeeps == ASSUME FInv, NEW c \in Clients, ReadHello(c) PROVE FInv'
<1>1. /\ UNCHANGED <<down, settings, prefHost, prefCarrier, failures, routeLock, carrierLock, dial>>
      /\ learn' \in [Clients -> BOOLEAN]
  BY PlanOf DEF ReadHello, routes
<1>2. CASE Move(c, "reading", "queued") /\ plan' = [plan EXCEPT ![c] = Routes]
  <2>1. Routes \in Seq(KnownRoute) /\ Len(Routes) \in {1, 2}
    BY RoutesKnown
  <2>2. /\ plan' \in [Clients -> Seq(KnownRoute)] /\ plan'[c] = Routes
        /\ \A e \in Clients \ {c} : plan'[e] = plan[e]
    BY <1>2, <2>1, NewPlan
  <2>3. Len(plan'[c]) = Len(Routes)
    BY <2>2
  <2>4. Len(plan'[c]) \in {0, 1, 2} /\ Len(plan'[c]) # 0
    BY <2>1, <2>3
  <2> QED
    BY <1>1, <1>2, <2>2, <2>4, WaiterKeeps
<1>3. CASE Move(c, "reading", "closed") /\ plan' = plan
  BY <1>1, <1>3, PlanOf, NewPlan, WaiterKeeps
<1> QED
  BY <1>2, <1>3 DEF ReadHello

LEMMA TakeSlotKeeps == ASSUME FInv, NEW c \in Clients, TakeSlot(c) PROVE FInv'
<1>1. /\ UNCHANGED <<down, settings, prefHost, prefCarrier, failures, routeLock, carrierLock, dial>>
      /\ learn' \in [Clients -> BOOLEAN] /\ plan' = plan
  BY PlanOf DEF TakeSlot, routes
<1>2. PICK to \in {"route", "auto"} :
        Move(c, "queued", to) /\ (to = "auto" => Len(plan[c]) # 1)
  BY DEF TakeSlot
<1>3. plan[c] \in Seq(KnownRoute) /\ Len(plan[c]) \in {0, 1, 2} /\ Len(plan[c]) # 0
  BY <1>2, NewPlace, PlanOf
<1>4. Len(plan[c]) # 1 => Len(plan[c]) = 2
  BY <1>3
<1> QED
  BY <1>1, <1>2, <1>3, <1>4, PlanOf, NewPlan, WaiterKeeps

LEMMA SortedKeeps ==
  ASSUME FInv, NEW c \in Clients,
         PreferredCarrierFirst(c) \/ AskCarrierLock(c) \/ CarrierLockTimeout(c)
  PROVE  FInv'
<1>1. /\ UNCHANGED <<down, settings, prefHost, prefCarrier, failures, routeLock, carrierLock, dial>>
      /\ learn' \in [Clients -> BOOLEAN]
  BY PlanOf DEF PreferredCarrierFirst, AskCarrierLock, CarrierLockTimeout, routes
<1>2. CASE PreferredCarrierFirst(c)
  <2>1. Move(c, "auto", "route") /\ plan' = [plan EXCEPT ![c] = Sorted(c)]
    BY <1>2 DEF PreferredCarrierFirst
  <2>2. Sorted(c) \in Seq(KnownRoute) /\ Len(Sorted(c)) = 2
    BY <2>1, NewPlace, SortedKnown
  <2>3. /\ plan' \in [Clients -> Seq(KnownRoute)] /\ plan'[c] = Sorted(c)
        /\ \A e \in Clients \ {c} : plan'[e] = plan[e]
    BY <2>1, <2>2, NewPlan
  <2>4. Len(plan'[c]) = 2
    BY <2>2, <2>3
  <2>5. Len(plan'[c]) \in {0, 1, 2} /\ Len(plan'[c]) # 0
    BY <2>4
  <2> QED
    BY <1>1, <2>1, <2>3, <2>5, WaiterKeeps
<1>3. CASE AskCarrierLock(c)
  <2>1. Move(c, "auto", "carrier") /\ plan' = plan
    BY <1>3 DEF AskCarrierLock
  <2>2. plan[c] \in Seq(KnownRoute) /\ Len(plan[c]) = 2
    BY <2>1, NewPlace, PlanOf
  <2> QED
    BY <1>1, <2>1, <2>2, PlanOf, NewPlan, WaiterKeeps
<1>4. CASE CarrierLockTimeout(c)
  <2>1. CASE prefCarrier # ""
    <3>1. Move(c, "carrier", "route") /\ plan' = [plan EXCEPT ![c] = Preferred(c)]
      BY <1>4, <2>1 DEF CarrierLockTimeout
    <3>2. Preferred(c) \in Seq(KnownRoute) /\ Len(Preferred(c)) = 1
      BY <3>1, NewPlace, SortedKnown
    <3>3. /\ plan' \in [Clients -> Seq(KnownRoute)] /\ plan'[c] = Preferred(c)
          /\ \A e \in Clients \ {c} : plan'[e] = plan[e]
      BY <3>1, <3>2, NewPlan
    <3>4. Len(plan'[c]) = 1
      BY <3>2, <3>3
    <3>5. Len(plan'[c]) \in {0, 1, 2} /\ Len(plan'[c]) # 0
      BY <3>4
    <3> QED
      BY <1>1, <3>1, <3>3, <3>5, WaiterKeeps
  <2>2. CASE prefCarrier = ""
    <3>1. Move(c, "carrier", "closed") /\ plan' = [plan EXCEPT ![c] = <<>>]
      BY <1>4, <2>2 DEF CarrierLockTimeout
    <3> QED
      BY <1>1, <3>1, NoRoutes, NewPlan, WaiterKeeps
  <2> QED
    BY <2>1, <2>2
<1> QED
  BY <1>2, <1>3, <1>4

LEMMA ClientKeeps ==
  ASSUME FInv, NEW c \in Clients,
         AcceptClient(c) \/ QueueSaturated(c) \/ StartRelay(c) \/ EndRelay(c)
  PROVE  FInv'
<1>1. /\ UNCHANGED <<down, settings, prefHost, prefCarrier, failures, routeLock, carrierLock, dial>>
      /\ learn' \in [Clients -> BOOLEAN]
  BY PlanOf DEF AcceptClient, QueueSaturated, StartRelay, EndRelay, routes
<1>2. CASE QueueSaturated(c)
  BY <1>1, <1>2, NoRoutes, NewPlan, WaiterKeeps DEF QueueSaturated
<1>3. CASE ~QueueSaturated(c)
  <2>1. PICK from \in {"idle", "won", "relay"}, to \in {"reading", "relay", "closed"} :
          Move(c, from, to) /\ plan' = plan
    BY <1>3 DEF AcceptClient, StartRelay, EndRelay
  <2> QED
    BY <1>1, <2>1, PlanOf, NewPlan, WaiterKeeps
<1> QED
  BY <1>2, <1>3

-----------------------------------------------------------------------------
(* The steps that take a lock, dial or race                                  *)

\* A race leaves the diallers of others alone.
LEMMA RaceStarts ==
  ASSUME FInv, NEW c \in Clients, NEW two, StartRace(c, two),
         two[1] \in DialState, SoundDial(two[1]), two[2] \in DialState, SoundDial(two[2])
  PROVE  /\ at' = [at EXCEPT ![c] = "racing"]
         /\ dial' \in [Dialler -> DialState] /\ \A d \in Dialler : SoundDial(dial'[d])
         /\ \A d \in Dialler : dial'[d] = dial[d] \/ d \in {<<c, 0>>, <<c, 1>>, <<c, 2>>}
<1>1. \A d \in Dialler : dial'[d] = IF d \in {<<c, 1>>, <<c, 2>>} THEN two[d[2]] ELSE dial[d]
  BY DEF StartRace
<1>2. \A d \in Dialler : d \in {<<c, 1>>, <<c, 2>>} => d[2] \in {1, 2}
  OBVIOUS
<1>3. \A d \in Dialler : dial'[d] \in DialState /\ SoundDial(dial'[d])
  BY <1>1, <1>2 DEF FInv, DialOK
<1>4. dial' = [d \in Dialler |-> dial'[d]]
  BY DEF StartRace
<1> QED
  BY <1>1, <1>3, <1>4 DEF StartRace, Move

LEMMA TakeCarrierLockKeeps == ASSUME FInv, NEW c \in Clients, TakeCarrierLock(c) PROVE FInv'
<1>1. /\ at[c] = "carrier" /\ carrierLock = NoOne /\ carrierLock' = c
      /\ UNCHANGED <<down, settings, prefHost, prefCarrier, failures, routeLock>>
      /\ learn' \in [Clients -> BOOLEAN]
  BY PlanOf DEF TakeCarrierLock, routes
<1>2. c # routeLock
  BY <1>1, NoLock
<1>3. CASE Move(c, "carrier", "route") /\ plan' = [plan EXCEPT ![c] = Preferred(c)] /\ dial' = dial
  <2>1. at' = [at EXCEPT ![c] = "route"] /\ "route" \in Places
    BY <1>3, NewPlace DEF Places, InDial
  <2>2. Preferred(c) \in Seq(KnownRoute) /\ Len(Preferred(c)) = 1
    BY <1>1, SortedKnown
  <2>3. /\ plan' \in [Clients -> Seq(KnownRoute)] /\ plan'[c] = Preferred(c)
        /\ \A e \in Clients \ {c} : plan'[e] = plan[e]
    BY <1>3, <2>2, NewPlan
  <2>4. Len(plan'[c]) = 1
    BY <2>2, <2>3
  <2>5. Len(plan'[c]) \in {0, 1, 2} /\ Len(plan'[c]) # 0
    BY <2>4
  <2>6. PlansOK'
    BY <1>1, <2>1, <2>3, <2>5, PlansKeep
  <2>7. DialOK'
    BY <1>3, <2>1, DialStays
  <2>8. RacerHolds' /\ HolderWorks'
    BY <1>1, <1>2, <2>1, LocksKeep
  <2> QED
    BY <1>1, <2>6, <2>7, <2>8, StepHolds DEF FInv, LocksOK
<1>4. ASSUME StartRace(c, [i \in 1..2 |-> OrderedHosts(plan[c][i])]), plan' = plan PROVE FInv'
  <2> DEFINE two == [i \in 1..2 |-> OrderedHosts(plan[c][i])]
  <2>1. /\ two[1] \in DialState /\ SoundDial(two[1])
        /\ two[2] \in DialState /\ SoundDial(two[2])
    BY <1>1, SortedKnown, OrderedHostsSound
  <2>2. StartRace(c, two)
    BY <1>4
  <2> HIDE DEF two
  <2>3. /\ at' = [at EXCEPT ![c] = "racing"] /\ "racing" \in Places
        /\ dial' \in [Dialler -> DialState] /\ \A d \in Dialler : SoundDial(dial'[d])
        /\ \A d \in Dialler : dial'[d] = dial[d] \/ d \in {<<c, 0>>, <<c, 1>>, <<c, 2>>}
    BY <2>1, <2>2, RaceStarts DEF Places, InDial
  <2>4. PlansOK'
    <3>1. Len(plan'[c]) \in {0, 1, 2} /\ Len(plan'[c]) # 0 /\ plan' \in [Clients -> Seq(KnownRoute)]
      BY <1>1, <1>4, PlanOf
    <3> QED
      BY <1>1, <1>4, <2>3, <3>1, PlansKeep
  <2>5. DialOK'
    BY <2>3, DialKeeps
  <2>6. RacerHolds' /\ HolderWorks'
    BY <1>1, <1>2, <2>3, LocksKeep
  <2> QED
    BY <1>1, <2>4, <2>5, <2>6, StepHolds DEF FInv, LocksOK
<1> QED
  BY <1>3, <1>4 DEF TakeCarrierLock

\* A dialler of the client's own is set to a sound state.
LEMMA MainSet ==
  ASSUME FInv, NEW c \in Clients, NEW v \in DialState, SoundDial(v),
         NEW f \in [Dialler -> DialState], \A d \in Dialler : SoundDial(f[d]),
         \A d \in Dialler : f[d] = dial[d] \/ d \in {<<c, 0>>, <<c, 1>>, <<c, 2>>},
         dial' = [f EXCEPT ![Main(c)] = v]
  PROVE  /\ dial' \in [Dialler -> DialState] /\ \A d \in Dialler : SoundDial(dial'[d])
         /\ \A d \in Dialler : dial'[d] = dial[d] \/ d \in {<<c, 0>>, <<c, 1>>, <<c, 2>>}
         /\ dial'[Main(c)] = v
<1>1. Main(c) \in Dialler /\ Main(c) = <<c, 0>>
  BY DEF Main, Dialler
<1>2. \A d \in Dialler : dial'[d] = IF d = Main(c) THEN v ELSE f[d]
  BY <1>1
<1> QED
  BY <1>1, <1>2

LEMMA DialFits ==
  ASSUME FInv
  PROVE  dial \in [Dialler -> DialState] /\ \A d \in Dialler : SoundDial(dial[d])
BY DEF FInv, DialOK

LEMMA ConnectRouteKeeps == ASSUME FInv, NEW c \in Clients, ConnectRoute(c) PROVE FInv'
<1>1. /\ at[c] = "route" /\ plan' = plan
      /\ UNCHANGED <<down, settings, prefHost, prefCarrier, failures, routeLock, carrierLock>>
      /\ learn' \in [Clients -> BOOLEAN]
      /\ dial' = [dial EXCEPT ![Main(c)] = OrderedHosts(Head(plan[c]))]
  BY PlanOf DEF ConnectRoute, Move, routes
<1>2. PICK to \in {"host", "dialling"} : at' = [at EXCEPT ![c] = to]
  BY DEF ConnectRoute, Move
<1>3. to \in Places /\ c # routeLock
  BY <1>1 DEF Places, InDial, FInv, HolderWorks
<1> DEFINE v == OrderedHosts(Head(plan[c]))
<1>4. v \in DialState /\ SoundDial(v) /\ v.st = "host"
  BY <1>1, PlanOf, HeadKnown, OrderedHostsSound
<1>5. dial' = [dial EXCEPT ![Main(c)] = v]
  BY <1>1
<1> HIDE DEF v
<1>6. /\ dial' \in [Dialler -> DialState] /\ \A d \in Dialler : SoundDial(dial'[d])
      /\ \A d \in Dialler : dial'[d] = dial[d] \/ d \in {<<c, 0>>, <<c, 1>>, <<c, 2>>}
      /\ dial'[Main(c)] = v
  BY <1>4, <1>5, DialFits, MainSet
<1>7. PlansOK'
  BY <1>1, <1>2, <1>3, PlanOf, PlansKeep
<1>8. DialOK'
  BY <1>2, <1>3, <1>4, <1>6, DialKeeps
<1>9. RacerHolds' /\ HolderWorks'
  BY <1>1, <1>2, <1>3, LocksKeep
<1> QED
  BY <1>1, <1>7, <1>8, <1>9, StepHolds DEF FInv, LocksOK

\* Who waits for the lock of the route has a dialler with hosts left.
LEMMA WaitsWithHosts ==
  ASSUME FInv, NEW c \in Clients, at[c] = "host"
  PROVE  LET d == dial[Main(c)]
         IN  /\ d \in DialState /\ SoundDial(d) /\ d.st = "host"
             /\ d.hosts # {} /\ d.hosts \in SUBSET Host /\ d.carrier \in Carrier
             /\ c # routeLock
<1>1. Main(c) \in Dialler
  BY DEF Main, Dialler
<1>2. c # routeLock
  BY DEF FInv, HolderWorks
<1> QED
  BY <1>1, <1>2 DEF FInv, DialOK, SoundDial, DialState

LEMMA TakeRouteLockKeeps == ASSUME FInv, NEW c \in Clients, TakeRouteLock(c) PROVE FInv'
<1> DEFINE d == dial[Main(c)]
           h == Turn(d.hosts, d.first)
           others == d.hosts \ {h}
           one == Single(d.carrier, h)
           other == IF others = {} THEN Idle ELSE Single(d.carrier, Turn(others, d.first))
<1>1. /\ at[c] = "host" /\ routeLock = NoOne /\ plan' = plan
      /\ UNCHANGED <<down, settings, prefHost, prefCarrier, failures, carrierLock>>
      /\ learn' \in [Clients -> BOOLEAN]
  BY PlanOf DEF TakeRouteLock, routes
<1>2. d \in DialState /\ SoundDial(d) /\ d.st = "host" /\ d.hosts # {} /\ d.hosts \in SUBSET Host
  BY <1>1, WaitsWithHosts
<1>3. Len(plan'[c]) \in {0, 1, 2} /\ Len(plan'[c]) # 0 /\ plan' \in [Clients -> Seq(KnownRoute)]
  BY <1>1, PlanOf
<1>4. CASE StartRace(c, <<one, other>>) /\ routeLock' = c
  <2>1. h \in d.hosts
    <3> HIDE DEF d
    <3> QED
      BY <1>2, TurnIsOne
  <2>2. one \in DialState /\ SoundDial(one)
    <3> HIDE DEF d, h
    <3> QED
      BY <1>2, <2>1, SingleSound
  <2>3. other \in DialState /\ SoundDial(other)
    <3>1. CASE others = {}
      BY <3>1, IdleSound
    <3>2. ASSUME others # {} PROVE Turn(others, d.first) \in d.hosts
      <4>1. others \in SUBSET Host
        BY <1>2
      <4>2. Turn(others, d.first) \in others
        <5> HIDE DEF others, d
        <5> QED
          BY <3>2, <4>1, TurnIsOne
      <4> QED
        BY <4>2
    <3> HIDE DEF d, h, others
    <3> QED
      BY <1>2, <3>1, <3>2, SingleSound
  <2> DEFINE two == <<one, other>>
  <2>4. two[1] = one /\ two[2] = other /\ StartRace(c, two)
    BY <1>4
  <2> HIDE DEF d, h, others, one, other, two
  <2>5. /\ at' = [at EXCEPT ![c] = "racing"] /\ "racing" \in Places
        /\ dial' \in [Dialler -> DialState] /\ \A e \in Dialler : SoundDial(dial'[e])
        /\ \A e \in Dialler : dial'[e] = dial[e] \/ e \in {<<c, 0>>, <<c, 1>>, <<c, 2>>}
    BY <2>2, <2>3, <2>4, RaceStarts DEF Places, InDial
  <2>6. PlansOK'
    BY <1>1, <1>3, <2>5, PlansKeep
  <2>7. DialOK'
    BY <2>5, DialKeeps
  <2>8. RacerHolds' /\ HolderWorks'
    BY <1>1, <1>4, <2>5, LocksKeep
  <2> QED
    BY <1>1, <1>4, <2>6, <2>7, <2>8, StepHolds DEF FInv, LocksOK
<1>5. ASSUME routeLock' = routeLock, Move(c, "host", "dialling"),
             dial' = [dial EXCEPT ![Main(c)] = OrderedHosts(Head(plan[c]))]
      PROVE  FInv'
  <2> DEFINE v == OrderedHosts(Head(plan[c]))
  <2>1. v \in DialState /\ SoundDial(v)
    BY <1>1, PlanOf, HeadKnown, OrderedHostsSound
  <2>2. dial' = [dial EXCEPT ![Main(c)] = v]
    BY <1>5
  <2> HIDE DEF v
  <2>3. /\ dial' \in [Dialler -> DialState] /\ \A e \in Dialler : SoundDial(dial'[e])
        /\ \A e \in Dialler : dial'[e] = dial[e] \/ e \in {<<c, 0>>, <<c, 1>>, <<c, 2>>}
    BY <2>1, <2>2, DialFits, MainSet
  <2>4. at' = [at EXCEPT ![c] = "dialling"] /\ "dialling" \in Places
    BY <1>5 DEF Places, InDial, Move
  <2>5. PlansOK'
    BY <1>1, <1>3, <2>4, PlansKeep
  <2>6. DialOK'
    BY <2>3, <2>4, DialKeeps
  <2>7. c # routeLock
    BY <1>1, WaitsWithHosts
  <2>8. RacerHolds' /\ HolderWorks'
    BY <1>1, <1>5, <2>4, <2>7, LocksKeep
  <2> QED
    BY <1>1, <1>5, <2>5, <2>6, <2>8, StepHolds DEF FInv, LocksOK
<1>6. \/ StartRace(c, <<one, other>>) /\ routeLock' = c
      \/ /\ routeLock' = routeLock /\ Move(c, "host", "dialling")
         /\ dial' = [dial EXCEPT ![Main(c)] = OrderedHosts(Head(plan[c]))]
  BY DEF TakeRouteLock
<1> HIDE DEF one, other
<1> QED
  BY <1>4, <1>5, <1>6

LEMMA RouteLockTimeoutKeeps == ASSUME FInv, NEW c \in Clients, RouteLockTimeout(c) PROVE FInv'
<1>1. /\ at[c] = "host" /\ plan' = plan /\ dial' = dial
      /\ at' = [at EXCEPT ![c] = "dialling"] /\ "dialling" \in Places
      /\ UNCHANGED <<down, settings, prefHost, prefCarrier, failures, routeLock, carrierLock>>
      /\ learn' \in [Clients -> BOOLEAN]
  BY PlanOf DEF RouteLockTimeout, Move, routes, Places, InDial
<1>2. Len(plan'[c]) \in {0, 1, 2} /\ Len(plan'[c]) # 0 /\ plan' \in [Clients -> Seq(KnownRoute)]
  BY <1>1, PlanOf
<1>3. PlansOK'
  BY <1>1, <1>2, PlansKeep
<1>4. DialOK'
  BY <1>1, DialStays
<1>5. RacerHolds' /\ HolderWorks'
  BY <1>1, WaitsWithHosts, LocksKeep
<1> QED
  BY <1>1, <1>3, <1>4, <1>5, StepHolds DEF FInv, LocksOK

LEMMA TwoLeft == ASSUME NEW n \in {0, 1, 2}, n > 1 PROVE n = 2
OBVIOUS

LEMMA DialDoneKeeps == ASSUME FInv, NEW c \in Clients, DialDone(c) PROVE FInv'
<1> DEFINE more == dial[Main(c)].st = "none" /\ Len(plan[c]) > 1
<1>1. /\ at[c] = "dialling" /\ UNCHANGED <<down, settings, prefHost, failures>>
      /\ dial' = [dial EXCEPT ![Main(c)] = Idle]
      /\ prefCarrier' = IF dial[Main(c)].st = "won" /\ learn[c] THEN dial[Main(c)].carrier
                        ELSE prefCarrier
      /\ plan' = [plan EXCEPT ![c] = IF more THEN Tail(@) ELSE <<>>]
      /\ IF more THEN UNCHANGED <<routeLock, carrierLock>> ELSE Release(c)
  BY DEF DialDone, Move
<1>2. learn' \in [Clients -> BOOLEAN]
  BY PlanOf DEF DialDone
<1>3. PICK to \in {"won", "route", "closed"} : /\ at' = [at EXCEPT ![c] = to]
                                               /\ to = "route" <=> more
  BY DEF DialDone, Move
<1>4. c # routeLock /\ c # NoOne /\ to \in Places
  BY <1>1, NoOneAssumption DEF FInv, HolderWorks, Places, InDial
<1>5. /\ plan' \in [Clients -> Seq(KnownRoute)] /\ \A e \in Clients \ {c} : plan'[e] = plan[e]
      /\ Len(plan'[c]) \in {0, 1, 2} /\ (more => Len(plan'[c]) # 0)
  <2>1. CASE more
    <3>1. plan[c] \in Seq(KnownRoute) /\ Len(plan[c]) \in {0, 1, 2} /\ Len(plan[c]) > 1
      BY <2>1, PlanOf
    <3>2. Len(plan[c]) = 2
      BY <3>1, TwoLeft
    <3>3. Tail(plan[c]) \in Seq(KnownRoute) /\ Len(Tail(plan[c])) = 1
      BY <3>1, <3>2
    <3>4. plan' = [plan EXCEPT ![c] = Tail(plan[c])]
      BY <1>1, <2>1
    <3>5. /\ plan' \in [Clients -> Seq(KnownRoute)] /\ plan'[c] = Tail(plan[c])
          /\ \A e \in Clients \ {c} : plan'[e] = plan[e]
      BY <3>3, <3>4, NewPlan
    <3>6. Len(plan'[c]) = 1
      BY <3>3, <3>5
    <3> QED
      BY <3>5, <3>6
  <2>2. CASE ~more
    <3>1. plan' = [plan EXCEPT ![c] = <<>>]
      BY <1>1, <2>2
    <3>2. /\ plan' \in [Clients -> Seq(KnownRoute)] /\ plan'[c] = <<>>
          /\ \A e \in Clients \ {c} : plan'[e] = plan[e]
      BY <3>1, NoRoutes, NewPlan
    <3> QED
      BY <2>2, <3>2, NoRoutes
  <2> QED
    BY <2>1, <2>2
<1> HIDE DEF more
<1>6. /\ dial' \in [Dialler -> DialState] /\ \A d \in Dialler : SoundDial(dial'[d])
      /\ \A d \in Dialler : dial'[d] = dial[d] \/ d \in {<<c, 0>>, <<c, 1>>, <<c, 2>>}
  BY <1>1, IdleSound, DialFits, MainSet
<1>7. PlansOK'
  BY <1>2, <1>3, <1>4, <1>5, PlansKeep
<1>8. DialOK'
  BY <1>3, <1>4, <1>6, DialKeeps
<1>9. RacerHolds' /\ HolderWorks'
  BY <1>1, <1>3, <1>4, LocksKeep DEF Release, GiveBack
<1>10. prefCarrier' \in Carrier \cup {""}
  <2>1. dial[Main(c)].carrier \in Carrier
    BY DEF FInv, DialOK, DialState, Main, Dialler
  <2> QED
    BY <1>1, <2>1 DEF FInv, LocksOK
<1>11. routeLock' \in Clients \cup {NoOne} /\ carrierLock' \in Clients \cup {NoOne}
  BY <1>1 DEF FInv, LocksOK, Release, GiveBack
<1> QED
  BY <1>1, <1>7, <1>8, <1>9, <1>10, <1>11, StepHolds

-----------------------------------------------------------------------------
(* The end of a race                                                         *)

LEMMA ForgetSound ==
  ASSUME FInv, NEW c \in Clients
  PROVE  /\ Forget(c) \in [Dialler -> DialState]
         /\ \A d \in Dialler : SoundDial(Forget(c)[d])
         /\ \A d \in Dialler :
              Forget(c)[d] = dial[d] \/ d \in {<<c, 0>>, <<c, 1>>, <<c, 2>>}
<1>1. \A d \in Dialler : Forget(c)[d] = IF d \in Helpers(c) /\ Done(d) THEN Idle ELSE dial[d]
  BY DEF Forget
<1>2. \A d \in Dialler : Forget(c)[d] \in DialState /\ SoundDial(Forget(c)[d])
  BY <1>1, IdleSound DEF FInv, DialOK
<1>3. Forget(c) = [d \in Dialler |-> Forget(c)[d]]
  BY DEF Forget
<1> QED
  BY <1>1, <1>2, <1>3 DEF Helpers

\* The client is done with its route and gives back what it holds.
LEMMA RaceOver ==
  ASSUME FInv, NEW c \in Clients, NEW to \in {"won", "closed"}, Move(c, "racing", to),
         Release(c), Given(c), UNCHANGED <<down, settings, prefHost, failures>>,
         learn' \in [Clients -> BOOLEAN], prefCarrier' \in Carrier \cup {""}
  PROVE  FInv'
<1>1. at' = [at EXCEPT ![c] = to] /\ to \in Places /\ c # NoOne
  BY NoOneAssumption DEF Move, Places, InDial
<1>2. dial' = [Forget(c) EXCEPT ![Main(c)] = Idle] /\ plan' = [plan EXCEPT ![c] = <<>>]
  BY DEF Given
<1>3. /\ dial' \in [Dialler -> DialState] /\ \A d \in Dialler : SoundDial(dial'[d])
      /\ \A d \in Dialler : dial'[d] = dial[d] \/ d \in {<<c, 0>>, <<c, 1>>, <<c, 2>>}
  <2> DEFINE f == Forget(c)
  <2>1. /\ f \in [Dialler -> DialState] /\ \A d \in Dialler : SoundDial(f[d])
        /\ \A d \in Dialler : f[d] = dial[d] \/ d \in {<<c, 0>>, <<c, 1>>, <<c, 2>>}
    BY ForgetSound
  <2>2. dial' = [f EXCEPT ![Main(c)] = Idle]
    BY <1>2
  <2> HIDE DEF f
  <2> QED
    BY <2>1, <2>2, IdleSound, MainSet
<1>4. /\ plan' \in [Clients -> Seq(KnownRoute)] /\ plan'[c] = <<>>
      /\ \A e \in Clients \ {c} : plan'[e] = plan[e]
  BY <1>2, NoRoutes, NewPlan
<1>5. Len(plan'[c]) \in {0, 1, 2}
  BY <1>4, NoRoutes
<1>6. PlansOK'
  BY <1>1, <1>4, <1>5, PlansKeep
<1>7. DialOK'
  BY <1>1, <1>3, DialKeeps
<1>8. RacerHolds' /\ HolderWorks'
  BY <1>1, LocksKeep DEF Release, GiveBack
<1>9. routeLock' \in Clients \cup {NoOne} /\ carrierLock' \in Clients \cup {NoOne}
  BY DEF FInv, LocksOK, Release, GiveBack
<1> QED
  BY <1>6, <1>7, <1>8, <1>9, StepHolds

\* The race of the hosts is over without a winner, and the route goes on.
LEMMA HostRaceOver ==
  ASSUME FInv, NEW c \in Clients, Move(c, "racing", "dialling"),
         routeLock = c, routeLock' = NoOne,
         dial' = [Forget(c) EXCEPT ![Main(c)] = OrderedHosts(Head(plan[c]))],
         UNCHANGED <<carrierLock, plan, down, settings, prefHost, prefCarrier, failures, learn>>
  PROVE  FInv'
<1>1. /\ at[c] = "racing" /\ at' = [at EXCEPT ![c] = "dialling"] /\ "dialling" \in Places
      /\ c # NoOne
  BY NoOneAssumption DEF Move, Places, InDial
<1>2. Len(plan'[c]) \in {0, 1, 2} /\ Len(plan'[c]) # 0 /\ plan' \in [Clients -> Seq(KnownRoute)]
  BY <1>1, PlanOf
<1>3. /\ dial' \in [Dialler -> DialState] /\ \A d \in Dialler : SoundDial(dial'[d])
      /\ \A d \in Dialler : dial'[d] = dial[d] \/ d \in {<<c, 0>>, <<c, 1>>, <<c, 2>>}
  <2> DEFINE f == Forget(c)
             v == OrderedHosts(Head(plan[c]))
  <2>1. /\ f \in [Dialler -> DialState] /\ \A d \in Dialler : SoundDial(f[d])
        /\ \A d \in Dialler : f[d] = dial[d] \/ d \in {<<c, 0>>, <<c, 1>>, <<c, 2>>}
    BY ForgetSound
  <2>2. v \in DialState /\ SoundDial(v)
    BY <1>1, PlanOf, HeadKnown, OrderedHostsSound
  <2>3. dial' = [f EXCEPT ![Main(c)] = v]
    OBVIOUS
  <2> HIDE DEF f, v
  <2> QED
    BY <2>1, <2>2, <2>3, MainSet
<1>4. PlansOK'
  <2>1. learn' \in [Clients -> BOOLEAN]
    BY PlanOf
  <2> QED
    BY <1>1, <1>2, <2>1, PlansKeep
<1>5. DialOK'
  BY <1>1, <1>3, DialKeeps
<1>6. RacerHolds' /\ HolderWorks'
  BY <1>1, LocksKeep
<1> QED
  BY <1>4, <1>5, <1>6, StepHolds DEF FInv, LocksOK

LEMMA RaceEndsKeeps ==
  ASSUME FInv, NEW c \in Clients,
         RaceWon(c) \/ RaceRaised(c) \/ RaceLost(c) \/ RaceTimeout(c)
  PROVE  FInv'
<1>1. CASE RaceWon(c)
  <2>1. prefCarrier' \in Carrier \cup {""}
    <3>1. PICK d \in Helpers(c) : prefCarrier' \in {dial[d].carrier, prefCarrier}
      BY <1>1 DEF RaceWon
    <3>2. dial[d].carrier \in Carrier
      BY DEF Helpers, Dialler, FInv, DialOK, DialState
    <3> QED
      BY <3>1, <3>2 DEF FInv, LocksOK
  <2>2. learn' \in [Clients -> BOOLEAN]
    BY <1>1, PlanOf DEF RaceWon
  <2> QED
    BY <1>1, <2>1, <2>2, RaceOver DEF RaceWon
<1>2. CASE RaceRaised(c)
  <2>1. learn' \in [Clients -> BOOLEAN]
    BY <1>2, PlanOf DEF RaceRaised
  <2> QED
    BY <1>2, <2>1, RaceOver DEF RaceRaised, routes, FInv, LocksOK
<1>3. CASE RaceLost(c) \/ RaceTimeout(c)
  <2>1. NoWinner(c)
    BY <1>3 DEF RaceLost, RaceTimeout
  <2>2. UNCHANGED <<down, settings, prefHost, prefCarrier, failures, learn>>
        /\ prefCarrier' \in Carrier \cup {""} /\ learn' \in [Clients -> BOOLEAN]
    BY <2>1, PlanOf DEF NoWinner, routes, FInv, LocksOK
  <2>3. CASE routeLock = c
    BY <2>1, <2>2, <2>3, HostRaceOver DEF NoWinner
  <2>4. CASE routeLock # c
    BY <2>1, <2>2, <2>4, RaceOver DEF NoWinner
  <2> QED
    BY <2>3, <2>4
<1> QED
  BY <1>1, <1>2, <1>3

-----------------------------------------------------------------------------
(* The trial of a host                                                       *)

LEMMA TriedIsOne ==
  ASSUME FInv, NEW d \in Dialler, Trying(d)
  PROVE  /\ Tried(d) \in dial[d].hosts /\ Tried(d) \in Host /\ dial[d].carrier \in Carrier
         /\ dial[d].carrier = "mci" => Tried(d) \in 3..4
<1>1. /\ dial[d].hosts # {} /\ dial[d].hosts \in SUBSET Host /\ dial[d].carrier \in Carrier
      /\ dial[d].carrier = "mci" => dial[d].hosts \subseteq 3..4
  BY DEF Trying, FInv, DialOK, DialState, SoundDial
<1>2. Tried(d) \in dial[d].hosts
  BY <1>1, TurnIsOne DEF Tried
<1> QED
  BY <1>1, <1>2

\* The dialler goes on or ends.
LEMMA TrialDial ==
  ASSUME FInv, NEW d \in Dialler, Trying(d), UNCHANGED at,
         NextHost(d) \/ Finish(d, "won") \/ Finish(d, "raised")
  PROVE  DialOK'
<1>1. dial[d] \in DialState /\ SoundDial(dial[d])
  BY DEF FInv, DialOK
<1>2. PICK v \in DialState : SoundDial(v) /\ dial' = [dial EXCEPT ![d] = v]
  <2>1. ASSUME NEW st \in {"won", "none", "raised"}, Finish(d, st)
        PROVE  \E v \in DialState : SoundDial(v) /\ dial' = [dial EXCEPT ![d] = v]
    <3> DEFINE v == IF Told(d) THEN Idle ELSE [Idle EXCEPT !.st = st, !.carrier = dial[d].carrier]
    <3>1. v \in DialState /\ SoundDial(v)
      BY <1>1 DEF Idle, DialState, SoundDial, Stages, Carrier
    <3>2. dial' = [dial EXCEPT ![d] = v]
      BY <2>1 DEF Finish
    <3> QED
      BY <3>1, <3>2
  <2>2. ASSUME dial[d].hosts # {Tried(d)},
               dial' = [dial EXCEPT ![d].hosts = @ \ {Tried(d)}, ![d].first = 0]
        PROVE  \E v \in DialState : SoundDial(v) /\ dial' = [dial EXCEPT ![d] = v]
    <3> DEFINE v == [dial[d] EXCEPT !.hosts = @ \ {Tried(d)}, !.first = 0]
    <3>1. v \in DialState
      BY <1>1 DEF DialState
    <3>2. v.hosts = dial[d].hosts \ {Tried(d)} /\ v.carrier = dial[d].carrier
      BY <1>1 DEF DialState
    <3>3. SoundDial(v)
      <4>1. Tried(d) \in dial[d].hosts /\ dial[d].st = "host"
        BY TriedIsOne DEF Trying
      <4> HIDE DEF v
      <4> QED
        BY <1>1, <2>2, <3>2, <4>1 DEF SoundDial
    <3>4. dial' = [dial EXCEPT ![d] = v]
      BY <2>2 DEF FInv, DialOK
    <3> QED
      BY <3>1, <3>3, <3>4
  <2> QED
    BY <2>1, <2>2 DEF NextHost
<1>3. dial' \in [Dialler -> DialState] /\ \A e \in Dialler : SoundDial(dial'[e])
  BY <1>2 DEF FInv, DialOK
<1>4. \A c \in Clients : at[c] = "host" => Main(c) # d
  BY DEF Trying, Main
<1>5. \A c \in Clients : at[c] = "host" => dial'[Main(c)].st = "host"
  <2>1. \A e \in Dialler : e # d => dial'[e] = dial[e]
    BY <1>2 DEF FInv, DialOK
  <2>2. \A c \in Clients : Main(c) \in Dialler
    BY DEF Main, Dialler
  <2> QED
    BY <1>4, <2>1, <2>2 DEF FInv, DialOK
<1> QED
  BY <1>3, <1>5 DEF DialOK

\* The answer takes the host out of its cooldown as it makes it preferred, and
\* the failure takes the preference as it starts the cooldown.
LEMMA TrialHealth ==
  ASSUME FInv, NEW d \in Dialler, HostWins(d) \/ HostFails(d) PROVE HealthOK'
<1> DEFINE h == Tried(d)
           k == dial[d].carrier
<1>1. h \in Host /\ k \in Carrier /\ (k = "mci" => h \in 3..4)
  BY TriedIsOne DEF HostWins, HostFails
<1>2. "mci" \in Carrier /\ HealthOK
  BY DEF Carrier, FInv
<1>3. CASE HostWins(d)
  <2>1. prefHost' = [prefHost EXCEPT ![k] = h] /\ failures' = failures \ ({h} \X Carrier)
    BY <1>3 DEF HostWins, Except
  <2> HIDE DEF h, k
  <2> QED
    BY <1>1, <1>2, <2>1 DEF HealthOK
<1>4. CASE HostFails(d)
  <2>1. /\ prefHost' = [prefHost EXCEPT ![k] = IF prefHost[k] = h THEN 0 ELSE prefHost[k]]
        /\ failures' = failures \cup {<<h, k>>}
    BY <1>4 DEF HostFails
  <2>2. 0 \notin Host
    BY HostAssumption
  <2> HIDE DEF h, k
  <2>3. prefHost' \in [Carrier -> Host \cup {0}] /\ prefHost'["mci"] \in {0, 3, 4}
    BY <1>1, <1>2, <2>1 DEF HealthOK
  <2>4. failures' \subseteq Host \X Carrier
    BY <1>1, <1>2, <2>1 DEF HealthOK
  <2>5. \A g \in Host : <<g, "mci">> \in failures' => g \in 3..4
    BY <1>1, <1>2, <2>1 DEF HealthOK
  <2>6. \A j \in Carrier : <<prefHost'[j], j>> \notin failures'
    BY <1>1, <1>2, <2>1, <2>2 DEF HealthOK
  <2> QED
    BY <2>3, <2>4, <2>5, <2>6 DEF HealthOK
<1> QED
  BY <1>3, <1>4

LEMMA OthersStay ==
  ASSUME FInv, UNCHANGED <<down, settings, prefCarrier, routeLock, carrierLock, at, plan, learn>>,
         HealthOK', DialOK'
  PROVE  FInv'
BY DEF FInv, FlagsOK, LocksOK, PlansOK, RacerHolds, HolderWorks, settings

LEMMA TrialKeeps == ASSUME FInv, NEW d \in Dialler, Trial(d) PROVE FInv'
<1>1. CASE HostWins(d) \/ HostFails(d)
  <2>1. DialOK'
    BY <1>1, TrialDial DEF HostWins, HostFails
  <2> QED
    BY <1>1, <2>1, TrialHealth, OthersStay DEF HostWins, HostFails
<1>2. CASE HostAborts(d) \/ HostRaises(d)
  <2>1. DialOK'
    BY <1>2, TrialDial DEF HostAborts, HostRaises
  <2>2. HealthOK'
    BY <1>2 DEF HostAborts, HostRaises, routes, FInv, HealthOK
  <2> QED
    BY <1>2, <2>1, <2>2, OthersStay DEF HostAborts, HostRaises, routes
<1> QED
  BY <1>1, <1>2 DEF Trial

LEMMA CoolDownKeeps == ASSUME FInv, NEW h \in Host, CoolDown(h) PROVE FInv'
<1>1. HealthOK'
  BY DEF CoolDown, Except, FInv, HealthOK
<1>2. DialOK'
  BY DEF CoolDown, FInv, DialOK
<1> QED
  BY <1>1, <1>2, OthersStay DEF CoolDown

LEMMA NextKeeps == FInv /\ [FNext]_fvars => FInv'
<1> SUFFICES ASSUME FInv, [FNext]_fvars PROVE FInv'
  OBVIOUS
<1>1. CASE UNCHANGED fvars \/ Restart \/ Halt
  <2>1. UNCHANGED <<routes, routeLock, carrierLock, at, plan, learn, dial>>
        /\ down' \in BOOLEAN /\ mode' \in CarrierModes /\ race' \in Races
    BY <1>1 DEF fvars, settings, Restart, Halt, FInv, FlagsOK
  <2> QED
    BY <2>1 DEF FInv, FlagsOK, HealthOK, LocksOK, PlansOK, DialOK, RacerHolds, HolderWorks, routes
<1>2. ASSUME NEW c \in Clients, AcceptClient(c) \/ Thread(c) \/ EndRelay(c)
      PROVE  FInv'
  BY <1>2, ReadHelloKeeps, TakeSlotKeeps, SortedKeeps, ClientKeeps, TakeCarrierLockKeeps,
     ConnectRouteKeeps, TakeRouteLockKeeps, RouteLockTimeoutKeeps, DialDoneKeeps, RaceEndsKeeps
     DEF Thread
<1>3. ASSUME NEW d \in Dialler, Trial(d) PROVE FInv'
  BY <1>3, TrialKeeps
<1>4. ASSUME NEW h \in Host, CoolDown(h) PROVE FInv'
  BY <1>4, CoolDownKeeps
<1> QED
  BY <1>1, <1>2, <1>3, <1>4 DEF FNext

LEMMA SeqWider ==
  ASSUME NEW A, NEW B, A \subseteq B, NEW s \in Seq(A) PROVE s \in Seq(B)
OBVIOUS

LEMMA Invariant == FSpec => []FInv
BY InitHolds, NextKeeps, PTL DEF FSpec

\* Every variable keeps to its type; in particular the thread of a client never
\* takes the head of an empty list of routes, and no dialler tries a host that
\* is none.
THEOREM TypeCorrect == FSpec => []FTypeOK
<1>1. FInv => FTypeOK
  <2> SUFFICES ASSUME FInv PROVE FTypeOK
    OBVIOUS
  <2> DEFINE Any == [carrier : Carrier, hosts : SUBSET Host]
  <2>1. plan \in [Clients -> Seq(Any)]
    <3>1. KnownRoute \subseteq Any
      BY DEF KnownRoute
    <3>2. plan \in [Clients -> Seq(KnownRoute)]
      BY DEF FInv, PlansOK
    <3> HIDE DEF Any
    <3>3. \A c \in Clients : plan[c] \in Seq(Any)
      BY <3>1, <3>2, SeqWider
    <3> QED
      BY <3>2, <3>3
  <2> QED
    BY <2>1 DEF FInv, FlagsOK, HealthOK, LocksOK, PlansOK, DialOK, DialState, Stages, Places,
       FTypeOK
<1> QED
  BY <1>1, Invariant, PTL

\* Whatever late helpers record, a carrier prefers no host that has failed for it
\* since it answered, and no host of its own that cools down (_host_failed).
THEOREM PreferredStaysHealthy == FSpec => []PreferredHostHealthy
<1>1. FInv => PreferredHostHealthy
  <2> SUFFICES ASSUME FInv, NEW k \in Carrier, prefHost[k] \in Cooling
               PROVE  prefHost[k] \in 3..4
    BY DEF PreferredHostHealthy, FInv, HealthOK
  <2>1. PICK j \in Carrier : <<prefHost[k], j>> \in failures
    BY DEF Cooling
  <2>2. prefHost[k] \in Host /\ j # k
    BY <2>1 DEF Cooling, FInv, HealthOK
  <2>3. CASE j = "mci"
    BY <2>1, <2>2, <2>3 DEF FInv, HealthOK
  <2>4. CASE k = "mci"
    <3>1. prefHost[k] # 0
      BY <2>2, HostAssumption
    <3> QED
      BY <2>4, <3>1 DEF FInv, HealthOK
  <2> QED
    BY <2>2, <2>3, <2>4 DEF Carrier
<1> QED
  BY <1>1, Invariant, PTL

\* However many clients dial at once, however their locks time out and whatever
\* mode a restart brings: one of them races carriers and one races hosts, and who
\* holds a discovery lock is racing or dialling with it (_connect_auto,
\* _connect_route).
THEOREM DiscoveryIsSingleFlight == FSpec => []DiscoveryAlone
<1>1. FInv => DiscoveryAlone
  BY NoOneAssumption DEF FInv, LocksOK, RacerHolds, HolderWorks, DiscoveryAlone
<1> QED
  BY <1>1, Invariant, PTL
-----------------------------------------------------------------------------
(* The pieces of a ClientHello                                               *)

\* The pieces p are the data from a to b, without a gap or an overlap.
Tiles(p, a, b) ==
  /\ Len(p) > 0 /\ p[1].from = a /\ p[Len(p)].to = b
  /\ \A i \in 1..(Len(p) - 1) : p[i].to = p[i + 1].from
NoneEmpty(p) == \A i \in 1..Len(p) : p[i].from < p[i].to
\* What PiecesKeepData asks of the pieces of one ClientHello.
Keeps(h, p) ==
  /\ Tiles(p, IF p[1].record THEN Header ELSE 0, h.len)
  /\ h.len > 0 /\ h.len # Header + 1 => NoneEmpty(p)

LEMMA WholeKeeps ==
  ASSUME NEW h, h.len \in Nat PROVE Keeps(h, <<Piece(0, h.len)>>)
BY DEF Keeps, Tiles, NoneEmpty, Piece

LEMMA CutKeeps ==
  ASSUME NEW h, h.len \in Nat, NEW cut \in 1..(h.len - 1) PROVE Keeps(h, CutAt(h.len, cut))
BY DEF Keeps, Tiles, NoneEmpty, Piece, CutAt

LEMMA RecordsKeep ==
  ASSUME NEW h, h.len \in Nat, h.len > Header, NEW cut \in (Header + 1)..h.len,
         h.len > Header + 1 => cut < h.len
  PROVE  Keeps(h, <<Record(Header, cut), Record(cut, h.len)>>)
BY DEF Keeps, Tiles, NoneEmpty, Record, Header

LEMMA Rounding ==
  ASSUME NEW n \in Nat \ {0}, NEW size \in Nat \ {0}
  PROVE  LET k == (n + size - 1) \div size
         IN  k \in Nat \ {0} /\ (k - 1) * size < n /\ n <= k * size
<1> DEFINE k == (n + size - 1) \div size
           r == (n + size - 1) % size
<1>1. k \in Int /\ r \in 0..(size - 1) /\ n + size - 1 = size * k + r
  OBVIOUS
<1> HIDE DEF k, r
<1>2. k > 0
  BY <1>1
<1>3. (k - 1) * size = size * k - size /\ k * size = size * k
  BY <1>1
<1> QED
  BY <1>1, <1>2, <1>3 DEF k

LEMMA ChunksKeep ==
  ASSUME NEW h, h.len \in Nat \ {0}, NEW size \in Nat \ {0} PROVE Keeps(h, Chunks(h.len, size))
<1> DEFINE n == h.len
           k == (n + size - 1) \div size
           p == Chunks(n, size)
<1>1. k \in Nat \ {0} /\ (k - 1) * size < n /\ n <= k * size
  BY Rounding
<1> HIDE DEF k
<1>2. p = [i \in 1..k |-> Piece((i - 1) * size, Smaller(n, i * size))]
  BY DEF Chunks, k
<1>3. Len(p) = k
  BY <1>1, <1>2
<1>4. \A i \in 1..k : p[i].from = (i - 1) * size /\ p[i].to = Smaller(n, i * size) /\ ~p[i].record
  BY <1>1, <1>2 DEF Piece
<1> HIDE DEF p
<1>5. ASSUME NEW i \in 1..(k - 1) PROVE i * size <= (k - 1) * size /\ i * size < n
  <2>1. k - 1 - i \in Nat /\ (k - 1) * size = i * size + (k - 1 - i) * size
    BY <1>1, <1>5
  <2>2. (k - 1 - i) * size \in Nat
    BY <2>1
  <2>3. i * size \in Nat /\ (k - 1) * size \in Nat
    BY <1>1, <1>5
  <2> QED
    BY <2>1, <2>2, <2>3, <1>1
<1>6. ASSUME NEW i \in 1..(k - 1) PROVE p[i].to = p[i + 1].from
  <2>1. i \in 1..k /\ i + 1 \in 1..k /\ i + 1 - 1 = i /\ i * size \in Nat
    BY <1>1
  <2> QED
    BY <2>1, <1>4, <1>5 DEF Smaller
<1>7. p[k].to = n
  BY <1>1, <1>4 DEF Smaller
<1>8. p[1].from = 0 /\ ~p[1].record
  BY <1>1, <1>4
<1>9. ASSUME NEW i \in 1..k PROVE p[i].from < p[i].to
  <2>1. CASE i = k
    BY <2>1, <1>1, <1>4, <1>7
  <2>2. CASE i # k
    <3>1. i \in 1..(k - 1) /\ i * size = (i - 1) * size + size /\ (i - 1) * size \in Nat
      BY <2>2, <1>1
    <3>2. i * size < n /\ i * size \in Nat
      BY <3>1, <1>1, <1>5
    <3>3. p[i].from = (i - 1) * size /\ p[i].to = i * size
      BY <3>2, <1>4 DEF Smaller
    <3> QED
      BY <3>1, <3>3
  <2> QED
    BY <2>1, <2>2
<1> QED
  BY <1>3, <1>6, <1>7, <1>8, <1>9, <1>1 DEF Keeps, Tiles, NoneEmpty, p

LEMMA HelloKinds ==
  ASSUME NEW h \in Hellos
  PROVE  /\ h.len \in Nat /\ h.tls \in BOOLEAN
         /\ h.sni # NoName => /\ h.tls /\ h.sni.start \in Nat /\ h.sni.start > Header
                              /\ h.sni.len \in Nat \ {0} /\ h.sni.start + h.sni.len <= h.len
BY HelloAssumption DEF Hellos, Header

LEMMA JoinTwo ==
  ASSUME NEW S, NEW a \in Seq(S), NEW b \in Seq(S)
  PROVE  /\ a \o b \in Seq(S) /\ Len(a \o b) = Len(a) + Len(b)
         /\ \A i \in 1..Len(a) : (a \o b)[i] = a[i]
         /\ \A i \in 1..Len(b) : (a \o b)[Len(a) + i] = b[i]
BY ConcatProperties, LenProperties

LEMMA Joins ==
  ASSUME NEW S, NEW a \in Seq(S), NEW b \in Seq(S), NEW c \in Seq(S)
  PROVE  LET p == a \o b \o c
         IN  /\ Len(p) = Len(a) + Len(b) + Len(c)
             /\ \A i \in 1..Len(a) : p[i] = a[i]
             /\ \A i \in 1..Len(b) : p[Len(a) + i] = b[i]
             /\ \A i \in 1..Len(c) : p[Len(a) + Len(b) + i] = c[i]
<1>1. /\ Len(a) \in Nat /\ Len(b) \in Nat
      /\ a \o b \in Seq(S) /\ Len(a \o b) = Len(a) + Len(b)
      /\ \A i \in 1..Len(a) : (a \o b)[i] = a[i]
      /\ \A i \in 1..Len(b) : (a \o b)[Len(a) + i] = b[i]
  BY JoinTwo, LenProperties
<1>2. \A q \in Seq(S) : /\ Len(q \o c) = Len(q) + Len(c)
                        /\ \A i \in 1..Len(q) : (q \o c)[i] = q[i]
                        /\ \A i \in 1..Len(c) : (q \o c)[Len(q) + i] = c[i]
  BY JoinTwo
<1>3. /\ Len(a \o b \o c) = Len(a \o b) + Len(c)
      /\ \A i \in 1..Len(a \o b) : (a \o b \o c)[i] = (a \o b)[i]
      /\ \A i \in 1..Len(c) : (a \o b \o c)[Len(a \o b) + i] = c[i]
  BY <1>1, <1>2
<1>4. /\ \A i \in 1..Len(a) : i \in 1..Len(a \o b)
      /\ \A i \in 1..Len(b) : Len(a) + i \in 1..Len(a \o b)
  BY <1>1
<1> QED
  BY <1>1, <1>3, <1>4, Zenon

LEMMA CharsKeep ==
  ASSUME NEW h \in Hellos, h.sni # NoName
  PROVE  /\ Keeps(h, SniChars(h))
         /\ h.sni.len >= 2 => \A i \in 1..Len(SniChars(h)) :
              ~(SniChars(h)[i].from <= h.sni.start /\ h.sni.start + h.sni.len <= SniChars(h)[i].to)
<1> DEFINE s == h.sni.start
           n == h.sni.len
           first == <<Piece(0, s)>>
           chars == [i \in 1..n |-> Piece(s + i - 1, s + i)]
           rest == IF s + n < h.len THEN <<Piece(s + n, h.len)>> ELSE <<>>
           p == SniChars(h)
           m == Len(p)
           Pieces == {Piece(a, b) : a \in Nat, b \in Nat}
<1>1. /\ h.len \in Nat /\ s \in Nat /\ s > 0 /\ n \in Nat \ {0} /\ s + n <= h.len
  BY HelloKinds DEF Header
<1>2. p = first \o chars \o rest
  BY DEF SniChars
<1> HIDE DEF s, n, p
<1>3. first \in Seq(Pieces) /\ chars \in Seq(Pieces) /\ rest \in Seq(Pieces)
  <2>1. Piece(0, s) \in Pieces /\ Piece(s + n, h.len) \in Pieces
    <3>1. \A a, b \in Nat : Piece(a, b) \in Pieces
      OBVIOUS
    <3>2. 0 \in Nat /\ s + n \in Nat
      BY <1>1
    <3> HIDE DEF Pieces
    <3> QED
      BY <3>1, <3>2, <1>1
  <2>2. \A i \in 1..n : Piece(s + i - 1, s + i) \in Pieces
    <3> TAKE i \in 1..n
    <3>1. s + i - 1 \in Nat /\ s + i \in Nat
      BY <1>1
    <3> QED
      BY <3>1
  <2> HIDE DEF Pieces
  <2>3. chars \in [1..n -> Pieces]
    BY <2>2
  <2>4. chars \in Seq(Pieces)
    BY <2>3, <1>1
  <2> QED
    BY <2>1, <2>4
<1>4. /\ Len(first) = 1 /\ Len(chars) = n /\ Len(rest) = (IF s + n < h.len THEN 1 ELSE 0)
      /\ first[1] = Piece(0, s) /\ \A i \in 1..n : chars[i] = Piece(s + i - 1, s + i)
      /\ s + n < h.len => rest[1] = Piece(s + n, h.len)
  BY <1>1
<1> HIDE DEF first, chars, rest, Pieces
<1>5. /\ m = 1 + n + (IF s + n < h.len THEN 1 ELSE 0)
      /\ p[1] = Piece(0, s)
      /\ \A i \in 1..n : p[1 + i] = Piece(s + i - 1, s + i)
      /\ s + n < h.len => p[1 + n + 1] = Piece(s + n, h.len)
  <2>1. /\ m = Len(first) + Len(chars) + Len(rest)
        /\ \A i \in 1..Len(first) : p[i] = first[i]
        /\ \A i \in 1..Len(chars) : p[Len(first) + i] = chars[i]
        /\ \A i \in 1..Len(rest) : p[Len(first) + Len(chars) + i] = rest[i]
    BY <1>2, <1>3, Joins
  <2> HIDE DEF m
  <2>2. 1 \in 1..Len(first) /\ (s + n < h.len => 1 \in 1..Len(rest))
    BY <1>4
  <2>3. p[1] = first[1] /\ (s + n < h.len => p[1 + n + 1] = rest[1])
    BY <2>1, <2>2, <1>4
  <2> QED
    BY <2>1, <2>3, <1>4
<1>6. m \in Nat /\ n + 2 = 1 + n + 1
  BY <1>1, <1>5
<1> HIDE DEF m
<1>7. ASSUME NEW i \in 1..m
      PROVE  /\ ~p[i].record
             /\ \/ i = 1 /\ p[i].from = 0 /\ p[i].to = s
                \/ i \in 2..(n + 1) /\ p[i].from = s + i - 2 /\ p[i].to = s + i - 1
                \/ i = n + 2 /\ s + n < h.len /\ p[i].from = s + n /\ p[i].to = h.len
  <2> DEFINE Is(a, b) == ~p[i].record /\ p[i].from = a /\ p[i].to = b
  <2>0. \A a, b : p[i] = Piece(a, b) => Is(a, b)
    BY DEF Piece
  <2>1. CASE i = 1
    BY <2>0, <2>1, <1>5
  <2>2. CASE i \in 2..(n + 1)
    <3>1. i - 1 \in 1..n /\ 1 + (i - 1) = i /\ s + (i - 1) - 1 = s + i - 2 /\ s + (i - 1) = s + i - 1
      BY <2>2, <1>1
    <3>2. p[1 + (i - 1)] = Piece(s + (i - 1) - 1, s + (i - 1))
      BY <3>1, <1>5
    <3>3. Is(s + i - 2, s + i - 1)
      BY <3>1, <3>2, <2>0
    <3> QED
      BY <3>3, <2>2
  <2>3. CASE i = n + 2
    BY <2>0, <2>3, <1>1, <1>5, <1>6
  <2> QED
    BY <2>1, <2>2, <2>3, <1>1, <1>5
<1>8. \A i \in 1..m : p[i].from \in Nat /\ p[i].to \in Nat /\ p[i].from < p[i].to /\ ~p[i].record
  BY <1>7, <1>1
<1>9. ASSUME NEW i \in 1..(m - 1) PROVE p[i].to = p[i + 1].from
  <2>1. i \in 1..m /\ i + 1 \in 1..m
    BY <1>6
  <2> QED
    BY <2>1, <1>7, <1>1, <1>5
<1>10. p[m].to = h.len /\ p[1].from = 0
  BY <1>7, <1>1, <1>5
<1>11. m > 0 /\ 1 \in 1..m
  BY <1>1, <1>5
<1>12. Keeps(h, p)
  BY <1>8, <1>9, <1>10, <1>11 DEF Keeps, Tiles, NoneEmpty, m
<1>13. ASSUME n >= 2, NEW i \in 1..m PROVE ~(p[i].from <= s /\ s + n <= p[i].to)
  BY <1>13, <1>7, <1>1
<1> QED
  BY <1>12, <1>13 DEF m, p, s, n

LEMMA Halves == \A n \in Nat : n \div 2 \in Nat /\ (n >= 2 => n \div 2 >= 1 /\ n \div 2 < n)
OBVIOUS

LEMMA HalfInside ==
  \A n \in Nat \ {0} : /\ Larger(1, n \div 2) \in 1..n
                       /\ n > 1 => Larger(1, n \div 2) < n
BY Halves DEF Larger

LEMMA SniCutInside ==
  ASSUME NEW h \in Hellos, h.sni # NoName, NEW how
  PROVE  /\ h.len > 1 /\ SniCut(h, how) \in 1..(h.len - 1)
         /\ how = "sni_split" /\ h.sni.len >= 2 =>
              h.sni.start < SniCut(h, how) /\ SniCut(h, how) < h.sni.start + h.sni.len
<1> DEFINE s == h.sni.start
           n == h.sni.len
           half == n \div 2
<1>1. /\ h.len \in Nat /\ s \in Nat /\ s > Header /\ n \in Nat \ {0} /\ s + n <= h.len
  BY HelloKinds
<1>2. half \in Nat /\ (n >= 2 => half >= 1 /\ half < n)
  BY <1>1, Halves
<1>3. SniCut(h, how) = Larger(1, Smaller(h.len - 1, s + (IF how = "sni_split" THEN Larger(1, half) ELSE 0)))
  BY DEF SniCut
<1> HIDE DEF s, n, half
<1> QED
  BY <1>1, <1>2, <1>3 DEF Larger, Smaller, Header, s, n

LEMMA RecordCutInside ==
  ASSUME NEW h \in Hellos, h.len > Header, NEW how
  PROVE  /\ Header + RecordCut(h, how) \in (Header + 1)..h.len
         /\ h.len > Header + 1 => Header + RecordCut(h, how) < h.len
         /\ how = "tls_sni_records" /\ h.sni # NoName => Header + RecordCut(h, how) <= h.sni.start
<1> DEFINE payload == h.len - Header
           half == payload \div 2
<1>1. h.len \in Nat /\ payload \in Nat /\ payload > 0 /\ h.len = Header + payload
  BY HelloKinds DEF Header
<1>3. h.sni # NoName => /\ h.sni.start \in Nat /\ h.sni.start > Header
                        /\ h.sni.len \in Nat \ {0} /\ h.sni.start + h.sni.len <= h.len
  BY HelloKinds
<1>4. RecordCut(h, how) = IF how = "tls_sni_records" /\ h.sni # NoName
                            THEN Larger(1, Smaller(payload - 1, h.sni.start - Header))
                            ELSE Larger(1, half)
  BY DEF RecordCut
<1> HIDE DEF payload, half
<1>5. CASE how = "tls_sni_records" /\ h.sni # NoName
  <2>1. h.sni.start - Header \in Nat \ {0} /\ h.sni.start - Header < payload
    BY <1>1, <1>3, <1>5 DEF Header
  <2>2. RecordCut(h, how) \in 1..payload /\ RecordCut(h, how) <= h.sni.start - Header
    BY <2>1, <1>1, <1>4, <1>5 DEF Larger, Smaller
  <2>3. RecordCut(h, how) < payload
    BY <2>1, <2>2, <1>1, <1>3, <1>5
  <2> QED
    BY <2>2, <2>3, <1>1, <1>3, <1>5 DEF Header
<1>6. CASE ~(how = "tls_sni_records" /\ h.sni # NoName)
  <2>1. RecordCut(h, how) \in 1..payload /\ (payload > 1 => RecordCut(h, how) < payload)
    <3>1. RecordCut(h, how) = Larger(1, half)
      BY <1>4, <1>6
    <3> QED
      BY <3>1, <1>1, HalfInside DEF half
  <2> QED
    BY <2>1, <1>1, <1>6 DEF Header
<1> QED
  BY <1>5, <1>6

LEMMA FragmentsKeep ==
  ASSUME NEW h \in Hellos, NEW s \in Strategy, NEW chunk \in Nat
  PROVE  Keeps(h, Fragments(h, s, chunk))
<1> DEFINE p == Fragments(h, s, chunk)
<1>1. h.len \in Nat
  BY HelloKinds
<1>2. CASE h.len < 2
  <2>1. p = <<Piece(0, h.len)>>
    BY <1>1, <1>2 DEF Fragments, Header
  <2> QED
    BY <2>1, <1>1, WholeKeeps
<1>3. CASE h.len >= 2 /\ s = "half"
  <2>1. Larger(1, h.len \div 2) \in 1..(h.len - 1)
    BY <1>1, <1>3, Halves DEF Larger
  <2>2. p = CutAt(h.len, Larger(1, h.len \div 2))
    BY <1>1, <1>3 DEF Fragments
  <2> QED
    BY <2>1, <2>2, <1>1, CutKeeps
<1>4. CASE h.len >= 2 /\ s \in {"multi", "full5"}
  <2>1. PICK size \in Nat \ {0} : p = Chunks(h.len, size)
    <3>1. p = Chunks(h.len, IF s = "full5" THEN 5 ELSE Larger(1, chunk))
      BY <1>1, <1>4 DEF Fragments
    <3>2. (IF s = "full5" THEN 5 ELSE Larger(1, chunk)) \in Nat \ {0}
      BY DEF Larger
    <3> QED
      BY <3>1, <3>2
  <2> QED
    BY <2>1, <1>1, <1>4, ChunksKeep
<1>5. CASE h.len >= 2 /\ s \in {"sni_split", "sni_boundary"} /\ h.sni # NoName
  <2>1. p = CutAt(h.len, SniCut(h, s))
    BY <1>1, <1>5 DEF Fragments
  <2> QED
    BY <2>1, <1>1, <1>5, SniCutInside, CutKeeps
<1>6. CASE h.len >= 2 /\ s = "sni_chars" /\ h.sni # NoName
  <2>1. p = SniChars(h)
    BY <1>1, <1>6 DEF Fragments
  <2> QED
    BY <2>1, <1>6, CharsKeep
<1>7. CASE h.len > Header /\ s \in {"tls_record_frag", "tls_sni_records"} /\ h.tls
  <2> DEFINE cut == Header + RecordCut(h, s)
  <2>1. p = <<Record(Header, cut), Record(cut, h.len)>>
    BY <1>1, <1>7 DEF Fragments, Header
  <2>2. cut \in (Header + 1)..h.len /\ (h.len > Header + 1 => cut < h.len)
    BY <1>7, RecordCutInside
  <2> HIDE DEF cut
  <2> QED
    BY <2>1, <2>2, <1>1, <1>7, RecordsKeep
<1>8. CASE /\ ~(h.len < 2) /\ s # "half" /\ s \notin {"multi", "full5"}
           /\ ~(s \in {"sni_split", "sni_boundary"} /\ h.sni # NoName)
           /\ ~(s = "sni_chars" /\ h.sni # NoName)
           /\ ~(h.len > Header /\ s \in {"tls_record_frag", "tls_sni_records"} /\ h.tls)
  <2>1. p = <<Piece(0, h.len)>>
    BY <1>1, <1>8 DEF Fragments
  <2> QED
    BY <2>1, <1>1, WholeKeeps
<1> QED
  BY <1>1, <1>2, <1>3, <1>4, <1>5, <1>6, <1>7, <1>8

LEMMA PiecesAreKept == PiecesKeepData
<1> SUFFICES ASSUME NEW h \in Hellos, NEW s \in Strategy, NEW chunk \in 0..3
             PROVE  LET p == Fragments(h, s, chunk)
                        n == Len(p)
                    IN /\ n > 0 /\ p[1].from = (IF p[1].record THEN Header ELSE 0) /\ p[n].to = h.len
                       /\ \A i \in 1..(n - 1) : p[i].to = p[i + 1].from
                       /\ (h.len > 0 /\ h.len # Header + 1) => \A i \in 1..n : p[i].from < p[i].to
  BY DEF PiecesKeepData
<1> DEFINE p == Fragments(h, s, chunk)
<1>1. Keeps(h, p)
  BY FragmentsKeep
<1> HIDE DEF p
<1>2. /\ Len(p) > 0 /\ p[1].from = (IF p[1].record THEN Header ELSE 0) /\ p[Len(p)].to = h.len
      /\ \A i \in 1..(Len(p) - 1) : p[i].to = p[i + 1].from
      /\ (h.len > 0 /\ h.len # Header + 1) => \A i \in 1..Len(p) : p[i].from < p[i].to
  BY <1>1, Zenon DEF Keeps, Tiles, NoneEmpty
<1> QED
  BY <1>2 DEF p

LEMMA NameIsDivided == NameDivided
<1> SUFFICES ASSUME NEW h \in Hellos, h.sni.len >= 2
             PROVE  /\ \A s \in {"sni_split", "sni_chars"}, chunk \in 0..1 :
                         LET p == Fragments(h, s, chunk)
                         IN \A i \in 1..Len(p) :
                              ~(p[i].from <= h.sni.start /\ h.sni.start + h.sni.len <= p[i].to)
                    /\ Fragments(h, "tls_sni_records", 1)[1].to <= h.sni.start
  BY DEF NameDivided
<1>1. h.sni # NoName
  BY DEF NoName
<1>2. /\ h.len \in Nat /\ h.tls /\ h.sni.start \in Nat /\ h.sni.start > Header
      /\ h.sni.len \in Nat \ {0} /\ h.sni.start + h.sni.len <= h.len
  BY <1>1, HelloKinds
<1>3. h.len >= 2 /\ h.len > Header
  BY <1>2 DEF Header
<1>4. ASSUME NEW chunk, NEW i \in 1..Len(Fragments(h, "sni_split", chunk))
      PROVE  LET p == Fragments(h, "sni_split", chunk)
             IN  ~(p[i].from <= h.sni.start /\ h.sni.start + h.sni.len <= p[i].to)
  <2> DEFINE cut == SniCut(h, "sni_split")
  <2>1. Fragments(h, "sni_split", chunk) = CutAt(h.len, cut)
    BY <1>1, <1>2, <1>3 DEF Fragments
  <2>2. cut \in 1..(h.len - 1) /\ h.sni.start < cut /\ cut < h.sni.start + h.sni.len
    BY <1>1, SniCutInside
  <2> HIDE DEF cut
  <2> QED
    BY <2>1, <2>2, <1>2, <1>4 DEF CutAt, Piece
<1>5. ASSUME NEW chunk, NEW i \in 1..Len(Fragments(h, "sni_chars", chunk))
      PROVE  LET p == Fragments(h, "sni_chars", chunk)
             IN  ~(p[i].from <= h.sni.start /\ h.sni.start + h.sni.len <= p[i].to)
  <2>1. Fragments(h, "sni_chars", chunk) = SniChars(h)
    BY <1>1, <1>2, <1>3 DEF Fragments
  <2> QED
    BY <2>1, <1>1, <1>5, CharsKeep
<1>6. Fragments(h, "tls_sni_records", 1)[1].to <= h.sni.start
  <2> DEFINE cut == Header + RecordCut(h, "tls_sni_records")
  <2>1. Fragments(h, "tls_sni_records", 1) = <<Record(Header, cut), Record(cut, h.len)>>
    BY <1>2, <1>3 DEF Fragments
  <2>2. cut <= h.sni.start
    BY <1>1, <1>3, RecordCutInside
  <2> HIDE DEF cut
  <2> QED
    BY <2>1, <2>2 DEF Record
<1> QED
  BY <1>4, <1>5, <1>6

(***************************************************************************)
(* For a ClientHello of any length, a name at any place in it, every        *)
(* strategy and chunk size: the pieces fragments() puts on the wire are the *)
(* data, whole and in order, and sni_split, sni_chars and tls_sni_records   *)
(* never show the name in one piece.                                       *)
(***************************************************************************)
THEOREM PiecesAlwaysTheData == SSpec => []PiecesAreTheData
<1>1. PiecesAreTheData
  BY PiecesAreKept, NameIsDivided DEF PiecesAreTheData
<1> QED
  BY <1>1, PTL

-----------------------------------------------------------------------------
(* The sequence number of the decoy                                          *)

LEMMA Wraps ==
  ASSUME NEW a \in Int, NEW m \in Nat \ {0}
  PROVE  /\ a \in 0..(m - 1) => a % m = a
         /\ a \in (0 - m)..(0 - 1) => a % m = a + m
         /\ a = m => a % m = 0
<1> DEFINE q == a \div m
<1>1. a = m * q + (a % m) /\ q \in Int
  OBVIOUS
<1>2. a % m \in 0..(m - 1)
  OBVIOUS
<1> HIDE DEF q
<1>3. a \in 0..(m - 1) => q = 0
  BY <1>1, <1>2
<1>4. a \in (0 - m)..(0 - 1) => q = 0 - 1
  BY <1>1, <1>2
<1>5. a = m => q = 1
  BY <1>1, <1>2
<1> QED
  BY <1>1, <1>2, <1>3, <1>4, <1>5

LEMMA DecoyOffset ==
  ASSUME NEW syn \in 0..(Modulus - 1), NEW len \in 1..(Modulus \div 2), NEW i \in 0..len
  PROVE  (DecoySeq(syn, len) + i - (syn + 1)) % Modulus = IF i = len THEN 0 ELSE i - len + Modulus
<1> DEFINE d == syn + 1 - len
           half == Modulus \div 2
<1>1. /\ half \in Nat /\ 2 * half <= Modulus /\ Modulus \in Nat \ {0}
      /\ len \in 1..half /\ d \in Int
  BY SequenceAssumption
<1>2. DecoySeq(syn, len) = IF d >= 0 THEN d ELSE d + Modulus
  <2>1. d \in (0 - Modulus)..(Modulus - 1)
    BY <1>1
  <2> QED
    BY <2>1, <1>1, Wraps DEF DecoySeq
<1> DEFINE x == DecoySeq(syn, len) + i - (syn + 1)
<1>3. x = i - len \/ x = i - len + Modulus
  BY <1>1, <1>2
<1>4. x \in Int /\ i - len \in (0 - half)..0
  BY <1>1, <1>3
<1> HIDE DEF d, half
<1> HIDE DEF x
<1>5. x % Modulus = IF i = len THEN 0 ELSE i - len + Modulus
  <2>1. i \in Int /\ len \in Int
    BY <1>1
  <2>2. CASE i = len
    <3>1. x \in {0, Modulus}
      BY <2>1, <2>2, <1>1, <1>3
    <3> QED
      BY <3>1, <2>2, <1>1, <1>4, Wraps
  <2>3. CASE i # len
    <3>1. i - len \in (0 - Modulus)..(0 - 1) /\ i - len + Modulus \in 0..(Modulus - 1)
      BY <2>1, <2>3, <1>1, <1>4
    <3> QED
      BY <3>1, <2>3, <1>1, <1>3, <1>4, Wraps
  <2> QED
    BY <2>2, <2>3
<1> QED
  BY <1>5 DEF x

LEMMA DecoyLiesOutside == DecoyOutside
<1> SUFFICES ASSUME NEW syn \in 0..(Modulus - 1), NEW len \in 1..(Modulus \div 2)
             PROVE  LET offset(i) == (DecoySeq(syn, len) + i - (syn + 1)) % Modulus
                    IN /\ \A i \in 0..(len - 1) : offset(i) >= Modulus \div 2
                       /\ offset(len) = 0
  BY DEF DecoyOutside
<1> DEFINE offset(i) == (DecoySeq(syn, len) + i - (syn + 1)) % Modulus
<1>1. /\ Modulus \div 2 \in Nat /\ 2 * (Modulus \div 2) <= Modulus /\ Modulus \in Nat \ {0}
      /\ len \in Nat \ {0} /\ len <= Modulus \div 2
  BY SequenceAssumption
<1>2. \A i \in 0..len : offset(i) = IF i = len THEN 0 ELSE i - len + Modulus
  BY DecoyOffset
<1> HIDE DEF offset
<1>3. offset(len) = 0
  BY <1>1, <1>2
<1>4. ASSUME NEW i \in 0..(len - 1) PROVE offset(i) >= Modulus \div 2
  <2>1. i \in 0..len /\ i # len /\ i \in Nat
    BY <1>1
  <2> QED
    BY <2>1, <1>1, <1>2
<1> QED
  BY <1>3, <1>4 DEF offset

(***************************************************************************)
(* For sequence numbers of any width, wherever they wrap, and a decoy of up *)
(* to half their range: the decoy of _fake_send ends right before the       *)
(* window of the edge.                                                      *)
(***************************************************************************)
THEOREM DecoyAlwaysOutside == SSpec => []DecoyOutOfWindow
<1>1. DecoyOutOfWindow
  BY DecoyLiesOutside DEF DecoyOutOfWindow
<1> QED
  BY <1>1, PTL
=============================================================================
