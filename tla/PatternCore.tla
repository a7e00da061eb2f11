------------------------------ MODULE PatternCore ------------------------------
(***************************************************************************)
(* The Pattern core: a TLS forwarder on a loopback port, run by one asyncio *)
(* loop, and a WinDivert thread that sniffs the handshake of every outgoing *)
(* connection and answers it with one out-of-window ClientHello for a       *)
(* decoy name.  A client is handed over only when the edge acknowledged the *)
(* decoy without accepting it (strategy "wrong_seq"); "tls_sni_records"     *)
(* uses no injector at all.                                                 *)
(*                                                                         *)
(* Three kinds of thread share the registry of attempts: the controller     *)
(* (start, stop), the loop (accept, _handle) and the injector with its pool *)
(* of senders.  Edges are their positions in _edges, 0 is no edge.  A       *)
(* client stands for one accepted connection of one session of the loop.    *)
(***************************************************************************)
EXTENDS Integers, FiniteSets, Sequences

CONSTANTS Client,       \* accepted connections of one session
          NumEdges,     \* len(_edges)
          Strategies,   \* the values of _strategy_override in use
          MaxSessions,  \* Quality.max_sessions
          MaxStarts,    \* bound on calls of start()
          WireBound,    \* bound on sniffed packets waiting for one attempt
          InjectorFaults, \* may the WinDivert thread fail?
          Nobody        \* no holder of _edge_lock

ASSUME ClientAssumption == Nobody \notin Client
ASSUME EdgesAssumption == NumEdges \in Nat \ {0}
ASSUME StrategyAssumption == Strategies \subseteq {"wrong_seq", "tls_sni_records"}

VARIABLES
  ctl,        \* where the controller is inside start() or stop()
  starting,   \* the stop() it runs is the first call of start()
  starts,     \* calls of start() so far
  stopped,    \* _stop
  listening,  \* _server_sock is set
  loop,       \* the thread _server_runner is alive
  injector,   \* "off", "on", or "dead": the thread ended on an error
  strategy,   \* _strategy_override
  preferred,  \* _preferred_edge, 0 is None
  failed,     \* the edges _failed_until still keeps out
  edgeLock,   \* the client that holds _edge_lock
  registered, \* the clients with an entry in _connections
  pc,         \* where the handler of a client is
  todo,       \* edges its _connect_edge_unlocked has still to try
  edge,       \* the edge it tries or is handed over to
  net,        \* its outgoing socket: none, syn, open, refused
  wire,       \* zero-payload packets WinDivert has still to deliver
  flow        \* its InjectiveConnection

control == <<ctl, starting, starts, stopped, listening, loop, injector>>
routing == <<strategy, preferred, failed, edgeLock>>
attempt == <<registered, pc, todo, edge, net, wire, flow>>
vars == <<control, routing, attempt>>

Edge == 1..NumEdges
Fresh == [syn |-> FALSE, synack |-> FALSE, scheduled |-> FALSE, jobs |-> 0,
          sent |-> 0, monitor |-> TRUE, result |-> ""]
Packets == {"syn", "synack", "ack", "iack", "odd"}
Dialling == {"choose", "lock", "try", "connect", "ack"}

Init ==
  /\ ctl = "idle" /\ starting = FALSE /\ starts = 0
  /\ stopped = FALSE /\ listening = FALSE /\ loop = FALSE /\ injector = "off"
  /\ strategy \in Strategies /\ preferred = 0 /\ failed = {}
  /\ edgeLock = Nobody /\ registered = {}
  /\ pc = [c \in Client |-> "idle"] /\ todo = [c \in Client |-> {}]
  /\ edge = [c \in Client |-> 0] /\ net = [c \in Client |-> "none"]
  /\ wire = [c \in Client |-> <<>>] /\ flow = [c \in Client |-> Fresh]

-----------------------------------------------------------------------------
(* The controller: start() begins with stop(), and stop() ends with a join.  *)

StopListening ==
  /\ stopped' = TRUE /\ listening' = FALSE /\ ctl' = "clear"

Call(start) ==
  /\ ctl = "idle"
  /\ start => starts < MaxStarts
  /\ starting' = start
  /\ starts' = IF start THEN starts + 1 ELSE starts
  /\ StopListening
  /\ UNCHANGED <<loop, injector, routing, attempt>>

\* Every attempt in the registry is told "stopped", and its two sockets close.
ClearRegistry ==
  /\ ctl = "clear" /\ ctl' = "injector"
  /\ registered' = {}
  /\ flow' = [c \in Client |-> IF c \in registered
                THEN [flow[c] EXCEPT !.monitor = FALSE, !.result = "stopped"]
                ELSE flow[c]]
  /\ net' = [c \in Client |-> IF c \in registered THEN "refused" ELSE net[c]]
  /\ UNCHANGED <<starting, starts, stopped, listening, loop, injector, routing,
                 pc, todo, edge, wire>>

StopInjector ==
  /\ ctl = "injector" /\ ctl' = "join"
  /\ injector' = "off"
  /\ UNCHANGED <<starting, starts, stopped, listening, loop, routing, attempt>>

\* The join is assumed to end within its two seconds.
Join ==
  /\ ctl = "join" /\ ~loop
  /\ ctl' = IF starting THEN "init" ELSE "idle"
  /\ UNCHANGED <<starting, starts, stopped, listening, loop, injector, routing,
                 attempt>>

Abandon ==   \* except Exception: self.stop(); raise
  /\ StopListening /\ starting' = FALSE

StartInjector ==
  /\ ctl = "init"
  /\ strategy' \in Strategies
  /\ preferred' = 0 /\ failed' = {}
  /\ \/ /\ injector' = "on" /\ stopped' = FALSE /\ ctl' = "server"
        /\ UNCHANGED <<starting, listening>>
     \/ /\ InjectorFaults /\ injector' = "dead"
        /\ Abandon
  /\ UNCHANGED <<starts, loop, edgeLock, attempt>>

StartServer ==
  /\ ctl = "server"
  /\ pc' = [c \in Client |-> "idle"]
  /\ \/ /\ loop' = TRUE /\ listening' = TRUE /\ ctl' = "idle"
        /\ UNCHANGED <<stopped, starting>>
     \/ Abandon /\ UNCHANGED loop          \* the port is taken
  /\ UNCHANGED <<starts, injector, routing, registered, todo, edge, net, wire, flow>>

\* The accept loop has ended: asyncio.run cancels every handler, whose finally
\* block closes the sockets.  A cancelled attempt skips _unregister: its entry
\* stays in the dict until the next stop(), under a key no later attempt has,
\* and is not kept here.
LoopEnds ==
  /\ loop /\ (stopped \/ ~listening)
  /\ loop' = FALSE /\ listening' = FALSE
  /\ edgeLock' = Nobody /\ registered' = {}
  /\ pc' = [c \in Client |-> "closed"]
  /\ net' = [c \in Client |-> "none"] /\ wire' = [c \in Client |-> <<>>]
  /\ todo' = [c \in Client |-> {}] /\ edge' = [c \in Client |-> 0]
  /\ flow' = [c \in Client |-> Fresh]
  /\ UNCHANGED <<ctl, starting, starts, stopped, injector, strategy, preferred, failed>>

InjectorDies ==
  /\ InjectorFaults /\ injector = "on" /\ injector' = "dead"
  /\ UNCHANGED <<ctl, starting, starts, stopped, listening, loop, routing, attempt>>

-----------------------------------------------------------------------------
(* The handler of a client, a task of the loop.                              *)

Goto(c, from, to) == loop /\ pc[c] = from /\ pc' = [pc EXCEPT ![c] = to]

Accept(c) ==
  /\ ~stopped /\ listening /\ Goto(c, "idle", "queued")
  /\ UNCHANGED <<control, routing, registered, todo, edge, net, wire, flow>>

EnterSession(c) ==
  /\ Cardinality({d \in Client : pc[d] \in Dialling}) < MaxSessions
  /\ Goto(c, "queued", "choose")
  /\ UNCHANGED <<control, routing, registered, todo, edge, net, wire, flow>>

\* One pass of the loop in _connect_edge: the preferred edge without the lock...
TryPreferred(c) ==
  /\ \/ preferred # 0 /\ Goto(c, "choose", "try") /\ todo' = [todo EXCEPT ![c] = {preferred}]
     \/ preferred = 0 /\ Goto(c, "choose", "lock") /\ UNCHANGED todo
  /\ UNCHANGED <<control, routing, registered, edge, net, wire, flow>>

\* ... else every healthy edge while holding it, unless one was found meanwhile.
TakeEdgeLock(c) ==
  /\ edgeLock = Nobody
  /\ \/ /\ preferred # 0 /\ Goto(c, "lock", "choose")
        /\ UNCHANGED <<edgeLock, todo>>
     \/ /\ preferred = 0 /\ Goto(c, "lock", "try")
        /\ edgeLock' = c /\ todo' = [todo EXCEPT ![c] = Edge \ failed]
  /\ UNCHANGED <<control, strategy, preferred, failed, registered, edge, net, wire, flow>>

Unlock(c) == edgeLock' = IF edgeLock = c THEN Nobody ELSE edgeLock

NoEdgeLeft(c) ==
  /\ todo[c] = {}
  /\ Goto(c, "try", IF edgeLock = c THEN "closed" ELSE "lock")
  /\ Unlock(c)
  /\ UNCHANGED <<control, strategy, preferred, failed, registered, todo, edge, net, wire, flow>>

\* A new socket, a new source port, a new registry entry: packets and senders
\* of the client's earlier attempts no longer find one.
Dial(c) ==
  \E e \in todo[c] :
    /\ \A f \in todo[c] : e <= f
    /\ Goto(c, "try", "connect")
    /\ todo' = [todo EXCEPT ![c] = @ \ {e}] /\ edge' = [edge EXCEPT ![c] = e]
    /\ flow' = [flow EXCEPT ![c] = Fresh] /\ net' = [net EXCEPT ![c] = "syn"]
    /\ IF strategy = "wrong_seq"
         THEN registered' = registered \cup {c} /\ wire' = [wire EXCEPT ![c] = <<"syn">>]
         ELSE UNCHANGED <<registered, wire>>
    /\ UNCHANGED <<control, routing>>

\* With monitor off and the entry gone, a pending sender returns and no lookup
\* finds the flow: of the flow only whether its decoy left is kept.
Forgotten(f) == [Fresh EXCEPT !.sent = f.sent, !.monitor = FALSE]

Unregister(c) ==
  /\ registered' = registered \ {c}
  /\ flow' = [flow EXCEPT ![c] = Forgotten(@)]
  /\ wire' = [wire EXCEPT ![c] = <<>>]

Connected(c) ==
  /\ strategy = "wrong_seq" /\ net[c] = "open" /\ Goto(c, "connect", "ack")
  /\ UNCHANGED <<control, routing, registered, todo, edge, net, wire, flow>>

UseEdge(c) ==
  /\ preferred' = edge[c] /\ failed' = failed \ {edge[c]}
  /\ Unlock(c) /\ Unregister(c)
  /\ todo' = [todo EXCEPT ![c] = {}]
  /\ UNCHANGED <<control, strategy, edge, net>>

HandOver(c) ==
  /\ flow[c].result = "ok" /\ Goto(c, "ack", "relay") /\ UseEdge(c)

HandOverUnspoofed(c) ==    \* tls_sni_records: the first record is still to be split
  /\ strategy = "tls_sni_records" /\ net[c] = "open"
  /\ Goto(c, "connect", "first") /\ UseEdge(c)

SendFirst(c) ==
  /\ \E to \in {"relay", "closed"} : Goto(c, "first", to)
  /\ UNCHANGED <<control, routing, registered, todo, edge, net, wire, flow>>

\* The mutated form: the failing edge stays the preferred one.
AttemptFailsKeepingPreferred(c) ==
  /\ Goto(c, "connect", "try") \/ Goto(c, "ack", "try")
  /\ failed' = failed \cup {edge[c]}
  /\ Unregister(c)
  /\ net' = [net EXCEPT ![c] = "none"] /\ edge' = [edge EXCEPT ![c] = 0]
  /\ UNCHANGED <<control, strategy, preferred, edgeLock, todo>>

\* The mutated form: the registry keeps the failed attempt.
AttemptFailsRegistered(c) ==
  /\ Goto(c, "connect", "try") \/ Goto(c, "ack", "try")
  /\ failed' = failed \cup {edge[c]}
  /\ preferred' = IF strategy = "wrong_seq" /\ preferred = edge[c] THEN 0 ELSE preferred
  /\ net' = [net EXCEPT ![c] = "none"] /\ edge' = [edge EXCEPT ![c] = 0]
  /\ UNCHANGED <<control, strategy, edgeLock, todo, registered, flow, wire>>

\* The mutated form: the wait for the acknowledgement has no timeout.
AttemptFailsUntimed(c) ==
  /\ Goto(c, "connect", "try") \/ (flow[c].result # "" /\ Goto(c, "ack", "try"))
  /\ failed' = failed \cup {edge[c]}
  /\ preferred' = IF strategy = "wrong_seq" /\ preferred = edge[c] THEN 0 ELSE preferred
  /\ Unregister(c)
  /\ net' = [net EXCEPT ![c] = "none"] /\ edge' = [edge EXCEPT ![c] = 0]
  /\ UNCHANGED <<control, strategy, edgeLock, todo>>

\* Refused, timed out or answered with anything but the acknowledgement.  A
\* timeout may also win against an acknowledgement that has just been signalled.
AttemptFails(c) ==
  /\ Goto(c, "connect", "try") \/ Goto(c, "ack", "try")
  /\ failed' = failed \cup {edge[c]}
  /\ preferred' = IF strategy = "wrong_seq" /\ preferred = edge[c] THEN 0 ELSE preferred
  /\ Unregister(c)
  /\ net' = [net EXCEPT ![c] = "none"] /\ edge' = [edge EXCEPT ![c] = 0]
  /\ UNCHANGED <<control, strategy, edgeLock, todo>>

RelayEnds(c) ==
  /\ Goto(c, "relay", "closed")
  /\ net' = [net EXCEPT ![c] = "none"] /\ edge' = [edge EXCEPT ![c] = 0]
  /\ flow' = [flow EXCEPT ![c] = Fresh]
  /\ UNCHANGED <<control, routing, registered, todo, wire>>

CooldownEnds(e) ==
  /\ e \in failed /\ failed' = failed \ {e}
  /\ UNCHANGED <<control, strategy, preferred, edgeLock, attempt>>

-----------------------------------------------------------------------------
(* The network and the kernel's TCP.  Only packets without payload are seen. *)

OnWire(c, packets) ==
  /\ Len(wire[c]) + Len(packets) <= WireBound
  /\ wire' = [wire EXCEPT ![c] = IF c \in registered THEN @ \o packets ELSE @]

Answer(c) ==       \* a SYN-ACK, first or repeated, and the kernel's ACK
  /\ pc[c] \in {"connect", "ack"} /\ net[c] \in {"syn", "open"}
  /\ net' = [net EXCEPT ![c] = "open"]
  /\ OnWire(c, <<"synack", "ack">>)
  /\ UNCHANGED <<control, routing, registered, pc, todo, edge, flow>>

Stray(c) ==        \* a pure ACK, or a reset, of the edge
  /\ pc[c] \in {"connect", "ack"} /\ net[c] \in {"syn", "open"}
  /\ \E p \in {"iack", "odd"} :
       /\ OnWire(c, <<p>>)
       /\ net' = [net EXCEPT ![c] = IF p = "odd" THEN "refused" ELSE @]
  /\ UNCHANGED <<control, routing, registered, pc, todo, edge, flow>>

-----------------------------------------------------------------------------
(* The injector thread (_inject) and the senders of its pool (_fake_send).   *)

Abort(f) == [f EXCEPT !.monitor = FALSE, !.result = "unexpected_close"]

\* The mutated form: any acknowledgement counts, sent decoy or not.
InboundUnchecked(f, p) ==
  CASE ~f.syn -> Abort(f)
    [] f.syn /\ p = "synack" -> [f EXCEPT !.synack = TRUE]
    [] f.syn /\ p = "iack" /\ f.synack -> [f EXCEPT !.monitor = FALSE, !.result = "ok"]
    [] OTHER -> Abort(f)

Inbound(f, p) ==
  CASE ~f.syn -> Abort(f)
    [] f.syn /\ p = "synack" -> [f EXCEPT !.synack = TRUE]
    [] f.syn /\ p = "iack" /\ f.sent > 0 /\ f.synack ->
         [f EXCEPT !.monitor = FALSE, !.result = "ok"]
    [] OTHER -> Abort(f)

Outbound(f, p) ==
  CASE f.scheduled -> Abort(f)
    [] ~f.scheduled /\ p = "syn" -> [f EXCEPT !.syn = TRUE]
    [] ~f.scheduled /\ p = "ack" /\ f.syn /\ f.synack ->
         [f EXCEPT !.scheduled = TRUE, !.jobs = @ + 1]
    [] OTHER -> Abort(f)

Inject(c) ==
  /\ injector = "on" /\ wire[c] # <<>>
  /\ wire' = [wire EXCEPT ![c] = Tail(@)]
  /\ LET p == Head(wire[c])
     IN flow' = [flow EXCEPT ![c] =
          IF c \notin registered \/ ~@.monitor THEN @
          ELSE IF p \in {"syn", "ack"} THEN Outbound(@, p) ELSE Inbound(@, p)]
  /\ UNCHANGED <<control, routing, registered, pc, todo, edge, net>>

\* The mutated form: a sender runs without having been scheduled.
FakeSendUnscheduled(c) ==
  /\ flow[c].scheduled
  /\ flow' = [flow EXCEPT ![c].jobs = @ - 1]
  /\ UNCHANGED <<control, routing, registered, pc, todo, edge, net, wire>>

\* The acknowledgement of the decoy, if it comes, is a pure ACK of the edge.
FakeSend(c) ==
  /\ flow[c].jobs > 0
  /\ LET sends == flow[c].monitor /\ injector # "off"
     IN /\ flow' = [flow EXCEPT ![c].jobs = @ - 1,
                                ![c].sent = IF sends THEN @ + 1 ELSE @]
        /\ \/ UNCHANGED wire
           \/ sends /\ injector = "on" /\ OnWire(c, <<"iack">>)
  /\ UNCHANGED <<control, routing, registered, pc, todo, edge, net>>

-----------------------------------------------------------------------------
Handler(c) ==
  \/ EnterSession(c) \/ TryPreferred(c) \/ TakeEdgeLock(c) \/ NoEdgeLeft(c)
  \/ Dial(c) \/ Connected(c) \/ HandOver(c) \/ HandOverUnspoofed(c)
  \/ SendFirst(c) \/ AttemptFails(c)

Next ==
  \/ \E start \in BOOLEAN : Call(start)
  \/ ClearRegistry \/ StopInjector \/ Join \/ StartInjector \/ StartServer
  \/ LoopEnds \/ InjectorDies
  \/ \E c \in Client : \/ Accept(c) \/ Handler(c) \/ RelayEnds(c)
                       \/ Answer(c) \/ Stray(c) \/ Inject(c) \/ FakeSend(c)
  \/ \E e \in Edge : CooldownEnds(e)

\* The loop runs every task that can go on, and every wait of a task but the
\* relay has a timeout.
Fairness == WF_vars(LoopEnds) /\ \A c \in Client : WF_vars(Handler(c))

Spec == Init /\ [][Next]_vars
FairSpec == Spec /\ Fairness

-----------------------------------------------------------------------------
TypeOK ==
  /\ ctl \in {"idle", "clear", "injector", "join", "init", "server"}
  /\ starting \in BOOLEAN /\ starts \in Nat /\ stopped \in BOOLEAN
  /\ listening \in BOOLEAN /\ loop \in BOOLEAN /\ injector \in {"off", "on", "dead"}
  /\ strategy \in Strategies /\ preferred \in 0..NumEdges /\ failed \subseteq Edge
  /\ edgeLock \in Client \cup {Nobody} /\ registered \subseteq Client
  /\ pc \in [Client -> {"idle", "queued", "first", "relay", "closed"} \cup Dialling]
  /\ todo \in [Client -> SUBSET Edge] /\ edge \in [Client -> 0..NumEdges]
  /\ net \in [Client -> {"none", "syn", "open", "refused"}]
  /\ wire \in [Client -> Seq(Packets)]
  /\ flow \in [Client -> [syn : BOOLEAN, synack : BOOLEAN, scheduled : BOOLEAN,
                          jobs : Nat, sent : Nat, monitor : BOOLEAN,
                          result : {"", "ok", "unexpected_close", "stopped"}]]

\* A client of the wrong_seq strategy is relayed only behind exactly one decoy:
\* whatever the order of packets, senders, timeouts, stop and restart, none is
\* handed over before the decoy left (its real name would be read in clear) and
\* none is handed over after two (_inbound, _outbound, _fake_send).
HandedOverSpoofed ==
  \A c \in Client :
    /\ flow[c].sent <= 1
    /\ (pc[c] = "relay" /\ strategy = "wrong_seq") => flow[c].sent = 1

\* The edge every new client tries first is not one in its failure cooldown:
\* the last failure of the preferred edge sends the next clients to discovery
\* (_connect_edge_unlocked, strategy wrong_seq).
PreferredHealthy == strategy = "wrong_seq" => preferred \notin failed

\* The injector finds in the registry only attempts whose handler still waits
\* for the connection or for the decoy: a client that was handed over, refused
\* or closed is never judged by a late packet, nor told to stop twice.
RegistryLive ==
  \A c \in registered : strategy = "wrong_seq" /\ pc[c] \in {"connect", "ack"}

\* Every accepted wrong_seq client ends up relayed or closed, whatever the edges
\* and the injector do, and also when the core is stopped or restarted.
ClientAnswered ==
  \A c \in Client :
    (pc[c] = "queued" /\ strategy = "wrong_seq") ~> (pc[c] \in {"relay", "closed", "idle"})

\* What the failover test expects of every strategy.
EveryClientAnswered ==
  \A c \in Client : (pc[c] = "queued") ~> (pc[c] \in {"relay", "closed", "idle"})
=============================================================================
