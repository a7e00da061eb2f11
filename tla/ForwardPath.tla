---------------------------- MODULE ForwardPath ----------------------------
(***************************************************************************)
(* The packet filter of the Mobile Gateway (class ForwardPathHelper of     *)
(* uac_desktop/gateway.py): the thread that owns a WinDivert handle, the   *)
(* start and stop of GatewayManager, which give up on a thread that does   *)
(* not answer in time, and what the filter does to the forwarded packets:  *)
(* DNS queries to private servers go to the resolver of the gateway and    *)
(* the answers come back under the address that was asked, the MSS of a    *)
(* SYN is clamped, QUIC may be dropped.                                    *)
(***************************************************************************)
EXTENDS Naturals, Sequences, SequencesExt, FiniteSets

CONSTANTS
  Socket,      \* address and port of a client
  MaxFilter,   \* bound on the threads that are started
  BlockQuic,   \* block_quic
  NoServer,
  MaxOptions,  \* bound on the TCP options of a SYN
  Byte         \* the values of one byte

Filter   == 1..MaxFilter
Protocol == {"tcp", "udp"}
Flow     == Socket \X Protocol

\* Where a query is sent: the router, a private address outside of the network,
\* a machine of the network, a public server, the resolver of the gateway.
Server  == {"router", "private", "local", "public", "resolver"}
Rewritten == {"router", "private"}            \* _rewrite_private_dns

ASSUME ForwardAssumption ==
  /\ MaxFilter \in Nat \ {0} /\ MaxOptions \in Nat /\ Byte \subseteq 0..255
  /\ BlockQuic \in BOOLEAN /\ NoServer \notin Server

VARIABLES
  thread, handle,   \* _thread and _handle (0: None)
  startupError,     \* _startup_error is set
  stopped, ready,   \* threads whose _stop_event, _ready_event is set
  at,               \* where each thread is
  opened,           \* threads whose WinDivert handle is open
  call,             \* what the caller of start or stop waits for
  flows,            \* _dns_flows
  asked,            \* history: the private servers each client asked
  last              \* history: the packet the filter let through or dropped

control == <<thread, handle, startupError, stopped, ready, at, opened, call>>
pvars   == <<control, flows, asked, last>>

NoPacket == [kind |-> "none"]
PacketTypes ==
  {NoPacket}
  \cup [kind : {"query", "answer"}, flow : Flow, from : Server, to : Server \cup {NoServer}]
  \cup [kind : {"quic"}, from : {"client", "other"}, to : {"external", "local"}, dropped : BOOLEAN]

PTypeOK ==
  /\ thread \in Filter \cup {0} /\ handle \in Filter \cup {0}
  /\ startupError \in BOOLEAN
  /\ stopped \subseteq Filter /\ ready \subseteq Filter /\ opened \subseteq Filter
  /\ at \in [Filter -> {"new", "open", "check", "recv", "send", "raise", "finally", "dead"}]
  /\ call \in {"none", "stop", "restart", "wait", "fail"}
  /\ flows \in [Flow -> Rewritten \cup {NoServer}]
  /\ asked \in [Flow -> SUBSET Rewritten]
  /\ last \in PacketTypes

PInit ==
  /\ thread = 0 /\ handle = 0 /\ startupError = FALSE
  /\ stopped = {} /\ ready = {} /\ opened = {}
  /\ at = [f \in Filter |-> "new"] /\ call = "none"
  /\ flows = [k \in Flow |-> NoServer]
  /\ asked = [k \in Flow |-> {}] /\ last = NoPacket

Runs(f) == at[f] \notin {"new", "dead"}
ThreadAlive == thread # 0 /\ Runs(thread)
ThreadAt(f, l) == at' = [at EXCEPT ![f] = l]

-----------------------------------------------------------------------------
(* start and stop, serialised by GatewayManager._lock *)

\* stop closes the handle the thread published and waits for the thread.
AskEnd(next) ==
  /\ stopped' = IF thread = 0 THEN stopped ELSE stopped \cup {thread}
  /\ opened' = opened \ {handle} /\ handle' = 0
  /\ call' = next
  /\ UNCHANGED <<thread, startupError, ready, at>>

StopFilter ==
  /\ call = "none" /\ AskEnd("stop")
  /\ UNCHANGED <<flows, asked, last>>

StartFilter ==
  /\ call = "none" /\ \E f \in Filter : at[f] = "new"
  /\ AskEnd("restart")
  /\ UNCHANGED <<flows, asked, last>>

\* The thread of the new filter; start waits for its ready event.
Spawn ==
  \E f \in Filter :
    /\ at[f] = "new" /\ \A g \in 1..(f - 1) : at[g] # "new"
    /\ thread' = f /\ ThreadAt(f, "open")
    /\ startupError' = FALSE /\ call' = "wait"

\* Mutant: start does not refuse while the previous thread is alive.
JoinGivesUpOn ==
  /\ call \in {"stop", "restart", "fail"} /\ ThreadAlive
  /\ IF call = "restart" THEN Spawn
     ELSE call' = "none" /\ UNCHANGED <<thread, at, startupError>>
  /\ UNCHANGED <<handle, stopped, ready, opened, flows, asked, last>>

\* join(timeout=2.0) gives up: everything stays, and start raises.
JoinGivesUp ==
  /\ call \in {"stop", "restart", "fail"} /\ ThreadAlive
  /\ call' = "none"
  /\ UNCHANGED <<thread, at, startupError>>
  /\ UNCHANGED <<handle, stopped, ready, opened, flows, asked, last>>

\* The thread is gone: stop clears the rest, and start goes on.
Joined ==
  /\ call \in {"stop", "restart", "fail"} /\ ~ThreadAlive
  /\ flows' = [k \in Flow |-> NoServer]
  /\ IF call = "restart" THEN Spawn
     ELSE call' = "none" /\ thread' = 0 /\ startupError' = FALSE /\ UNCHANGED at
  /\ UNCHANGED <<handle, stopped, ready, opened, asked, last>>

Running == ThreadAlive /\ ~startupError

\* The filter is up, or start stops it again and raises: no answer within the
\* timeout, an error of the thread, a thread that is already gone.
Waited ==
  /\ call = "wait"
  /\ \/ thread \in ready /\ Running
        /\ call' = "none" /\ UNCHANGED <<thread, handle, startupError, stopped, ready, at, opened>>
     \/ ~(thread \in ready /\ Running)
        /\ AskEnd("fail")
  /\ UNCHANGED <<flows, asked, last>>

-----------------------------------------------------------------------------
(* _run *)

\* _new_handle and open: slow, and without pydivert or its driver an error.
OpenHandle(f) ==
  /\ at[f] = "open"
  /\ \/ opened' = opened \cup {f} /\ ThreadAt(f, "check")
     \/ UNCHANGED opened /\ ThreadAt(f, "raise")
  /\ UNCHANGED <<thread, handle, startupError, stopped, ready, call, flows, asked, last>>

\* A filter that was given up on while it opened does not start.
Publish(f) ==
  /\ at[f] = "check"
  /\ ready' = ready \cup {f}
  /\ IF f \in stopped
     THEN ThreadAt(f, "finally") /\ UNCHANGED handle
     ELSE handle' = f /\ ThreadAt(f, "recv")
  /\ UNCHANGED <<thread, startupError, stopped, opened, call, flows, asked, last>>

\* recv is interrupted: by stop, or by the driver.
Interrupted(f) ==
  /\ at[f] \in {"recv", "send"}
  /\ ThreadAt(f, IF f \in stopped /\ at[f] = "recv" THEN "finally" ELSE "raise")
  /\ UNCHANGED <<thread, handle, startupError, stopped, ready, opened, call, flows, asked, last>>

Raise(f) ==
  /\ at[f] = "raise"
  /\ startupError' = (startupError \/ thread = f)
  /\ ready' = ready \cup {f} /\ ThreadAt(f, "finally")
  /\ UNCHANGED <<thread, handle, stopped, opened, call, flows, asked, last>>

Finally(f) ==
  /\ at[f] = "finally"
  /\ handle' = IF handle = f THEN 0 ELSE handle
  /\ opened' = opened \ {f}
  /\ ready' = ready \cup {f} /\ ThreadAt(f, "dead")
  /\ UNCHANGED <<thread, startupError, stopped, call, flows, asked, last>>

\* A packet was reinjected, or the next one is awaited after a dropped one.
Resent(f) ==
  /\ at[f] = "send"
  /\ ThreadAt(f, IF f \in stopped THEN "finally" ELSE "recv")
  /\ UNCHANGED <<thread, handle, startupError, stopped, ready, opened, call, flows, asked, last>>

-----------------------------------------------------------------------------
(* process_packet *)

Process(f) == at[f] = "recv" /\ f \in opened /\ ThreadAt(f, "send")
              /\ UNCHANGED <<thread, handle, startupError, stopped, ready, opened, call>>

\* Mutant: every query is remembered, not only the rewritten ones.
QueryRemembered(f, k, server) ==
  /\ Process(f)
  /\ asked' = [asked EXCEPT ![k] = @ \cup ({server} \cap Rewritten)]
  /\ flows' = [flows EXCEPT ![k] = server]
  /\ last' = [kind |-> "query", flow |-> k, from |-> server,
              to |-> IF server \in Rewritten THEN "resolver" ELSE server]

\* A client asks a server: one that is not reachable through the tunnel is
\* replaced and remembered.
Query(f, k, server) ==
  /\ Process(f)
  /\ asked' = [asked EXCEPT ![k] = @ \cup ({server} \cap Rewritten)]
  /\ flows' = IF server \in Rewritten THEN [flows EXCEPT ![k] = server] ELSE flows
  /\ last' = [kind |-> "query", flow |-> k, from |-> server,
              to |-> IF server \in Rewritten THEN "resolver" ELSE server]

\* Mutant: the entry is looked up without the protocol.
ReplyOfOther(f, k) ==
  LET original == flows[<<k[1], "tcp">>] IN
  /\ Process(f)
  /\ flows' = IF k[2] = "udp" THEN [flows EXCEPT ![k] = NoServer] ELSE flows
  /\ last' = [kind |-> "answer", flow |-> k, from |-> "resolver",
              to |-> IF original = NoServer THEN "resolver" ELSE original]
  /\ UNCHANGED asked

\* The resolver answers: the client sees the server it asked.  Over UDP the
\* entry is used up.
Reply(f, k) ==
  /\ Process(f)
  /\ flows' = IF k[2] = "udp" THEN [flows EXCEPT ![k] = NoServer] ELSE flows
  /\ last' = [kind |-> "answer", flow |-> k, from |-> "resolver",
              to |-> IF flows[k] = NoServer THEN "resolver" ELSE flows[k]]
  /\ UNCHANGED asked

Quic(f, from, to) ==
  /\ Process(f)
  /\ last' = [kind |-> "quic", from |-> from, to |-> to,
              dropped |-> BlockQuic /\ from = "client" /\ to = "external"]
  /\ UNCHANGED <<flows, asked>>

\* _expire_dns_flows: the entry is older than mapping_ttl.
ExpireFlow(k) ==
  /\ flows[k] # NoServer
  /\ flows' = [flows EXCEPT ![k] = NoServer]
  /\ UNCHANGED <<control, asked, last>>

-----------------------------------------------------------------------------
(* _clamp_tcp_mss: the options of a SYN as bytes.  The MSS has two bytes;     *)
(* Limit stands for tcp_mss.                                                  *)

Limit == <<2, 1>>
Above(a, b) == a[1] > b[1] \/ (a[1] = b[1] /\ a[2] > b[2])

\* The place of the MSS option the loop stops at, 0 if it finds none.
MssAt(raw) ==
  LET n == Len(raw)
      from[o \in 1..(n + 1)] ==
        CASE o > n -> 0
          [] o <= n /\ raw[o] = 0 -> 0
          [] o <= n /\ raw[o] = 1 -> from[o + 1]
          [] OTHER ->
               IF o = n THEN 0
               ELSE LET length == raw[o + 1] IN
                    CASE length < 2 \/ o + length > n + 1 -> 0
                      [] length >= 2 /\ o + length <= n + 1 /\ raw[o] = 2 /\ length = 4 -> o
                      [] OTHER -> from[o + length]
  IN from[1]

\* Mutant: the bytes that are written are one too far.
ClampOff(raw) ==
  LET o == MssAt(raw) IN
  IF o = 0 THEN raw
  ELSE IF Above(<<raw[o + 2], raw[o + 3]>>, Limit)
       THEN [raw EXCEPT ![o + 1] = Limit[1], ![o + 2] = Limit[2]]
       ELSE raw

Clamp(raw) ==
  LET o == MssAt(raw) IN
  IF o = 0 THEN raw
  ELSE IF Above(<<raw[o + 2], raw[o + 3]>>, Limit)
       THEN [raw EXCEPT ![o + 2] = Limit[1], ![o + 3] = Limit[2]]
       ELSE raw

-----------------------------------------------------------------------------
PNext ==
  \/ StartFilter \/ StopFilter \/ JoinGivesUp \/ Joined \/ Waited
  \/ \E f \in Filter :
       \/ OpenHandle(f) \/ Publish(f) \/ Interrupted(f) \/ Raise(f) \/ Finally(f) \/ Resent(f)
       \/ \E k \in Flow : Reply(f, k) \/ \E s \in Server : Query(f, k, s)
       \/ \E from \in {"client", "other"}, to \in {"external", "local"} : Quic(f, from, to)
  \/ \E k \in Flow : ExpireFlow(k)

PSpec == PInit /\ [][PNext]_pvars

\* Packets are never handled twice: however long a thread that was given up on
\* takes to open its handle or to end, no second one runs, and a helper that
\* holds no thread has left no handle in the driver and remembers no query.
OneFilter ==
  /\ Cardinality({f \in Filter : Runs(f)}) <= 1
  /\ \A f \in opened : Runs(f)
  /\ thread = 0 => opened = {} /\ \A k \in Flow : flows[k] = NoServer

\* The options of a SYN, as a list of options and as the bytes of it.
Options == UNION {[1..n -> {<<1>>, <<3, 3, 0>>, <<4, 2>>} \cup {<<2, 4, a, b>> : a, b \in Byte}]
                  : n \in 0..MaxOptions}
Bytes(list) == FlattenSeq(list)
Lower(option) == IF option[1] = 2 /\ Above(SubSeq(option, 3, 4), Limit)
                 THEN <<2, 4>> \o Limit ELSE option

\* Well-formed options come out as the same options, the first MSS lowered to
\* the limit; of any other bytes nothing but two bytes is touched.
MssIsClamped ==
  /\ \A list \in Options :
       LET first == {i \in DOMAIN list : list[i][1] = 2 /\ \A j \in 1..(i - 1) : list[j][1] # 2} IN
       Clamp(Bytes(list)) = Bytes([i \in DOMAIN list |-> IF i \in first THEN Lower(list[i])
                                                         ELSE list[i]])
  /\ \A raw \in UNION {[1..n -> Byte] : n \in 0..(2 * MaxOptions)} :
       LET new == Clamp(raw) IN
       Len(new) = Len(raw) /\ Cardinality({i \in DOMAIN raw : new[i] # raw[i]}) <= 2

\* An answer of the resolver comes back under an address this client asked from
\* this port over this protocol, or under the resolver's own; a query to a public
\* server or a machine of the network is not redirected (process_packet).
DnsContract ==
  /\ last.kind = "answer" => last.to \in asked[last.flow] \cup {"resolver"}
  /\ last.kind = "query" /\ last.from \in {"local", "public"} => last.to = last.from

\* A SYN that passes the filter is clamped (_clamp_tcp_mss).
MssContract == last.kind # "none" => MssIsClamped
=============================================================================
