--------------------------- MODULE ForwardPathProofs ---------------------------
(***************************************************************************)
(* Theorems about ForwardPath for any number of filter threads and clients. *)
(***************************************************************************)
EXTENDS ForwardPath, FiniteSetTheorems, TLAPS

At == {"new", "open", "check", "recv", "send", "raise", "finally", "dead"}

\* The types of all but the packet that is remembered for the properties.
ThreadsOK ==
  /\ thread \in Filter \cup {0} /\ handle \in Filter \cup {0}
  /\ startupError \in BOOLEAN
  /\ stopped \subseteq Filter /\ ready \subseteq Filter /\ opened \subseteq Filter
  /\ at \in [Filter -> At]
  /\ call \in {"none", "stop", "restart", "wait", "fail"}
TableOK == flows \in [Flow -> Rewritten \cup {NoServer}]

\* Only the thread the helper holds is alive: a start spawns none before the
\* previous one is dead, and stop drops none that still lives.
OnlyThread == \A f \in Filter : Runs(f) => f = thread

\* A handle is open in the driver only between open() and the finally block.
OpenedRuns == \A f \in opened : at[f] \in {"check", "recv", "send", "raise", "finally"}

NothingKept == thread = 0 => \A k \in Flow : flows[k] = NoServer

PInv == ThreadsOK /\ TableOK /\ OnlyThread /\ OpenedRuns /\ NothingKept

-----------------------------------------------------------------------------
LEMMA NoFilterZero == 0 \notin Filter
BY ForwardAssumption DEF Filter

\* Who runs is the thread, so the helper holds one.
LEMMA RunningIsThread ==
  ASSUME PInv, NEW f \in Filter, Runs(f)
  PROVE  thread = f /\ thread # 0
BY NoFilterZero DEF PInv, OnlyThread

LEMMA NobodyRuns ==
  ASSUME PInv, ~ThreadAlive
  PROVE  /\ \A f \in Filter : at[f] \in {"new", "dead"}
         /\ opened = {}
<1>1. \A f \in Filter : ~Runs(f)
  BY RunningIsThread DEF ThreadAlive
<1>2. \A f \in Filter : at[f] \in {"new", "dead"}
  BY <1>1 DEF Runs
<1>3. opened \subseteq Filter
  BY DEF PInv, ThreadsOK
<1> QED
  BY <1>2, <1>3 DEF PInv, OpenedRuns

LEMMA PInitInv == PInit => PInv
BY DEF PInit, PInv, ThreadsOK, TableOK, OnlyThread, OpenedRuns, NothingKept, Runs, At

\* Steps that let no thread be born or die, and leave the table alone.
LEMMA AskEndKeeps ==
  ASSUME PInv, NEW next \in {"stop", "restart", "fail"}, AskEnd(next), UNCHANGED flows
  PROVE  PInv'
<1>1. ThreadsOK' /\ TableOK'
  BY DEF PInv, ThreadsOK, TableOK, AskEnd
<1>2. OnlyThread' /\ OpenedRuns' /\ NothingKept'
  BY DEF PInv, OnlyThread, OpenedRuns, NothingKept, AskEnd, Runs
<1> QED
  BY <1>1, <1>2 DEF PInv

\* The thread f moves on: what it does to handles, events and packets.
LEMMA ThreadMovesKeep ==
  ASSUME PInv, NEW f \in Filter, NEW l \in At \ {"new", "open"}, Runs(f), ThreadAt(f, l),
         UNCHANGED thread, UNCHANGED call, UNCHANGED stopped,
         handle' \in Filter \cup {0}, startupError' \in BOOLEAN, ready' \subseteq Filter,
         opened' \subseteq opened \cup {f},
         l = "dead" => f \notin opened', TableOK'
  PROVE  PInv'
<1>1. at \in [Filter -> At] /\ thread = f /\ thread # 0
  BY RunningIsThread DEF PInv, ThreadsOK
<1>2. at' = [at EXCEPT ![f] = l] /\ at'[f] = l /\ \A g \in Filter \ {f} : at'[g] = at[g]
  BY <1>1 DEF ThreadAt
<1>3. ThreadsOK'
  BY <1>1, <1>2 DEF PInv, ThreadsOK
<1>4. OnlyThread'
  BY <1>1, <1>2 DEF PInv, OnlyThread, Runs
<1>5. OpenedRuns'
  BY <1>1, <1>2, <1>3 DEF PInv, ThreadsOK, OpenedRuns, At
<1>6. NothingKept'
  BY <1>1 DEF NothingKept
<1> QED
  BY <1>3, <1>4, <1>5, <1>6 DEF PInv

LEMMA SpawnKeeps ==
  ASSUME PInv, ~ThreadAlive, Spawn, TableOK', UNCHANGED <<handle, stopped, ready, opened>>
  PROVE  PInv'
<1>1. PICK f \in Filter : /\ thread' = f /\ at' = [at EXCEPT ![f] = "open"]
                          /\ startupError' = FALSE /\ call' = "wait"
  BY DEF Spawn, ThreadAt
<1>2. at \in [Filter -> At] /\ f # 0
  BY NoFilterZero DEF PInv, ThreadsOK
<1>3. ThreadsOK'
  BY <1>1, <1>2 DEF PInv, ThreadsOK, At
<1>4. OnlyThread'
  BY <1>1, <1>2, NobodyRuns DEF OnlyThread, Runs
<1>5. OpenedRuns' /\ NothingKept'
  BY <1>1, <1>2, NobodyRuns DEF OpenedRuns, NothingKept
<1> QED
  BY <1>3, <1>4, <1>5 DEF PInv

LEMMA CallsKeep ==
  ASSUME PInv, StartFilter \/ StopFilter \/ JoinGivesUp \/ Waited
  PROVE  PInv'
<1>1. CASE StartFilter \/ StopFilter
  BY <1>1, AskEndKeeps DEF StartFilter, StopFilter
<1>2. CASE JoinGivesUp
  <2>1. ThreadsOK' /\ TableOK'
    BY <1>2 DEF PInv, ThreadsOK, TableOK, JoinGivesUp
  <2>2. OnlyThread' /\ OpenedRuns' /\ NothingKept'
    BY <1>2 DEF PInv, OnlyThread, OpenedRuns, NothingKept, JoinGivesUp, Runs
  <2> QED
    BY <2>1, <2>2 DEF PInv
<1>3. CASE Waited
  <2>1. CASE AskEnd("fail")
    BY <1>3, <2>1, AskEndKeeps DEF Waited
  <2>2. CASE call' = "none" /\ UNCHANGED <<thread, handle, startupError, stopped, ready, at, opened>>
    <3>1. ThreadsOK' /\ TableOK'
      BY <1>3, <2>2 DEF PInv, ThreadsOK, TableOK, Waited
    <3>2. OnlyThread' /\ OpenedRuns' /\ NothingKept'
      BY <1>3, <2>2 DEF PInv, OnlyThread, OpenedRuns, NothingKept, Waited, Runs
    <3> QED
      BY <3>1, <3>2 DEF PInv
  <2> QED
    BY <1>3, <2>1, <2>2 DEF Waited
<1> QED
  BY <1>1, <1>2, <1>3

\* Only when the thread is dead a new one is born, or the table is emptied.
LEMMA JoinedKeeps == ASSUME PInv, Joined PROVE PInv'
<1>1. /\ ~ThreadAlive /\ TableOK' /\ \A k \in Flow : flows'[k] = NoServer
      /\ UNCHANGED <<handle, stopped, ready, opened>>
  BY DEF Joined, TableOK
<1>2. CASE Spawn
  BY <1>1, <1>2, SpawnKeeps
<1>3. CASE call' = "none" /\ thread' = 0 /\ startupError' = FALSE /\ UNCHANGED at
  <2>1. ThreadsOK'
    BY <1>1, <1>3 DEF PInv, ThreadsOK
  <2>2. OnlyThread' /\ OpenedRuns' /\ NothingKept'
    BY <1>1, <1>3, NobodyRuns DEF OnlyThread, OpenedRuns, NothingKept, Runs
  <2> QED
    BY <1>1, <2>1, <2>2 DEF PInv
<1> QED
  BY <1>2, <1>3 DEF Joined

LEMMA RunKeeps ==
  ASSUME PInv, NEW f \in Filter,
         OpenHandle(f) \/ Publish(f) \/ Interrupted(f) \/ Raise(f) \/ Finally(f) \/ Resent(f)
  PROVE  PInv'
<1>1. ThreadsOK /\ TableOK /\ Runs(f)
  BY DEF PInv, Runs, OpenHandle, Publish, Interrupted, Raise, Finally, Resent
<1>2. PICK l \in At \ {"new", "open"} : ThreadAt(f, l) /\ (l = "dead" => f \notin opened')
  BY DEF OpenHandle, Publish, Interrupted, Raise, Finally, Resent, At
<1>3. UNCHANGED thread /\ UNCHANGED call /\ UNCHANGED stopped
  BY DEF OpenHandle, Publish, Interrupted, Raise, Finally, Resent
<1>4. TableOK'
  BY <1>1 DEF TableOK, OpenHandle, Publish, Interrupted, Raise, Finally, Resent
<1>5. /\ handle' \in Filter \cup {0} /\ ready' \subseteq Filter
      /\ opened' \subseteq opened \cup {f}
  BY <1>1 DEF ThreadsOK, OpenHandle, Publish, Interrupted, Raise, Finally, Resent
<1>6. startupError' \in BOOLEAN
  BY <1>1 DEF ThreadsOK, OpenHandle, Publish, Interrupted, Raise, Finally, Resent
<1> QED
  BY <1>1, <1>2, <1>3, <1>4, <1>5, <1>6, ThreadMovesKeep

\* Packets change the table only while their thread lives.
LEMMA PacketsKeep ==
  ASSUME PInv, NEW f \in Filter, Process(f), TableOK'
  PROVE  PInv'
<1>1. ThreadsOK /\ Runs(f) /\ ThreadAt(f, "send") /\ "send" \in At \ {"new", "open"}
  BY DEF PInv, Runs, Process, At
<1>2. UNCHANGED <<thread, handle, startupError, stopped, ready, opened, call>>
  BY DEF Process
<1>3. /\ handle' \in Filter \cup {0} /\ startupError' \in BOOLEAN
      /\ ready' \subseteq Filter /\ opened' \subseteq opened \cup {f}
  BY <1>1, <1>2 DEF ThreadsOK
<1> QED
  BY <1>1, <1>2, <1>3, ThreadMovesKeep

LEMMA PNextInv == ASSUME PInv, [PNext]_pvars PROVE PInv'
<1> TableOK
  BY DEF PInv
<1>1. CASE UNCHANGED pvars
  <2>1. ThreadsOK' /\ TableOK'
    BY <1>1 DEF PInv, ThreadsOK, TableOK, pvars, control
  <2>2. OnlyThread' /\ OpenedRuns' /\ NothingKept'
    BY <1>1 DEF PInv, OnlyThread, OpenedRuns, NothingKept, pvars, control, Runs
  <2> QED
    BY <2>1, <2>2 DEF PInv
<1>2. CASE StartFilter \/ StopFilter \/ JoinGivesUp \/ Joined \/ Waited
  BY <1>2, CallsKeep, JoinedKeeps
<1>3. ASSUME NEW f \in Filter,
             OpenHandle(f) \/ Publish(f) \/ Interrupted(f) \/ Raise(f) \/ Finally(f) \/ Resent(f)
      PROVE  PInv'
  BY <1>3, RunKeeps
<1>4. ASSUME NEW f \in Filter, NEW k \in Flow, Reply(f, k)
      PROVE  PInv'
  <2>1. Process(f) /\ TableOK'
    BY <1>4 DEF Reply, TableOK
  <2> QED
    BY <2>1, PacketsKeep
<1>5. ASSUME NEW f \in Filter, NEW k \in Flow, NEW s \in Server, Query(f, k, s)
      PROVE  PInv'
  <2>1. Process(f) /\ TableOK'
    BY <1>5 DEF Query, TableOK
  <2> QED
    BY <2>1, PacketsKeep
<1>6. ASSUME NEW f \in Filter, NEW from, NEW to, Quic(f, from, to)
      PROVE  PInv'
  <2>1. Process(f) /\ TableOK'
    BY <1>6 DEF Quic, TableOK
  <2> QED
    BY <2>1, PacketsKeep
<1>7. ASSUME NEW k \in Flow, ExpireFlow(k)
      PROVE  PInv'
  <2>1. ThreadsOK' /\ TableOK'
    BY <1>7 DEF PInv, ThreadsOK, TableOK, ExpireFlow, control
  <2>2. OnlyThread' /\ OpenedRuns'
    BY <1>7 DEF PInv, OnlyThread, OpenedRuns, ExpireFlow, control, Runs
  <2>3. NothingKept'
    BY <1>7 DEF PInv, TableOK, NothingKept, ExpireFlow, control
  <2> QED
    BY <2>1, <2>2, <2>3 DEF PInv
<1> QED
  BY <1>1, <1>2, <1>3, <1>4, <1>5, <1>6, <1>7 DEF PNext

LEMMA PSpecInv == PSpec => []PInv
<1>1. PInv /\ [PNext]_pvars => PInv'
  BY PNextInv
<1> QED
  BY PInitInv, <1>1, PTL DEF PSpec

LEMMA InvIsOneFilter == PInv => OneFilter
<1> SUFFICES ASSUME PInv PROVE OneFilter
  OBVIOUS
<1>1. Cardinality({f \in Filter : Runs(f)}) <= 1
  <2> DEFINE S == {f \in Filter : Runs(f)}
  <2>1. S = {} \/ S = {thread}
    BY RunningIsThread
  <2>2. Cardinality({}) = 0 /\ Cardinality({thread}) = 1
    BY FS_EmptySet, FS_Singleton
  <2> QED
    BY <2>1, <2>2
<1>2. opened \subseteq Filter /\ \A f \in opened : Runs(f)
  BY DEF PInv, ThreadsOK, OpenedRuns, Runs
<1>3. thread = 0 => opened = {}
  BY <1>2, RunningIsThread
<1> QED
  BY <1>1, <1>2, <1>3 DEF PInv, NothingKept, OneFilter

\* However many filters are started, stopped and given up on, and however long
\* each takes to open its handle or to end: no second thread runs, no handle is
\* left in the driver by a thread that ended, and a helper without a thread
\* remembers no query (ForwardPathHelper.start, stop, _run).
THEOREM OneFilterAtATime == PSpec => []OneFilter
BY PSpecInv, InvIsOneFilter, PTL
-----------------------------------------------------------------------------
(* The addresses of DNS packets, without the bytes of a SYN. *)

\* The table remembers only what this client asked, over this protocol.
TableIsAsked ==
  /\ asked \in [Flow -> SUBSET Rewritten]
  /\ \A k \in Flow : flows[k] = NoServer \/ flows[k] \in asked[k]

DInv == TableOK /\ TableIsAsked /\ DnsContract

LEMMA DInitInv == PInit => DInv
BY DEF PInit, DInv, TableOK, TableIsAsked, DnsContract, NoPacket

LEMMA DNextInv == ASSUME DInv, [PNext]_pvars PROVE DInv'
<1> USE DEF DInv
<1>1. CASE UNCHANGED <<asked, last>> /\ flows' \in [Flow -> Rewritten \cup {NoServer}]
           /\ \A k \in Flow : flows'[k] \in {flows[k], NoServer}
  BY <1>1 DEF TableOK, TableIsAsked, DnsContract
<1>2. CASE UNCHANGED pvars \/ StartFilter \/ StopFilter \/ JoinGivesUp \/ Waited
  BY <1>1, <1>2 DEF TableOK, pvars, StartFilter, StopFilter, JoinGivesUp, Waited
<1>3. CASE Joined
  BY <1>1, <1>3 DEF Joined
<1>4. ASSUME NEW f \in Filter,
             OpenHandle(f) \/ Publish(f) \/ Interrupted(f) \/ Raise(f) \/ Finally(f) \/ Resent(f)
      PROVE  DInv'
  BY <1>1, <1>4 DEF TableOK, OpenHandle, Publish, Interrupted, Raise, Finally, Resent
<1>5. ASSUME NEW k \in Flow, ExpireFlow(k)
      PROVE  DInv'
  BY <1>1, <1>5 DEF TableOK, ExpireFlow
<1>6. ASSUME NEW f \in Filter, NEW k \in Flow, Reply(f, k)
      PROVE  DInv'
  <2>1. TableOK' /\ TableIsAsked'
    BY <1>6 DEF Reply, TableOK, TableIsAsked
  <2>2. /\ last'.kind = "answer" /\ last'.flow = k /\ asked' = asked
        /\ last'.to = "resolver" \/ last'.to \in asked[k]
    BY <1>6 DEF Reply, TableIsAsked
  <2> QED
    BY <2>1, <2>2 DEF DnsContract
<1>7. ASSUME NEW f \in Filter, NEW k \in Flow, NEW s \in Server, Query(f, k, s)
      PROVE  DInv'
  <2>1. /\ asked' = [asked EXCEPT ![k] = @ \cup ({s} \cap Rewritten)]
        /\ flows' = IF s \in Rewritten THEN [flows EXCEPT ![k] = s] ELSE flows
    BY <1>7 DEF Query
  <2>2. TableOK' /\ TableIsAsked'
    BY <2>1 DEF TableOK, TableIsAsked
  <2>3. /\ last'.kind = "query" /\ last'.from = s
        /\ s \notin Rewritten => last'.to = s
    BY <1>7 DEF Query
  <2> QED
    BY <2>2, <2>3 DEF DnsContract, Rewritten
<1>8. ASSUME NEW f \in Filter, NEW from, NEW to, Quic(f, from, to)
      PROVE  DInv'
  <2>1. last'.kind = "quic" /\ UNCHANGED <<flows, asked>>
    BY <1>8 DEF Quic
  <2> QED
    BY <2>1 DEF TableOK, TableIsAsked, DnsContract
<1> QED
  BY <1>2, <1>3, <1>4, <1>5, <1>6, <1>7, <1>8 DEF PNext

\* Any number of clients, queries under way and expired entries: an answer comes
\* back under a private server this client asked from this port over this
\* protocol, or under the resolver's own address, and a query to a public server
\* or a machine of the network is not redirected (process_packet).
THEOREM DnsComesBack == PSpec => []DnsContract
<1>1. DInv /\ [PNext]_pvars => DInv'
  BY DNextInv
<1>2. DInv => DnsContract
  BY DEF DInv
<1> QED
  BY DInitInv, <1>1, <1>2, PTL DEF PSpec

-----------------------------------------------------------------------------
(* The types, with those of the two histories                                *)

HistoryOK == asked \in [Flow -> SUBSET Rewritten] /\ last \in PacketTypes

LEMMA PacketsFit ==
  /\ NoPacket \in PacketTypes
  /\ \A k \in Flow, s \in Server, t \in Server \cup {NoServer} :
       /\ [kind |-> "query", flow |-> k, from |-> s, to |-> t] \in PacketTypes
       /\ [kind |-> "answer", flow |-> k, from |-> s, to |-> t] \in PacketTypes
  /\ \A f \in {"client", "other"}, t \in {"external", "local"}, d \in BOOLEAN :
       [kind |-> "quic", from |-> f, to |-> t, dropped |-> d] \in PacketTypes
BY DEF PacketTypes

LEMMA HistoryNext == ASSUME TableOK, HistoryOK, [PNext]_pvars PROVE HistoryOK'
<1>0. Rewritten \subseteq Server /\ "resolver" \in Server
  BY DEF Rewritten, Server
<1>1. CASE UNCHANGED <<asked, last>>
  BY <1>1 DEF HistoryOK
<1>2. ASSUME NEW f \in Filter, NEW k \in Flow, Reply(f, k) PROVE HistoryOK'
  <2> DEFINE t == IF flows[k] = NoServer THEN "resolver" ELSE flows[k]
  <2>1. t \in Server
    BY <1>0 DEF TableOK
  <2>2. last' = [kind |-> "answer", flow |-> k, from |-> "resolver", to |-> t] /\ asked' = asked
    BY <1>2 DEF Reply
  <2> HIDE DEF t
  <2> QED
    BY <1>0, <2>1, <2>2, PacketsFit DEF HistoryOK
<1>3. ASSUME NEW f \in Filter, NEW k \in Flow, NEW s \in Server, Query(f, k, s) PROVE HistoryOK'
  <2> DEFINE t == IF s \in Rewritten THEN "resolver" ELSE s
  <2>1. t \in Server
    BY <1>0
  <2>2. last' = [kind |-> "query", flow |-> k, from |-> s, to |-> t]
    BY <1>3 DEF Query
  <2>3. asked' \in [Flow -> SUBSET Rewritten]
    BY <1>3 DEF Query, HistoryOK
  <2> HIDE DEF t
  <2> QED
    BY <2>1, <2>2, <2>3, PacketsFit DEF HistoryOK
<1>4. ASSUME NEW f \in Filter, NEW from \in {"client", "other"}, NEW to \in {"external", "local"},
             Quic(f, from, to)
      PROVE  HistoryOK'
  <2> DEFINE d == BlockQuic /\ from = "client" /\ to = "external"
  <2>1. d \in BOOLEAN
    OBVIOUS
  <2>2. last' = [kind |-> "quic", from |-> from, to |-> to, dropped |-> d] /\ asked' = asked
    BY <1>4 DEF Quic
  <2> HIDE DEF d
  <2> QED
    BY <2>1, <2>2, PacketsFit DEF HistoryOK
<1>5. CASE \/ UNCHANGED pvars \/ StartFilter \/ StopFilter \/ JoinGivesUp \/ Joined \/ Waited
           \/ \E f \in Filter : \/ OpenHandle(f) \/ Publish(f) \/ Interrupted(f)
                                \/ Raise(f) \/ Finally(f) \/ Resent(f)
           \/ \E k \in Flow : ExpireFlow(k)
  <2>1. UNCHANGED <<asked, last>>
    BY <1>5 DEF pvars, StartFilter, StopFilter, JoinGivesUp, Joined, Waited, OpenHandle, Publish,
       Interrupted, Raise, Finally, Resent, ExpireFlow
  <2> QED
    BY <1>1, <2>1
<1> QED
  BY <1>2, <1>3, <1>4, <1>5 DEF PNext

\* Every variable keeps to its type, the packets of the histories included: what
\* a client gets always names a server.
THEOREM TypeCorrect == PSpec => []PTypeOK
<1>1. PInit => HistoryOK
  BY PacketsFit DEF PInit, HistoryOK
<1>2. PInv /\ HistoryOK /\ [PNext]_pvars => HistoryOK'
  BY HistoryNext DEF PInv
<1>3. PInv /\ HistoryOK => PTypeOK
  BY DEF PInv, ThreadsOK, TableOK, HistoryOK, PTypeOK, At
<1> QED
  BY <1>1, <1>2, <1>3, PSpecInv, PTL DEF PSpec
=============================================================================
