--------------------------- MODULE ApplicationProofs ---------------------------
(***************************************************************************)
(* Theorems about Application, for any number of attempts, jobs, events    *)
(* and faults: the parts stay in their ranges, the window and the switch   *)
(* of the Mobile Gateway end up saying what is so, and no process is left  *)
(* behind or killed that is not ours.                                      *)
(***************************************************************************)
EXTENDS Application, ConnectUiProofs, CoreProcessesProofs

-----------------------------------------------------------------------------
(* The switch of the gateway: types *)

SwitchState == [requested : BOOLEAN, toggle : BOOLEAN, target : {"none", "on", "off"},
                job : {0} \cup GJob]
Connection == [shown : BOOLEAN, connecting : BOOLEAN, worker : {"none", "working", "up"},
               closing : BOOLEAN]
GatewayJob == [kind : {"none", "on", "off"}, user : BOOLEAN, pc : Steps, ok : BOOLEAN]
Notice == [kind : {"state", "runtime"}, on : BOOLEAN] \cup [kind : {"applied"}, job : GJob]

PartsOK ==
  /\ engine \in {"off", "up", "dead"} /\ gateway \in BOOLEAN
  /\ hand \in {"idle", "stop", "quit", "quit stop", "gone"} /\ late \in BOOLEAN
  /\ revived \in BOOLEAN /\ gateLock \in {0} \cup GJob
ActsOK == acts \in (0..MaxActs) \X (0..MaxTrouble)
ConnOK == conn \in Connection
SwitchOK == switch \in SwitchState /\ gfresh \subseteq GJob /\ gjob \in [GJob -> GatewayJob]
QueueOK == queue \in Seq(Notice)

SInv == PartsOK /\ ActsOK /\ ConnOK /\ SwitchOK /\ QueueOK

LEMMA SInvIsTyped == SInv => STypeOK
<1> SUFFICES ASSUME SInv PROVE STypeOK
  OBVIOUS
<1>1. \A i \in 1..Len(queue) : CASE queue[i].kind = "state" -> queue[i].on \in BOOLEAN
                                 [] queue[i].kind = "runtime" -> queue[i].on \in BOOLEAN
                                 [] queue[i].kind = "applied" -> queue[i].job \in GJob
  <2> SUFFICES ASSUME NEW i \in 1..Len(queue)
               PROVE  CASE queue[i].kind = "state" -> queue[i].on \in BOOLEAN
                        [] queue[i].kind = "runtime" -> queue[i].on \in BOOLEAN
                        [] queue[i].kind = "applied" -> queue[i].job \in GJob
    OBVIOUS
  <2>1. queue[i] \in Notice
    BY DEF SInv, QueueOK
  <2>2. CASE queue[i] \in [kind : {"state", "runtime"}, on : BOOLEAN]
    BY <2>2
  <2>3. CASE queue[i] \in [kind : {"applied"}, job : GJob]
    BY <2>3
  <2> QED
    BY <2>1, <2>2, <2>3 DEF Notice
<1> QED
  BY <1>1 DEF SInv, PartsOK, ActsOK, ConnOK, SwitchOK, STypeOK, SwitchState, Connection, GatewayJob

LEMMA NoGJobIsOne == NoGJob \in GatewayJob
BY DEF NoGJob, GatewayJob, Steps

LEMMA SInitInv == SInit => SInv
<1> SUFFICES ASSUME SInit PROVE SInv
  OBVIOUS
<1>1. PartsOK
  BY DEF SInit, PartsOK
<1>2. ActsOK
  BY SwitchAssumption DEF SInit, ActsOK
<1>3. ConnOK
  BY DEF SInit, ConnOK, Connection
<1>4. SwitchOK
  BY NoGJobIsOne DEF SInit, SwitchOK, SwitchState
<1> QED
  BY <1>1, <1>2, <1>3, <1>4 DEF SInit, SInv, QueueOK

LEMMA ActsLeft ==
  ASSUME ActsOK, Act \/ Trouble \/ UNCHANGED acts
  PROVE  ActsOK'
<1>1. acts = <<acts[1], acts[2]>> /\ acts[1] \in 0..MaxActs /\ acts[2] \in 0..MaxTrouble
  BY DEF ActsOK
<1>2. CASE Act
  <2>1. acts' = <<acts[1] - 1, acts[2]>> /\ acts[1] - 1 \in 0..MaxActs
    BY <1>1, <1>2, SwitchAssumption DEF Act
  <2> QED
    BY <1>1, <2>1 DEF ActsOK
<1>3. CASE Trouble
  BY <1>1, <1>3, SwitchAssumption DEF Trouble, ActsOK
<1>4. CASE UNCHANGED acts
  BY <1>4 DEF ActsOK
<1> QED
  BY <1>2, <1>3, <1>4 DEF ActsOK

LEMMA Notices ==
  /\ State(TRUE) \in Notice /\ State(FALSE) \in Notice
  /\ Runtime(TRUE) \in Notice /\ Runtime(FALSE) \in Notice
  /\ Halted \in Seq(Notice)
  /\ \A j \in GJob : [kind |-> "applied", job |-> j] \in Notice
<1>1. \A b \in BOOLEAN : State(b) \in Notice /\ Runtime(b) \in Notice
  BY DEF State, Runtime, Notice
<1>2. Halted \in Seq(Notice)
  <2>1. Halted = <<>> \/ Halted = <<Runtime(FALSE)>>
    BY DEF Halted
  <2>2. <<>> \in Seq(Notice) /\ <<Runtime(FALSE)>> \in Seq(Notice)
    <3>1. \A x \in Notice : <<x>> \in Seq(Notice)
      OBVIOUS
    <3>2. <<>> \in Seq(Notice)
      OBVIOUS
    <3>3. Runtime(FALSE) \in Notice
      BY <1>1
    <3> QED
      BY <3>1, <3>2, <3>3
  <2> QED
    BY <2>1, <2>2
<1>3. \A j \in GJob : [kind |-> "applied", job |-> j] \in Notice
  BY DEF Notice
<1> QED
  BY <1>1, <1>2, <1>3

LEMMA QueueKeeps ==
  ASSUME QueueOK,
         \/ UNCHANGED queue
         \/ \E e \in Notice : Emit(e)
         \/ queue' = queue \o Halted
         \/ \E b \in BOOLEAN : queue' = queue \o Halted \o <<State(b)>>
         \/ queue # <<>> /\ queue' = Tail(queue)
  PROVE  QueueOK'
<1>1. CASE \E b \in BOOLEAN : queue' = queue \o Halted \o <<State(b)>>
  <2>1. PICK b \in BOOLEAN : queue' = queue \o Halted \o <<State(b)>>
    BY <1>1
  <2>2. State(b) \in Notice
    BY DEF State, Notice
  <2>3. <<State(b)>> \in Seq(Notice) /\ queue \o Halted \in Seq(Notice)
    BY <2>2, Notices DEF QueueOK
  <2> HIDE DEF Halted
  <2> QED
    BY <2>1, <2>3 DEF QueueOK
<1>2. CASE queue' = queue \o Halted
  BY <1>2, Notices DEF QueueOK
<1>3. CASE UNCHANGED queue \/ \E e \in Notice : Emit(e)
  BY <1>3 DEF QueueOK, Emit
<1>4. CASE queue # <<>> /\ queue' = Tail(queue)
  BY <1>4 DEF QueueOK
<1> QED
  BY <1>1, <1>2, <1>3, <1>4

LEMMA GJobKeeps ==
  ASSUME SwitchOK, NEW j \in GJob,
         \/ UNCHANGED gjob
         \/ gjob' = [gjob EXCEPT ![j] = NoGJob]
         \/ \E p \in Steps : To(j, p)
         \/ \E ok \in BOOLEAN : gjob' = [gjob EXCEPT ![j].pc = "report", ![j].ok = ok]
  PROVE  gjob' \in [GJob -> GatewayJob]
<1>1. gjob[j] \in GatewayJob
  BY DEF SwitchOK
<1>2. CASE gjob' = [gjob EXCEPT ![j] = NoGJob]
  BY <1>2, NoGJobIsOne DEF SwitchOK
<1>3. ASSUME NEW p \in Steps, To(j, p)
      PROVE  gjob' \in [GJob -> GatewayJob]
  <2>1. [gjob[j] EXCEPT !.pc = p] \in GatewayJob
    BY <1>1 DEF GatewayJob
  <2> QED
    BY <1>3, <2>1 DEF SwitchOK, To
<1>4. ASSUME NEW ok \in BOOLEAN, gjob' = [gjob EXCEPT ![j].pc = "report", ![j].ok = ok]
      PROVE  gjob' \in [GJob -> GatewayJob]
  <2>1. [gjob[j] EXCEPT !.pc = "report", !.ok = ok] \in GatewayJob
    BY <1>1 DEF GatewayJob, Steps
  <2>2. gjob' = [gjob EXCEPT ![j] = [gjob[j] EXCEPT !.pc = "report", !.ok = ok]]
    BY <1>4
  <2> QED
    BY <2>1, <2>2 DEF SwitchOK
<1> QED
  BY <1>2, <1>3, <1>4 DEF SwitchOK

LEMMA CarryKeeps == ASSUME SInv, NEW j \in GJob, Carry(j) PROVE SInv'
<1> USE DEF SInv, Steps
<1>1. UNCHANGED <<engine, switch, conn, hand, late, gfresh, revived, acts>>
  BY DEF Carry
<1>2. gateway' \in BOOLEAN /\ gateLock' \in {0} \cup GJob
  BY DEF Carry, PartsOK, Begin, Enable, StartWorks, StartFails, Commit, Check, AfterEnable, Disable,
         AfterDisable, Tell, Ends, Outcome
<1>3. QueueOK'
  <2>1. \/ UNCHANGED queue
        \/ Emit(Runtime(TRUE)) \/ Emit(Runtime(FALSE)) \/ Emit([kind |-> "applied", job |-> j])
        \/ queue' = queue \o Halted
    BY DEF Carry, Begin, Enable, StartWorks, StartFails, Commit, Check, AfterEnable, Disable,
           AfterDisable, Tell
  <2> QED
    BY <2>1, QueueKeeps, Notices
<1>4. gjob' \in [GJob -> GatewayJob]
  <2>1. gateway \in BOOLEAN /\ (~gateway) \in BOOLEAN
    BY DEF PartsOK
  <2>2. \/ UNCHANGED gjob
        \/ gjob' = [gjob EXCEPT ![j] = NoGJob]
        \/ \E p \in Steps : To(j, p)
        \/ \E ok \in BOOLEAN : gjob' = [gjob EXCEPT ![j].pc = "report", ![j].ok = ok]
    BY <2>1 DEF Carry, Begin, Enable, StartWorks, StartFails, Commit, Check, AfterEnable, Disable,
           AfterDisable, Tell, Ends, Outcome
  <2> QED
    BY <2>2, GJobKeeps
<1> QED
  BY <1>1, <1>2, <1>3, <1>4 DEF PartsOK, ActsOK, ConnOK, SwitchOK

LEMMA SwitchStates ==
  ASSUME NEW s \in SwitchState
  PROVE  /\ Dropped(s) \in SwitchState /\ Cleared(s) \in SwitchState
         /\ \A b \in BOOLEAN : [s EXCEPT !.toggle = b] \in SwitchState
         /\ \A b \in BOOLEAN : [s EXCEPT !.requested = b, !.toggle = b] \in SwitchState
         /\ [s EXCEPT !.target = "none"] \in SwitchState
         /\ \A k \in {"on", "off"}, j \in GJob, b \in BOOLEAN :
              [s EXCEPT !.target = k, !.job = j, !.toggle = b] \in SwitchState
<1>1. Dropped(s) \in SwitchState
  BY DEF Dropped, SwitchState
<1>2. Cleared(s) \in SwitchState
  BY <1>1 DEF Cleared, SwitchState
<1> QED
  BY <1>1, <1>2 DEF SwitchState

LEMMA LaunchKeeps ==
  ASSUME SwitchOK, NEW s \in SwitchState, NEW k \in {"on", "off"}, NEW user \in BOOLEAN,
         NEW f \in SUBSET GJob, Launch(s, k, user, f)
  PROVE  SwitchOK'
<1>1. PICK j \in GJob :
        /\ gjob' = [gjob EXCEPT ![j] = [NoGJob EXCEPT !.kind = k, !.user = user, !.pc = "begin"]]
        /\ switch' = [s EXCEPT !.target = k, !.job = j, !.toggle = (k = "on")]
        /\ gfresh' = f \cup {j}
  BY DEF Launch
<1>2. [NoGJob EXCEPT !.kind = k, !.user = user, !.pc = "begin"] \in GatewayJob
  BY NoGJobIsOne DEF GatewayJob, Steps
<1>3. (k = "on") \in BOOLEAN
  OBVIOUS
<1>4. switch' \in SwitchState
  BY <1>1, <1>3, SwitchStates
<1> QED
  BY <1>1, <1>2, <1>4 DEF SwitchOK

LEMMA ResetKeeps ==
  ASSUME SwitchOK, NEW s \in SwitchState, NEW user \in BOOLEAN, NEW active \in BOOLEAN,
         NEW f \in SUBSET GJob, ResetWith(s, user, active, f)
  PROVE  SwitchOK'
<1>1. Cleared(s) \in SwitchState
  BY SwitchStates
<1>2. CASE Launch(Cleared(s), "off", user, f)
  BY <1>1, <1>2, LaunchKeeps
<1>3. CASE switch' = Cleared(s) /\ gfresh' = f /\ UNCHANGED gjob
  BY <1>1, <1>3 DEF SwitchOK
<1> QED
  BY <1>2, <1>3 DEF ResetWith

LEMMA QueueOnKeeps ==
  ASSUME SwitchOK, NEW s \in SwitchState, QueueOn(s)
  PROVE  SwitchOK'
<1>1. CASE Launch(s, "on", TRUE, gfresh)
  BY <1>1, LaunchKeeps DEF SwitchOK
<1>2. CASE switch' = s /\ UNCHANGED <<gjob, gfresh>>
  BY <1>2 DEF SwitchOK
<1> QED
  BY <1>1, <1>2 DEF QueueOn

LEMMA Connections ==
  ASSUME ConnOK
  PROVE  /\ \A b \in BOOLEAN : [conn EXCEPT !.shown = b, !.connecting = FALSE] \in Connection
         /\ [conn EXCEPT !.connecting = FALSE] \in Connection
         /\ [conn EXCEPT !.connecting = TRUE, !.worker = "working"] \in Connection
         /\ [conn EXCEPT !.shown = FALSE, !.connecting = FALSE, !.worker = "none"] \in Connection
         /\ \A w \in {"none", "working", "up"} : [conn EXCEPT !.worker = w] \in Connection
         /\ [conn EXCEPT !.closing = TRUE] \in Connection
BY DEF ConnOK, Connection

-----------------------------------------------------------------------------
(* The switch of the gateway: connection and user *)

LEMMA EngineKeeps ==
  ASSUME SInv, ConnectWorker \/ Lost \/ Offline
  PROVE  SInv'
<1> USE DEF SInv
<1>1. CASE ConnectWorker
  <2>1. ConnOK'
    BY <1>1, Connections DEF ConnectWorker, ConnOK
  <2>2. QueueOK'
    <3>1. \/ queue' = queue \o Halted
          \/ Emit(State(TRUE))
          \/ queue' = queue \o Halted \o <<State(FALSE)>>
      BY <1>1 DEF ConnectWorker
    <3> QED
      BY <3>1, QueueKeeps, Notices
  <2> QED
    BY <1>1, <2>1, <2>2 DEF ConnectWorker, PartsOK, ActsOK, SwitchOK
<1>2. CASE Lost
  <2>1. ActsOK'
    BY <1>2, ActsLeft DEF Lost
  <2>2. QueueOK'
    <3>1. UNCHANGED queue \/ queue' = queue \o Halted \o <<State(FALSE)>>
      BY <1>2 DEF Lost
    <3> QED
      BY <3>1, QueueKeeps, Notices
  <2> QED
    BY <1>2, <2>1, <2>2 DEF Lost, PartsOK, ConnOK, SwitchOK
<1>3. CASE Offline
  <2>1. ActsOK'
    BY <1>3, ActsLeft DEF Offline
  <2>2. QueueOK'
    BY <1>3, QueueKeeps, Notices DEF Offline
  <2> QED
    BY <1>3, <2>1, <2>2 DEF Offline, PartsOK, ConnOK, SwitchOK
<1> QED
  BY <1>1, <1>2, <1>3

LEMMA ShowStateKeeps ==
  ASSUME PartsOK, ConnOK, SwitchOK, NEW on \in BOOLEAN, ShowState(on)
  PROVE  ConnOK' /\ SwitchOK' /\ late' \in BOOLEAN
<1> DEFINE r == on /\ engine = "up"
<1>1. conn' = [conn EXCEPT !.shown = r, !.connecting = FALSE] /\ r \in BOOLEAN
  BY DEF ShowState
<1>2. CASE r
  <2>1. UNCHANGED <<switch, gjob, gfresh>> /\ late' = (late \/ (switch.requested /\ ~gateway))
    BY <1>2 DEF ShowState
  <2>2. (late \/ (switch.requested /\ ~gateway)) \in BOOLEAN
    BY DEF PartsOK
  <2> QED
    BY <1>1, <2>1, <2>2, Connections DEF ConnOK, SwitchOK
<1>3. CASE ~r
  <2>1. Reset(switch, FALSE) /\ UNCHANGED late
    BY <1>3 DEF ShowState
  <2>2. SwitchOK'
    BY <2>1, ResetKeeps DEF Reset, SwitchOK, PartsOK
  <2>3. [conn EXCEPT !.shown = r, !.connecting = FALSE] \in Connection
    <3> HIDE DEF r
    <3> QED
      BY <1>1, Connections
  <2> QED
    BY <1>1, <2>1, <2>2, <2>3 DEF ConnOK, PartsOK
<1> QED
  BY <1>2, <1>3

LEMMA BeginAttemptKeeps ==
  ASSUME PartsOK, ConnOK, BeginAttempt
  PROVE  ConnOK' /\ revived' \in BOOLEAN
BY Connections DEF BeginAttempt, ConnOK, PartsOK

LEMMA ToggleConnectionKeeps == ASSUME SInv, ToggleConnection PROVE SInv'
<1> USE DEF SInv
<1>1. ActsOK' /\ QueueOK'
  BY ActsLeft DEF ToggleConnection, QueueOK
<1>2. CASE Connecting
  <2>1. Reset(switch, FALSE) /\ conn' = [conn EXCEPT !.connecting = FALSE]
    BY <1>2 DEF ToggleConnection
  <2>2. SwitchOK'
    BY <2>1, ResetKeeps DEF Reset, SwitchOK, PartsOK
  <2>3. ConnOK'
    BY <2>1, Connections DEF ConnOK
  <2> QED
    BY <1>1, <1>2, <2>2, <2>3 DEF ToggleConnection, PartsOK
<1>3. CASE ~Connecting
  <2>1. ConnOK' /\ revived' \in BOOLEAN
    BY <1>3, BeginAttemptKeeps DEF ToggleConnection
  <2> QED
    BY <1>1, <1>3, <2>1 DEF ToggleConnection, PartsOK, SwitchOK
<1> QED
  BY <1>2, <1>3

LEMMA StopEngineKeeps == ASSUME SInv, StopEngine PROVE SInv'
<1> USE DEF SInv
<1> DEFINE s == IF gateway /\ switch.target = "none" THEN Cleared(switch) ELSE switch
<1>1. s \in SwitchState
  BY SwitchStates DEF SwitchOK
<1>2. ResetWith(s, FALSE, FALSE, {})
  BY DEF StopEngine
<1>3. SwitchOK'
  <2> HIDE DEF s
  <2>1. {} \in SUBSET GJob /\ FALSE \in BOOLEAN
    OBVIOUS
  <2> QED
    BY <1>1, <1>2, <2>1, ResetKeeps
<1>4. ConnOK'
  BY Connections DEF StopEngine, ConnOK
<1> QED
  BY <1>3, <1>4 DEF StopEngine, PartsOK, ActsOK, QueueOK

LEMMA ClickGatewayKeeps == ASSUME SInv, ClickGateway PROVE SInv'
<1> USE DEF SInv
<1> DEFINE s == [Dropped(switch) EXCEPT !.requested = TRUE, !.toggle = TRUE]
           o == [switch EXCEPT !.toggle = FALSE]
<1>1. s \in SwitchState /\ o \in SwitchState
  BY SwitchStates DEF SwitchOK
<1>2. ActsOK' /\ QueueOK'
  BY ActsLeft DEF ClickGateway, QueueOK
<1>3. gateway \in BOOLEAN /\ gfresh \in SUBSET GJob
  BY DEF PartsOK, SwitchOK
<1>4. SwitchOK'
  <2>1. \/ Reset(o, TRUE) \/ QueueOn(s) \/ Reset(s, FALSE)
        \/ switch' = s /\ UNCHANGED <<gjob, gfresh>>
    BY DEF ClickGateway
  <2> HIDE DEF s, o
  <2>2. CASE Reset(o, TRUE) \/ Reset(s, FALSE)
    BY <1>1, <1>3, <2>2, ResetKeeps DEF Reset
  <2>3. CASE QueueOn(s)
    BY <1>1, <2>3, QueueOnKeeps
  <2>4. CASE switch' = s /\ UNCHANGED <<gjob, gfresh>>
    BY <1>1, <2>4 DEF SwitchOK
  <2> QED
    BY <2>1, <2>2, <2>3, <2>4
<1>5. ConnOK' /\ revived' \in BOOLEAN /\ hand' \in {hand, "stop"}
  <2>1. UNCHANGED <<conn, revived>> \/ BeginAttempt
    BY DEF ClickGateway
  <2>2. hand' \in {hand, "stop"}
    BY DEF ClickGateway
  <2> QED
    BY <2>1, <2>2, BeginAttemptKeeps DEF ConnOK, PartsOK
<1> QED
  BY <1>2, <1>4, <1>5 DEF ClickGateway, PartsOK

LEMMA AppliedKeeps ==
  ASSUME SwitchOK, NEW j \in GJob, Applied(j)
  PROVE  switch' \in SwitchState
<1>1. /\ switch \in SwitchState /\ Cleared(switch) \in SwitchState
      /\ [switch EXCEPT !.target = "none"] \in SwitchState
  BY SwitchStates DEF SwitchOK
<1>2. Cleared([switch EXCEPT !.target = "none"]) \in SwitchState
  BY <1>1, SwitchStates
<1>3. [[switch EXCEPT !.target = "none"] EXCEPT !.requested = TRUE, !.toggle = TRUE] \in SwitchState
  BY <1>1, SwitchStates
<1> QED
  BY <1>1, <1>2, <1>3 DEF Applied

LEMMA HandleKeeps == ASSUME SInv, Handle PROVE SInv'
<1> USE DEF SInv
<1> DEFINE e == Head(queue)
<1>1. e \in Notice /\ QueueOK'
  BY DEF Handle, QueueOK
<1>2. UNCHANGED <<engine, gateway, hand, gateLock, revived, acts>>
  BY DEF Handle
<1>3. ConnOK' /\ SwitchOK' /\ late' \in BOOLEAN
  <2>1. CASE e.kind = "state"
    <3>1. e.on \in BOOLEAN /\ ShowState(e.on)
      BY <1>1, <2>1 DEF Handle, Notice
    <3> HIDE DEF e
    <3> QED
      BY <3>1, ShowStateKeeps
  <2>2. CASE e.kind = "runtime"
    <3>1. e.on \in BOOLEAN /\ RuntimeChanged(e.on) /\ UNCHANGED <<conn, late, gjob, gfresh>>
      BY <1>1, <2>2 DEF Handle, Notice
    <3>2. switch \in SwitchState /\ (switch.toggle \/ switch.requested) \in BOOLEAN
      BY DEF SwitchOK, SwitchState
    <3>3. switch' \in SwitchState
      <4>1. \/ switch' = [switch EXCEPT !.toggle = switch.toggle \/ switch.requested]
            \/ switch' = Cleared(switch) \/ switch' = switch
        BY <3>1 DEF RuntimeChanged
      <4> QED
        BY <3>2, <4>1, SwitchStates
    <3> QED
      BY <3>1, <3>3 DEF ConnOK, SwitchOK, PartsOK
  <2>3. CASE e.kind = "applied"
    <3>1. e.job \in GJob /\ Applied(e.job) /\ gjob' = [gjob EXCEPT ![e.job] = NoGJob]
          /\ UNCHANGED <<conn, late, gfresh>>
      BY <1>1, <2>3 DEF Handle, Notice
    <3> HIDE DEF e
    <3>2. gjob' \in [GJob -> GatewayJob]
      BY <3>1, GJobKeeps
    <3> QED
      BY <3>1, <3>2, AppliedKeeps DEF ConnOK, SwitchOK, PartsOK
  <2>4. e.kind \in {"state", "runtime", "applied"}
    BY <1>1 DEF Notice
  <2> QED
    BY <2>1, <2>2, <2>3, <2>4
<1> QED
  BY <1>1, <1>2, <1>3 DEF PartsOK, ActsOK

LEMMA RestKeeps == ASSUME SInv, LateTimer \/ QuitGateway PROVE SInv'
<1> USE DEF SInv
<1>1. CASE LateTimer
  <2>1. SwitchOK'
    BY <1>1, QueueOnKeeps DEF LateTimer, SwitchOK
  <2> QED
    BY <1>1, <2>1 DEF LateTimer, PartsOK, ActsOK, ConnOK, QueueOK
<1>2. CASE QuitGateway
  <2>1. SwitchOK'
    BY <1>2, SwitchStates DEF QuitGateway, SwitchOK
  <2>2. ConnOK'
    BY <1>2, Connections DEF QuitGateway, ConnOK
  <2> QED
    BY <1>2, <2>1, <2>2 DEF QuitGateway, PartsOK, ActsOK, QueueOK
<1> QED
  BY <1>1, <1>2

LEMMA SNextInv == ASSUME SInv, [SNext]_gvars PROVE SInv'
<1>1. CASE UNCHANGED gvars
  BY <1>1 DEF gvars, SInv, PartsOK, ActsOK, ConnOK, SwitchOK, QueueOK
<1> QED
  BY <1>1, EngineKeeps, ToggleConnectionKeeps, StopEngineKeeps, ClickGatewayKeeps, HandleKeeps,
     RestKeeps, CarryKeeps DEF SNext

-----------------------------------------------------------------------------
(* The application *)

AInv == CInv /\ SInv /\ IInv /\ CountsOK

LEMMA AInitInv == AInit => AInv
<1>1. AInit => CInit /\ SInit /\ OInit
  BY DEF AInit
<1>2. OInit => CountsOK
  BY ProcessAssumption DEF OInit, CountsOK
<1> QED
  BY <1>1, <1>2, CInitInv, SInitInv, InitInv DEF AInv

LEMMA ANextInv == ASSUME AInv, [ANext]_avars PROVE AInv'
<1>1. [CNext]_cvars /\ [SNext]_gvars /\ [ONext]_ovars
  BY DEF ANext, avars
<1> QED
  BY <1>1, CNextInv, SNextInv, NextInv, NextCounts DEF AInv

\* Every handler, thread, job and process step of the application keeps every variable
\* in its range: no signal names a job that is not one, no thread tries once more than
\* it has configurations, no lock is held by nobody's thread.
THEOREM ApplicationTypes == ASpec => []AppTypeOK
<1>1. AInit => AInv
  BY AInitInv
<1>2. AInv /\ [ANext]_avars => AInv'
  BY ANextInv
<1>3. AInv => AppTypeOK
  BY CInvIsTyped, SInvIsTyped, InvIsTyped DEF AInv, AppTypeOK
<1> QED
  BY <1>1, <1>2, <1>3, PTL DEF ASpec

\* Whatever is done in the window and to the connection, and whichever of its parts a
\* behaviour of the application follows: when nothing is under way and nothing in Mishaps
\* happened, the window shows a connection exactly when the engine runs, with TUN and the
\* proxy of Windows as its two switches say; after shutdown nothing of it runs.
THEOREM WindowShows == ASpec => []ShownIsSo
<1>1. AInit => CInv /\ Steady /\ Excused
  BY CInitInv, SteadyInit, ExcusedInit DEF AInit
<1>2. [ANext]_avars => [CNext]_cvars
  BY DEF ANext, avars
<1>3. CInv /\ Steady /\ Excused /\ [ANext]_avars => (CInv /\ Steady /\ Excused)'
  BY <1>2, CNextInv, SteadyNext, ExcusedNext
<1>4. CInv /\ Steady /\ Excused => ShownIsSo
  BY ShownIsSoFollows
<1> QED
  BY <1>1, <1>3, <1>4, PTL DEF ASpec

\* What the engine does about processes holds in the application as well, whichever of
\* its parts a behaviour follows.
THEOREM ApplicationProcesses == ASpec => []ProcessesAreOurs
<1>1. AInit => AInv
  BY AInitInv
<1>2. AInv /\ [ANext]_avars => AInv'
  BY ANextInv
<1>3. AInv => ProcessesAreOurs
  BY InvIsOurs DEF AInv
<1> QED
  BY <1>1, <1>2, <1>3, PTL DEF ASpec

-----------------------------------------------------------------------------
(* The switch of the gateway: what the queue holds *)

Has(x) == In(queue, x)
AppliedBy(j) == [kind |-> "applied", job |-> j]
LastOn == LastIs(queue, State(TRUE), State(FALSE))

LEMMA DifferentNotices ==
  /\ State(TRUE) # State(FALSE) /\ Runtime(TRUE) # Runtime(FALSE)
  /\ \A b, c \in BOOLEAN : State(b) # Runtime(c)
  /\ \A b \in BOOLEAN, j \in GJob : State(b) # AppliedBy(j) /\ Runtime(b) # AppliedBy(j)
  /\ \A i, j \in GJob : i # j => AppliedBy(i) # AppliedBy(j)
  /\ \A b \in BOOLEAN : State(b) \in Notice /\ Runtime(b) \in Notice
  /\ \A j \in GJob : AppliedBy(j) \in Notice
<1>1. State(TRUE) # State(FALSE) /\ Runtime(TRUE) # Runtime(FALSE)
  BY DEF State, Runtime
<1>2. /\ \A b \in BOOLEAN : State(b).kind = "state" /\ Runtime(b).kind = "runtime"
      /\ \A j \in GJob : AppliedBy(j).kind = "applied" /\ AppliedBy(j).job = j
  BY DEF State, Runtime, AppliedBy
<1>3. /\ \A b \in BOOLEAN : State(b) \in Notice /\ Runtime(b) \in Notice
      /\ \A j \in GJob : AppliedBy(j) \in Notice
  BY DEF State, Runtime, AppliedBy, Notice
<1> QED
  BY <1>1, <1>2, <1>3

LEMMA Nowhere == ASSUME NEW q, NEW x, ~In(q, x) PROVE \A y : NoneAfter(q, x, y) /\ NoneAfter(q, y, x)
BY DEF In, NoneAfter

LEMMA Emitting ==
  ASSUME QueueOK, NEW e \in Notice, Emit(e)
  PROVE  /\ \A x : In(queue', x) <=> Has(x) \/ x = e
         /\ e # State(FALSE) /\ LastOn => LastOn'
         /\ e = State(TRUE) => LastOn'
         /\ \A x : e # Runtime(FALSE) /\ NoneAfter(queue, x, Runtime(FALSE))
                     => NoneAfter(queue', x, Runtime(FALSE))
         /\ \A x : (e # x \/ ~Has(x)) /\ NoneAfter(queue, x, x) => NoneAfter(queue', x, x)
<1>1. queue' = Append(queue, e) /\ queue \in Seq(Notice)
  BY DEF Emit, QueueOK
<1>2. /\ \A x : In(queue', x) <=> In(queue, x) \/ x = e
      /\ \A x, y : NoneAfter(queue', x, y) <=> NoneAfter(queue, x, y) /\ ~(e = y /\ In(queue, x))
      /\ \A x, y : e # y /\ LastIs(queue, x, y) => LastIs(queue', x, y)
      /\ \A y : LastIs(queue', e, y)
  BY <1>1, Appending
<1> QED
  BY <1>2 DEF Has, LastOn

LEMMA AppendIsConcat == ASSUME NEW q \in Seq(Notice), NEW e \in Notice PROVE q \o <<e>> = Append(q, e)
OBVIOUS

LEMMA HaltedIs ==
  /\ gateway => queue \o Halted = queue \o <<Runtime(FALSE)>>
  /\ ~gateway => queue \o Halted = queue \o <<>>
BY DEF Halted

LEMMA NoticesAppend ==
  ASSUME NEW q \in Seq(Notice), NEW e \in Notice, NEW r, r = Append(q, e)
  PROVE  /\ \A x : In(r, x) <=> In(q, x) \/ x = e
         /\ \A x, y : NoneAfter(r, x, y) <=> NoneAfter(q, x, y) /\ ~(e = y /\ In(q, x))
BY Appending

LEMMA HaltingWith ==
  ASSUME QueueOK, NEW b \in BOOLEAN, queue' = queue \o Halted \o <<State(b)>>
  PROVE  /\ \A x : In(queue', x) <=> Has(x) \/ (gateway /\ x = Runtime(FALSE)) \/ x = State(b)
         /\ \A j \in GJob : NoneAfter(queue, AppliedBy(j), AppliedBy(j))
                              => NoneAfter(queue', AppliedBy(j), AppliedBy(j))
<1> DEFINE q == queue \o Halted
<1>1. q \in Seq(Notice) /\ State(b) \in Notice
  BY Notices, DifferentNotices DEF QueueOK
<1>2. queue' = Append(q, State(b))
  <2> HIDE DEF q
  <2>1. q \o <<State(b)>> = Append(q, State(b))
    BY <1>1
  <2> QED
    BY <2>1 DEF q
<1>3. /\ \A x : In(q, x) <=> Has(x) \/ (gateway /\ x = Runtime(FALSE))
      /\ \A j \in GJob : NoneAfter(queue, AppliedBy(j), AppliedBy(j)) => NoneAfter(q, AppliedBy(j), AppliedBy(j))
  <2>1. CASE gateway
    <3>1. q = Append(queue, Runtime(FALSE)) /\ Runtime(FALSE) \in Notice
      BY <2>1, HaltedIs, AppendIsConcat, DifferentNotices DEF QueueOK
    <3>2. /\ \A x : In(q, x) <=> In(queue, x) \/ x = Runtime(FALSE)
          /\ \A x, y : NoneAfter(q, x, y) <=> NoneAfter(queue, x, y) /\ ~(Runtime(FALSE) = y /\ In(queue, x))
      <4> DEFINE e == Runtime(FALSE)
      <4>1. queue \in Seq(Notice) /\ e \in Notice /\ q = Append(queue, e)
        BY <3>1 DEF QueueOK
      <4> HIDE DEF q, e
      <4>2. /\ \A x : In(q, x) <=> In(queue, x) \/ x = e
            /\ \A x, y : NoneAfter(q, x, y) <=> NoneAfter(queue, x, y) /\ ~(e = y /\ In(queue, x))
        BY <4>1, Appending
      <4> QED
        BY <4>2 DEF e
    <3> HIDE DEF q
    <3> QED
      BY <2>1, <3>2, DifferentNotices DEF Has
  <2>2. CASE ~gateway
    <3>1. q = queue
      BY <2>2 DEF Halted, QueueOK
    <3> HIDE DEF q
    <3> QED
      BY <2>2, <3>1 DEF Has
  <2> QED
    BY <2>1, <2>2
<1> HIDE DEF q
<1>4. /\ \A x : In(queue', x) <=> In(q, x) \/ x = State(b)
      /\ \A x, y : NoneAfter(queue', x, y) <=> NoneAfter(q, x, y) /\ ~(State(b) = y /\ In(q, x))
  BY <1>1, <1>2, NoticesAppend
<1> QED
  BY <1>3, <1>4, DifferentNotices

-----------------------------------------------------------------------------
(* The switch of the gateway: what is always so.  The switch says what the user  *)
(* asked for; where the gateway says something else, something is still pending  *)
(* that makes them agree: a job, a signal, a timer, the attempt or the log       *)
(* reader of the dead engine.                                                    *)

Live(j) == gjob[j] # NoGJob
Holding == {"enable", "start", "commit", "check", "after", "disable", "off"}

JobShapes ==
  \A j \in GJob :
    /\ gjob[j].pc = "idle" => gjob[j] = NoGJob
    /\ gjob[j].pc # "idle" => gjob[j].kind # "none"
    /\ gjob[j].pc \in {"enable", "start", "commit", "check", "after"} => gjob[j].kind = "on"
    /\ gjob[j].pc \in {"disable", "off"} => gjob[j].kind = "off"
Locks == \A j \in GJob : gjob[j].pc \in Holding <=> gateLock = j

\* A job that supersedes the one with the lock has not begun.
OneAtATime ==
  gateLock # 0 /\ switch.job \notin {0, gateLock} => gjob[switch.job].pc = "begin"

Flags ==
  /\ switch.toggle = switch.requested
  /\ switch.target = "on" => switch.requested
  /\ switch.target = "off" => ~switch.requested
  /\ hand # "idle" => ~switch.requested
  /\ conn.closing => hand \notin {"idle", "stop"}
Serves ==
  /\ switch.job # 0 /\ Live(switch.job) => switch.target = gjob[switch.job].kind
  /\ switch.target # "none" => switch.job # 0
  /\ switch.target = "off" => Live(switch.job)

\* A gateway belongs to the present run, and so does the job that is the latest.
OfThisRun ==
  /\ hand = "gone" => engine = "off"
  /\ gateway \/ ~NotStarting => engine # "off" /\ switch.job \in gfresh \cup {0}
  /\ \A j \in GJob :
       /\ gjob[j].pc \in {"start", "commit"} => ~gateway /\ j \in gfresh
       /\ gjob[j].pc \in {"check", "after"} /\ gateway => j \in gfresh
       /\ gjob[j].pc = "off" => ~gateway
\* What the latest job is about to report is still so.
Outcomes ==
  switch.job # 0 /\ gjob[switch.job].pc \in {"report", "reported"} =>
    (gjob[switch.job].kind = "off" \/ ~gjob[switch.job].ok => ~gateway)

WorkerStarts == conn.worker = "working" => engine = "off" \/ revived
ConnectingEnds ==
  conn.connecting /\ hand # "gone" => conn.worker # "none" \/ Has(State(TRUE)) \/ Has(State(FALSE))
ShownEnds == conn.shown /\ engine = "off" /\ hand # "gone" => Has(State(FALSE))
UpIsShown ==
  engine = "up" /\ conn.worker = "none" => (conn.shown /\ ~Has(State(FALSE))) \/ LastOn

\* An ON job that has given up, or will, is followed by a reset.
GivesUp ==
  switch.target = "on" /\ ~revived /\ (~CurrentOn(switch.job) \/ ~Live(switch.job))
    => Has(State(FALSE)) \/ engine = "dead"

\* A gateway nobody asks for is about to be stopped.
Undoing == \E i \in GJob : gjob[i].pc \in {"check", "after"}
Unasked ==
  gateway /\ ~switch.requested /\ hand = "idle" =>
    Undoing \/ (switch.target = "off" /\ gjob[switch.job].pc \in {"begin", "disable"})

\* A request without a job and without a gateway waits for something.
Waits ==
  switch.requested /\ ~gateway /\ switch.target = "none" =>
    \/ Has(Runtime(FALSE)) \/ Has(State(FALSE)) \/ Has(State(TRUE))
    \/ engine = "dead" \/ late \/ conn.worker # "none"
WaitsForRun ==
  switch.requested /\ engine = "off" => Has(State(FALSE)) \/ Has(State(TRUE)) \/ conn.worker # "none"

\* No signal of an earlier stop is taken for one of the gateway that runs.
NoStaleStop ==
  hand = "idle" /\ gateway /\ switch.target = "none" /\ ~Undoing => ~Has(Runtime(FALSE))
StopsAreOlder ==
  gateway /\ switch.target = "on" /\ gjob[switch.job].pc = "reported" =>
    NoneAfter(queue, AppliedBy(switch.job), Runtime(FALSE))
Answers ==
  \A j \in GJob :
    /\ gjob[j].pc = "reported" <=> Has(AppliedBy(j))
    /\ NoneAfter(queue, AppliedBy(j), AppliedBy(j))

JInv == JobShapes /\ Locks /\ OneAtATime /\ Serves /\ OfThisRun /\ Outcomes /\ Answers
NInv == WorkerStarts /\ ConnectingEnds /\ ShownEnds /\ UpIsShown
QInv == Unasked /\ Waits /\ WaitsForRun /\ NoStaleStop /\ StopsAreOlder /\ GivesUp
WInv == SInv /\ Flags /\ JInv /\ NInv /\ QInv

LEMMA WInitInv == SInit => WInv
<1> SUFFICES ASSUME SInit PROVE WInv
  OBVIOUS
<1>1. \A j \in GJob : gjob[j] = NoGJob /\ NoGJob.pc = "idle" /\ j # 0
  BY SwitchAssumption DEF SInit, NoGJob, GJob
<1>2. \A x : ~Has(x)
  BY DEF SInit, Has, In
<1>3. JInv
  BY <1>1, <1>2, Nowhere DEF JInv, JobShapes, Locks, OneAtATime, Serves, OfThisRun, Outcomes, Answers,
     SInit, Holding, NotStarting, Has
<1>4. NInv
  BY DEF SInit, NInv, WorkerStarts, ConnectingEnds, ShownEnds, UpIsShown
<1>5. QInv
  BY DEF SInit, QInv, Unasked, Waits, WaitsForRun, NoStaleStop, StopsAreOlder, GivesUp
<1>6. Flags
  BY DEF SInit, Flags
<1> QED
  BY <1>3, <1>4, <1>5, <1>6, SInitInv DEF WInv

LEMMA InvIsSo == WInv => SwitchIsSo
<1> SUFFICES ASSUME WInv PROVE SwitchIsSo
  OBVIOUS
<1>1. hand = "gone" => ~gateway
  BY DEF WInv, JInv, OfThisRun
<1>2. ASSUME Settled, ~revived
      PROVE  /\ gateway = switch.requested /\ gateway = switch.toggle
             /\ switch.target = "none"
             /\ gateway => engine = "up" /\ conn.shown
  <2>1. ~LastOn /\ \A x : ~Has(x)
    BY <1>2 DEF Settled, Has, In, LastOn, LastIs
  <2>2. \A j \in GJob : ~Live(j) /\ gjob[j].pc = "idle"
    BY <1>2 DEF Settled, Live, NoGJob
  <2>3. /\ hand = "idle" /\ engine \in {"off", "up"} /\ conn.worker = "none" /\ ~late
        /\ switch \in SwitchState /\ gateway \in BOOLEAN
    BY <1>2 DEF Settled, WInv, SInv, PartsOK, SwitchOK
  <2>4. switch.target = "none"
    <3>1. switch.target # "none" => switch.job \in GJob
      BY <2>3 DEF WInv, JInv, Serves, SwitchState
    <3>2. switch.target # "off"
      BY <2>2, <3>1 DEF WInv, JInv, Serves
    <3>3. switch.target # "on"
      BY <1>2, <2>1, <2>2, <2>3, <3>1 DEF WInv, QInv, GivesUp
    <3> QED
      BY <2>3, <3>2, <3>3 DEF SwitchState
  <2>5. ~Undoing
    BY <2>2 DEF Undoing
  <2>6. gateway => switch.requested
    BY <2>3, <2>4, <2>5 DEF WInv, QInv, Unasked
  <2>7. switch.requested => gateway
    BY <2>1, <2>3, <2>4 DEF WInv, QInv, Waits
  <2>8. switch.requested \in BOOLEAN /\ switch.toggle = switch.requested
    BY <2>3 DEF SwitchState, WInv, Flags
  <2>9. gateway => engine = "up" /\ conn.shown
    BY <2>1, <2>3 DEF WInv, JInv, OfThisRun, NInv, UpIsShown
  <2> QED
    BY <2>3, <2>4, <2>6, <2>7, <2>8, <2>9
<1> QED
  BY <1>1, <1>2 DEF SwitchIsSo

-----------------------------------------------------------------------------
(* The switch of the gateway: the jobs *)

LEMMA JobMoves ==
  ASSUME SwitchOK, NEW j \in GJob, NEW p \in Steps \ {"idle"}, NEW ok \in BOOLEAN,
         \/ To(j, p) /\ ok = gjob[j].ok
         \/ p = "report" /\ Outcome(j, ok)
  PROVE  /\ \A i \in GJob : i # j => gjob'[i] = gjob[i]
         /\ gjob'[j].pc = p /\ gjob'[j].kind = gjob[j].kind /\ gjob'[j].ok = ok
         /\ gjob'[j] # NoGJob
<1>1. gjob[j] \in GatewayJob /\ gjob \in [GJob -> GatewayJob]
  BY DEF SwitchOK
<1>2. \A i \in GJob : i # j => gjob'[i] = gjob[i]
  BY <1>1 DEF To, Outcome
<1>3. gjob'[j].pc = p /\ gjob'[j].kind = gjob[j].kind /\ gjob'[j].ok = ok
  BY <1>1 DEF To, Outcome, GatewayJob
<1>4. gjob'[j] # NoGJob
  BY <1>3 DEF NoGJob
<1> QED
  BY <1>2, <1>3, <1>4

LEMMA JobLeaves ==
  ASSUME SwitchOK, NEW j \in GJob, gjob' = [gjob EXCEPT ![j] = NoGJob]
  PROVE  /\ \A i \in GJob : i # j => gjob'[i] = gjob[i]
         /\ gjob'[j] = NoGJob /\ gjob'[j].pc = "idle" /\ gjob'[j].kind = "none"
BY DEF SwitchOK, NoGJob

CarryLeaves == UNCHANGED <<engine, switch, conn, hand, late, gfresh, revived>>

\* What the queue holds after each kind of signal.
NoticesAs(stop, off, on) ==
  /\ In(queue', Runtime(FALSE)) <=> Has(Runtime(FALSE)) \/ stop
  /\ In(queue', State(FALSE)) <=> Has(State(FALSE)) \/ off
  /\ In(queue', State(TRUE)) <=> Has(State(TRUE)) \/ on
  /\ LastOn /\ ~off => LastOn'
  /\ \A i \in GJob : ~stop /\ NoneAfter(queue, AppliedBy(i), Runtime(FALSE))
                     => NoneAfter(queue', AppliedBy(i), Runtime(FALSE))
SameAnswers ==
  \A i \in GJob : /\ In(queue', AppliedBy(i)) <=> Has(AppliedBy(i))
                  /\ NoneAfter(queue, AppliedBy(i), AppliedBy(i)) => NoneAfter(queue', AppliedBy(i), AppliedBy(i))

LEMMA SayNothing == ASSUME UNCHANGED queue PROVE NoticesAs(FALSE, FALSE, FALSE) /\ SameAnswers
BY DEF Has, LastOn, NoticesAs, SameAnswers

LEMMA SayRuntime ==
  ASSUME QueueOK, NEW b \in BOOLEAN, Emit(Runtime(b))
  PROVE  NoticesAs(~b, FALSE, FALSE) /\ SameAnswers
<1>1. /\ \A x : In(queue', x) <=> Has(x) \/ x = Runtime(b)
      /\ LastOn => LastOn'
      /\ \A x : b /\ NoneAfter(queue, x, Runtime(FALSE)) => NoneAfter(queue', x, Runtime(FALSE))
      /\ \A x : Runtime(b) # x /\ NoneAfter(queue, x, x) => NoneAfter(queue', x, x)
  BY Emitting, DifferentNotices
<1> QED
  BY <1>1, DifferentNotices DEF NoticesAs, SameAnswers

LEMMA SayState ==
  ASSUME QueueOK, NEW b \in BOOLEAN, Emit(State(b))
  PROVE  /\ NoticesAs(FALSE, ~b, b) /\ SameAnswers
         /\ b => LastOn'
<1>1. /\ \A x : In(queue', x) <=> Has(x) \/ x = State(b)
      /\ b => LastOn'
      /\ \A x : NoneAfter(queue, x, Runtime(FALSE)) => NoneAfter(queue', x, Runtime(FALSE))
      /\ \A x : State(b) # x /\ NoneAfter(queue, x, x) => NoneAfter(queue', x, x)
  BY Emitting, DifferentNotices
<1> QED
  BY <1>1, DifferentNotices DEF NoticesAs, SameAnswers

LEMMA SayHalted ==
  ASSUME QueueOK, queue' = queue \o Halted
  PROVE  NoticesAs(gateway, FALSE, FALSE) /\ SameAnswers
<1>1. CASE gateway
  <2>1. queue' = Append(queue, Runtime(FALSE))
    BY <1>1, HaltedIs, AppendIsConcat, DifferentNotices DEF QueueOK
  <2> QED
    BY <1>1, <2>1, SayRuntime DEF Emit, NoticesAs
<1>2. CASE ~gateway
  <2>1. queue' = queue
    BY <1>2, HaltedIs DEF QueueOK
  <2> QED
    BY <1>2, <2>1, SayNothing DEF NoticesAs
<1> QED
  BY <1>1, <1>2

LEMMA SayHaltedOff ==
  ASSUME QueueOK, queue' = queue \o Halted \o <<State(FALSE)>>
  PROVE  /\ \A x \in {Runtime(FALSE), State(TRUE)} : Has(x) => In(queue', x)
         /\ In(queue', State(FALSE)) /\ (gateway => In(queue', Runtime(FALSE)))
         /\ SameAnswers
<1>1. /\ \A x : In(queue', x) <=> Has(x) \/ (gateway /\ x = Runtime(FALSE)) \/ x = State(FALSE)
      /\ \A j \in GJob : NoneAfter(queue, AppliedBy(j), AppliedBy(j))
                           => NoneAfter(queue', AppliedBy(j), AppliedBy(j))
  BY HaltingWith
<1> QED
  BY <1>1, DifferentNotices DEF SameAnswers

LEMMA SayApplied ==
  ASSUME QueueOK, NEW j \in GJob, Emit(AppliedBy(j)), ~Has(AppliedBy(j))
  PROVE  /\ NoticesAs(FALSE, FALSE, FALSE)
         /\ \A i \in GJob : In(queue', AppliedBy(i)) <=> Has(AppliedBy(i)) \/ i = j
         /\ \A i \in GJob : NoneAfter(queue, AppliedBy(i), AppliedBy(i))
                               => NoneAfter(queue', AppliedBy(i), AppliedBy(i))
         /\ NoneAfter(queue', AppliedBy(j), Runtime(FALSE))
<1>1. /\ \A x : In(queue', x) <=> Has(x) \/ x = AppliedBy(j)
      /\ LastOn => LastOn'
      /\ \A x : NoneAfter(queue, x, Runtime(FALSE)) => NoneAfter(queue', x, Runtime(FALSE))
      /\ \A x : (AppliedBy(j) # x \/ ~Has(x)) /\ NoneAfter(queue, x, x) => NoneAfter(queue', x, x)
  BY Emitting, DifferentNotices
<1>2. NoneAfter(queue, AppliedBy(j), Runtime(FALSE))
  BY Nowhere DEF Has
<1> QED
  BY <1>1, <1>2, DifferentNotices DEF NoticesAs

LEMMA Known ==
  ASSUME WInv
  PROVE  /\ 0 \notin GJob /\ SwitchOK /\ QueueOK /\ switch.job \in GJob \cup {0}
         /\ switch.target \in {"none", "on", "off"} /\ gateway \in BOOLEAN
         /\ switch.target # "none" => switch.job \in GJob
         /\ \A j \in GJob : gjob[j].ok \in BOOLEAN /\ gjob[j].kind \in {"none", "on", "off"}
         /\ Flags /\ JobShapes /\ Locks /\ OneAtATime /\ Serves /\ OfThisRun /\ Outcomes /\ Answers
         /\ WorkerStarts /\ ConnectingEnds /\ ShownEnds /\ UpIsShown
         /\ Unasked /\ Waits /\ WaitsForRun /\ NoStaleStop /\ StopsAreOlder /\ GivesUp
<1>1. 0 \notin GJob
  BY SwitchAssumption DEF GJob
<1>2. SwitchOK /\ QueueOK /\ gateway \in BOOLEAN
  BY DEF WInv, SInv, PartsOK
<1>3. \A j \in GJob : gjob[j].ok \in BOOLEAN /\ gjob[j].kind \in {"none", "on", "off"}
  BY <1>2 DEF SwitchOK, GatewayJob
<1>4. switch.job \in GJob \cup {0} /\ switch.target \in {"none", "on", "off"}
  BY <1>2 DEF SwitchOK, SwitchState
<1>5. switch.target # "none" => switch.job \in GJob
  BY <1>4 DEF WInv, JInv, Serves
<1> QED
  BY <1>1, <1>2, <1>3, <1>4, <1>5 DEF WInv, JInv, NInv, QInv

\* What is shown does not depend on the jobs.
LEMMA CarryKeepsShown ==
  ASSUME WInv, NEW stop \in BOOLEAN, CarryLeaves, NoticesAs(stop, FALSE, FALSE)
  PROVE  Flags' /\ NInv' /\ WaitsForRun'
<1>1. Flags /\ WorkerStarts /\ ConnectingEnds /\ ShownEnds /\ UpIsShown /\ WaitsForRun
  BY Known
<1>2. Flags' /\ WorkerStarts'
  BY <1>1 DEF CarryLeaves, Flags, WorkerStarts
<1>3. ConnectingEnds' /\ ShownEnds' /\ WaitsForRun'
  BY <1>1 DEF CarryLeaves, ConnectingEnds, ShownEnds, WaitsForRun, NoticesAs, Has
<1>4. UpIsShown'
  BY <1>1 DEF CarryLeaves, UpIsShown, NoticesAs, Has
<1> QED
  BY <1>2, <1>3, <1>4 DEF NInv

LEMMA BeginKeeps ==
  ASSUME WInv, NEW j \in GJob, CarryLeaves, Begin(j)
  PROVE  Flags' /\ JInv' /\ NInv' /\ QInv'
<1>1. /\ 0 \notin GJob /\ SwitchOK /\ QueueOK /\ switch.job \in GJob \cup {0}
      /\ switch.target \in {"none", "on", "off"} /\ gateway \in BOOLEAN
      /\ switch.target # "none" => switch.job \in GJob
      /\ \A i \in GJob : gjob[i].ok \in BOOLEAN /\ gjob[i].kind \in {"none", "on", "off"}
      /\ Flags /\ JobShapes /\ Locks /\ OneAtATime /\ Serves /\ OfThisRun /\ Outcomes /\ Answers
      /\ WorkerStarts /\ ConnectingEnds /\ ShownEnds /\ UpIsShown
      /\ Unasked /\ Waits /\ WaitsForRun /\ NoStaleStop /\ StopsAreOlder /\ GivesUp
  BY Known
<1>2. /\ gjob[j].pc = "begin" /\ gjob[j] # NoGJob /\ gjob[j].kind # "none" /\ gateLock = 0
      /\ UNCHANGED <<gateway, queue>>
  BY <1>1 DEF Begin, NoGJob, JobShapes
<1>3. CASE To(j, "enable") /\ gjob[j].kind = "on" /\ CurrentOn(j) /\ gateLock' = j
  <2>1. /\ \A i \in GJob : i # j => gjob'[i] = gjob[i]
        /\ gjob'[j].pc = "enable" /\ gjob'[j].kind = "on" /\ gjob'[j] # NoGJob
    BY <1>1, <1>2, <1>3, JobMoves DEF Steps
  <2>2. NoticesAs(FALSE, FALSE, FALSE) /\ SameAnswers
    BY <1>1, <1>2, <1>3, SayNothing DEF Begin, Answers, AppliedBy
  <2>3. Flags' /\ NInv' /\ WaitsForRun'
    BY <1>1, <2>2, CarryKeepsShown
  <2>4. JobShapes'
    BY <1>1, <1>2, <1>3, <2>1, <2>2 DEF CarryLeaves, JobShapes, CurrentOn
  <2>5. Locks'
    BY <1>1, <1>2, <1>3, <2>1, <2>2 DEF CarryLeaves, Locks, Holding, CurrentOn
  <2>6. OneAtATime'
    BY <1>1, <1>2, <1>3, <2>1, <2>2 DEF CarryLeaves, OneAtATime, Locks, Holding, CurrentOn
  <2>7. Serves'
    BY <1>1, <1>2, <1>3, <2>1, <2>2 DEF CarryLeaves, Serves, Live, CurrentOn
  <2>8. OfThisRun'
    BY <1>1, <1>2, <1>3, <2>1, <2>2 DEF CarryLeaves, OfThisRun, NotStarting, Locks, Holding,
       CurrentOn
  <2>9. Outcomes'
    BY <1>1, <1>2, <1>3, <2>1, <2>2 DEF CarryLeaves, Outcomes, OneAtATime, Locks, Holding,
       CurrentOn
  <2>10. Answers'
    BY <1>1, <1>2, <1>3, <2>1, <2>2 DEF CarryLeaves, Answers, Has, NoticesAs, SameAnswers,
       CurrentOn
  <2>11. Unasked'
    BY <1>1, <1>2, <1>3, <2>1, <2>2 DEF CarryLeaves, Unasked, Undoing, CurrentOn
  <2>12. Waits'
    BY <1>1, <1>2, <1>3, <2>1, <2>2 DEF CarryLeaves, Waits, Has, NoticesAs, SameAnswers, CurrentOn
  <2>13. NoStaleStop'
    BY <1>1, <1>2, <1>3, <2>1, <2>2 DEF CarryLeaves, NoStaleStop, Undoing, Has, NoticesAs,
       SameAnswers, CurrentOn
  <2>14. StopsAreOlder'
    BY <1>1, <1>2, <1>3, <2>1, <2>2 DEF CarryLeaves, StopsAreOlder, NoticesAs, SameAnswers,
       CurrentOn
  <2>15. GivesUp'
    BY <1>1, <1>2, <1>3, <2>1, <2>2 DEF CarryLeaves, GivesUp, CurrentOn, Live, Has, NoticesAs,
       SameAnswers
  <2> QED
    BY <2>3, <2>4, <2>5, <2>6, <2>7, <2>8, <2>9, <2>10, <2>11, <2>12, <2>13, <2>14,
     <2>15 DEF JInv, QInv
<1>4. CASE To(j, "disable") /\ gjob[j].kind = "off" /\ CurrentOff(j) /\ gateLock' = j
  <2>1. /\ \A i \in GJob : i # j => gjob'[i] = gjob[i]
        /\ gjob'[j].pc = "disable" /\ gjob'[j].kind = "off" /\ gjob'[j] # NoGJob
    BY <1>1, <1>2, <1>4, JobMoves DEF Steps
  <2>2. NoticesAs(FALSE, FALSE, FALSE) /\ SameAnswers
    BY <1>1, <1>2, <1>4, SayNothing DEF Begin, Answers, AppliedBy
  <2>3. Flags' /\ NInv' /\ WaitsForRun'
    BY <1>1, <2>2, CarryKeepsShown
  <2>4. JobShapes'
    BY <1>1, <1>2, <1>4, <2>1, <2>2 DEF CarryLeaves, JobShapes, CurrentOff
  <2>5. Locks'
    BY <1>1, <1>2, <1>4, <2>1, <2>2 DEF CarryLeaves, Locks, Holding, CurrentOff
  <2>6. OneAtATime'
    BY <1>1, <1>2, <1>4, <2>1, <2>2 DEF CarryLeaves, OneAtATime, Locks, Holding, CurrentOff
  <2>7. Serves'
    BY <1>1, <1>2, <1>4, <2>1, <2>2 DEF CarryLeaves, Serves, Live, CurrentOff
  <2>8. OfThisRun'
    BY <1>1, <1>2, <1>4, <2>1, <2>2 DEF CarryLeaves, OfThisRun, NotStarting, Locks, Holding,
       CurrentOff
  <2>9. Outcomes'
    BY <1>1, <1>2, <1>4, <2>1, <2>2 DEF CarryLeaves, Outcomes, OneAtATime, Locks, Holding,
       CurrentOff
  <2>10. Answers'
    BY <1>1, <1>2, <1>4, <2>1, <2>2 DEF CarryLeaves, Answers, Has, NoticesAs, SameAnswers,
       CurrentOff
  <2>11. Unasked'
    BY <1>1, <1>2, <1>4, <2>1, <2>2 DEF CarryLeaves, Unasked, Undoing, CurrentOff
  <2>12. Waits'
    BY <1>1, <1>2, <1>4, <2>1, <2>2 DEF CarryLeaves, Waits, Has, NoticesAs, SameAnswers,
       CurrentOff
  <2>13. NoStaleStop'
    BY <1>1, <1>2, <1>4, <2>1, <2>2 DEF CarryLeaves, NoStaleStop, Undoing, Has, NoticesAs,
       SameAnswers, CurrentOff
  <2>14. StopsAreOlder'
    BY <1>1, <1>2, <1>4, <2>1, <2>2 DEF CarryLeaves, StopsAreOlder, NoticesAs, SameAnswers,
       CurrentOff
  <2>15. GivesUp'
    BY <1>1, <1>2, <1>4, <2>1, <2>2 DEF CarryLeaves, GivesUp, CurrentOn, Live, Has, NoticesAs,
       SameAnswers, CurrentOff
  <2> QED
    BY <2>3, <2>4, <2>5, <2>6, <2>7, <2>8, <2>9, <2>10, <2>11, <2>12, <2>13, <2>14,
     <2>15 DEF JInv, QInv
<1>5. CASE Ends(j) /\ (gjob[j].kind = "on" => ~CurrentOn(j)) /\ (gjob[j].kind = "off" => ~CurrentOff(j))
  <2>1. /\ \A i \in GJob : i # j => gjob'[i] = gjob[i]
        /\ gjob'[j] = NoGJob /\ gjob'[j].pc = "idle" /\ gjob'[j].kind = "none" /\ gateLock' = 0
    BY <1>1, <1>2, <1>5, JobLeaves DEF Ends
  <2>2. NoticesAs(FALSE, FALSE, FALSE) /\ SameAnswers
    BY <1>1, <1>2, <1>5, SayNothing DEF Begin, Answers, AppliedBy
  <2>3. Flags' /\ NInv' /\ WaitsForRun'
    BY <1>1, <2>2, CarryKeepsShown
  <2>4. JobShapes'
    BY <1>1, <1>2, <1>5, <2>1, <2>2 DEF CarryLeaves, JobShapes, CurrentOn, CurrentOff, Serves,
       Live
  <2>5. Locks'
    BY <1>1, <1>2, <1>5, <2>1, <2>2 DEF CarryLeaves, Locks, Holding, CurrentOn, CurrentOff,
       Serves, Live, JobShapes
  <2>6. OneAtATime'
    BY <1>1, <1>2, <1>5, <2>1, <2>2 DEF CarryLeaves, OneAtATime, Locks, Holding, CurrentOn,
       CurrentOff, Serves, Live, JobShapes
  <2>7. Serves'
    BY <1>1, <1>2, <1>5, <2>1, <2>2 DEF CarryLeaves, Serves, Live, CurrentOn, CurrentOff,
       JobShapes
  <2>8. OfThisRun'
    BY <1>1, <1>2, <1>5, <2>1, <2>2 DEF CarryLeaves, OfThisRun, NotStarting, Locks, Holding,
       CurrentOn, CurrentOff, Serves, Live, JobShapes
  <2>9. Outcomes'
    BY <1>1, <1>2, <1>5, <2>1, <2>2 DEF CarryLeaves, Outcomes, OneAtATime, Locks, Holding,
       CurrentOn, CurrentOff, Serves, Live, JobShapes
  <2>10. Answers'
    BY <1>1, <1>2, <1>5, <2>1, <2>2 DEF CarryLeaves, Answers, Has, NoticesAs, SameAnswers,
       CurrentOn, CurrentOff, Serves, Live, JobShapes
  <2>11. Unasked'
    BY <1>1, <1>2, <1>5, <2>1, <2>2 DEF CarryLeaves, Unasked, Undoing, CurrentOn, CurrentOff,
       Serves, Live, JobShapes
  <2>12. Waits'
    BY <1>1, <1>2, <1>5, <2>1, <2>2 DEF CarryLeaves, Waits, Has, NoticesAs, SameAnswers,
       CurrentOn, CurrentOff, Serves, Live, JobShapes
  <2>13. NoStaleStop'
    BY <1>1, <1>2, <1>5, <2>1, <2>2 DEF CarryLeaves, NoStaleStop, Undoing, Has, NoticesAs,
       SameAnswers, CurrentOn, CurrentOff, Serves, Live, JobShapes
  <2>14. StopsAreOlder'
    BY <1>1, <1>2, <1>5, <2>1, <2>2 DEF CarryLeaves, StopsAreOlder, NoticesAs, SameAnswers,
       CurrentOn, CurrentOff, Serves, Live, JobShapes
  <2>15. GivesUp'
    BY <1>1, <1>2, <1>5, <2>1, <2>2 DEF CarryLeaves, GivesUp, CurrentOn, Live, Has, NoticesAs,
       SameAnswers, CurrentOff, Serves, JobShapes
  <2> QED
    BY <2>3, <2>4, <2>5, <2>6, <2>7, <2>8, <2>9, <2>10, <2>11, <2>12, <2>13, <2>14,
     <2>15 DEF JInv, QInv
<1> QED
  BY <1>1, <1>2, <1>3, <1>4, <1>5 DEF Begin

LEMMA EnableKeeps ==
  ASSUME WInv, NEW j \in GJob, CarryLeaves, Enable(j)
  PROVE  Flags' /\ JInv' /\ NInv' /\ QInv'
<1>1. /\ 0 \notin GJob /\ SwitchOK /\ QueueOK /\ switch.job \in GJob \cup {0}
      /\ switch.target \in {"none", "on", "off"} /\ gateway \in BOOLEAN
      /\ switch.target # "none" => switch.job \in GJob
      /\ \A i \in GJob : gjob[i].ok \in BOOLEAN /\ gjob[i].kind \in {"none", "on", "off"}
      /\ Flags /\ JobShapes /\ Locks /\ OneAtATime /\ Serves /\ OfThisRun /\ Outcomes /\ Answers
      /\ WorkerStarts /\ ConnectingEnds /\ ShownEnds /\ UpIsShown
      /\ Unasked /\ Waits /\ WaitsForRun /\ NoStaleStop /\ StopsAreOlder /\ GivesUp
  BY Known
<1>2. /\ gjob[j].pc = "enable" /\ gjob[j].kind = "on" /\ hand # "gone"
      /\ UNCHANGED <<gateway, queue>>
      /\ gjob[j] # NoGJob /\ gateLock = j
  <2>1. /\ gjob[j].pc = "enable" /\ gjob[j].kind = "on" /\ hand # "gone"
        /\ UNCHANGED <<gateway, queue>>
    BY DEF Enable, JobIs, Living
  <2>2. gjob[j] # NoGJob /\ gateLock = j
    BY <1>1, <2>1 DEF NoGJob, Locks, Holding, OfThisRun
  <2> QED
    BY <2>1, <2>2
<1>3. CASE To(j, "start") /\ UNCHANGED gateLock /\ j \in gfresh /\ switch.job = j /\ engine = "up" /\ ~gateway
  <2>1. /\ \A i \in GJob : i # j => gjob'[i] = gjob[i]
        /\ gjob'[j].pc = "start" /\ gjob'[j].kind = "on" /\ gjob'[j] # NoGJob
    BY <1>1, <1>2, <1>3, JobMoves DEF Steps
  <2>2. NoticesAs(FALSE, FALSE, FALSE) /\ SameAnswers
    BY <1>1, <1>2, <1>3, SayNothing DEF Enable, Answers, AppliedBy
  <2>3. Flags' /\ NInv' /\ WaitsForRun'
    BY <1>1, <2>2, CarryKeepsShown
  <2>4. JobShapes'
    BY <1>1, <1>2, <1>3, <2>1, <2>2 DEF CarryLeaves, JobShapes
  <2>5. Locks'
    BY <1>1, <1>2, <1>3, <2>1, <2>2 DEF CarryLeaves, Locks, Holding
  <2>6. OneAtATime'
    BY <1>1, <1>2, <1>3, <2>1, <2>2 DEF CarryLeaves, OneAtATime, Locks, Holding
  <2>7. Serves'
    BY <1>1, <1>2, <1>3, <2>1, <2>2 DEF CarryLeaves, Serves, Live
  <2>8. OfThisRun'
    BY <1>1, <1>2, <1>3, <2>1, <2>2 DEF CarryLeaves, OfThisRun, NotStarting, Locks, Holding
  <2>9. Outcomes'
    BY <1>1, <1>2, <1>3, <2>1, <2>2 DEF CarryLeaves, Outcomes, OneAtATime, Locks, Holding
  <2>10. Answers'
    BY <1>1, <1>2, <1>3, <2>1, <2>2 DEF CarryLeaves, Answers, Has, NoticesAs, SameAnswers
  <2>11. Unasked'
    BY <1>1, <1>2, <1>3, <2>1, <2>2 DEF CarryLeaves, Unasked, Undoing
  <2>12. Waits'
    BY <1>1, <1>2, <1>3, <2>1, <2>2 DEF CarryLeaves, Waits, Has, NoticesAs, SameAnswers
  <2>13. NoStaleStop'
    BY <1>1, <1>2, <1>3, <2>1, <2>2 DEF CarryLeaves, NoStaleStop, Undoing, Has, NoticesAs,
       SameAnswers
  <2>14. StopsAreOlder'
    BY <1>1, <1>2, <1>3, <2>1, <2>2 DEF CarryLeaves, StopsAreOlder, NoticesAs, SameAnswers
  <2>15. GivesUp'
    BY <1>1, <1>2, <1>3, <2>1, <2>2 DEF CarryLeaves, GivesUp, CurrentOn, Live, Has, NoticesAs,
       SameAnswers
  <2> QED
    BY <2>3, <2>4, <2>5, <2>6, <2>7, <2>8, <2>9, <2>10, <2>11, <2>12, <2>13, <2>14,
     <2>15 DEF JInv, QInv
<1>4. CASE Outcome(j, gateway)
  <2>1. /\ \A i \in GJob : i # j => gjob'[i] = gjob[i]
        /\ gjob'[j].pc = "report" /\ gjob'[j].kind = "on" /\ gjob'[j] # NoGJob /\ gjob'[j].ok = gateway
        /\ gateLock' = 0
    BY <1>1, <1>2, <1>4, JobMoves DEF Steps, Outcome
  <2>2. NoticesAs(FALSE, FALSE, FALSE) /\ SameAnswers
    BY <1>1, <1>2, <1>4, SayNothing DEF Enable, Answers, AppliedBy
  <2>3. Flags' /\ NInv' /\ WaitsForRun'
    BY <1>1, <2>2, CarryKeepsShown
  <2>4. JobShapes'
    BY <1>1, <1>2, <1>4, <2>1, <2>2 DEF CarryLeaves, JobShapes
  <2>5. Locks'
    BY <1>1, <1>2, <1>4, <2>1, <2>2 DEF CarryLeaves, Locks, Holding
  <2>6. OneAtATime'
    BY <1>1, <1>2, <1>4, <2>1, <2>2 DEF CarryLeaves, OneAtATime, Locks, Holding
  <2>7. Serves'
    BY <1>1, <1>2, <1>4, <2>1, <2>2 DEF CarryLeaves, Serves, Live
  <2>8. OfThisRun'
    BY <1>1, <1>2, <1>4, <2>1, <2>2 DEF CarryLeaves, OfThisRun, NotStarting, Locks, Holding
  <2>9. Outcomes'
    BY <1>1, <1>2, <1>4, <2>1, <2>2 DEF CarryLeaves, Outcomes, OneAtATime, Locks, Holding
  <2>10. Answers'
    BY <1>1, <1>2, <1>4, <2>1, <2>2 DEF CarryLeaves, Answers, Has, NoticesAs, SameAnswers
  <2>11. Unasked'
    BY <1>1, <1>2, <1>4, <2>1, <2>2 DEF CarryLeaves, Unasked, Undoing
  <2>12. Waits'
    BY <1>1, <1>2, <1>4, <2>1, <2>2 DEF CarryLeaves, Waits, Has, NoticesAs, SameAnswers
  <2>13. NoStaleStop'
    BY <1>1, <1>2, <1>4, <2>1, <2>2 DEF CarryLeaves, NoStaleStop, Undoing, Has, NoticesAs,
       SameAnswers
  <2>14. StopsAreOlder'
    BY <1>1, <1>2, <1>4, <2>1, <2>2 DEF CarryLeaves, StopsAreOlder, NoticesAs, SameAnswers
  <2>15. GivesUp'
    BY <1>1, <1>2, <1>4, <2>1, <2>2 DEF CarryLeaves, GivesUp, CurrentOn, Live, Has, NoticesAs,
       SameAnswers
  <2> QED
    BY <2>3, <2>4, <2>5, <2>6, <2>7, <2>8, <2>9, <2>10, <2>11, <2>12, <2>13, <2>14,
     <2>15 DEF JInv, QInv
<1> QED
  BY <1>1, <1>2, <1>3, <1>4 DEF Enable

LEMMA StartWorksKeeps ==
  ASSUME WInv, NEW j \in GJob, CarryLeaves, StartWorks(j)
  PROVE  Flags' /\ JInv' /\ NInv' /\ QInv'
<1>1. /\ 0 \notin GJob /\ SwitchOK /\ QueueOK /\ switch.job \in GJob \cup {0}
      /\ switch.target \in {"none", "on", "off"} /\ gateway \in BOOLEAN
      /\ switch.target # "none" => switch.job \in GJob
      /\ \A i \in GJob : gjob[i].ok \in BOOLEAN /\ gjob[i].kind \in {"none", "on", "off"}
      /\ Flags /\ JobShapes /\ Locks /\ OneAtATime /\ Serves /\ OfThisRun /\ Outcomes /\ Answers
      /\ WorkerStarts /\ ConnectingEnds /\ ShownEnds /\ UpIsShown
      /\ Unasked /\ Waits /\ WaitsForRun /\ NoStaleStop /\ StopsAreOlder /\ GivesUp
  BY Known
<1>2. /\ gjob[j].pc = "start" /\ gjob[j].kind = "on" /\ hand # "gone"
      /\ switch.job = j /\ UNCHANGED <<gateway, queue, gateLock>>
      /\ gjob[j] # NoGJob /\ gateLock = j
  <2>1. /\ gjob[j].pc = "start" /\ gjob[j].kind = "on" /\ hand # "gone"
        /\ switch.job = j /\ UNCHANGED <<gateway, queue, gateLock>>
    BY DEF StartWorks, JobIs, Living
  <2>2. gjob[j] # NoGJob /\ gateLock = j
    BY <1>1, <2>1 DEF NoGJob, Locks, Holding, OfThisRun
  <2> QED
    BY <2>1, <2>2
<1>3. CASE To(j, "commit")
  <2>1. /\ \A i \in GJob : i # j => gjob'[i] = gjob[i]
        /\ gjob'[j].pc = "commit" /\ gjob'[j].kind = "on" /\ gjob'[j] # NoGJob
    BY <1>1, <1>2, <1>3, JobMoves DEF Steps
  <2>2. NoticesAs(FALSE, FALSE, FALSE) /\ SameAnswers
    BY <1>1, <1>2, <1>3, SayNothing DEF StartWorks, Answers, AppliedBy
  <2>3. Flags' /\ NInv' /\ WaitsForRun'
    BY <1>1, <2>2, CarryKeepsShown
  <2>4. JobShapes'
    BY <1>1, <1>2, <1>3, <2>1, <2>2 DEF CarryLeaves, JobShapes
  <2>5. Locks'
    BY <1>1, <1>2, <1>3, <2>1, <2>2 DEF CarryLeaves, Locks, Holding
  <2>6. OneAtATime'
    BY <1>1, <1>2, <1>3, <2>1, <2>2 DEF CarryLeaves, OneAtATime, Locks, Holding
  <2>7. Serves'
    BY <1>1, <1>2, <1>3, <2>1, <2>2 DEF CarryLeaves, Serves, Live
  <2>8. OfThisRun'
    BY <1>1, <1>2, <1>3, <2>1, <2>2 DEF CarryLeaves, OfThisRun, NotStarting, Locks, Holding
  <2>9. Outcomes'
    BY <1>1, <1>2, <1>3, <2>1, <2>2 DEF CarryLeaves, Outcomes, OneAtATime, Locks, Holding
  <2>10. Answers'
    BY <1>1, <1>2, <1>3, <2>1, <2>2 DEF CarryLeaves, Answers, Has, NoticesAs, SameAnswers
  <2>11. Unasked'
    BY <1>1, <1>2, <1>3, <2>1, <2>2 DEF CarryLeaves, Unasked, Undoing
  <2>12. Waits'
    BY <1>1, <1>2, <1>3, <2>1, <2>2 DEF CarryLeaves, Waits, Has, NoticesAs, SameAnswers
  <2>13. NoStaleStop'
    BY <1>1, <1>2, <1>3, <2>1, <2>2 DEF CarryLeaves, NoStaleStop, Undoing, Has, NoticesAs,
       SameAnswers
  <2>14. StopsAreOlder'
    BY <1>1, <1>2, <1>3, <2>1, <2>2 DEF CarryLeaves, StopsAreOlder, NoticesAs, SameAnswers
  <2>15. GivesUp'
    BY <1>1, <1>2, <1>3, <2>1, <2>2 DEF CarryLeaves, GivesUp, CurrentOn, Live, Has, NoticesAs,
       SameAnswers
  <2> QED
    BY <2>3, <2>4, <2>5, <2>6, <2>7, <2>8, <2>9, <2>10, <2>11, <2>12, <2>13, <2>14,
     <2>15 DEF JInv, QInv
<1> QED
  BY <1>1, <1>2, <1>3 DEF StartWorks

LEMMA StartFailsKeeps ==
  ASSUME WInv, NEW j \in GJob, CarryLeaves, StartFails(j)
  PROVE  Flags' /\ JInv' /\ NInv' /\ QInv'
<1>1. /\ 0 \notin GJob /\ SwitchOK /\ QueueOK /\ switch.job \in GJob \cup {0}
      /\ switch.target \in {"none", "on", "off"} /\ gateway \in BOOLEAN
      /\ switch.target # "none" => switch.job \in GJob
      /\ \A i \in GJob : gjob[i].ok \in BOOLEAN /\ gjob[i].kind \in {"none", "on", "off"}
      /\ Flags /\ JobShapes /\ Locks /\ OneAtATime /\ Serves /\ OfThisRun /\ Outcomes /\ Answers
      /\ WorkerStarts /\ ConnectingEnds /\ ShownEnds /\ UpIsShown
      /\ Unasked /\ Waits /\ WaitsForRun /\ NoStaleStop /\ StopsAreOlder /\ GivesUp
  BY Known
<1>2. /\ gjob[j].pc = "start" /\ gjob[j].kind = "on" /\ hand # "gone"
      /\ UNCHANGED gateway /\ Emit(Runtime(FALSE))
      /\ gjob[j] # NoGJob /\ gateLock = j /\ ~gateway
  <2>1. /\ gjob[j].pc = "start" /\ gjob[j].kind = "on" /\ hand # "gone"
        /\ UNCHANGED gateway /\ Emit(Runtime(FALSE))
    BY DEF StartFails, JobIs, Living
  <2>2. gjob[j] # NoGJob /\ gateLock = j /\ ~gateway
    BY <1>1, <2>1 DEF NoGJob, Locks, Holding, OfThisRun
  <2> QED
    BY <2>1, <2>2
<1>3. CASE Outcome(j, FALSE)
  <2>1. /\ \A i \in GJob : i # j => gjob'[i] = gjob[i]
        /\ gjob'[j].pc = "report" /\ gjob'[j].kind = "on" /\ gjob'[j] # NoGJob /\ gjob'[j].ok = FALSE
        /\ gateLock' = 0
    BY <1>1, <1>2, <1>3, JobMoves DEF Steps, Outcome
  <2>2. NoticesAs(TRUE, FALSE, FALSE) /\ SameAnswers
    BY <1>1, <1>2, <1>3, SayRuntime DEF StartFails, Answers, AppliedBy
  <2>3. Flags' /\ NInv' /\ WaitsForRun'
    BY <1>1, <2>2, CarryKeepsShown
  <2>4. JobShapes'
    BY <1>1, <1>2, <1>3, <2>1, <2>2 DEF CarryLeaves, JobShapes
  <2>5. Locks'
    BY <1>1, <1>2, <1>3, <2>1, <2>2 DEF CarryLeaves, Locks, Holding
  <2>6. OneAtATime'
    BY <1>1, <1>2, <1>3, <2>1, <2>2 DEF CarryLeaves, OneAtATime, Locks, Holding
  <2>7. Serves'
    BY <1>1, <1>2, <1>3, <2>1, <2>2 DEF CarryLeaves, Serves, Live
  <2>8. OfThisRun'
    BY <1>1, <1>2, <1>3, <2>1, <2>2 DEF CarryLeaves, OfThisRun, NotStarting, Locks, Holding
  <2>9. Outcomes'
    BY <1>1, <1>2, <1>3, <2>1, <2>2 DEF CarryLeaves, Outcomes, OneAtATime, Locks, Holding
  <2>10. Answers'
    BY <1>1, <1>2, <1>3, <2>1, <2>2 DEF CarryLeaves, Answers, Has, NoticesAs, SameAnswers
  <2>11. Unasked'
    BY <1>1, <1>2, <1>3, <2>1, <2>2 DEF CarryLeaves, Unasked, Undoing
  <2>12. Waits'
    BY <1>1, <1>2, <1>3, <2>1, <2>2 DEF CarryLeaves, Waits, Has, NoticesAs, SameAnswers
  <2>13. NoStaleStop'
    BY <1>1, <1>2, <1>3, <2>1, <2>2 DEF CarryLeaves, NoStaleStop, Undoing, Has, NoticesAs,
       SameAnswers
  <2>14. StopsAreOlder'
    BY <1>1, <1>2, <1>3, <2>1, <2>2 DEF CarryLeaves, StopsAreOlder, NoticesAs, SameAnswers
  <2>15. GivesUp'
    BY <1>1, <1>2, <1>3, <2>1, <2>2 DEF CarryLeaves, GivesUp, CurrentOn, Live, Has, NoticesAs,
       SameAnswers
  <2> QED
    BY <2>3, <2>4, <2>5, <2>6, <2>7, <2>8, <2>9, <2>10, <2>11, <2>12, <2>13, <2>14,
     <2>15 DEF JInv, QInv
<1> QED
  BY <1>1, <1>2, <1>3 DEF StartFails

LEMMA CommitKeeps ==
  ASSUME WInv, NEW j \in GJob, CarryLeaves, Commit(j)
  PROVE  Flags' /\ JInv' /\ NInv' /\ QInv'
<1>1. /\ 0 \notin GJob /\ SwitchOK /\ QueueOK /\ switch.job \in GJob \cup {0}
      /\ switch.target \in {"none", "on", "off"} /\ gateway \in BOOLEAN
      /\ switch.target # "none" => switch.job \in GJob
      /\ \A i \in GJob : gjob[i].ok \in BOOLEAN /\ gjob[i].kind \in {"none", "on", "off"}
      /\ Flags /\ JobShapes /\ Locks /\ OneAtATime /\ Serves /\ OfThisRun /\ Outcomes /\ Answers
      /\ WorkerStarts /\ ConnectingEnds /\ ShownEnds /\ UpIsShown
      /\ Unasked /\ Waits /\ WaitsForRun /\ NoStaleStop /\ StopsAreOlder /\ GivesUp
  BY Known
<1>2. /\ gjob[j].pc = "commit" /\ gjob[j].kind = "on" /\ hand # "gone"
      /\ gateway' /\ UNCHANGED gateLock /\ Emit(Runtime(TRUE))
      /\ gjob[j] # NoGJob /\ gateLock = j /\ ~gateway
  <2>1. /\ gjob[j].pc = "commit" /\ gjob[j].kind = "on" /\ hand # "gone"
        /\ gateway' /\ UNCHANGED gateLock /\ Emit(Runtime(TRUE))
    BY DEF Commit, JobIs, Living
  <2>2. gjob[j] # NoGJob /\ gateLock = j /\ ~gateway
    BY <1>1, <2>1 DEF NoGJob, Locks, Holding, OfThisRun
  <2> QED
    BY <2>1, <2>2
<1>3. CASE To(j, "check")
  <2>1. /\ \A i \in GJob : i # j => gjob'[i] = gjob[i]
        /\ gjob'[j].pc = "check" /\ gjob'[j].kind = "on" /\ gjob'[j] # NoGJob
    BY <1>1, <1>2, <1>3, JobMoves DEF Steps
  <2>2. NoticesAs(FALSE, FALSE, FALSE) /\ SameAnswers
    BY <1>1, <1>2, <1>3, SayRuntime DEF Commit, Answers, AppliedBy
  <2>3. Flags' /\ NInv' /\ WaitsForRun'
    BY <1>1, <2>2, CarryKeepsShown
  <2>4. JobShapes'
    BY <1>1, <1>2, <1>3, <2>1, <2>2 DEF CarryLeaves, JobShapes
  <2>5. Locks'
    BY <1>1, <1>2, <1>3, <2>1, <2>2 DEF CarryLeaves, Locks, Holding
  <2>6. OneAtATime'
    BY <1>1, <1>2, <1>3, <2>1, <2>2 DEF CarryLeaves, OneAtATime, Locks, Holding
  <2>7. Serves'
    BY <1>1, <1>2, <1>3, <2>1, <2>2 DEF CarryLeaves, Serves, Live
  <2>8. OfThisRun'
    BY <1>1, <1>2, <1>3, <2>1, <2>2 DEF CarryLeaves, OfThisRun, NotStarting, Locks, Holding
  <2>9. Outcomes'
    BY <1>1, <1>2, <1>3, <2>1, <2>2 DEF CarryLeaves, Outcomes, OneAtATime, Locks, Holding
  <2>10. Answers'
    BY <1>1, <1>2, <1>3, <2>1, <2>2 DEF CarryLeaves, Answers, Has, NoticesAs, SameAnswers
  <2>11. Unasked'
    BY <1>1, <1>2, <1>3, <2>1, <2>2 DEF CarryLeaves, Unasked, Undoing
  <2>12. Waits'
    BY <1>1, <1>2, <1>3, <2>1, <2>2 DEF CarryLeaves, Waits, Has, NoticesAs, SameAnswers
  <2>13. NoStaleStop'
    BY <1>1, <1>2, <1>3, <2>1, <2>2 DEF CarryLeaves, NoStaleStop, Undoing, Has, NoticesAs,
       SameAnswers
  <2>14. StopsAreOlder'
    BY <1>1, <1>2, <1>3, <2>1, <2>2 DEF CarryLeaves, StopsAreOlder, NoticesAs, SameAnswers,
       OneAtATime
  <2>15. GivesUp'
    BY <1>1, <1>2, <1>3, <2>1, <2>2 DEF CarryLeaves, GivesUp, CurrentOn, Live, Has, NoticesAs,
       SameAnswers
  <2> QED
    BY <2>3, <2>4, <2>5, <2>6, <2>7, <2>8, <2>9, <2>10, <2>11, <2>12, <2>13, <2>14,
     <2>15 DEF JInv, QInv
<1> QED
  BY <1>1, <1>2, <1>3 DEF Commit

LEMMA CheckKeeps ==
  ASSUME WInv, NEW j \in GJob, CarryLeaves, Check(j)
  PROVE  Flags' /\ JInv' /\ NInv' /\ QInv'
<1>1. /\ 0 \notin GJob /\ SwitchOK /\ QueueOK /\ switch.job \in GJob \cup {0}
      /\ switch.target \in {"none", "on", "off"} /\ gateway \in BOOLEAN
      /\ switch.target # "none" => switch.job \in GJob
      /\ \A i \in GJob : gjob[i].ok \in BOOLEAN /\ gjob[i].kind \in {"none", "on", "off"}
      /\ Flags /\ JobShapes /\ Locks /\ OneAtATime /\ Serves /\ OfThisRun /\ Outcomes /\ Answers
      /\ WorkerStarts /\ ConnectingEnds /\ ShownEnds /\ UpIsShown
      /\ Unasked /\ Waits /\ WaitsForRun /\ NoStaleStop /\ StopsAreOlder /\ GivesUp
  BY Known
<1>2. /\ gjob[j].pc = "check" /\ gjob[j].kind = "on" /\ hand # "gone"
      /\ gjob[j] # NoGJob /\ gateLock = j
  <2>1. /\ gjob[j].pc = "check" /\ gjob[j].kind = "on" /\ hand # "gone"
    BY DEF Check, JobIs, Living
  <2>2. gjob[j] # NoGJob /\ gateLock = j
    BY <1>1, <2>1 DEF NoGJob, Locks, Holding, OfThisRun
  <2> QED
    BY <2>1, <2>2
<1>3. CASE To(j, "after") /\ UNCHANGED <<gateway, queue, gateLock>> /\ j \in gfresh /\ switch.job = j
  <2>1. /\ \A i \in GJob : i # j => gjob'[i] = gjob[i]
        /\ gjob'[j].pc = "after" /\ gjob'[j].kind = "on" /\ gjob'[j] # NoGJob
    BY <1>1, <1>2, <1>3, JobMoves DEF Steps
  <2>2. NoticesAs(FALSE, FALSE, FALSE) /\ SameAnswers
    BY <1>1, <1>2, <1>3, SayNothing DEF Check, Answers, AppliedBy
  <2>3. Flags' /\ NInv' /\ WaitsForRun'
    BY <1>1, <2>2, CarryKeepsShown
  <2>4. JobShapes'
    BY <1>1, <1>2, <1>3, <2>1, <2>2 DEF CarryLeaves, JobShapes
  <2>5. Locks'
    BY <1>1, <1>2, <1>3, <2>1, <2>2 DEF CarryLeaves, Locks, Holding
  <2>6. OneAtATime'
    BY <1>1, <1>2, <1>3, <2>1, <2>2 DEF CarryLeaves, OneAtATime, Locks, Holding
  <2>7. Serves'
    BY <1>1, <1>2, <1>3, <2>1, <2>2 DEF CarryLeaves, Serves, Live
  <2>8. OfThisRun'
    BY <1>1, <1>2, <1>3, <2>1, <2>2 DEF CarryLeaves, OfThisRun, NotStarting, Locks, Holding
  <2>9. Outcomes'
    BY <1>1, <1>2, <1>3, <2>1, <2>2 DEF CarryLeaves, Outcomes, OneAtATime, Locks, Holding
  <2>10. Answers'
    BY <1>1, <1>2, <1>3, <2>1, <2>2 DEF CarryLeaves, Answers, Has, NoticesAs, SameAnswers
  <2>11. Unasked'
    BY <1>1, <1>2, <1>3, <2>1, <2>2 DEF CarryLeaves, Unasked, Undoing
  <2>12. Waits'
    BY <1>1, <1>2, <1>3, <2>1, <2>2 DEF CarryLeaves, Waits, Has, NoticesAs, SameAnswers
  <2>13. NoStaleStop'
    BY <1>1, <1>2, <1>3, <2>1, <2>2 DEF CarryLeaves, NoStaleStop, Undoing, Has, NoticesAs,
       SameAnswers
  <2>14. StopsAreOlder'
    BY <1>1, <1>2, <1>3, <2>1, <2>2 DEF CarryLeaves, StopsAreOlder, NoticesAs, SameAnswers
  <2>15. GivesUp'
    BY <1>1, <1>2, <1>3, <2>1, <2>2 DEF CarryLeaves, GivesUp, CurrentOn, Live, Has, NoticesAs,
       SameAnswers
  <2> QED
    BY <2>3, <2>4, <2>5, <2>6, <2>7, <2>8, <2>9, <2>10, <2>11, <2>12, <2>13, <2>14,
     <2>15 DEF JInv, QInv
<1>4. CASE Outcome(j, FALSE) /\ ~gateway' /\ queue' = queue \o Halted
  <2>1. /\ \A i \in GJob : i # j => gjob'[i] = gjob[i]
        /\ gjob'[j].pc = "report" /\ gjob'[j].kind = "on" /\ gjob'[j] # NoGJob /\ gjob'[j].ok = FALSE
        /\ gateLock' = 0
    BY <1>1, <1>2, <1>4, JobMoves DEF Steps, Outcome
  <2>2. NoticesAs(gateway, FALSE, FALSE) /\ SameAnswers
    BY <1>1, <1>2, <1>4, SayHalted DEF Check, Answers, AppliedBy
  <2>3. Flags' /\ NInv' /\ WaitsForRun'
    BY <1>1, <2>2, CarryKeepsShown
  <2>4. JobShapes'
    BY <1>1, <1>2, <1>4, <2>1, <2>2 DEF CarryLeaves, JobShapes
  <2>5. Locks'
    BY <1>1, <1>2, <1>4, <2>1, <2>2 DEF CarryLeaves, Locks, Holding
  <2>6. OneAtATime'
    BY <1>1, <1>2, <1>4, <2>1, <2>2 DEF CarryLeaves, OneAtATime, Locks, Holding
  <2>7. Serves'
    BY <1>1, <1>2, <1>4, <2>1, <2>2 DEF CarryLeaves, Serves, Live
  <2>8. OfThisRun'
    BY <1>1, <1>2, <1>4, <2>1, <2>2 DEF CarryLeaves, OfThisRun, NotStarting, Locks, Holding
  <2>9. Outcomes'
    BY <1>1, <1>2, <1>4, <2>1, <2>2 DEF CarryLeaves, Outcomes, OneAtATime, Locks, Holding
  <2>10. Answers'
    BY <1>1, <1>2, <1>4, <2>1, <2>2 DEF CarryLeaves, Answers, Has, NoticesAs, SameAnswers
  <2>11. Unasked'
    BY <1>1, <1>2, <1>4, <2>1, <2>2 DEF CarryLeaves, Unasked, Undoing
  <2>12. Waits'
    BY <1>1, <1>2, <1>4, <2>1, <2>2 DEF CarryLeaves, Waits, Has, NoticesAs, SameAnswers
  <2>13. NoStaleStop'
    BY <1>1, <1>2, <1>4, <2>1, <2>2 DEF CarryLeaves, NoStaleStop, Undoing, Has, NoticesAs,
       SameAnswers
  <2>14. StopsAreOlder'
    BY <1>1, <1>2, <1>4, <2>1, <2>2 DEF CarryLeaves, StopsAreOlder, NoticesAs, SameAnswers
  <2>15. GivesUp'
    BY <1>1, <1>2, <1>4, <2>1, <2>2 DEF CarryLeaves, GivesUp, CurrentOn, Live, Has, NoticesAs,
       SameAnswers
  <2> QED
    BY <2>3, <2>4, <2>5, <2>6, <2>7, <2>8, <2>9, <2>10, <2>11, <2>12, <2>13, <2>14,
     <2>15 DEF JInv, QInv
<1> QED
  BY <1>1, <1>2, <1>3, <1>4 DEF Check

LEMMA AfterEnableKeeps ==
  ASSUME WInv, NEW j \in GJob, CarryLeaves, AfterEnable(j)
  PROVE  Flags' /\ JInv' /\ NInv' /\ QInv'
<1>1. /\ 0 \notin GJob /\ SwitchOK /\ QueueOK /\ switch.job \in GJob \cup {0}
      /\ switch.target \in {"none", "on", "off"} /\ gateway \in BOOLEAN
      /\ switch.target # "none" => switch.job \in GJob
      /\ \A i \in GJob : gjob[i].ok \in BOOLEAN /\ gjob[i].kind \in {"none", "on", "off"}
      /\ Flags /\ JobShapes /\ Locks /\ OneAtATime /\ Serves /\ OfThisRun /\ Outcomes /\ Answers
      /\ WorkerStarts /\ ConnectingEnds /\ ShownEnds /\ UpIsShown
      /\ Unasked /\ Waits /\ WaitsForRun /\ NoStaleStop /\ StopsAreOlder /\ GivesUp
  BY Known
<1>2. /\ gjob[j].pc = "after" /\ gjob[j].kind = "on" /\ hand # "gone"
      /\ gjob[j] # NoGJob /\ gateLock = j
  <2>1. /\ gjob[j].pc = "after" /\ gjob[j].kind = "on" /\ hand # "gone"
    BY DEF AfterEnable, JobIs, Living
  <2>2. gjob[j] # NoGJob /\ gateLock = j
    BY <1>1, <2>1 DEF NoGJob, Locks, Holding, OfThisRun
  <2> QED
    BY <2>1, <2>2
<1>3. CASE Outcome(j, gateway) /\ CurrentOn(j) /\ UNCHANGED <<gateway, queue>>
  <2>1. /\ \A i \in GJob : i # j => gjob'[i] = gjob[i]
        /\ gjob'[j].pc = "report" /\ gjob'[j].kind = "on" /\ gjob'[j] # NoGJob /\ gjob'[j].ok = gateway
        /\ gateLock' = 0
    BY <1>1, <1>2, <1>3, JobMoves DEF Steps, Outcome
  <2>2. NoticesAs(FALSE, FALSE, FALSE) /\ SameAnswers
    BY <1>1, <1>2, <1>3, SayNothing DEF AfterEnable, Answers, AppliedBy
  <2>3. Flags' /\ NInv' /\ WaitsForRun'
    BY <1>1, <2>2, CarryKeepsShown
  <2>4. JobShapes'
    BY <1>1, <1>2, <1>3, <2>1, <2>2 DEF CarryLeaves, JobShapes, CurrentOn
  <2>5. Locks'
    BY <1>1, <1>2, <1>3, <2>1, <2>2 DEF CarryLeaves, Locks, Holding, CurrentOn
  <2>6. OneAtATime'
    BY <1>1, <1>2, <1>3, <2>1, <2>2 DEF CarryLeaves, OneAtATime, Locks, Holding, CurrentOn
  <2>7. Serves'
    BY <1>1, <1>2, <1>3, <2>1, <2>2 DEF CarryLeaves, Serves, Live, CurrentOn
  <2>8. OfThisRun'
    BY <1>1, <1>2, <1>3, <2>1, <2>2 DEF CarryLeaves, OfThisRun, NotStarting, Locks, Holding,
       CurrentOn
  <2>9. Outcomes'
    BY <1>1, <1>2, <1>3, <2>1, <2>2 DEF CarryLeaves, Outcomes, OneAtATime, Locks, Holding,
       CurrentOn
  <2>10. Answers'
    BY <1>1, <1>2, <1>3, <2>1, <2>2 DEF CarryLeaves, Answers, Has, NoticesAs, SameAnswers,
       CurrentOn
  <2>11. Unasked'
    BY <1>1, <1>2, <1>3, <2>1, <2>2 DEF CarryLeaves, Unasked, Undoing, CurrentOn
  <2>12. Waits'
    BY <1>1, <1>2, <1>3, <2>1, <2>2 DEF CarryLeaves, Waits, Has, NoticesAs, SameAnswers, CurrentOn
  <2>13. NoStaleStop'
    BY <1>1, <1>2, <1>3, <2>1, <2>2 DEF CarryLeaves, NoStaleStop, Undoing, Has, NoticesAs,
       SameAnswers, CurrentOn, Serves, Live
  <2>14. StopsAreOlder'
    BY <1>1, <1>2, <1>3, <2>1, <2>2 DEF CarryLeaves, StopsAreOlder, NoticesAs, SameAnswers,
       CurrentOn
  <2>15. GivesUp'
    BY <1>1, <1>2, <1>3, <2>1, <2>2 DEF CarryLeaves, GivesUp, CurrentOn, Live, Has, NoticesAs,
       SameAnswers
  <2> QED
    BY <2>3, <2>4, <2>5, <2>6, <2>7, <2>8, <2>9, <2>10, <2>11, <2>12, <2>13, <2>14,
     <2>15 DEF JInv, QInv
<1>4. CASE Ends(j) /\ ~CurrentOn(j) /\ ~gateway' /\ queue' = queue \o Halted
  <2>1. /\ \A i \in GJob : i # j => gjob'[i] = gjob[i]
        /\ gjob'[j] = NoGJob /\ gjob'[j].pc = "idle" /\ gjob'[j].kind = "none" /\ gateLock' = 0
    BY <1>1, <1>2, <1>4, JobLeaves DEF Ends
  <2>2. NoticesAs(gateway, FALSE, FALSE) /\ SameAnswers
    BY <1>1, <1>2, <1>4, SayHalted DEF AfterEnable, Answers, AppliedBy
  <2>3. Flags' /\ NInv' /\ WaitsForRun'
    BY <1>1, <2>2, CarryKeepsShown
  <2>4. JobShapes'
    BY <1>1, <1>2, <1>4, <2>1, <2>2 DEF CarryLeaves, JobShapes, CurrentOn, Live, Serves
  <2>5. Locks'
    BY <1>1, <1>2, <1>4, <2>1, <2>2 DEF CarryLeaves, Locks, Holding, CurrentOn, Live, Serves
  <2>6. OneAtATime'
    BY <1>1, <1>2, <1>4, <2>1, <2>2 DEF CarryLeaves, OneAtATime, Locks, Holding, CurrentOn, Live,
       Serves
  <2>7. Serves'
    BY <1>1, <1>2, <1>4, <2>1, <2>2 DEF CarryLeaves, Serves, Live, CurrentOn
  <2>8. OfThisRun'
    BY <1>1, <1>2, <1>4, <2>1, <2>2 DEF CarryLeaves, OfThisRun, NotStarting, Locks, Holding,
       CurrentOn, Live, Serves
  <2>9. Outcomes'
    BY <1>1, <1>2, <1>4, <2>1, <2>2 DEF CarryLeaves, Outcomes, OneAtATime, Locks, Holding,
       CurrentOn, Live, Serves
  <2>10. Answers'
    BY <1>1, <1>2, <1>4, <2>1, <2>2 DEF CarryLeaves, Answers, Has, NoticesAs, SameAnswers,
       CurrentOn, Live, Serves
  <2>11. Unasked'
    BY <1>1, <1>2, <1>4, <2>1, <2>2 DEF CarryLeaves, Unasked, Undoing, CurrentOn, Live, Serves
  <2>12. Waits'
    BY <1>1, <1>2, <1>4, <2>1, <2>2 DEF CarryLeaves, Waits, Has, NoticesAs, SameAnswers,
       CurrentOn, Live, Serves
  <2>13. NoStaleStop'
    BY <1>1, <1>2, <1>4, <2>1, <2>2 DEF CarryLeaves, NoStaleStop, Undoing, Has, NoticesAs,
       SameAnswers, CurrentOn, Live, Serves
  <2>14. StopsAreOlder'
    BY <1>1, <1>2, <1>4, <2>1, <2>2 DEF CarryLeaves, StopsAreOlder, NoticesAs, SameAnswers,
       CurrentOn, Live, Serves
  <2>15. GivesUp'
    BY <1>1, <1>2, <1>4, <2>1, <2>2 DEF CarryLeaves, GivesUp, CurrentOn, Live, Has, NoticesAs,
       SameAnswers, Serves
  <2> QED
    BY <2>3, <2>4, <2>5, <2>6, <2>7, <2>8, <2>9, <2>10, <2>11, <2>12, <2>13, <2>14,
     <2>15 DEF JInv, QInv
<1>5. CASE Ends(j) /\ ~CurrentOn(j) /\ j \notin gfresh /\ UNCHANGED <<gateway, queue>>
  <2>1. /\ \A i \in GJob : i # j => gjob'[i] = gjob[i]
        /\ gjob'[j] = NoGJob /\ gjob'[j].pc = "idle" /\ gjob'[j].kind = "none" /\ gateLock' = 0 /\ ~gateway
    BY <1>1, <1>2, <1>5, JobLeaves DEF Ends, OfThisRun
  <2>2. NoticesAs(FALSE, FALSE, FALSE) /\ SameAnswers
    BY <1>1, <1>2, <1>5, SayNothing DEF AfterEnable, Answers, AppliedBy
  <2>3. Flags' /\ NInv' /\ WaitsForRun'
    BY <1>1, <2>2, CarryKeepsShown
  <2>4. JobShapes'
    BY <1>1, <1>2, <1>5, <2>1, <2>2 DEF CarryLeaves, JobShapes, CurrentOn, Live, Serves
  <2>5. Locks'
    BY <1>1, <1>2, <1>5, <2>1, <2>2 DEF CarryLeaves, Locks, Holding, CurrentOn, Live, Serves
  <2>6. OneAtATime'
    BY <1>1, <1>2, <1>5, <2>1, <2>2 DEF CarryLeaves, OneAtATime, Locks, Holding, CurrentOn, Live,
       Serves
  <2>7. Serves'
    BY <1>1, <1>2, <1>5, <2>1, <2>2 DEF CarryLeaves, Serves, Live, CurrentOn
  <2>8. OfThisRun'
    BY <1>1, <1>2, <1>5, <2>1, <2>2 DEF CarryLeaves, OfThisRun, NotStarting, Locks, Holding,
       CurrentOn, Live, Serves
  <2>9. Outcomes'
    BY <1>1, <1>2, <1>5, <2>1, <2>2 DEF CarryLeaves, Outcomes, OneAtATime, Locks, Holding,
       CurrentOn, Live, Serves
  <2>10. Answers'
    BY <1>1, <1>2, <1>5, <2>1, <2>2 DEF CarryLeaves, Answers, Has, NoticesAs, SameAnswers,
       CurrentOn, Live, Serves
  <2>11. Unasked'
    BY <1>1, <1>2, <1>5, <2>1, <2>2 DEF CarryLeaves, Unasked, Undoing, CurrentOn, Live, Serves
  <2>12. Waits'
    BY <1>1, <1>2, <1>5, <2>1, <2>2 DEF CarryLeaves, Waits, Has, NoticesAs, SameAnswers,
       CurrentOn, Live, Serves
  <2>13. NoStaleStop'
    BY <1>1, <1>2, <1>5, <2>1, <2>2 DEF CarryLeaves, NoStaleStop, Undoing, Has, NoticesAs,
       SameAnswers, CurrentOn, Live, Serves
  <2>14. StopsAreOlder'
    BY <1>1, <1>2, <1>5, <2>1, <2>2 DEF CarryLeaves, StopsAreOlder, NoticesAs, SameAnswers,
       CurrentOn, Live, Serves
  <2>15. GivesUp'
    BY <1>1, <1>2, <1>5, <2>1, <2>2 DEF CarryLeaves, GivesUp, CurrentOn, Live, Has, NoticesAs,
       SameAnswers, Serves
  <2> QED
    BY <2>3, <2>4, <2>5, <2>6, <2>7, <2>8, <2>9, <2>10, <2>11, <2>12, <2>13, <2>14,
     <2>15 DEF JInv, QInv
<1> QED
  BY <1>1, <1>2, <1>3, <1>4, <1>5 DEF AfterEnable

LEMMA DisableKeeps ==
  ASSUME WInv, NEW j \in GJob, CarryLeaves, Disable(j)
  PROVE  Flags' /\ JInv' /\ NInv' /\ QInv'
<1>1. /\ 0 \notin GJob /\ SwitchOK /\ QueueOK /\ switch.job \in GJob \cup {0}
      /\ switch.target \in {"none", "on", "off"} /\ gateway \in BOOLEAN
      /\ switch.target # "none" => switch.job \in GJob
      /\ \A i \in GJob : gjob[i].ok \in BOOLEAN /\ gjob[i].kind \in {"none", "on", "off"}
      /\ Flags /\ JobShapes /\ Locks /\ OneAtATime /\ Serves /\ OfThisRun /\ Outcomes /\ Answers
      /\ WorkerStarts /\ ConnectingEnds /\ ShownEnds /\ UpIsShown
      /\ Unasked /\ Waits /\ WaitsForRun /\ NoStaleStop /\ StopsAreOlder /\ GivesUp
  BY Known
<1>2. /\ gjob[j].pc = "disable" /\ gjob[j].kind = "off" /\ hand # "gone"
      /\ gjob[j] # NoGJob /\ gateLock = j
  <2>1. /\ gjob[j].pc = "disable" /\ gjob[j].kind = "off" /\ hand # "gone"
    BY DEF Disable, JobIs, Living
  <2>2. gjob[j] # NoGJob /\ gateLock = j
    BY <1>1, <2>1 DEF NoGJob, Locks, Holding, OfThisRun
  <2> QED
    BY <2>1, <2>2
<1>3. CASE Outcome(j, ~gateway) /\ j \notin gfresh /\ UNCHANGED <<gateway, queue>>
  <2>1. /\ \A i \in GJob : i # j => gjob'[i] = gjob[i]
        /\ gjob'[j].pc = "report" /\ gjob'[j].kind = "off" /\ gjob'[j] # NoGJob /\ gjob'[j].ok = (~gateway)
        /\ gateLock' = 0
    BY <1>1, <1>2, <1>3, JobMoves DEF Steps, Outcome
  <2>2. NoticesAs(FALSE, FALSE, FALSE) /\ SameAnswers
    BY <1>1, <1>2, <1>3, SayNothing DEF Disable, Answers, AppliedBy
  <2>3. Flags' /\ NInv' /\ WaitsForRun'
    BY <1>1, <2>2, CarryKeepsShown
  <2>4. JobShapes'
    BY <1>1, <1>2, <1>3, <2>1, <2>2 DEF CarryLeaves, JobShapes, OfThisRun
  <2>5. Locks'
    BY <1>1, <1>2, <1>3, <2>1, <2>2 DEF CarryLeaves, Locks, Holding, OfThisRun
  <2>6. OneAtATime'
    BY <1>1, <1>2, <1>3, <2>1, <2>2 DEF CarryLeaves, OneAtATime, Locks, Holding, OfThisRun
  <2>7. Serves'
    BY <1>1, <1>2, <1>3, <2>1, <2>2 DEF CarryLeaves, Serves, Live, OfThisRun
  <2>8. OfThisRun'
    BY <1>1, <1>2, <1>3, <2>1, <2>2 DEF CarryLeaves, OfThisRun, NotStarting, Locks, Holding
  <2>9. Outcomes'
    BY <1>1, <1>2, <1>3, <2>1, <2>2 DEF CarryLeaves, Outcomes, OneAtATime, Locks, Holding,
       OfThisRun
  <2>10. Answers'
    BY <1>1, <1>2, <1>3, <2>1, <2>2 DEF CarryLeaves, Answers, Has, NoticesAs, SameAnswers,
       OfThisRun
  <2>11. Unasked'
    BY <1>1, <1>2, <1>3, <2>1, <2>2 DEF CarryLeaves, Unasked, Undoing, OfThisRun
  <2>12. Waits'
    BY <1>1, <1>2, <1>3, <2>1, <2>2 DEF CarryLeaves, Waits, Has, NoticesAs, SameAnswers, OfThisRun
  <2>13. NoStaleStop'
    BY <1>1, <1>2, <1>3, <2>1, <2>2 DEF CarryLeaves, NoStaleStop, Undoing, Has, NoticesAs,
       SameAnswers, OfThisRun
  <2>14. StopsAreOlder'
    BY <1>1, <1>2, <1>3, <2>1, <2>2 DEF CarryLeaves, StopsAreOlder, NoticesAs, SameAnswers,
       OfThisRun
  <2>15. GivesUp'
    BY <1>1, <1>2, <1>3, <2>1, <2>2 DEF CarryLeaves, GivesUp, CurrentOn, Live, Has, NoticesAs,
       SameAnswers, OfThisRun
  <2> QED
    BY <2>3, <2>4, <2>5, <2>6, <2>7, <2>8, <2>9, <2>10, <2>11, <2>12, <2>13, <2>14,
     <2>15 DEF JInv, QInv
<1>4. CASE To(j, "off") /\ ~gateway' /\ queue' = queue \o Halted /\ UNCHANGED gateLock
  <2>1. /\ \A i \in GJob : i # j => gjob'[i] = gjob[i]
        /\ gjob'[j].pc = "off" /\ gjob'[j].kind = "off" /\ gjob'[j] # NoGJob
    BY <1>1, <1>2, <1>4, JobMoves DEF Steps
  <2>2. NoticesAs(gateway, FALSE, FALSE) /\ SameAnswers
    BY <1>1, <1>2, <1>4, SayHalted DEF Disable, Answers, AppliedBy
  <2>3. Flags' /\ NInv' /\ WaitsForRun'
    BY <1>1, <2>2, CarryKeepsShown
  <2>4. JobShapes'
    BY <1>1, <1>2, <1>4, <2>1, <2>2 DEF CarryLeaves, JobShapes
  <2>5. Locks'
    BY <1>1, <1>2, <1>4, <2>1, <2>2 DEF CarryLeaves, Locks, Holding
  <2>6. OneAtATime'
    BY <1>1, <1>2, <1>4, <2>1, <2>2 DEF CarryLeaves, OneAtATime, Locks, Holding
  <2>7. Serves'
    BY <1>1, <1>2, <1>4, <2>1, <2>2 DEF CarryLeaves, Serves, Live
  <2>8. OfThisRun'
    BY <1>1, <1>2, <1>4, <2>1, <2>2 DEF CarryLeaves, OfThisRun, NotStarting, Locks, Holding
  <2>9. Outcomes'
    BY <1>1, <1>2, <1>4, <2>1, <2>2 DEF CarryLeaves, Outcomes, OneAtATime, Locks, Holding
  <2>10. Answers'
    BY <1>1, <1>2, <1>4, <2>1, <2>2 DEF CarryLeaves, Answers, Has, NoticesAs, SameAnswers
  <2>11. Unasked'
    BY <1>1, <1>2, <1>4, <2>1, <2>2 DEF CarryLeaves, Unasked, Undoing
  <2>12. Waits'
    BY <1>1, <1>2, <1>4, <2>1, <2>2 DEF CarryLeaves, Waits, Has, NoticesAs, SameAnswers
  <2>13. NoStaleStop'
    BY <1>1, <1>2, <1>4, <2>1, <2>2 DEF CarryLeaves, NoStaleStop, Undoing, Has, NoticesAs,
       SameAnswers
  <2>14. StopsAreOlder'
    BY <1>1, <1>2, <1>4, <2>1, <2>2 DEF CarryLeaves, StopsAreOlder, NoticesAs, SameAnswers
  <2>15. GivesUp'
    BY <1>1, <1>2, <1>4, <2>1, <2>2 DEF CarryLeaves, GivesUp, CurrentOn, Live, Has, NoticesAs,
       SameAnswers
  <2> QED
    BY <2>3, <2>4, <2>5, <2>6, <2>7, <2>8, <2>9, <2>10, <2>11, <2>12, <2>13, <2>14,
     <2>15 DEF JInv, QInv
<1> QED
  BY <1>1, <1>2, <1>3, <1>4 DEF Disable

LEMMA AfterDisableKeeps ==
  ASSUME WInv, NEW j \in GJob, CarryLeaves, AfterDisable(j)
  PROVE  Flags' /\ JInv' /\ NInv' /\ QInv'
<1>1. /\ 0 \notin GJob /\ SwitchOK /\ QueueOK /\ switch.job \in GJob \cup {0}
      /\ switch.target \in {"none", "on", "off"} /\ gateway \in BOOLEAN
      /\ switch.target # "none" => switch.job \in GJob
      /\ \A i \in GJob : gjob[i].ok \in BOOLEAN /\ gjob[i].kind \in {"none", "on", "off"}
      /\ Flags /\ JobShapes /\ Locks /\ OneAtATime /\ Serves /\ OfThisRun /\ Outcomes /\ Answers
      /\ WorkerStarts /\ ConnectingEnds /\ ShownEnds /\ UpIsShown
      /\ Unasked /\ Waits /\ WaitsForRun /\ NoStaleStop /\ StopsAreOlder /\ GivesUp
  BY Known
<1>2. /\ gjob[j].pc = "off" /\ gjob[j].kind = "off" /\ hand # "gone"
      /\ UNCHANGED <<gateway, queue>>
      /\ gjob[j] # NoGJob /\ gateLock = j /\ ~gateway
  <2>1. /\ gjob[j].pc = "off" /\ gjob[j].kind = "off" /\ hand # "gone"
        /\ UNCHANGED <<gateway, queue>>
    BY DEF AfterDisable, JobIs, Living
  <2>2. gjob[j] # NoGJob /\ gateLock = j /\ ~gateway
    BY <1>1, <2>1 DEF NoGJob, Locks, Holding, OfThisRun
  <2> QED
    BY <2>1, <2>2
<1>3. CASE Outcome(j, ~gateway) /\ CurrentOff(j)
  <2>1. /\ \A i \in GJob : i # j => gjob'[i] = gjob[i]
        /\ gjob'[j].pc = "report" /\ gjob'[j].kind = "off" /\ gjob'[j] # NoGJob /\ gjob'[j].ok = TRUE
        /\ gateLock' = 0
    BY <1>1, <1>2, <1>3, JobMoves DEF Steps, Outcome
  <2>2. NoticesAs(FALSE, FALSE, FALSE) /\ SameAnswers
    BY <1>1, <1>2, <1>3, SayNothing DEF AfterDisable, Answers, AppliedBy
  <2>3. Flags' /\ NInv' /\ WaitsForRun'
    BY <1>1, <2>2, CarryKeepsShown
  <2>4. JobShapes'
    BY <1>1, <1>2, <1>3, <2>1, <2>2 DEF CarryLeaves, JobShapes, CurrentOff
  <2>5. Locks'
    BY <1>1, <1>2, <1>3, <2>1, <2>2 DEF CarryLeaves, Locks, Holding, CurrentOff
  <2>6. OneAtATime'
    BY <1>1, <1>2, <1>3, <2>1, <2>2 DEF CarryLeaves, OneAtATime, Locks, Holding, CurrentOff
  <2>7. Serves'
    BY <1>1, <1>2, <1>3, <2>1, <2>2 DEF CarryLeaves, Serves, Live, CurrentOff
  <2>8. OfThisRun'
    BY <1>1, <1>2, <1>3, <2>1, <2>2 DEF CarryLeaves, OfThisRun, NotStarting, Locks, Holding,
       CurrentOff
  <2>9. Outcomes'
    BY <1>1, <1>2, <1>3, <2>1, <2>2 DEF CarryLeaves, Outcomes, OneAtATime, Locks, Holding,
       CurrentOff
  <2>10. Answers'
    BY <1>1, <1>2, <1>3, <2>1, <2>2 DEF CarryLeaves, Answers, Has, NoticesAs, SameAnswers,
       CurrentOff
  <2>11. Unasked'
    BY <1>1, <1>2, <1>3, <2>1, <2>2 DEF CarryLeaves, Unasked, Undoing, CurrentOff
  <2>12. Waits'
    BY <1>1, <1>2, <1>3, <2>1, <2>2 DEF CarryLeaves, Waits, Has, NoticesAs, SameAnswers,
       CurrentOff
  <2>13. NoStaleStop'
    BY <1>1, <1>2, <1>3, <2>1, <2>2 DEF CarryLeaves, NoStaleStop, Undoing, Has, NoticesAs,
       SameAnswers, CurrentOff
  <2>14. StopsAreOlder'
    BY <1>1, <1>2, <1>3, <2>1, <2>2 DEF CarryLeaves, StopsAreOlder, NoticesAs, SameAnswers,
       CurrentOff
  <2>15. GivesUp'
    BY <1>1, <1>2, <1>3, <2>1, <2>2 DEF CarryLeaves, GivesUp, CurrentOn, Live, Has, NoticesAs,
       SameAnswers, CurrentOff
  <2> QED
    BY <2>3, <2>4, <2>5, <2>6, <2>7, <2>8, <2>9, <2>10, <2>11, <2>12, <2>13, <2>14,
     <2>15 DEF JInv, QInv
<1>4. CASE Ends(j) /\ ~CurrentOff(j)
  <2>1. /\ \A i \in GJob : i # j => gjob'[i] = gjob[i]
        /\ gjob'[j] = NoGJob /\ gjob'[j].pc = "idle" /\ gjob'[j].kind = "none" /\ gateLock' = 0
    BY <1>1, <1>2, <1>4, JobLeaves DEF Ends
  <2>2. NoticesAs(FALSE, FALSE, FALSE) /\ SameAnswers
    BY <1>1, <1>2, <1>4, SayNothing DEF AfterDisable, Answers, AppliedBy
  <2>3. Flags' /\ NInv' /\ WaitsForRun'
    BY <1>1, <2>2, CarryKeepsShown
  <2>4. JobShapes'
    BY <1>1, <1>2, <1>4, <2>1, <2>2 DEF CarryLeaves, JobShapes, CurrentOff, Live
  <2>5. Locks'
    BY <1>1, <1>2, <1>4, <2>1, <2>2 DEF CarryLeaves, Locks, Holding, CurrentOff, Live
  <2>6. OneAtATime'
    BY <1>1, <1>2, <1>4, <2>1, <2>2 DEF CarryLeaves, OneAtATime, Locks, Holding, CurrentOff, Live
  <2>7. Serves'
    BY <1>1, <1>2, <1>4, <2>1, <2>2 DEF CarryLeaves, Serves, Live, CurrentOff
  <2>8. OfThisRun'
    BY <1>1, <1>2, <1>4, <2>1, <2>2 DEF CarryLeaves, OfThisRun, NotStarting, Locks, Holding,
       CurrentOff, Live
  <2>9. Outcomes'
    BY <1>1, <1>2, <1>4, <2>1, <2>2 DEF CarryLeaves, Outcomes, OneAtATime, Locks, Holding,
       CurrentOff, Live
  <2>10. Answers'
    BY <1>1, <1>2, <1>4, <2>1, <2>2 DEF CarryLeaves, Answers, Has, NoticesAs, SameAnswers,
       CurrentOff, Live
  <2>11. Unasked'
    BY <1>1, <1>2, <1>4, <2>1, <2>2 DEF CarryLeaves, Unasked, Undoing, CurrentOff, Live
  <2>12. Waits'
    BY <1>1, <1>2, <1>4, <2>1, <2>2 DEF CarryLeaves, Waits, Has, NoticesAs, SameAnswers,
       CurrentOff, Live
  <2>13. NoStaleStop'
    BY <1>1, <1>2, <1>4, <2>1, <2>2 DEF CarryLeaves, NoStaleStop, Undoing, Has, NoticesAs,
       SameAnswers, CurrentOff, Live
  <2>14. StopsAreOlder'
    BY <1>1, <1>2, <1>4, <2>1, <2>2 DEF CarryLeaves, StopsAreOlder, NoticesAs, SameAnswers,
       CurrentOff, Live
  <2>15. GivesUp'
    BY <1>1, <1>2, <1>4, <2>1, <2>2 DEF CarryLeaves, GivesUp, CurrentOn, Live, Has, NoticesAs,
       SameAnswers, CurrentOff
  <2> QED
    BY <2>3, <2>4, <2>5, <2>6, <2>7, <2>8, <2>9, <2>10, <2>11, <2>12, <2>13, <2>14,
     <2>15 DEF JInv, QInv
<1> QED
  BY <1>1, <1>2, <1>3, <1>4 DEF AfterDisable

LEMMA TellKeeps ==
  ASSUME WInv, NEW j \in GJob, CarryLeaves, Tell(j)
  PROVE  Flags' /\ JInv' /\ NInv' /\ QInv'
<1>1. /\ 0 \notin GJob /\ SwitchOK /\ QueueOK /\ switch.job \in GJob \cup {0}
      /\ switch.target \in {"none", "on", "off"} /\ gateway \in BOOLEAN
      /\ switch.target # "none" => switch.job \in GJob
      /\ \A i \in GJob : gjob[i].ok \in BOOLEAN /\ gjob[i].kind \in {"none", "on", "off"}
      /\ Flags /\ JobShapes /\ Locks /\ OneAtATime /\ Serves /\ OfThisRun /\ Outcomes /\ Answers
      /\ WorkerStarts /\ ConnectingEnds /\ ShownEnds /\ UpIsShown
      /\ Unasked /\ Waits /\ WaitsForRun /\ NoStaleStop /\ StopsAreOlder /\ GivesUp
  BY Known
<1>2. /\ gjob[j].pc = "report" /\ gjob[j] # NoGJob /\ gjob[j].kind \in {"on", "off"} /\ gateLock # j
      /\ hand # "gone" /\ UNCHANGED <<gateway, gateLock>> /\ ~Has(AppliedBy(j))
  BY <1>1 DEF Tell, Living, NoGJob, JobShapes, Locks, Holding, Answers
<1>3. CASE To(j, "reported") /\ Emit(AppliedBy(j)) /\ switch.job = j
  <2>1. /\ \A i \in GJob : i # j => gjob'[i] = gjob[i]
        /\ gjob'[j].pc = "reported" /\ gjob'[j].kind = gjob[j].kind /\ gjob'[j] # NoGJob
        /\ gjob'[j].ok = gjob[j].ok
    BY <1>1, <1>2, <1>3, JobMoves DEF Steps
  <2>2. /\ NoticesAs(FALSE, FALSE, FALSE)
        /\ \A i \in GJob : In(queue', AppliedBy(i)) <=> Has(AppliedBy(i)) \/ i = j
        /\ \A i \in GJob : NoneAfter(queue, AppliedBy(i), AppliedBy(i))
                              => NoneAfter(queue', AppliedBy(i), AppliedBy(i))
        /\ NoneAfter(queue', AppliedBy(j), Runtime(FALSE))
    BY <1>1, <1>2, <1>3, SayApplied DEF Tell, Answers, AppliedBy
  <2>3. Flags' /\ NInv' /\ WaitsForRun'
    BY <1>1, <2>2, CarryKeepsShown
  <2>4. JobShapes'
    BY <1>1, <1>2, <1>3, <2>1, <2>2 DEF CarryLeaves, JobShapes, Locks, Holding
  <2>5. Locks'
    BY <1>1, <1>2, <1>3, <2>1, <2>2 DEF CarryLeaves, Locks, Holding
  <2>6. OneAtATime'
    BY <1>1, <1>2, <1>3, <2>1, <2>2 DEF CarryLeaves, OneAtATime, Locks, Holding
  <2>7. Serves'
    BY <1>1, <1>2, <1>3, <2>1, <2>2 DEF CarryLeaves, Serves, Live, Locks, Holding
  <2>8. OfThisRun'
    BY <1>1, <1>2, <1>3, <2>1, <2>2 DEF CarryLeaves, OfThisRun, NotStarting, Locks, Holding
  <2>9. Outcomes'
    BY <1>1, <1>2, <1>3, <2>1, <2>2 DEF CarryLeaves, Outcomes, OneAtATime, Locks, Holding
  <2>10. Answers'
    BY <1>1, <1>2, <1>3, <2>1, <2>2 DEF CarryLeaves, Answers, Has, NoticesAs, Locks, Holding
  <2>11. Unasked'
    BY <1>1, <1>2, <1>3, <2>1, <2>2 DEF CarryLeaves, Unasked, Undoing, Locks, Holding
  <2>12. Waits'
    BY <1>1, <1>2, <1>3, <2>1, <2>2 DEF CarryLeaves, Waits, Has, NoticesAs, Locks, Holding
  <2>13. NoStaleStop'
    BY <1>1, <1>2, <1>3, <2>1, <2>2 DEF CarryLeaves, NoStaleStop, Undoing, Has, NoticesAs, Locks,
       Holding
  <2>14. StopsAreOlder'
    BY <1>1, <1>2, <1>3, <2>1, <2>2 DEF CarryLeaves, StopsAreOlder, NoticesAs, Locks, Holding
  <2>15. GivesUp'
    BY <1>1, <1>2, <1>3, <2>1, <2>2 DEF CarryLeaves, GivesUp, CurrentOn, Live, Has, NoticesAs,
       Locks, Holding
  <2> QED
    BY <2>3, <2>4, <2>5, <2>6, <2>7, <2>8, <2>9, <2>10, <2>11, <2>12, <2>13, <2>14,
     <2>15 DEF JInv, QInv
<1>4. CASE /\ gjob' = [gjob EXCEPT ![j] = NoGJob] /\ UNCHANGED queue
            /\ (gjob[j].kind = "on" => ~CurrentOn(j)) /\ (gjob[j].kind = "off" => ~CurrentOff(j))
  <2>1. /\ \A i \in GJob : i # j => gjob'[i] = gjob[i]
        /\ gjob'[j] = NoGJob /\ gjob'[j].pc = "idle" /\ gjob'[j].kind = "none"
    BY <1>1, <1>2, <1>4, JobLeaves
  <2>2. NoticesAs(FALSE, FALSE, FALSE) /\ SameAnswers
    BY <1>1, <1>2, <1>4, SayNothing DEF Tell, Answers, AppliedBy
  <2>3. Flags' /\ NInv' /\ WaitsForRun'
    BY <1>1, <2>2, CarryKeepsShown
  <2>4. JobShapes'
    BY <1>1, <1>2, <1>4, <2>1, <2>2 DEF CarryLeaves, JobShapes, CurrentOn, CurrentOff, Live,
       Serves
  <2>5. Locks'
    BY <1>1, <1>2, <1>4, <2>1, <2>2 DEF CarryLeaves, Locks, Holding, CurrentOn, CurrentOff, Live,
       Serves
  <2>6. OneAtATime'
    BY <1>1, <1>2, <1>4, <2>1, <2>2 DEF CarryLeaves, OneAtATime, Locks, Holding, CurrentOn,
       CurrentOff, Live, Serves
  <2>7. Serves'
    BY <1>1, <1>2, <1>4, <2>1, <2>2 DEF CarryLeaves, Serves, Live, CurrentOn, CurrentOff
  <2>8. OfThisRun'
    BY <1>1, <1>2, <1>4, <2>1, <2>2 DEF CarryLeaves, OfThisRun, NotStarting, Locks, Holding,
       CurrentOn, CurrentOff, Live, Serves
  <2>9. Outcomes'
    BY <1>1, <1>2, <1>4, <2>1, <2>2 DEF CarryLeaves, Outcomes, OneAtATime, Locks, Holding,
       CurrentOn, CurrentOff, Live, Serves
  <2>10. Answers'
    BY <1>1, <1>2, <1>4, <2>1, <2>2 DEF CarryLeaves, Answers, Has, NoticesAs, SameAnswers,
       CurrentOn, CurrentOff, Live, Serves
  <2>11. Unasked'
    BY <1>1, <1>2, <1>4, <2>1, <2>2 DEF CarryLeaves, Unasked, Undoing, CurrentOn, CurrentOff,
       Live, Serves
  <2>12. Waits'
    BY <1>1, <1>2, <1>4, <2>1, <2>2 DEF CarryLeaves, Waits, Has, NoticesAs, SameAnswers,
       CurrentOn, CurrentOff, Live, Serves
  <2>13. NoStaleStop'
    BY <1>1, <1>2, <1>4, <2>1, <2>2 DEF CarryLeaves, NoStaleStop, Undoing, Has, NoticesAs,
       SameAnswers, CurrentOn, CurrentOff, Live, Serves
  <2>14. StopsAreOlder'
    BY <1>1, <1>2, <1>4, <2>1, <2>2 DEF CarryLeaves, StopsAreOlder, NoticesAs, SameAnswers,
       CurrentOn, CurrentOff, Live, Serves
  <2>15. GivesUp'
    BY <1>1, <1>2, <1>4, <2>1, <2>2 DEF CarryLeaves, GivesUp, CurrentOn, Live, Has, NoticesAs,
       SameAnswers, CurrentOff, Serves
  <2> QED
    BY <2>3, <2>4, <2>5, <2>6, <2>7, <2>8, <2>9, <2>10, <2>11, <2>12, <2>13, <2>14,
     <2>15 DEF JInv, QInv
<1> QED
  BY <1>1, <1>2, <1>3, <1>4 DEF Tell, AppliedBy, CurrentOn, CurrentOff

LEMMA CarryKeepsAll == ASSUME WInv, NEW j \in GJob, Carry(j) PROVE WInv'
<1>1. CarryLeaves
  BY DEF Carry, CarryLeaves
<1>2. SInv'
  BY CarryKeeps DEF WInv
<1>3. Flags' /\ JInv' /\ NInv' /\ QInv'
  BY <1>1, BeginKeeps, EnableKeeps, StartWorksKeeps, StartFailsKeeps, CommitKeeps, CheckKeeps,
     AfterEnableKeeps, DisableKeeps, AfterDisableKeeps, TellKeeps DEF Carry
<1> QED
  BY <1>2, <1>3 DEF WInv

-----------------------------------------------------------------------------
(* The switch of the gateway: jobs that begin *)

\* Job j is the latest now, and has begun; f: the jobs whose run went on.
Begun(j, k, f) ==
  /\ gjob[j] = NoGJob /\ gjob[j].pc = "idle"
  /\ \A i \in GJob : i # j => gjob'[i] = gjob[i]
  /\ gjob'[j].pc = "begin" /\ gjob'[j].kind = k /\ gjob'[j] # NoGJob
  /\ switch'.job = j /\ switch'.target = k /\ gfresh' = f \cup {j}

LEMMA Launches ==
  ASSUME SwitchOK, NEW s \in SwitchState, NEW k \in {"on", "off"}, NEW user \in BOOLEAN,
         NEW f \in SUBSET GJob, Launch(s, k, user, f)
  PROVE  \E j \in GJob :
           /\ Begun(j, k, f)
           /\ switch'.toggle = (k = "on") /\ switch'.requested = s.requested
<1>1. PICK j \in GJob :
        /\ gjob[j] = NoGJob
        /\ gjob' = [gjob EXCEPT ![j] = [NoGJob EXCEPT !.kind = k, !.user = user, !.pc = "begin"]]
        /\ switch' = [s EXCEPT !.target = k, !.job = j, !.toggle = (k = "on")]
        /\ gfresh' = f \cup {j}
  BY DEF Launch
<1> DEFINE n == [NoGJob EXCEPT !.kind = k, !.user = user, !.pc = "begin"]
<1>2. n.pc = "begin" /\ n.kind = k /\ NoGJob.pc = "idle"
  BY DEF NoGJob
<1> HIDE DEF n
<1>3. gjob'[j] = n /\ \A i \in GJob : i # j => gjob'[i] = gjob[i]
  BY <1>1 DEF SwitchOK, n
<1>4. /\ switch'.job = j /\ switch'.target = k /\ switch'.toggle = (k = "on")
      /\ switch'.requested = s.requested
  BY <1>1 DEF SwitchState
<1> QED
  BY <1>1, <1>2, <1>3, <1>4 DEF Begun

LEMMA ClearedIs ==
  ASSUME NEW s \in SwitchState
  PROVE  /\ Cleared(s).requested = FALSE /\ Cleared(s).toggle = FALSE
         /\ Cleared(s).target = "none" /\ Cleared(s).job = 0
BY DEF Cleared, Dropped, SwitchState

\* A reset takes the request back, and a job switches off what may run.
LEMMA Resets ==
  ASSUME SwitchOK, NEW s \in SwitchState, NEW user \in BOOLEAN, NEW active \in BOOLEAN,
         NEW f \in SUBSET GJob, ResetWith(s, user, active, f)
  PROVE  /\ switch'.requested = FALSE /\ switch'.toggle = FALSE
         /\ \/ /\ ~active /\ ~s.requested /\ s.target # "on"
               /\ switch'.target = "none" /\ switch'.job = 0
               /\ gfresh' = f /\ UNCHANGED gjob
            \/ /\ s.requested \/ active \/ s.target = "on"
               /\ \E j \in GJob : Begun(j, "off", f)
<1>1. Cleared(s) \in SwitchState /\ s.requested \in BOOLEAN
  BY SwitchStates DEF SwitchState
<1>2. CASE s.requested \/ active \/ s.target = "on"
  <2>1. Launch(Cleared(s), "off", user, f)
    BY <1>2 DEF ResetWith
  <2>2. PICK j \in GJob :
           /\ Begun(j, "off", f)
           /\ switch'.toggle = ("off" = "on") /\ switch'.requested = Cleared(s).requested
    BY <1>1, <2>1, Launches
  <2>3. switch'.requested = FALSE /\ switch'.toggle = FALSE
    BY <2>2, ClearedIs
  <2> QED
    BY <1>2, <2>2, <2>3
<1>3. CASE ~(s.requested \/ active \/ s.target = "on")
  <2>1. switch' = Cleared(s) /\ gfresh' = f /\ UNCHANGED gjob
    BY <1>3 DEF ResetWith
  <2> QED
    BY <1>3, <2>1, ClearedIs
<1> QED
  BY <1>2, <1>3

\* The gateway is stopped from outside, whatever its jobs do.
LEMMA StopsGateway ==
  ASSUME WInv, NotStarting, ~gateway', UNCHANGED <<switch, gjob, gateLock>>, SameAnswers,
         hand' = "gone" => engine' = "off"
  PROVE  JInv' /\ Unasked' /\ NoStaleStop' /\ StopsAreOlder'
<1>1. JobShapes /\ Locks /\ OneAtATime /\ Serves /\ OfThisRun /\ Outcomes /\ Answers
  BY Known
<1>2. JobShapes' /\ Locks' /\ OneAtATime' /\ Serves' /\ Outcomes'
  BY <1>1 DEF JobShapes, Locks, OneAtATime, Serves, Outcomes, Live
<1>3. OfThisRun'
  BY <1>1 DEF OfThisRun, NotStarting
<1>4. Answers'
  BY <1>1 DEF Answers, SameAnswers, Has
<1>5. Unasked' /\ NoStaleStop' /\ StopsAreOlder'
  BY DEF Unasked, NoStaleStop, StopsAreOlder
<1> QED
  BY <1>2, <1>3, <1>4, <1>5 DEF JInv

\* The switch, the jobs and the gateway stay as they are.
LEMMA JobsStay ==
  ASSUME WInv, UNCHANGED <<gateway, switch, gjob, gfresh, gateLock>>, SameAnswers,
         hand' = "gone" => engine' = "off", engine' = "off" => engine = "off"
  PROVE  JInv'
<1>1. JobShapes /\ Locks /\ OneAtATime /\ Serves /\ OfThisRun /\ Outcomes /\ Answers
  BY Known
<1>2. JobShapes' /\ Locks' /\ OneAtATime' /\ Serves' /\ Outcomes'
  BY <1>1 DEF JobShapes, Locks, OneAtATime, Serves, Outcomes, Live
<1>3. OfThisRun'
  BY <1>1 DEF OfThisRun, NotStarting
<1>4. Answers'
  BY <1>1 DEF Answers, SameAnswers, Has
<1> QED
  BY <1>2, <1>3, <1>4 DEF JInv

\* A job begins, and is the latest.
LEMMA BegunKeeps ==
  ASSUME WInv, NEW j \in GJob, NEW k \in {"on", "off"},
         Begun(j, k, gfresh),
         UNCHANGED <<engine, gateway, gateLock>>, hand' = "gone" => hand = "gone", SameAnswers
  PROVE  JInv'
<1>1. JobShapes /\ Locks /\ OneAtATime /\ Serves /\ OfThisRun /\ Outcomes /\ Answers /\ 0 \notin GJob
  BY Known
<1>2. JobShapes' /\ Locks'
  BY <1>1 DEF Begun, JobShapes, Locks, Holding
<1>3. OneAtATime' /\ Serves' /\ Outcomes'
  BY <1>1 DEF Begun, OneAtATime, Serves, Outcomes, Live
<1>4. OfThisRun'
  BY <1>1 DEF Begun, OfThisRun, NotStarting
<1>5. Answers'
  BY <1>1 DEF Begun, Answers, SameAnswers, Has
<1> QED
  BY <1>2, <1>3, <1>4, <1>5 DEF JInv

\* A reset leaves nothing that waits, and no gateway without a job that stops it.
LEMMA ResetsKeep ==
  ASSUME WInv, hand = "idle", hand' \in {"idle", "stop"}, NEW s \in SwitchState, NEW user \in BOOLEAN,
         Reset(s, user), UNCHANGED <<engine, gateway, gateLock>>, conn'.closing = conn.closing,
         SameAnswers
  PROVE  Flags' /\ JInv' /\ QInv'
<1>1. /\ SwitchOK /\ Flags /\ gfresh \in SUBSET GJob /\ gateway \in BOOLEAN
      /\ JobShapes /\ Locks /\ OneAtATime /\ Serves /\ OfThisRun /\ Outcomes /\ Answers
  BY Known DEF SwitchOK
<1>2. ResetWith(s, user, gateway, gfresh)
  BY DEF Reset
<1>3. switch'.requested = FALSE /\ switch'.toggle = FALSE
  BY <1>1, <1>2, Resets
<1>4. CASE /\ ~gateway /\ switch'.target = "none" /\ switch'.job = 0
           /\ gfresh' = gfresh /\ UNCHANGED gjob
  <2>1. Flags'
    BY <1>1, <1>3, <1>4 DEF Flags
  <2>2. JobShapes' /\ Locks' /\ OneAtATime' /\ Serves' /\ Outcomes'
    BY <1>1, <1>4 DEF JobShapes, Locks, OneAtATime, Serves, Outcomes, Live
  <2>3. OfThisRun'
    BY <1>1, <1>4 DEF OfThisRun, NotStarting
  <2>4. Answers'
    BY <1>1, <1>4 DEF Answers, SameAnswers, Has
  <2>5. QInv'
    BY <1>3, <1>4 DEF QInv, Unasked, Waits, WaitsForRun, NoStaleStop, StopsAreOlder, GivesUp
  <2> QED
    BY <2>1, <2>2, <2>3, <2>4, <2>5 DEF JInv
<1>5. CASE \E j \in GJob : Begun(j, "off", gfresh)
  <2>1. PICK j \in GJob : Begun(j, "off", gfresh)
    BY <1>5
  <2>2. Flags'
    BY <1>1, <1>3, <2>1 DEF Begun, Flags
  <2>3. JInv'
    BY <2>1, BegunKeeps
  <2>4. QInv'
    BY <1>3, <2>1 DEF Begun, QInv, Unasked, Waits, WaitsForRun, NoStaleStop, StopsAreOlder, GivesUp
  <2> QED
    BY <2>2, <2>3, <2>4
<1>6. \/ /\ ~gateway /\ switch'.target = "none" /\ switch'.job = 0
         /\ gfresh' = gfresh /\ UNCHANGED gjob
      \/ \E j \in GJob : Begun(j, "off", gfresh)
  BY <1>1, <1>2, Resets
<1> QED
  BY <1>4, <1>5, <1>6

\* The gateway is switched on where it can be.
LEMMA StartsKeep ==
  ASSUME WInv, hand = "idle", UNCHANGED <<engine, gateway, gateLock, hand, conn, queue, revived>>,
         NEW s \in SwitchState, s.requested = TRUE, Launch(s, "on", TRUE, gfresh),
         engine = "up", conn.shown, ~conn.connecting, ~gateway
  PROVE  Flags' /\ JInv' /\ NInv' /\ QInv'
<1>1. SwitchOK /\ Flags /\ gfresh \in SUBSET GJob /\ WorkerStarts /\ ConnectingEnds /\ ShownEnds /\ UpIsShown
  BY Known DEF SwitchOK
<1>2. PICK j \in GJob :
           /\ Begun(j, "on", gfresh)
           /\ switch'.toggle = ("on" = "on") /\ switch'.requested = s.requested
  BY <1>1, Launches
<1>3. Flags' /\ ~conn.closing
  BY <1>1, <1>2 DEF Begun, Flags
<1>4. JInv'
  BY <1>2, BegunKeeps, SayNothing
<1>5. NInv'
  BY <1>1 DEF NInv, WorkerStarts, ConnectingEnds, ShownEnds, UpIsShown, Has, LastOn
<1>6. CurrentOn(j)'
  BY <1>2, <1>3 DEF Begun, CurrentOn
<1>7. GivesUp'
  BY <1>2, <1>6 DEF Begun, GivesUp, Live, CurrentOn
<1>8. Unasked' /\ Waits' /\ WaitsForRun' /\ NoStaleStop' /\ StopsAreOlder'
  BY <1>2 DEF Begun, Unasked, Waits, WaitsForRun, NoStaleStop, StopsAreOlder
<1> QED
  BY <1>3, <1>4, <1>5, <1>7, <1>8 DEF QInv

-----------------------------------------------------------------------------
(* The switch of the gateway: the connection comes and goes *)

LEMMA FlagsStay ==
  ASSUME Flags, UNCHANGED <<switch, hand>>, conn'.closing = conn.closing
  PROVE  Flags'
BY DEF Flags

LEMMA ConnectWorkerStays == ASSUME WInv, ConnectWorker PROVE WInv'
<1>1. /\ SwitchOK /\ QueueOK /\ conn \in Connection /\ Flags /\ OfThisRun
      /\ WorkerStarts /\ ConnectingEnds /\ ShownEnds /\ UpIsShown
      /\ Unasked /\ Waits /\ WaitsForRun /\ NoStaleStop /\ StopsAreOlder /\ GivesUp
  BY Known DEF WInv, SInv, ConnOK
<1>2. /\ NotStarting /\ hand # "gone" /\ hand' # "gone"
      /\ UNCHANGED <<switch, hand, late, gjob, gateLock, revived>>
  BY DEF ConnectWorker, Living
<1>3. SInv'
  BY EngineKeeps DEF WInv
<1>4. CASE /\ conn.worker = "working" /\ engine' = "up" /\ gfresh' = {}
           /\ conn' = [conn EXCEPT !.worker = "up"] /\ gateway' = FALSE /\ queue' = queue \o Halted
  <2>1. /\ conn'.worker = "up" /\ conn'.shown = conn.shown /\ conn'.connecting = conn.connecting
        /\ conn'.closing = conn.closing
    BY <1>1, <1>4 DEF Connection
  <2>2. NoticesAs(gateway, FALSE, FALSE) /\ SameAnswers
    BY <1>1, <1>4, SayHalted
  <2>3. Flags' /\ JInv' /\ Unasked' /\ NoStaleStop' /\ StopsAreOlder'
    BY <1>1, <1>2, <1>4, <2>1, <2>2, FlagsStay, StopsGateway
  <2>4. NInv'
    BY <1>4, <2>1 DEF NInv, WorkerStarts, ConnectingEnds, ShownEnds, UpIsShown
  <2>5. Waits' /\ WaitsForRun'
    BY <1>4, <2>1 DEF Waits, WaitsForRun
  <2>6. engine = "off" \/ revived
    BY <1>1, <1>4 DEF WorkerStarts
  <2>7. GivesUp'
    BY <1>1, <1>2, <2>2, <2>6 DEF GivesUp, CurrentOn, NoticesAs, Has
  <2> QED
    BY <1>3, <2>3, <2>4, <2>5, <2>7 DEF WInv, QInv
<1>5. CASE /\ conn.worker = "up" /\ conn' = [conn EXCEPT !.worker = "none"]
           /\ Emit(State(TRUE)) /\ UNCHANGED <<engine, gfresh, gateway>>
  <2>1. /\ conn'.worker = "none" /\ conn'.shown = conn.shown /\ conn'.connecting = conn.connecting
        /\ conn'.closing = conn.closing
    BY <1>1, <1>5 DEF Connection
  <2>2. NoticesAs(FALSE, FALSE, TRUE) /\ SameAnswers /\ LastOn'
    BY <1>1, <1>5, SayState DEF NoticesAs
  <2>3. Flags' /\ JInv'
    BY <1>1, <1>2, <1>5, <2>1, <2>2, FlagsStay, JobsStay
  <2>4. NInv'
    BY <1>1, <1>2, <1>5, <2>1, <2>2
       DEF NInv, WorkerStarts, ConnectingEnds, ShownEnds, UpIsShown, NoticesAs, Has
  <2>5. Waits' /\ WaitsForRun' /\ NoStaleStop'
    BY <1>1, <1>2, <1>5, <2>2 DEF Waits, WaitsForRun, NoStaleStop, Undoing, NoticesAs, Has
  <2>6. Unasked'
    BY <1>1, <1>2, <1>5 DEF Unasked, Undoing
  <2>7. GivesUp'
    BY <1>1, <1>2, <1>5, <2>1, <2>2 DEF GivesUp, CurrentOn, Live, NoticesAs, Has
  <2>8. StopsAreOlder'
    BY <1>1, <1>2, <1>5, <2>2, Known DEF StopsAreOlder, NoticesAs
  <2> QED
    BY <1>3, <2>3, <2>4, <2>5, <2>6, <2>7, <2>8 DEF WInv, QInv
<1>6. CASE /\ conn.worker # "none" /\ conn' = [conn EXCEPT !.worker = "none"]
           /\ engine' = "off" /\ gfresh' = {} /\ gateway' = FALSE
           /\ queue' = queue \o Halted \o <<State(FALSE)>>
  <2>1. /\ conn'.worker = "none" /\ conn'.shown = conn.shown /\ conn'.connecting = conn.connecting
        /\ conn'.closing = conn.closing
    BY <1>1, <1>6 DEF Connection
  <2>2. In(queue', State(FALSE)) /\ SameAnswers
    BY <1>1, <1>6, SayHaltedOff
  <2>3. Flags' /\ JInv' /\ Unasked' /\ NoStaleStop' /\ StopsAreOlder'
    BY <1>1, <1>2, <1>6, <2>1, <2>2, FlagsStay, StopsGateway
  <2>4. NInv'
    BY <1>6, <2>1, <2>2 DEF NInv, WorkerStarts, ConnectingEnds, ShownEnds, UpIsShown, Has
  <2>5. Waits' /\ WaitsForRun' /\ GivesUp'
    BY <2>2 DEF Waits, WaitsForRun, GivesUp, Has
  <2> QED
    BY <1>3, <2>3, <2>4, <2>5 DEF WInv, QInv
<1> QED
  BY <1>4, <1>5, <1>6 DEF ConnectWorker

LEMMA LostStays == ASSUME WInv, Lost PROVE WInv'
<1>1. /\ SwitchOK /\ QueueOK /\ Flags /\ OfThisRun
      /\ WorkerStarts /\ ConnectingEnds /\ ShownEnds /\ UpIsShown
      /\ Unasked /\ Waits /\ WaitsForRun /\ NoStaleStop /\ StopsAreOlder /\ GivesUp
  BY Known
<1>2. /\ hand # "gone" /\ hand' # "gone"
      /\ UNCHANGED <<switch, conn, hand, late, gjob, gateLock, revived>>
  BY DEF Lost, Living
<1>3. SInv'
  BY EngineKeeps DEF WInv
<1>4. CASE engine = "up" /\ engine' = "dead" /\ UNCHANGED <<gateway, queue, gfresh>>
  <2>1. NoticesAs(FALSE, FALSE, FALSE) /\ SameAnswers
    BY <1>4, SayNothing
  <2>2. Flags' /\ JInv'
    BY <1>1, <1>2, <1>4, <2>1, FlagsStay, JobsStay
  <2>3. NInv'
    BY <1>1, <1>2, <1>4 DEF NInv, WorkerStarts, ConnectingEnds, ShownEnds, UpIsShown, Has
  <2>4. QInv'
    BY <1>1, <1>2, <1>4, <2>1 DEF QInv, Waits, WaitsForRun, GivesUp, NoStaleStop, Unasked, Undoing, Has,
       StopsAreOlder
  <2> QED
    BY <1>3, <2>2, <2>3, <2>4 DEF WInv
<1>5. CASE /\ engine = "dead" /\ NotStarting /\ engine' = "off" /\ gfresh' = {} /\ gateway' = FALSE
           /\ queue' = queue \o Halted \o <<State(FALSE)>>
  <2>1. In(queue', State(FALSE)) /\ SameAnswers
    BY <1>1, <1>5, SayHaltedOff
  <2>2. Flags' /\ JInv' /\ Unasked' /\ NoStaleStop' /\ StopsAreOlder'
    BY <1>1, <1>2, <1>5, <2>1, FlagsStay, StopsGateway
  <2>3. NInv'
    BY <1>5, <2>1 DEF NInv, WorkerStarts, ConnectingEnds, ShownEnds, UpIsShown, Has
  <2>4. Waits' /\ WaitsForRun' /\ GivesUp'
    BY <2>1 DEF Waits, WaitsForRun, GivesUp, Has
  <2> QED
    BY <1>3, <2>2, <2>3, <2>4 DEF WInv, QInv
<1> QED
  BY <1>4, <1>5 DEF Lost

LEMMA OfflineStays == ASSUME WInv, Offline PROVE WInv'
<1>1. /\ QueueOK /\ Flags /\ NInv /\ WaitsForRun /\ GivesUp
  BY Known DEF WInv
<1>2. /\ NotStarting /\ hand # "gone" /\ hand' # "gone" /\ gateway' = FALSE /\ Emit(Runtime(FALSE))
      /\ UNCHANGED <<engine, switch, conn, hand, late, gjob, gfresh, gateLock, revived>>
  BY DEF Offline, Living
<1>3. SInv'
  BY EngineKeeps DEF WInv
<1>4. NoticesAs(TRUE, FALSE, FALSE) /\ SameAnswers
  BY <1>1, <1>2, SayRuntime
<1>5. Flags' /\ JInv' /\ Unasked' /\ NoStaleStop' /\ StopsAreOlder'
  BY <1>1, <1>2, <1>4, FlagsStay, StopsGateway
<1>6. NInv'
  BY <1>1, <1>2, <1>4 DEF NInv, WorkerStarts, ConnectingEnds, ShownEnds, UpIsShown, NoticesAs, Has
<1>7. Waits' /\ WaitsForRun'
  BY <1>1, <1>2, <1>4 DEF Waits, WaitsForRun, NoticesAs, Has
<1>8. GivesUp'
  BY <1>1, <1>2, <1>4 DEF GivesUp, CurrentOn, Live, NoticesAs, Has
<1> QED
  BY <1>3, <1>5, <1>6, <1>7, <1>8 DEF WInv, QInv

-----------------------------------------------------------------------------
(* The switch of the gateway: what the GUI thread does *)

\* No job is behind the switch any more.
LEMMA NobodyServes ==
  ASSUME JobShapes, Locks, Answers, UNCHANGED <<gjob, gateLock>>, SameAnswers,
         switch'.job = 0, switch'.target = "none", OfThisRun'
  PROVE  JInv' /\ StopsAreOlder' /\ GivesUp'
BY DEF JInv, JobShapes, Locks, OneAtATime, Serves, Outcomes, Answers, SameAnswers, Has, StopsAreOlder,
   GivesUp

LEMMA StopEngineStays == ASSUME WInv, StopEngine PROVE WInv'
<1>1. /\ SwitchOK /\ conn \in Connection /\ Flags /\ JobShapes /\ Locks /\ Answers
      /\ switch.target \in {"none", "on", "off"}
  BY Known DEF WInv, SInv, ConnOK
<1>2. /\ hand = "stop" /\ NotStarting /\ hand' = "idle" /\ engine' = "off" /\ gateway' = FALSE
      /\ conn' = [conn EXCEPT !.shown = FALSE, !.connecting = FALSE, !.worker = "none"]
      /\ UNCHANGED <<queue, late, gateLock, revived, acts>>
  BY DEF StopEngine
<1>3. SInv'
  BY StopEngineKeeps DEF WInv
<1>4. /\ ~conn'.shown /\ ~conn'.connecting /\ conn'.worker = "none" /\ conn'.closing = conn.closing
  BY <1>1, <1>2 DEF Connection
<1> DEFINE s == IF gateway /\ switch.target = "none" THEN Cleared(switch) ELSE switch
<1>5. s \in SwitchState /\ s.requested = FALSE /\ s.target # "on"
  <2>1. switch \in SwitchState /\ switch.requested = FALSE /\ switch.target # "on"
    BY <1>1, <1>2 DEF SwitchOK, SwitchState, Flags
  <2> QED
    BY <2>1, ClearedIs, SwitchStates
<1>6. ResetWith(s, FALSE, FALSE, {})
  BY DEF StopEngine
<1> HIDE DEF s
<1>7. /\ switch'.requested = FALSE /\ switch'.toggle = FALSE
      /\ switch'.target = "none" /\ switch'.job = 0 /\ gfresh' = {} /\ UNCHANGED gjob
  <2>1. switch' = Cleared(s) /\ gfresh' = {} /\ UNCHANGED gjob
    BY <1>5, <1>6 DEF ResetWith
  <2> QED
    BY <1>5, <2>1, ClearedIs
<1>8. Flags'
  BY <1>1, <1>2, <1>4, <1>7 DEF Flags
<1>9. OfThisRun'
  BY <1>2, <1>7 DEF OfThisRun, NotStarting
<1>10. JInv' /\ StopsAreOlder' /\ GivesUp'
  BY <1>1, <1>2, <1>7, <1>9, NobodyServes, SayNothing
<1>11. NInv'
  BY <1>2, <1>4 DEF NInv, WorkerStarts, ConnectingEnds, ShownEnds, UpIsShown
<1>12. Unasked' /\ Waits' /\ WaitsForRun' /\ NoStaleStop'
  BY <1>2, <1>7 DEF Unasked, Waits, WaitsForRun, NoStaleStop
<1> QED
  BY <1>3, <1>8, <1>10, <1>11, <1>12 DEF WInv, QInv

LEMMA QuitGatewayStays == ASSUME WInv, QuitGateway PROVE WInv'
<1>1. /\ SwitchOK /\ conn \in Connection /\ Flags /\ JobShapes /\ Locks /\ Answers /\ OfThisRun
      /\ WorkerStarts /\ ConnectingEnds /\ ShownEnds /\ UpIsShown /\ GivesUp
  BY Known DEF WInv, SInv, ConnOK
<1>2. UNCHANGED <<queue, late, gjob, gateLock, revived, acts>>
  BY DEF QuitGateway
<1>3. SInv'
  BY RestKeeps DEF WInv
<1>4. NoticesAs(FALSE, FALSE, FALSE) /\ SameAnswers
  BY <1>2, SayNothing
<1>5. CASE /\ hand = "idle" /\ hand' = "quit" /\ switch' = Cleared(switch)
           /\ conn' = [conn EXCEPT !.closing = TRUE] /\ UNCHANGED <<engine, gateway, gfresh>>
  <2>1. /\ switch'.requested = FALSE /\ switch'.toggle = FALSE
        /\ switch'.target = "none" /\ switch'.job = 0
    BY <1>1, <1>5, ClearedIs DEF SwitchOK
  <2>2. conn'.shown = conn.shown /\ conn'.connecting = conn.connecting /\ conn'.worker = conn.worker
    BY <1>1, <1>5 DEF Connection
  <2>3. Flags' /\ Unasked' /\ Waits' /\ WaitsForRun' /\ NoStaleStop'
    BY <1>5, <2>1 DEF Flags, Unasked, Waits, WaitsForRun, NoStaleStop
  <2>4. OfThisRun'
    BY <1>1, <1>2, <1>5, <2>1 DEF OfThisRun, NotStarting
  <2>5. JInv' /\ StopsAreOlder' /\ GivesUp'
    BY <1>1, <1>2, <1>4, <2>1, <2>4, NobodyServes
  <2>6. NInv'
    BY <1>1, <1>2, <1>5, <2>2 DEF NInv, WorkerStarts, ConnectingEnds, ShownEnds, UpIsShown, Has, LastOn
  <2> QED
    BY <1>3, <2>3, <2>5, <2>6 DEF WInv, QInv
<1>6. CASE /\ hand = "quit" /\ NotStarting /\ hand' = "quit stop" /\ gateway' = FALSE
           /\ UNCHANGED <<engine, switch, conn, gfresh>>
  <2>1. Flags' /\ JInv' /\ Unasked' /\ NoStaleStop' /\ StopsAreOlder'
    BY <1>1, <1>2, <1>4, <1>6, StopsGateway DEF Flags
  <2>2. NInv'
    BY <1>1, <1>2, <1>6 DEF NInv, WorkerStarts, ConnectingEnds, ShownEnds, UpIsShown, Has, LastOn
  <2>3. Waits' /\ WaitsForRun' /\ GivesUp'
    BY <1>1, <1>6 DEF Flags, Waits, WaitsForRun, GivesUp
  <2> QED
    BY <1>3, <2>1, <2>2, <2>3 DEF WInv, QInv
<1>7. CASE /\ hand = "quit stop" /\ NotStarting /\ hand' = "gone" /\ gateway' = FALSE
           /\ engine' = "off" /\ gfresh' = {} /\ conn' = [conn EXCEPT !.worker = "none"]
           /\ UNCHANGED switch
  <2>1. conn'.worker = "none" /\ conn'.closing = conn.closing
    BY <1>1, <1>7 DEF Connection
  <2>2. Flags' /\ JInv' /\ Unasked' /\ NoStaleStop' /\ StopsAreOlder'
    BY <1>1, <1>2, <1>4, <1>7, <2>1, StopsGateway DEF Flags
  <2>3. NInv'
    BY <1>7, <2>1 DEF NInv, WorkerStarts, ConnectingEnds, ShownEnds, UpIsShown
  <2>4. Waits' /\ WaitsForRun' /\ GivesUp'
    BY <1>1, <1>7 DEF Flags, Waits, WaitsForRun, GivesUp
  <2> QED
    BY <1>3, <2>2, <2>3, <2>4 DEF WInv, QInv
<1> QED
  BY <1>5, <1>6, <1>7 DEF QuitGateway

\* A timer that has nothing to do leaves something else that is waited for.
LEMMA LateTimerStays == ASSUME WInv, LateTimer PROVE WInv'
<1>1. /\ SwitchOK /\ conn \in Connection /\ Flags /\ PartsOK
      /\ WorkerStarts /\ ConnectingEnds /\ ShownEnds /\ UpIsShown
      /\ Unasked /\ Waits /\ WaitsForRun /\ NoStaleStop /\ StopsAreOlder /\ GivesUp
  BY Known DEF WInv, SInv, ConnOK
<1>2. /\ hand = "idle" /\ QueueOn(switch)
      /\ UNCHANGED <<engine, gateway, conn, hand, queue, gateLock, revived, acts>>
  BY DEF LateTimer
<1>3. SInv'
  BY RestKeeps DEF WInv
<1>4. CASE /\ switch.requested /\ engine = "up" /\ conn.shown /\ ~conn.connecting /\ ~gateway
           /\ switch.target # "on"
  <2>1. Launch(switch, "on", TRUE, gfresh)
    BY <1>2, <1>4 DEF QueueOn
  <2>2. switch \in SwitchState /\ switch.requested = TRUE
    BY <1>1, <1>4 DEF SwitchOK, SwitchState
  <2> QED
    BY <1>2, <1>3, <1>4, <2>1, <2>2, StartsKeep DEF WInv
<1>5. CASE ~(/\ switch.requested /\ engine = "up" /\ conn.shown /\ ~conn.connecting /\ ~gateway
             /\ switch.target # "on")
  <2>1. UNCHANGED <<switch, gjob, gfresh>>
    BY <1>2, <1>5 DEF QueueOn
  <2>2. NoticesAs(FALSE, FALSE, FALSE) /\ SameAnswers
    BY <1>2, SayNothing
  <2>3. Flags' /\ JInv'
    BY <1>1, <1>2, <2>1, <2>2, FlagsStay, JobsStay
  <2>4. NInv'
    BY <1>1, <1>2 DEF NInv, WorkerStarts, ConnectingEnds, ShownEnds, UpIsShown, Has, LastOn
  <2>5. Unasked' /\ WaitsForRun' /\ NoStaleStop' /\ StopsAreOlder' /\ GivesUp'
    BY <1>1, <1>2, <2>1 DEF Unasked, Undoing, WaitsForRun, NoStaleStop, StopsAreOlder, GivesUp,
       CurrentOn, Live, Has
  <2>6. ASSUME switch.requested, ~gateway, switch.target = "none"
        PROVE  Has(State(FALSE)) \/ Has(State(TRUE)) \/ engine = "dead" \/ conn.worker # "none"
    <3>1. CASE engine = "off"
      BY <1>1, <2>6, <3>1 DEF WaitsForRun
    <3>2. CASE conn.connecting
      BY <1>1, <1>2, <3>2 DEF ConnectingEnds
    <3>3. CASE engine = "up" /\ ~conn.shown
      <4>1. LastOn => Has(State(TRUE))
        BY DEF LastOn, LastIs, Has, In
      <4> QED
        BY <1>1, <3>3, <4>1 DEF UpIsShown
    <3> QED
      BY <1>1, <1>5, <2>6, <3>1, <3>2, <3>3 DEF PartsOK
  <2>7. Waits'
    BY <1>2, <2>1, <2>6 DEF Waits, Has
  <2> QED
    BY <1>3, <2>3, <2>4, <2>5, <2>7 DEF WInv, QInv
<1> QED
  BY <1>4, <1>5

\* An attempt begins: of the connection, that is; the switch is as it was, or has just
\* been asked for.
LEMMA AttemptStays ==
  ASSUME WInv, hand = "idle", UNCHANGED hand, BeginAttempt, engine # "up",
         UNCHANGED <<engine, queue>>
  PROVE  NInv' /\ Waits' /\ WaitsForRun' /\ conn'.closing = conn.closing
<1>1. /\ conn \in Connection /\ PartsOK
      /\ WorkerStarts /\ ConnectingEnds /\ ShownEnds /\ UpIsShown
  BY Known DEF WInv, SInv, ConnOK
<1>2. /\ conn'.connecting /\ conn'.worker = "working" /\ conn'.shown = conn.shown
      /\ conn'.closing = conn.closing
  BY <1>1 DEF BeginAttempt, Connection
<1>3. WorkerStarts'
  BY <1>1, <1>2 DEF WorkerStarts, BeginAttempt, PartsOK
<1>4. ConnectingEnds' /\ ShownEnds' /\ UpIsShown'
  BY <1>1, <1>2 DEF ConnectingEnds, ShownEnds, UpIsShown, Has
<1>5. Waits' /\ WaitsForRun'
  BY <1>2 DEF Waits, WaitsForRun
<1> QED
  BY <1>2, <1>3, <1>4, <1>5 DEF NInv

LEMMA ToggleConnectionStays == ASSUME WInv, ToggleConnection PROVE WInv'
<1>1. /\ SwitchOK /\ conn \in Connection /\ Flags /\ PartsOK /\ NInv
      /\ Unasked /\ NoStaleStop /\ StopsAreOlder /\ GivesUp
  BY Known DEF WInv, SInv, ConnOK
<1>2. hand = "idle" /\ UNCHANGED <<engine, gateway, queue, late, gateLock>>
  BY DEF ToggleConnection, Act
<1>3. SInv'
  BY ToggleConnectionKeeps DEF WInv
<1>4. NoticesAs(FALSE, FALSE, FALSE) /\ SameAnswers
  BY <1>2, SayNothing
<1>5. CASE Connecting
  <2>1. /\ Reset(switch, FALSE) /\ hand' = "stop" /\ conn' = [conn EXCEPT !.connecting = FALSE]
        /\ UNCHANGED revived
    BY <1>5 DEF ToggleConnection
  <2>2. /\ conn'.shown = conn.shown /\ ~conn'.connecting /\ conn'.worker = conn.worker
        /\ conn'.closing = conn.closing
    BY <1>1, <2>1 DEF Connection
  <2>3. NInv'
    BY <1>1, <1>2, <2>1, <2>2 DEF NInv, WorkerStarts, ConnectingEnds, ShownEnds, UpIsShown, Has, LastOn
  <2>4. switch \in SwitchState /\ FALSE \in BOOLEAN
    BY <1>1 DEF SwitchOK
  <2>5. Flags' /\ JInv' /\ QInv'
    BY <1>2, <1>4, <2>1, <2>2, <2>4, ResetsKeep
  <2> QED
    BY <1>3, <2>3, <2>5 DEF WInv
<1>6. CASE ~Connecting
  <2>1. BeginAttempt /\ UNCHANGED <<switch, gjob, gfresh, hand>> /\ engine # "up"
    BY <1>6 DEF ToggleConnection, Connecting
  <2>2. NInv' /\ Waits' /\ WaitsForRun' /\ conn'.closing = conn.closing
    BY <1>2, <2>1, AttemptStays
  <2>3. Flags' /\ JInv'
    BY <1>1, <1>2, <1>4, <2>1, <2>2, FlagsStay, JobsStay
  <2>4. Unasked' /\ NoStaleStop' /\ StopsAreOlder'
    BY <1>1, <1>2, <2>1 DEF Unasked, Undoing, NoStaleStop, StopsAreOlder, Has
  <2>5. GivesUp'
    <3>1. revived => revived'
      BY <1>1, <2>1 DEF BeginAttempt, PartsOK
    <3> QED
      BY <1>1, <1>2, <2>1, <3>1 DEF GivesUp, CurrentOn, Has
  <2> QED
    BY <1>3, <2>2, <2>3, <2>4, <2>5 DEF WInv, QInv
<1> QED
  BY <1>5, <1>6

\* The user asks for the gateway where no job can begin.
LEMMA AskedKeeps ==
  ASSUME WInv, hand = "idle", UNCHANGED hand, switch.target = "none",
         switch' = [Dropped(switch) EXCEPT !.requested = TRUE, !.toggle = TRUE],
         UNCHANGED <<engine, gateway, queue, gjob, gfresh, gateLock>>, conn'.closing = conn.closing
  PROVE  Flags' /\ JInv' /\ Unasked' /\ NoStaleStop' /\ StopsAreOlder' /\ GivesUp'
<1>1. /\ SwitchOK /\ Flags /\ JobShapes /\ Locks /\ Answers /\ OfThisRun /\ NoStaleStop
  BY Known
<1>2. /\ switch'.requested = TRUE /\ switch'.toggle = TRUE
      /\ switch'.target = "none" /\ switch'.job = 0
  BY <1>1 DEF SwitchOK, SwitchState, Dropped
<1>3. Flags'
  BY <1>1, <1>2 DEF Flags
<1>4. OfThisRun'
  BY <1>1, <1>2 DEF OfThisRun, NotStarting
<1>5. JInv' /\ StopsAreOlder' /\ GivesUp'
  BY <1>1, <1>2, <1>4, NobodyServes, SayNothing
<1>6. Unasked' /\ NoStaleStop'
  BY <1>1, <1>2 DEF Unasked, NoStaleStop, Undoing, Has
<1> QED
  BY <1>3, <1>5, <1>6

LEMMA ClickGatewayStays == ASSUME WInv, ClickGateway PROVE WInv'
<1>1. /\ SwitchOK /\ conn \in Connection /\ Flags /\ PartsOK /\ NInv
      /\ WorkerStarts /\ ConnectingEnds /\ ShownEnds /\ UpIsShown
  BY Known DEF WInv, SInv, ConnOK
<1>2. hand = "idle" /\ switch.target = "none" /\ UNCHANGED <<engine, gateway, queue, late, gateLock>>
  BY DEF ClickGateway, Act
<1>3. SInv'
  BY ClickGatewayKeeps DEF WInv
<1>4. NoticesAs(FALSE, FALSE, FALSE) /\ SameAnswers
  BY <1>2, SayNothing
<1> DEFINE s == [Dropped(switch) EXCEPT !.requested = TRUE, !.toggle = TRUE]
           o == [switch EXCEPT !.toggle = FALSE]
<1>5. s \in SwitchState /\ o \in SwitchState /\ s.requested = TRUE /\ s.target = "none"
  <2>1. s \in SwitchState /\ o \in SwitchState
    BY <1>1, SwitchStates DEF SwitchOK
  <2>2. s.requested = TRUE /\ s.target = "none"
    BY <1>1 DEF SwitchOK, SwitchState, Dropped
  <2> QED
    BY <2>1, <2>2
<1>6. \/ Reset(o, TRUE) /\ UNCHANGED <<conn, hand, revived>>
      \/ /\ conn.connecting \/ (engine = "up" /\ conn.shown)
         /\ QueueOn(s) /\ UNCHANGED <<conn, hand, revived>>
      \/ Reset(s, FALSE) /\ hand' \in {"idle", "stop"} /\ UNCHANGED <<conn, revived>>
      \/ /\ conn.shown /\ ~conn.connecting /\ engine # "up" /\ UNCHANGED <<conn, revived, hand>>
         /\ switch' = s /\ UNCHANGED <<gjob, gfresh>>
      \/ /\ engine # "up" /\ BeginAttempt /\ UNCHANGED hand
         /\ switch' = s /\ UNCHANGED <<gjob, gfresh>>
  BY <1>2 DEF ClickGateway, Connecting
<1>7. ASSUME switch' = s, UNCHANGED <<gjob, gfresh, hand>>, conn'.closing = conn.closing
      PROVE  Flags' /\ JInv' /\ Unasked' /\ NoStaleStop' /\ StopsAreOlder' /\ GivesUp'
  BY <1>2, <1>7, AskedKeeps
<1>8. ASSUME UNCHANGED <<conn, revived>>, hand' # "gone"
      PROVE  NInv'
  BY <1>1, <1>2, <1>8 DEF NInv, WorkerStarts, ConnectingEnds, ShownEnds, UpIsShown, Has, LastOn
<1> HIDE DEF s, o
<1>9. CASE \/ Reset(o, TRUE) /\ UNCHANGED <<conn, hand, revived>>
           \/ Reset(s, FALSE) /\ hand' \in {"idle", "stop"} /\ UNCHANGED <<conn, revived>>
  <2>1. hand' \in {"idle", "stop"} /\ UNCHANGED <<conn, revived>>
    BY <1>2, <1>9
  <2>2. Flags' /\ JInv' /\ QInv'
    BY <1>2, <1>4, <1>5, <1>9, <2>1, ResetsKeep
  <2> QED
    BY <1>3, <1>8, <2>1, <2>2 DEF WInv
<1>10. CASE /\ conn.connecting \/ (engine = "up" /\ conn.shown)
            /\ QueueOn(s) /\ UNCHANGED <<conn, hand, revived>>
  <2>1. CASE engine = "up" /\ conn.shown /\ ~conn.connecting /\ ~gateway
    <3>1. Launch(s, "on", TRUE, gfresh)
      BY <1>5, <1>10, <2>1 DEF QueueOn
    <3> QED
      BY <1>2, <1>3, <1>5, <1>10, <2>1, <3>1, StartsKeep DEF WInv
  <2>2. CASE ~(engine = "up" /\ conn.shown /\ ~conn.connecting /\ ~gateway)
    <3>1. switch' = s /\ UNCHANGED <<gjob, gfresh>>
      BY <1>10, <2>2 DEF QueueOn
    <3>2. conn.connecting \/ (gateway /\ engine = "up")
      BY <1>10, <2>2
    <3>3. Waits' /\ WaitsForRun'
      BY <1>1, <1>2, <1>10, <3>2 DEF Waits, WaitsForRun, ConnectingEnds, Has
    <3> QED
      BY <1>2, <1>3, <1>7, <1>8, <1>10, <3>1, <3>3 DEF WInv, QInv
  <2> QED
    BY <2>1, <2>2
<1>11. CASE /\ conn.shown /\ ~conn.connecting /\ engine # "up" /\ UNCHANGED <<conn, revived, hand>>
            /\ switch' = s /\ UNCHANGED <<gjob, gfresh>>
  <2>1. engine = "dead" \/ Has(State(FALSE))
    BY <1>1, <1>2, <1>11 DEF PartsOK, ShownEnds
  <2>2. Waits' /\ WaitsForRun'
    BY <1>1, <1>2, <1>11, <2>1 DEF Waits, WaitsForRun, Has
  <2> QED
    BY <1>2, <1>3, <1>7, <1>8, <1>11, <2>2 DEF WInv, QInv
<1>12. CASE /\ engine # "up" /\ BeginAttempt /\ UNCHANGED hand
            /\ switch' = s /\ UNCHANGED <<gjob, gfresh>>
  <2>1. NInv' /\ Waits' /\ WaitsForRun' /\ conn'.closing = conn.closing
    BY <1>2, <1>12, AttemptStays
  <2> QED
    BY <1>3, <1>7, <1>12, <2>1 DEF WInv, QInv
<1> QED
  BY <1>6, <1>9, <1>10, <1>11, <1>12

-----------------------------------------------------------------------------
(* The switch of the gateway: signals *)

LEMMA Heard ==
  ASSUME QueueOK, queue # <<>>, queue' = Tail(queue)
  PROVE  /\ \A x : x # Head(queue) => (In(queue', x) <=> Has(x))
         /\ \A x, y : NoneAfter(queue, x, y) => NoneAfter(queue', x, y)
         /\ \A y : NoneAfter(queue, Head(queue), y) => ~In(queue', y)
         /\ LastOn => LastOn' \/ (Head(queue) = State(TRUE) /\ ~In(queue', State(FALSE)))
         /\ Has(Head(queue)) /\ Head(queue) \in Notice
<1>1. queue \in Seq(Notice)
  BY DEF QueueOK
<1>2. /\ \A x : In(queue, x) <=> In(queue', x) \/ x = Head(queue)
      /\ \A x, y : NoneAfter(queue, x, y) => NoneAfter(queue', x, y)
      /\ \A y : NoneAfter(queue, Head(queue), y) => ~In(queue', y)
      /\ \A x, y : LastIs(queue, x, y) =>
           LastIs(queue', x, y) \/ (Head(queue) = x /\ ~In(queue', y))
  BY <1>1, Taking
<1>3. Head(queue) \in Notice
  BY <1>1
<1> QED
  BY <1>2, <1>3 DEF Has, LastOn

LEMMA RuntimeStays ==
  ASSUME WInv, hand = "idle",
         UNCHANGED <<engine, gateway, hand, gateLock, revived, conn, late, gjob, gfresh>>,
         queue # <<>>, queue' = Tail(queue), NEW b \in BOOLEAN, Head(queue) = Runtime(b),
         RuntimeChanged(b)
  PROVE  Flags' /\ JInv' /\ NInv' /\ QInv'
<1>1. /\ SwitchOK /\ QueueOK /\ Flags /\ JobShapes /\ Locks /\ Answers /\ OfThisRun
      /\ WorkerStarts /\ ConnectingEnds /\ ShownEnds /\ UpIsShown
      /\ Unasked /\ Waits /\ WaitsForRun /\ NoStaleStop /\ StopsAreOlder /\ GivesUp
  BY Known
<1>2. /\ \A x : x # Runtime(b) => (In(queue', x) <=> Has(x))
      /\ \A x, y : NoneAfter(queue, x, y) => NoneAfter(queue', x, y)
      /\ LastOn => LastOn'
      /\ Has(Runtime(b))
  BY <1>1, Heard, DifferentNotices
<1>3. SameAnswers
  BY <1>2, DifferentNotices DEF SameAnswers
<1>4. /\ In(queue', State(FALSE)) <=> Has(State(FALSE))
      /\ In(queue', State(TRUE)) <=> Has(State(TRUE))
      /\ b => (In(queue', Runtime(FALSE)) <=> Has(Runtime(FALSE)))
  BY <1>2, DifferentNotices
<1>5. NInv'
  BY <1>1, <1>2, <1>4 DEF NInv, WorkerStarts, ConnectingEnds, ShownEnds, UpIsShown, Has
<1>6. CASE UNCHANGED switch /\ (b \/ switch.target # "none")
  <2>1. Flags' /\ JInv'
    BY <1>1, <1>3, <1>6, FlagsStay, JobsStay
  <2>2. Unasked' /\ WaitsForRun' /\ GivesUp'
    BY <1>1, <1>4, <1>6 DEF Unasked, Undoing, WaitsForRun, GivesUp, CurrentOn, Live, Has
  <2>3. Waits' /\ NoStaleStop'
    BY <1>1, <1>4, <1>6 DEF Waits, NoStaleStop, Undoing, Has
  <2>4. StopsAreOlder'
    BY <1>1, <1>2, <1>6 DEF StopsAreOlder
  <2> QED
    BY <1>5, <2>1, <2>2, <2>3, <2>4 DEF QInv
<1>7. CASE ~b /\ switch.target = "none" /\ switch' = Cleared(switch)
  <2>1. /\ switch'.requested = FALSE /\ switch'.toggle = FALSE
        /\ switch'.target = "none" /\ switch'.job = 0
    BY <1>1, <1>7, ClearedIs DEF SwitchOK
  <2>2. Flags' /\ Waits' /\ WaitsForRun'
    BY <1>1, <2>1 DEF Flags, Waits, WaitsForRun
  <2>3. OfThisRun'
    BY <1>1, <2>1 DEF OfThisRun, NotStarting
  <2>4. JInv' /\ StopsAreOlder' /\ GivesUp'
    BY <1>1, <1>3, <2>1, <2>3, NobodyServes
  <2>5. gateway => Undoing
    BY <1>1, <1>2, <1>7 DEF NoStaleStop
  <2>6. Unasked' /\ NoStaleStop'
    BY <2>5 DEF Unasked, NoStaleStop, Undoing
  <2> QED
    BY <1>5, <2>2, <2>4, <2>6 DEF QInv
<1>8. CASE b /\ switch' = [switch EXCEPT !.toggle = switch.toggle \/ switch.requested]
  <2>1. UNCHANGED switch
    <3>1. switch \in SwitchState /\ (switch.toggle \/ switch.requested) = switch.toggle
      BY <1>1 DEF SwitchOK, SwitchState, Flags
    <3> QED
      BY <1>8, <3>1 DEF SwitchState
  <2> QED
    BY <1>6, <1>8, <2>1
<1> QED
  BY <1>6, <1>7, <1>8 DEF RuntimeChanged

LEMMA ShowStateStays ==
  ASSUME WInv, hand = "idle", UNCHANGED <<engine, gateway, hand, gateLock, revived>>,
         queue # <<>>, queue' = Tail(queue), NEW b \in BOOLEAN, Head(queue) = State(b), ShowState(b)
  PROVE  Flags' /\ JInv' /\ NInv' /\ QInv'
<1>1. /\ SwitchOK /\ QueueOK /\ conn \in Connection /\ PartsOK /\ Flags
      /\ WorkerStarts /\ ConnectingEnds /\ ShownEnds /\ UpIsShown
      /\ Unasked /\ Waits /\ WaitsForRun /\ NoStaleStop /\ StopsAreOlder /\ GivesUp
  BY Known DEF WInv, SInv, ConnOK
<1> DEFINE r == b /\ engine = "up"
<1>2. /\ \A x : x # State(b) => (In(queue', x) <=> Has(x))
      /\ \A x, y : NoneAfter(queue, x, y) => NoneAfter(queue', x, y)
      /\ LastOn => LastOn' \/ (b /\ ~In(queue', State(FALSE)))
      /\ Has(State(b))
  BY <1>1, Heard, DifferentNotices
<1>3. SameAnswers
  BY <1>2, DifferentNotices DEF SameAnswers
<1>4. /\ conn'.shown = r /\ ~conn'.connecting /\ conn'.worker = conn.worker
      /\ conn'.closing = conn.closing
  BY <1>1 DEF ShowState, Connection
<1>5. WorkerStarts' /\ ConnectingEnds' /\ ShownEnds'
  BY <1>1, <1>4 DEF WorkerStarts, ConnectingEnds, ShownEnds
<1>6. UpIsShown'
  <2>1. CASE b
    BY <1>1, <1>2, <1>4, <2>1, DifferentNotices DEF UpIsShown, Has
  <2>2. CASE ~b
    BY <1>1, <1>2, <1>4, <2>2 DEF UpIsShown
  <2> QED
    BY <2>1, <2>2
<1>7. CASE r
  <2>1. UNCHANGED <<switch, gjob, gfresh>> /\ late' = (late \/ (switch.requested /\ ~gateway))
    BY <1>7 DEF ShowState
  <2>2. /\ In(queue', State(FALSE)) <=> Has(State(FALSE))
        /\ In(queue', Runtime(FALSE)) <=> Has(Runtime(FALSE))
    BY <1>2, <1>7, DifferentNotices
  <2>3. Flags' /\ JInv'
    BY <1>1, <1>3, <1>4, <2>1, FlagsStay, JobsStay
  <2>4. Waits' /\ WaitsForRun'
    BY <1>7, <2>1 DEF Waits, WaitsForRun
  <2>5. Unasked' /\ NoStaleStop'
    BY <1>1, <2>1, <2>2 DEF Unasked, NoStaleStop, Undoing, Has
  <2>6. StopsAreOlder'
    BY <1>1, <1>2, <2>1 DEF StopsAreOlder
  <2>7. GivesUp'
    BY <1>1, <1>4, <1>7, <2>1, <2>2 DEF GivesUp, CurrentOn, Live, Has
  <2> QED
    BY <1>5, <1>6, <2>3, <2>4, <2>5, <2>6, <2>7 DEF NInv, QInv
<1>8. CASE ~r
  <2>1. Reset(switch, FALSE)
    BY <1>8 DEF ShowState
  <2>2. switch \in SwitchState /\ FALSE \in BOOLEAN
    BY <1>1 DEF SwitchOK
  <2>3. Flags' /\ JInv' /\ QInv'
    BY <1>3, <1>4, <2>1, <2>2, ResetsKeep
  <2> QED
    BY <1>5, <1>6, <2>3 DEF NInv
<1> QED
  BY <1>7, <1>8

LEMMA AppliedStays ==
  ASSUME WInv, hand = "idle",
         UNCHANGED <<engine, gateway, hand, gateLock, revived, conn, late, gfresh>>,
         queue # <<>>, queue' = Tail(queue), NEW j \in GJob, Head(queue) = AppliedBy(j),
         Applied(j), gjob' = [gjob EXCEPT ![j] = NoGJob]
  PROVE  Flags' /\ JInv' /\ NInv' /\ QInv'
<1>1. /\ SwitchOK /\ QueueOK /\ Flags /\ JobShapes /\ Locks /\ OneAtATime /\ Serves /\ OfThisRun
      /\ Outcomes /\ Answers /\ 0 \notin GJob /\ gateway \in BOOLEAN
      /\ switch.job \in GJob \cup {0} /\ switch.target \in {"none", "on", "off"}
      /\ switch.target # "none" => switch.job \in GJob
      /\ WorkerStarts /\ ConnectingEnds /\ ShownEnds /\ UpIsShown
      /\ Unasked /\ Waits /\ WaitsForRun /\ NoStaleStop /\ StopsAreOlder /\ GivesUp
  BY Known
<1>2. /\ \A x : x # AppliedBy(j) => (In(queue', x) <=> Has(x))
      /\ \A x, y : NoneAfter(queue, x, y) => NoneAfter(queue', x, y)
      /\ \A y : NoneAfter(queue, AppliedBy(j), y) => ~In(queue', y)
      /\ LastOn => LastOn'
      /\ Has(AppliedBy(j))
  BY <1>1, Heard, DifferentNotices
<1>3. /\ In(queue', State(FALSE)) <=> Has(State(FALSE))
      /\ In(queue', State(TRUE)) <=> Has(State(TRUE))
      /\ In(queue', Runtime(FALSE)) <=> Has(Runtime(FALSE))
      /\ ~In(queue', AppliedBy(j))
      /\ \A i \in GJob : i # j => (In(queue', AppliedBy(i)) <=> Has(AppliedBy(i)))
  BY <1>1, <1>2, DifferentNotices DEF Answers
<1>4. /\ \A i \in GJob : i # j => gjob'[i] = gjob[i]
      /\ gjob'[j] = NoGJob /\ gjob'[j].pc = "idle" /\ gjob'[j].kind = "none"
  BY <1>1, JobLeaves
<1>5. gjob[j].pc = "reported" /\ gjob[j] # NoGJob /\ gjob[j].kind \in {"on", "off"}
  BY <1>1, <1>2 DEF Answers, NoGJob, JobShapes, SwitchOK, GatewayJob
<1>6. NInv'
  BY <1>1, <1>2, <1>3 DEF NInv, WorkerStarts, ConnectingEnds, ShownEnds, UpIsShown, Has
<1>7. JobShapes' /\ Locks' /\ Answers'
  <2>1. JobShapes' /\ Locks'
    BY <1>1, <1>4, <1>5 DEF JobShapes, Locks, Holding
  <2>2. Answers'
    BY <1>1, <1>2, <1>3, <1>4 DEF Answers, Has
  <2> QED
    BY <2>1, <2>2
<1>8. CASE switch.job # j
  <2>1. UNCHANGED switch
    BY <1>8 DEF Applied
  <2>2. Flags' /\ OneAtATime' /\ Serves' /\ Outcomes'
    BY <1>1, <1>4, <1>8, <2>1 DEF Flags, OneAtATime, Serves, Outcomes, Live
  <2>3. OfThisRun'
    BY <1>1, <1>4, <1>5, <2>1 DEF OfThisRun, NotStarting
  <2>4. Unasked' /\ NoStaleStop'
    BY <1>1, <1>3, <1>4, <1>5, <1>8, <2>1 DEF Unasked, NoStaleStop, Undoing, Has
  <2>5. Waits' /\ WaitsForRun'
    BY <1>1, <1>3, <2>1 DEF Waits, WaitsForRun, Has
  <2>6. StopsAreOlder'
    BY <1>1, <1>2, <1>4, <1>8, <2>1 DEF StopsAreOlder
  <2>7. GivesUp'
    BY <1>1, <1>3, <1>4, <1>8, <2>1 DEF GivesUp, CurrentOn, Live, Has
  <2> QED
    BY <1>6, <1>7, <2>2, <2>3, <2>4, <2>5, <2>6, <2>7 DEF JInv, QInv
<1>9. CASE switch.job = j
  <2>1. /\ switch.target = gjob[j].kind /\ gateLock = 0
        /\ switch \in SwitchState /\ switch.toggle = switch.requested
    BY <1>1, <1>5, <1>9 DEF Serves, Live, OneAtATime, Locks, Holding, SwitchOK, Flags
  <2>2. OfThisRun'
    <3>1. switch'.job \in {0, switch.job}
      BY <1>9, <2>1 DEF Applied, Cleared, Dropped, SwitchState
    <3> QED
      BY <1>1, <1>4, <1>5, <3>1 DEF OfThisRun, NotStarting
  <2>3. CASE gjob[j].kind = "on" /\ ~(gjob[j].ok /\ gateway)
    <3>1. switch' = Cleared([switch EXCEPT !.target = "none"])
      BY <1>9, <2>1, <2>3 DEF Applied
    <3>2. /\ switch'.requested = FALSE /\ switch'.toggle = FALSE
          /\ switch'.target = "none" /\ switch'.job = 0
      BY <2>1, <3>1, ClearedIs, SwitchStates
    <3>3. ~gateway
      BY <1>1, <1>5, <1>9, <2>3 DEF Outcomes
    <3>4. Flags' /\ Waits' /\ WaitsForRun' /\ Unasked' /\ NoStaleStop' /\ StopsAreOlder' /\ GivesUp'
      BY <1>1, <3>2, <3>3 DEF Flags, Waits, WaitsForRun, Unasked, NoStaleStop, StopsAreOlder, GivesUp
    <3>5. OneAtATime' /\ Serves' /\ Outcomes'
      BY <3>2 DEF OneAtATime, Serves, Outcomes
    <3> QED
      BY <1>6, <1>7, <2>2, <3>4, <3>5 DEF JInv, QInv
  <2>4. CASE gjob[j].kind = "off" \/ (gjob[j].ok /\ gateway)
    <3>1. /\ gjob[j].kind = "on" => switch.requested /\ gateway
          /\ gjob[j].kind = "off" => ~switch.requested /\ ~gateway
      BY <1>1, <1>5, <1>9, <2>1, <2>4 DEF Flags, Outcomes
    <3>2. switch' = [switch EXCEPT !.target = "none"]
      BY <1>5, <1>9, <2>1, <2>4, <3>1 DEF Applied, SwitchState
    <3>3. /\ switch'.requested = switch.requested /\ switch'.toggle = switch.toggle
          /\ switch'.target = "none" /\ switch'.job = j
      BY <1>9, <2>1, <3>2 DEF SwitchState
    <3>4. Flags'
      BY <1>1, <3>3 DEF Flags
    <3>5. gateway => ~In(queue', Runtime(FALSE))
      BY <1>1, <1>2, <1>5, <1>9, <2>1, <3>1 DEF StopsAreOlder
    <3>6. gateway => engine # "off"
      BY <1>1 DEF OfThisRun
    <3>7. Waits' /\ WaitsForRun' /\ Unasked' /\ NoStaleStop' /\ StopsAreOlder' /\ GivesUp'
      BY <1>5, <3>1, <3>3, <3>5, <3>6
         DEF Waits, WaitsForRun, Unasked, NoStaleStop, StopsAreOlder, GivesUp, Has
    <3>8. OneAtATime' /\ Serves' /\ Outcomes'
      BY <1>4, <2>1, <3>3 DEF OneAtATime, Serves, Outcomes, Live
    <3> QED
      BY <1>6, <1>7, <2>2, <3>4, <3>7, <3>8 DEF JInv, QInv
  <2> QED
    BY <1>5, <2>3, <2>4
<1> QED
  BY <1>8, <1>9

LEMMA HandleStays == ASSUME WInv, Handle PROVE WInv'
<1> DEFINE e == Head(queue)
<1>1. /\ hand = "idle" /\ queue # <<>> /\ queue' = Tail(queue)
      /\ UNCHANGED <<engine, gateway, hand, gateLock, revived>>
  BY DEF Handle
<1>2. SInv' /\ e \in Notice
  BY <1>1, HandleKeeps, Heard, Known DEF WInv
<1>3. CASE e.kind = "state"
  <2>1. e.on \in BOOLEAN /\ e = State(e.on) /\ ShowState(e.on)
    BY <1>2, <1>3 DEF Handle, Notice, State
  <2> HIDE DEF e
  <2>2. Head(queue) = State(e.on)
    BY <2>1 DEF e
  <2> QED
    BY <1>1, <1>2, <2>1, <2>2, ShowStateStays DEF WInv
<1>4. CASE e.kind = "runtime"
  <2>1. /\ e.on \in BOOLEAN /\ e = Runtime(e.on) /\ RuntimeChanged(e.on)
        /\ UNCHANGED <<conn, late, gjob, gfresh>>
    BY <1>2, <1>4 DEF Handle, Notice, Runtime
  <2> HIDE DEF e
  <2>2. Head(queue) = Runtime(e.on)
    BY <2>1 DEF e
  <2> QED
    BY <1>1, <1>2, <2>1, <2>2, RuntimeStays DEF WInv
<1>5. CASE e.kind = "applied"
  <2>1. /\ e.job \in GJob /\ e = AppliedBy(e.job) /\ Applied(e.job)
        /\ gjob' = [gjob EXCEPT ![e.job] = NoGJob] /\ UNCHANGED <<conn, late, gfresh>>
    BY <1>2, <1>5 DEF Handle, Notice, AppliedBy
  <2> HIDE DEF e
  <2>2. Head(queue) = AppliedBy(e.job)
    BY <2>1 DEF e
  <2> QED
    BY <1>1, <1>2, <2>1, <2>2, AppliedStays DEF WInv
<1>6. e.kind \in {"state", "runtime", "applied"}
  BY <1>2 DEF Notice
<1> QED
  BY <1>3, <1>4, <1>5, <1>6

LEMMA SNextStays == ASSUME WInv, [SNext]_gvars PROVE WInv'
<1>1. CASE UNCHANGED gvars
  <2>1. UNCHANGED <<engine, gateway, switch, conn, hand, queue, late, gjob, gfresh, gateLock, revived>>
    BY <1>1 DEF gvars
  <2>2. SInv'
    BY <1>1, SNextInv DEF WInv
  <2>3. NoticesAs(FALSE, FALSE, FALSE) /\ SameAnswers /\ OfThisRun
    BY <2>1, SayNothing, Known
  <2>4. Flags' /\ NInv' /\ WaitsForRun'
    BY <2>1, <2>3, CarryKeepsShown DEF CarryLeaves
  <2>5. JInv'
    BY <2>1, <2>3, JobsStay DEF OfThisRun
  <2>6. Unasked' /\ Waits' /\ NoStaleStop' /\ StopsAreOlder' /\ GivesUp'
    BY <2>1, Known DEF Unasked, Undoing, Waits, NoStaleStop, StopsAreOlder, GivesUp, CurrentOn, Live, Has
  <2> QED
    BY <2>2, <2>4, <2>5, <2>6 DEF WInv, QInv
<1> QED
  BY <1>1, ToggleConnectionStays, StopEngineStays, ClickGatewayStays, LateTimerStays, HandleStays,
     QuitGatewayStays, ConnectWorkerStays, LostStays, OfflineStays, CarryKeepsAll DEF SNext

\* When nothing is under way any more the switch shows what the user last asked for and
\* the gateway runs exactly then, on a connection that is shown; after the process has
\* gone it does not run: however many jobs, clicks and accidents there were before.
THEOREM SwitchSettles == ASpec => []SwitchIsSo
<1>1. AInit => WInv
  BY WInitInv DEF AInit
<1>2. WInv /\ [ANext]_avars => WInv'
  BY SNextStays DEF ANext, avars
<1>3. WInv => SwitchIsSo
  BY InvIsSo
<1> QED
  BY <1>1, <1>2, <1>3, PTL DEF ASpec

=============================================================================
