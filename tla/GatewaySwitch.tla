--------------------------- MODULE GatewaySwitch ---------------------------
(***************************************************************************)
(* The switch of the Mobile Gateway in class MainWindow of                 *)
(* uac_desktop/ui.py: what the user asked for, the threads that carry it   *)
(* out (jobs, under _gateway_apply_lock), and what they meet: the          *)
(* connection coming and going, and the gateway giving up by itself.       *)
(*                                                                         *)
(* The gateway is a flag here; GatewayManager has its inside.  A start of  *)
(* it holds its lock, and who wants to stop it waits.  A connect attempt   *)
(* that is cancelled ends at once; ConnectUi has what it may still do.     *)
(* A generation is kept as its holder and the run id as those who hold the *)
(* present one, as in ConnectUi; a cancel event is set exactly when the    *)
(* generation is left.                                                     *)
(***************************************************************************)
EXTENDS Naturals, Sequences

CONSTANTS
  MaxSwitch,     \* bound on the jobs alive at once
  MaxActs,       \* bound on what the user does and what goes wrong together
  MaxTrouble     \* bound on what goes wrong among it

ASSUME SwitchAssumption == MaxSwitch \in Nat \ {0} /\ {MaxActs, MaxTrouble} \subseteq Nat

GJob == 1..MaxSwitch

VARIABLES
  engine,   \* Engine: off, up, or dead (xray has ended and the log reader has not stopped the run)
  gateway,  \* GatewayManager.active
  switch,   \* _gateway_requested, what the toggle shows, _gateway_apply_target, and the
            \* holder of _gateway_apply_generation
  conn,     \* _ui_running, connecting, the connect worker, _closing
  hand,     \* the GUI thread: idle, or about to call engine.stop
  queue,    \* signals for the GUI thread
  late,     \* the zero timer of _set_state that switches the gateway on
  gjob,     \* per job: kind, reason, step, outcome
  gfresh,   \* the jobs whose run id is the present one
  gateLock, \* holder of _gateway_apply_lock
  revived,  \* history: an attempt was begun after xray had ended and before its log
            \* reader had stopped the run; a job that then gives up leaves its target set
  acts      \* <<what may still happen, what of it may go wrong>>

gvars == <<engine, gateway, switch, conn, hand, queue, late, gjob, gfresh, gateLock, revived, acts>>

NoGJob == [kind |-> "none", user |-> FALSE, pc |-> "idle", ok |-> FALSE]
Steps == {"idle", "begin", "enable", "start", "commit", "check", "after", "disable", "off",
          "report", "reported"}

STypeOK ==
  /\ engine \in {"off", "up", "dead"} /\ gateway \in BOOLEAN
  /\ switch \in [requested : BOOLEAN, toggle : BOOLEAN, target : {"none", "on", "off"},
                 job : {0} \cup GJob]
  /\ conn \in [shown : BOOLEAN, connecting : BOOLEAN, worker : {"none", "working", "up"},
               closing : BOOLEAN]
  /\ hand \in {"idle", "stop", "quit", "quit stop", "gone"} /\ late \in BOOLEAN
  /\ \A i \in 1..Len(queue) : CASE queue[i].kind = "state" -> queue[i].on \in BOOLEAN
                                [] queue[i].kind = "runtime" -> queue[i].on \in BOOLEAN
                                [] queue[i].kind = "applied" -> queue[i].job \in GJob
  /\ gjob \in [GJob -> [kind : {"none", "on", "off"}, user : BOOLEAN, pc : Steps, ok : BOOLEAN]]
  /\ gfresh \subseteq GJob /\ revived \in BOOLEAN /\ gateLock \in {0} \cup GJob
  /\ acts \in (0..MaxActs) \X (0..MaxTrouble)

SInit ==
  /\ engine = "off" /\ gateway = FALSE /\ hand = "idle" /\ queue = <<>> /\ late = FALSE
  /\ switch = [requested |-> FALSE, toggle |-> FALSE, target |-> "none", job |-> 0]
  /\ conn = [shown |-> FALSE, connecting |-> FALSE, worker |-> "none", closing |-> FALSE]
  /\ gjob = [j \in GJob |-> NoGJob] /\ gfresh = {} /\ gateLock = 0 /\ revived = FALSE
  /\ acts = <<MaxActs, MaxTrouble>>

Living == hand # "gone"
Act == hand = "idle" /\ acts[1] > 0 /\ acts' = [acts EXCEPT ![1] = @ - 1]
Trouble == acts[1] > 0 /\ acts[2] > 0 /\ acts' = <<acts[1] - 1, acts[2] - 1>>
Emit(e) == queue' = Append(queue, e)
Runtime(on) == [kind |-> "runtime", on |-> on]
State(on) == [kind |-> "state", on |-> on]

\* The lock of the gateway is free.
NotStarting == \A j \in GJob : gjob[j].pc \notin {"start", "commit"}
\* GatewayManager.stop on a thread other than the GUI thread.
Halted == IF gateway THEN <<Runtime(FALSE)>> ELSE <<>>

-----------------------------------------------------------------------------
(* The switch *)

\* _cancel_gateway_apply
Dropped(s) == [s EXCEPT !.target = "none", !.job = 0]
\* _reset_gateway_mode up to the job
Cleared(s) == [Dropped(s) EXCEPT !.requested = FALSE, !.toggle = FALSE]

\* _begin_gateway_apply and the thread it is for; f: the jobs whose run goes on.
Launch(s, kind, user, f) ==
  \E j \in GJob :
    /\ gjob[j] = NoGJob /\ \A i \in GJob : i < j => gjob[i] # NoGJob
    /\ gjob' = [gjob EXCEPT ![j] = [NoGJob EXCEPT !.kind = kind, !.user = user, !.pc = "begin"]]
    /\ switch' = [s EXCEPT !.target = kind, !.job = j, !.toggle = (kind = "on")]
    /\ gfresh' = f \cup {j}

QueueOn(s) ==
  IF s.requested /\ engine = "up" /\ conn.shown /\ ~conn.connecting /\ ~gateway /\ s.target # "on"
  THEN Launch(s, "on", TRUE, gfresh) ELSE switch' = s /\ UNCHANGED <<gjob, gfresh>>

ResetWith(s, user, active, f) ==
  IF s.requested \/ active \/ s.target = "on"
  THEN Launch(Cleared(s), "off", user, f) ELSE switch' = Cleared(s) /\ gfresh' = f /\ UNCHANGED gjob
Reset(s, user) == ResetWith(s, user, gateway, gfresh)

\* _gateway_apply_current
CurrentOff(j) == switch.job = j
CurrentOn(j) ==
  /\ switch.job = j /\ j \in gfresh /\ engine = "up" /\ switch.requested
  /\ conn.shown /\ ~conn.connecting /\ ~conn.closing

-----------------------------------------------------------------------------
(* The jobs *)

JobIs(j, kind, pc) == Living /\ gjob[j].kind = kind /\ gjob[j].pc = pc
To(j, pc) == gjob' = [gjob EXCEPT ![j].pc = pc]
Ends(j) == gjob' = [gjob EXCEPT ![j] = NoGJob] /\ gateLock' = 0
Outcome(j, ok) == gjob' = [gjob EXCEPT ![j].pc = "report", ![j].ok = ok] /\ gateLock' = 0

Begin(j) ==
  /\ Living /\ gjob[j].pc = "begin" /\ gateLock = 0
  /\ IF gjob[j].kind = "on" /\ CurrentOn(j) THEN To(j, "enable") /\ gateLock' = j
     ELSE IF gjob[j].kind = "off" /\ CurrentOff(j) THEN To(j, "disable") /\ gateLock' = j
     ELSE Ends(j)
  /\ UNCHANGED <<gateway, queue>>

\* Engine.enable_gateway: run id, cancellation and a running engine; then the start.
Enable(j) ==
  /\ JobIs(j, "on", "enable")
  /\ IF j \in gfresh /\ switch.job = j /\ engine = "up" /\ ~gateway
     THEN To(j, "start") /\ UNCHANGED gateLock
     ELSE Outcome(j, gateway)
  /\ UNCHANGED <<gateway, queue>>

\* The start asks again and again whether it has been cancelled.
StartWorks(j) ==
  /\ JobIs(j, "on", "start") /\ switch.job = j /\ To(j, "commit")
  /\ UNCHANGED <<gateway, queue, gateLock>>

StartFails(j) ==
  /\ JobIs(j, "on", "start") /\ Outcome(j, FALSE) /\ Emit(Runtime(FALSE))
  /\ UNCHANGED gateway

Commit(j) ==
  /\ JobIs(j, "on", "commit") /\ To(j, "check") /\ gateway' = TRUE /\ Emit(Runtime(TRUE))
  /\ UNCHANGED gateLock

Check(j) ==
  /\ JobIs(j, "on", "check")
  /\ IF j \in gfresh /\ switch.job = j
     THEN To(j, "after") /\ UNCHANGED <<gateway, queue, gateLock>>
     ELSE Outcome(j, FALSE) /\ gateway' = FALSE /\ queue' = queue \o Halted

AfterEnable(j) ==
  /\ JobIs(j, "on", "after")
  /\ IF CurrentOn(j) THEN Outcome(j, gateway) /\ UNCHANGED <<gateway, queue>>
     ELSE /\ Ends(j)
          /\ IF j \in gfresh THEN gateway' = FALSE /\ queue' = queue \o Halted
                            ELSE UNCHANGED <<gateway, queue>>

\* Only a switch by the user is bound to its run.
Disable(j) ==
  /\ JobIs(j, "off", "disable") /\ NotStarting
  /\ IF gjob[j].user /\ j \notin gfresh
     THEN Outcome(j, ~gateway) /\ UNCHANGED <<gateway, queue>>
     ELSE /\ To(j, "off") /\ gateway' = FALSE /\ queue' = queue \o Halted
          /\ UNCHANGED gateLock

AfterDisable(j) ==
  /\ JobIs(j, "off", "off")
  /\ IF CurrentOff(j) THEN Outcome(j, ~gateway) ELSE Ends(j)
  /\ UNCHANGED <<gateway, queue>>

\* The job stays until its signal has been handled.
Tell(j) ==
  /\ Living /\ gjob[j].pc = "report"
  /\ IF IF gjob[j].kind = "on" THEN CurrentOn(j) ELSE CurrentOff(j)
     THEN To(j, "reported") /\ Emit([kind |-> "applied", job |-> j])
     ELSE gjob' = [gjob EXCEPT ![j] = NoGJob] /\ UNCHANGED queue
  /\ UNCHANGED <<gateway, gateLock>>

Carry(j) ==
  /\ \/ Begin(j) \/ Enable(j) \/ StartWorks(j) \/ StartFails(j) \/ Commit(j) \/ Check(j)
     \/ AfterEnable(j) \/ Disable(j) \/ AfterDisable(j) \/ Tell(j)
  /\ UNCHANGED <<engine, switch, conn, hand, late, gfresh, revived, acts>>

-----------------------------------------------------------------------------
(* Connection, gateway and user *)

\* The connect worker: a start of the engine, then success or failure.
ConnectWorker ==
  /\ Living /\ NotStarting
  /\ \/ /\ conn.worker = "working" /\ engine' = "up" /\ gfresh' = {}
        /\ conn' = [conn EXCEPT !.worker = "up"] /\ gateway' = FALSE /\ queue' = queue \o Halted
     \/ /\ conn.worker = "up" /\ conn' = [conn EXCEPT !.worker = "none"]
        /\ Emit(State(TRUE)) /\ UNCHANGED <<engine, gfresh, gateway>>
     \/ /\ conn.worker # "none" /\ conn' = [conn EXCEPT !.worker = "none"]
        /\ engine' = "off" /\ gfresh' = {} /\ gateway' = FALSE
        /\ queue' = queue \o Halted \o <<State(FALSE)>>
  /\ UNCHANGED <<switch, hand, late, gjob, gateLock, revived, acts>>

\* xray ends; the log reader stops what is left of the run.
Lost ==
  /\ Living
  /\ \/ engine = "up" /\ Trouble /\ engine' = "dead" /\ UNCHANGED <<gateway, queue, gfresh>>
     \/ /\ engine = "dead" /\ NotStarting /\ engine' = "off" /\ gfresh' = {} /\ gateway' = FALSE
        /\ queue' = queue \o Halted \o <<State(FALSE)>> /\ UNCHANGED acts
  /\ UNCHANGED <<switch, conn, hand, late, gjob, gateLock, revived>>

\* The worker of the gateway: source-offline.
Offline ==
  /\ Living /\ gateway /\ NotStarting /\ (engine = "up" => Trouble) /\ (engine # "up" => UNCHANGED acts)
  /\ gateway' = FALSE /\ Emit(Runtime(FALSE))
  /\ UNCHANGED <<engine, switch, conn, hand, late, gjob, gfresh, gateLock, revived>>

\* _set_state; the second result of a state that is not a connection is a reset.
ShowState(on) ==
  LET r == on /\ engine = "up"
  IN  /\ conn' = [conn EXCEPT !.shown = r, !.connecting = FALSE]
      /\ IF r THEN UNCHANGED <<switch, gjob, gfresh>> /\ late' = (late \/ (switch.requested /\ ~gateway))
         ELSE Reset(switch, FALSE) /\ UNCHANGED late

\* toggle_connection: disconnect or cancel, or begin an attempt.
Connecting == conn.connecting \/ engine = "up"
BeginAttempt ==
  /\ conn' = [conn EXCEPT !.connecting = TRUE, !.worker = "working"]
  /\ revived' = (revived \/ engine = "dead")

ToggleConnection ==
  /\ Act
  /\ IF Connecting THEN /\ Reset(switch, FALSE) /\ hand' = "stop"
                        /\ conn' = [conn EXCEPT !.connecting = FALSE] /\ UNCHANGED revived
     ELSE BeginAttempt /\ UNCHANGED <<switch, gjob, gfresh, hand>>
  /\ UNCHANGED <<engine, gateway, queue, late, gateLock>>

\* engine.stop on the GUI thread (its runtime signal is handled inside it), then
\* _set_state(False).
StopEngine ==
  /\ hand = "stop" /\ NotStarting /\ hand' = "idle"
  /\ engine' = "off" /\ gateway' = FALSE
  /\ conn' = [conn EXCEPT !.shown = FALSE, !.connecting = FALSE, !.worker = "none"]
  /\ ResetWith(IF gateway /\ switch.target = "none" THEN Cleared(switch) ELSE switch, FALSE, FALSE, {})
  /\ UNCHANGED <<queue, late, gateLock, revived, acts>>

\* The toggle of the gateway, enabled while nothing is being applied.  Switched on
\* without a shown connection it is a click on the connect button too, which may find
\* nothing to connect with.
ClickGateway ==
  /\ Act /\ switch.target = "none"
  /\ LET s == [Dropped(switch) EXCEPT !.requested = TRUE, !.toggle = TRUE]
     IN  \/ switch.toggle /\ Reset([switch EXCEPT !.toggle = FALSE], TRUE) /\ UNCHANGED <<conn, hand, revived>>
         \/ /\ ~switch.toggle /\ (conn.connecting \/ (engine = "up" /\ conn.shown))
            /\ QueueOn(s) /\ UNCHANGED <<conn, hand, revived>>
         \/ /\ ~switch.toggle /\ ~conn.connecting /\ engine = "up" /\ ~conn.shown
            /\ Reset(s, FALSE) /\ hand' = "stop" /\ UNCHANGED <<conn, revived>>
         \/ /\ ~switch.toggle /\ ~Connecting /\ UNCHANGED hand
            /\ \/ /\ IF conn.shown THEN switch' = s /\ UNCHANGED <<gjob, gfresh>> ELSE Reset(s, FALSE)
                  /\ UNCHANGED <<conn, revived>>
               \/ BeginAttempt /\ switch' = s /\ UNCHANGED <<gjob, gfresh>>
  /\ UNCHANGED <<engine, gateway, queue, late, gateLock>>

LateTimer ==
  /\ hand = "idle" /\ late /\ late' = FALSE /\ QueueOn(switch)
  /\ UNCHANGED <<engine, gateway, conn, hand, queue, gateLock, revived, acts>>

\* _gateway_mode_apply_finished.  An ON job that failed leaves no gateway here, so the
\* OFF job for one that is left is never queued.
Applied(j) ==
  LET s == [switch EXCEPT !.target = "none"]
      k == gjob[j]
  IN  IF switch.job # j THEN UNCHANGED switch
      ELSE switch' = CASE k.kind = "on" /\ ~(k.ok /\ gateway /\ s.requested) -> Cleared(s)
                       [] k.kind = "off" /\ ~k.ok /\ gateway /\ k.user ->
                            [s EXCEPT !.requested = TRUE, !.toggle = TRUE]
                       [] OTHER -> s

\* Mutant of RuntimeChanged: a stop is heeded whatever is being applied.
RuntimeChangedAlways(on) ==
  switch' = IF on THEN [switch EXCEPT !.toggle = @ \/ switch.requested] ELSE Cleared(switch)

\* _gateway_runtime_state_changed
RuntimeChanged(on) ==
  switch' = IF on THEN [switch EXCEPT !.toggle = @ \/ switch.requested]
            ELSE IF switch.target = "none" THEN Cleared(switch) ELSE switch

Handle ==
  /\ hand = "idle" /\ queue # <<>> /\ queue' = Tail(queue)
  /\ LET e == Head(queue)
     IN  CASE e.kind = "state" -> ShowState(e.on)
           [] e.kind = "runtime" -> RuntimeChanged(e.on) /\ UNCHANGED <<conn, late, gjob, gfresh>>
           [] e.kind = "applied" ->
                /\ Applied(e.job) /\ gjob' = [gjob EXCEPT ![e.job] = NoGJob]
                /\ UNCHANGED <<conn, late, gfresh>>
  /\ UNCHANGED <<engine, gateway, hand, gateLock, revived, acts>>

\* shutdown: drops the job, stops the gateway, stops the engine.
QuitGateway ==
  /\ \/ /\ hand = "idle" /\ hand' = "quit" /\ switch' = Cleared(switch)
        /\ conn' = [conn EXCEPT !.closing = TRUE] /\ UNCHANGED <<engine, gateway, gfresh>>
     \/ /\ hand = "quit" /\ NotStarting /\ hand' = "quit stop" /\ gateway' = FALSE
        /\ UNCHANGED <<engine, switch, conn, gfresh>>
     \/ /\ hand = "quit stop" /\ NotStarting /\ hand' = "gone" /\ gateway' = FALSE
        /\ engine' = "off" /\ gfresh' = {} /\ conn' = [conn EXCEPT !.worker = "none"]
        /\ UNCHANGED switch
  /\ UNCHANGED <<queue, late, gjob, gateLock, revived, acts>>

SNext ==
  \/ ToggleConnection \/ StopEngine \/ ClickGateway \/ LateTimer \/ Handle \/ QuitGateway
  \/ ConnectWorker \/ Lost \/ Offline
  \/ \E j \in GJob : Carry(j)

SSpec == SInit /\ [][SNext]_gvars

-----------------------------------------------------------------------------
(* Properties *)

Settled ==
  /\ hand = "idle" /\ queue = <<>> /\ ~late /\ engine # "dead" /\ conn.worker = "none"
  /\ \A j \in GJob : gjob[j] = NoGJob

\* When nothing is under way any more, the switch shows what the user last asked
\* for, the gateway runs exactly then, and only on a connection that is shown.  After
\* the process has gone the gateway does not run.
SwitchIsSo ==
  /\ Settled /\ ~revived =>
       /\ gateway = switch.requested /\ gateway = switch.toggle
       /\ switch.target = "none"
       /\ gateway => engine = "up" /\ conn.shown
  /\ hand = "gone" => ~gateway

=============================================================================
