----------------------------- MODULE ConnectUi -----------------------------
(***************************************************************************)
(* Connecting, disconnecting and switching modes in class MainWindow of    *)
(* uac_desktop/ui.py, with the parts of class Engine it drives.            *)
(*                                                                         *)
(* The GUI thread runs handlers of clicks, of queued signals (events, in   *)
(* the order they were emitted) and of single-shot timers.  Every connect  *)
(* attempt is a thread; so is every switch of the Windows proxy or of TUN  *)
(* mode while connected (a job), and the readers of the output of xray and *)
(* of sing-box.  Threads are never killed: a superseded one finds out from *)
(* its cancel event, its generation or its run id.                         *)
(*                                                                         *)
(* A call of the engine holds Engine._lifecycle_lock and is one step.      *)
(* Generations and run ids only grow and are only compared with the        *)
(* present one, so what is kept is who holds the present one: ui.current   *)
(* the connect generation (a cancel event is set exactly when it is left), *)
(* ui.job the mode generation, fresh the run id.  The Mobile Gateway is    *)
(* not here.                                                               *)
(***************************************************************************)
EXTENDS Naturals, Sequences, FiniteSets

CONSTANTS
  MaxAttempt,   \* bound on the connect attempts
  MaxTries,     \* configurations times SNIs an attempt may try
  MaxJob,       \* bound on the mode switches under way at once
  MaxChances,   \* bound on what the user does and what goes wrong together
  MaxFaults     \* bound on dying processes and failing calls of Windows among them

ASSUME ConnectAssumption ==
  /\ {MaxAttempt, MaxTries, MaxJob} \subseteq Nat \ {0}
  /\ {MaxChances, MaxFaults} \subseteq Nat

Attempt == 1..MaxAttempt
Job == MaxAttempt + 1..MaxAttempt + MaxJob

VARIABLES
  eng,       \* Engine: _active, xray and sing-box processes, _proxy_enabled, the
             \* proxy setting of Windows, and (history) the attempt whose run it is
  fresh,     \* the threads whose run id is the present one
  ui,        \* MainWindow: flags, holders of the generations, saved preferences
  gui,       \* what the GUI thread does: idle, or about to call engine.stop
  events,    \* signals queued for the GUI thread
  timers,    \* QTimer.singleShot calls that have not fired
  attempt, job,
  applyLock, \* holder of _proxy_mode_apply_lock
  readers,   \* log readers whose process has ended
  chances,   \* <<what may still happen, what of it may go wrong>>
  mishap     \* history: see Mishaps

core  == <<eng, fresh, readers>>
cvars == <<core, ui, gui, events, timers, attempt, job, applyLock, chances, mishap>>

\* late: a superseded thread stopped a run of a newer attempt.
\* deferred: TUN and its switch disagree when the window is told that the engine runs:
\* TUN mode was switched after the attempt had chosen its mode (the choice "will apply
\* after route testing" and never does), the switch is still being applied when the
\* window is drawn again, or sing-box has just died.  The window then shows no
\* connection, or one with TUN up.  Or a switch of the proxy that such a switch of TUN mode
\* did not supersede sets the proxy while TUN is up.
\* overtaken: a switch of TUN mode was superseded by one of the proxy, and is lost.
\* unrestored: a switch fails, and the setting of Windows that it leaves is not what the
\* switches say once the one that failed is put back: TUN did not come up and the proxy
\* cannot be set again; or the proxy was to be switched by a switch that this one superseded
\* or after a restore had failed.
Mishaps == {"late", "deferred", "overtaken", "unrestored"}

Busy == {"order", "try", "probe", "fallback", "again", "locate", "next", "mode", "choose",
         "tun up", "tun ok", "drop", "proxy", "proxy set", "mode set", "save", "emit",
         "failed", "exit"}
Unused == [pc |-> "idle", tries |-> 0, retry |-> FALSE, tun |-> FALSE]
NoJob == [kind |-> "none", pc |-> "idle", on |-> FALSE, want |-> FALSE, ok |-> FALSE]
JobPC == {"idle", "begin", "read", "apply", "up", "probe", "suspend", "undo", "down", "untun",
          "report", "reported"}

CTypeOK ==
  /\ eng \in [active : BOOLEAN, xray : {"none", "up", "dead"},
              tun : {"off", "up", "dead"}, proxy : BOOLEAN, windows : BOOLEAN,
              by : {0} \cup Attempt]
  /\ fresh \subseteq Attempt \cup Job
  /\ ui \in [shown : BOOLEAN, connecting : BOOLEAN, closing : BOOLEAN, worker : {0} \cup Attempt,
             current : {0} \cup Attempt, job : {0} \cup Job, tunMode : BOOLEAN, proxyMode : BOOLEAN]
  /\ gui \in {"idle", "disconnect", "switch", "reconnect", "quit", "quit stop", "quit again", "gone"}
  /\ timers \subseteq {"proxy", "switch", "reconnect"}
  /\ \A i \in 1..Len(events) : IF events[i].kind = "state" THEN events[i].on \in BOOLEAN
                                                          ELSE events[i].job \in Job
  /\ attempt \in [Attempt -> [pc : Busy \cup {"idle", "done"}, tries : 0..MaxTries,
                              retry : BOOLEAN, tun : BOOLEAN]]
  /\ job \in [Job -> [kind : {"none", "proxy", "tun"}, pc : JobPC, on : BOOLEAN, want : BOOLEAN,
                      ok : BOOLEAN]]
  /\ applyLock \in 0..MaxAttempt + MaxJob
  /\ readers \subseteq {"xray", "tun"} \X {"ended", "stops"}
  /\ chances \in (0..MaxChances) \X (0..MaxFaults) /\ mishap \subseteq Mishaps

CInit ==
  /\ eng = [active |-> FALSE, xray |-> "none", tun |-> "off", proxy |-> FALSE,
            windows |-> FALSE, by |-> 0]
  /\ \E t, p \in BOOLEAN :
       ui = [shown |-> FALSE, connecting |-> FALSE, closing |-> FALSE, worker |-> 0,
             current |-> 0, job |-> 0, tunMode |-> t, proxyMode |-> p]
  /\ gui = "idle" /\ events = <<>> /\ timers = {}
  /\ attempt = [a \in Attempt |-> Unused] /\ job = [j \in Job |-> NoJob]
  /\ applyLock = 0 /\ readers = {} /\ fresh = {}
  /\ chances = <<MaxChances, MaxFaults>> /\ mishap = {}

Happens == chances[1] > 0 /\ chances' = [chances EXCEPT ![1] = @ - 1]
Fault == chances[1] > 0 /\ chances[2] > 0 /\ chances' = <<chances[1] - 1, chances[2] - 1>>

-----------------------------------------------------------------------------
(* The engine *)

Running == eng.active /\ eng.xray = "up"
TunRunning == eng.tun = "up"

Stopped(e) == [e EXCEPT !.active = FALSE, !.xray = "none", !.tun = "off",
                        !.proxy = FALSE, !.windows = FALSE, !.by = 0]
Started(e, a) == [Stopped(e) EXCEPT !.active = TRUE, !.xray = "up", !.by = a]
\* start and stop give the engine another run id.
NewRun(e) == eng' = e /\ fresh' = {} /\ readers' = readers \cap ({"xray", "tun"} \X {"stops"})
SameRun(e) == eng' = e /\ UNCHANGED <<fresh, readers>>

WithProxy == [eng EXCEPT !.proxy = TRUE, !.windows = TRUE]
WithoutProxy == [eng EXCEPT !.proxy = FALSE, !.windows = FALSE]
TunUp == [eng EXCEPT !.tun = "up"]
TunDown == [eng EXCEPT !.tun = "off"]

\* A call that leaves state e, or fails and leaves state f.
Call(e, f, done, failed) ==
  \/ SameRun(e) /\ done /\ UNCHANGED chances
  \/ Fault /\ SameRun(f) /\ failed

\* Nothing to do is never an error; a failed restore leaves the setting behind.
SetProxy(on, done, failed) ==
  IF eng.proxy = on /\ eng.windows = on THEN UNCHANGED <<core, chances>> /\ done
  ELSE Call(IF on THEN WithProxy ELSE WithoutProxy, [eng EXCEPT !.proxy = FALSE], done, failed)

\* A thread stops the engine without asking whose run it is.
StopAs(a) ==
  /\ NewRun(Stopped(eng))
  /\ mishap' = mishap \cup IF eng.active /\ eng.by > a THEN {"late"} ELSE {}

Alive == gui # "gone"
Post(e) == events' = Append(events, e)

\* xray or sing-box ends by itself.
Dies ==
  /\ Alive /\ Fault
  /\ \/ /\ eng.xray = "up" /\ eng' = [eng EXCEPT !.xray = "dead"]
        /\ readers' = readers \cup {<<"xray", "ended">>}
     \/ /\ eng.tun = "up" /\ eng' = [eng EXCEPT !.tun = "dead"]
        /\ readers' = readers \cup {<<"tun", "ended">>}
  /\ UNCHANGED <<fresh, ui, gui, events, timers, attempt, job, applyLock, mishap>>

\* The reader compares under the lock, leaves the lock, and then stops what runs.
ReaderStops ==
  /\ Alive
  /\ \/ \E c \in {"xray", "tun"} :
          /\ <<c, "ended">> \in readers
          /\ readers' = (readers \ {<<c, "ended">>}) \cup
               IF c = "xray" \/ eng.tun = "dead" THEN {<<c, "stops">>} ELSE {}
          /\ UNCHANGED <<eng, fresh, events>>
     \/ \E c \in {"xray", "tun"} :
          /\ <<c, "stops">> \in readers
          /\ eng' = Stopped(eng) /\ fresh' = {}
          /\ readers' = (readers \cap ({"xray", "tun"} \X {"stops"})) \ {<<c, "stops">>}
          /\ IF eng.active THEN Post([kind |-> "state", on |-> FALSE]) ELSE UNCHANGED events
  /\ UNCHANGED <<ui, gui, timers, attempt, job, applyLock, chances, mishap>>

-----------------------------------------------------------------------------
(* A connect attempt *)

EventSet(a) == ui.current # a
Cancelled(a) == ui.closing \/ EventSet(a)
At(a, p) == Alive /\ attempt[a].pc = p
Go(a, p) == attempt' = [attempt EXCEPT ![a].pc = p]
Done(a) == attempt' = [attempt EXCEPT ![a] = [Unused EXCEPT !.pc = "done"]]
Leave(a, p) == Go(a, p) /\ applyLock' = 0
Stay(a, p) == Go(a, p) /\ UNCHANGED applyLock
Superseded(a) == EventSet(a) \/ a \notin fresh

StartEngine(a) ==
  IF EventSet(a) THEN Go(a, "exit") /\ UNCHANGED core
  ELSE \/ NewRun(Started(eng, a)) /\ Go(a, "probe")
       \/ NewRun(Stopped(eng)) /\ Go(a, "next")

OrderProfiles(a) ==
  /\ At(a, "order")
  /\ IF EventSet(a) THEN Go(a, "exit") ELSE Go(a, "try") \/ Go(a, "failed")
  /\ UNCHANGED <<core, events, applyLock, chances, mishap>>

TryProfile(a) ==
  /\ At(a, "try")
  /\ IF Cancelled(a) THEN Go(a, "exit") /\ UNCHANGED core ELSE StartEngine(a)
  /\ UNCHANGED <<events, applyLock, chances, mishap>>

Probe(a) ==
  /\ At(a, "probe")
  /\ \/ EventSet(a) /\ Go(a, "exit")
     \/ attempt[a].retry /\ Go(a, "fallback")
     \/ IF Cancelled(a) THEN Go(a, "exit") ELSE Go(a, "locate") \/ Go(a, "next")
  /\ UNCHANGED <<core, events, applyLock, chances, mishap>>

\* Without mux, or with the other strategy.
Fallback(a) ==
  /\ At(a, "fallback") /\ StopAs(a)
  /\ attempt' = [attempt EXCEPT ![a].pc = "again", ![a].retry = FALSE]
  /\ UNCHANGED <<events, applyLock, chances>>

StartAgain(a) ==
  /\ At(a, "again") /\ StartEngine(a)
  /\ UNCHANGED <<events, applyLock, chances, mishap>>

\* The country of the exit address; no cancellation while it is looked up.
Locate(a) ==
  /\ At(a, "locate") /\ (Go(a, "mode") \/ Go(a, "next"))
  /\ UNCHANGED <<core, events, applyLock, chances, mishap>>

\* Mutant of TryFails: one more try after the last.
TryFailsOnce(a) ==
  /\ At(a, "next") /\ StopAs(a)
  /\ attempt' = [attempt EXCEPT ![a].tries = @ - 1, ![a].retry = TRUE,
                                ![a].pc = IF attempt[a].tries = 0 THEN "failed" ELSE "try"]
  /\ UNCHANGED <<events, applyLock, chances>>

TryFails(a) ==
  /\ At(a, "next") /\ StopAs(a)
  /\ attempt' = [attempt EXCEPT ![a].tries = @ - 1, ![a].retry = TRUE,
                                ![a].pc = IF attempt[a].tries = 1 THEN "failed" ELSE "try"]
  /\ UNCHANGED <<events, applyLock, chances>>

EnterMode(a) ==
  /\ At(a, "mode") /\ applyLock = 0 /\ applyLock' = a /\ Go(a, "choose")
  /\ fresh' = fresh \cup {a}
  /\ UNCHANGED <<eng, readers, events, chances, mishap>>

ChooseMode(a) ==
  /\ At(a, "choose")
  /\ IF Superseded(a) THEN Leave(a, "exit") /\ UNCHANGED <<core, chances>>
     ELSE IF ~ui.tunMode
     THEN Stay(a, IF TunRunning THEN "drop" ELSE "proxy") /\ UNCHANGED <<core, chances>>
     ELSE IF ~Running THEN Leave(a, "next") /\ UNCHANGED <<core, chances>>
     ELSE Call(TunUp, TunDown, Stay(a, "tun up"), Leave(a, "next"))
  /\ UNCHANGED <<events, mishap>>

ProbeTun(a) ==
  /\ At(a, "tun up")
  /\ IF Superseded(a) THEN Leave(a, "exit")
     ELSE IF ~ui.tunMode THEN Stay(a, "drop")
     ELSE Stay(a, "tun ok") \/ Leave(a, "next")
  /\ UNCHANGED <<core, events, chances, mishap>>

UseTun(a) ==
  /\ At(a, "tun ok")
  /\ IF Superseded(a) THEN Leave(a, "exit") /\ UNCHANGED core
     ELSE IF ~ui.tunMode THEN Stay(a, "drop") /\ UNCHANGED core
     ELSE IF ~(Running /\ TunRunning) THEN Leave(a, "next") /\ UNCHANGED core
     ELSE /\ SameRun(WithoutProxy) /\ applyLock' = 0
          /\ attempt' = [attempt EXCEPT ![a].pc = "save", ![a].tun = TRUE]
  /\ UNCHANGED <<events, chances, mishap>>

\* TUN mode was switched off meanwhile.
DropTun(a) ==
  /\ At(a, "drop")
  /\ IF Superseded(a) THEN Leave(a, "exit") /\ UNCHANGED <<core, chances>>
     ELSE IF ~ui.proxyMode THEN SameRun(TunDown) /\ Stay(a, "choose") /\ UNCHANGED chances
     ELSE IF ~Running THEN Leave(a, "next") /\ UNCHANGED <<core, chances>>
     ELSE Call([WithProxy EXCEPT !.tun = "off"], eng, Stay(a, "choose"), Leave(a, "next"))
  /\ UNCHANGED <<events, mishap>>

UseProxy(a) ==
  /\ At(a, "proxy")
  /\ IF ~ui.proxyMode THEN Stay(a, "mode set") /\ UNCHANGED <<core, chances>>
     ELSE IF Superseded(a) THEN Leave(a, "exit") /\ UNCHANGED <<core, chances>>
     ELSE IF ~Running THEN Leave(a, "next") /\ UNCHANGED <<core, chances>>
     ELSE SetProxy(TRUE, Stay(a, "proxy set"), Leave(a, "next"))
  /\ UNCHANGED <<events, mishap>>

\* The proxy was switched off meanwhile.
ProxySet(a) ==
  /\ At(a, "proxy set")
  /\ IF ui.proxyMode THEN Stay(a, "mode set") /\ UNCHANGED <<core, chances>>
     ELSE IF a \notin fresh THEN Leave(a, "exit") /\ UNCHANGED <<core, chances>>
     ELSE SetProxy(FALSE, Stay(a, "mode set"), Leave(a, "next"))
  /\ UNCHANGED <<events, mishap>>

ModeSet(a) ==
  /\ At(a, "mode set")
  /\ IF Superseded(a) THEN Leave(a, "exit")
     ELSE IF ui.tunMode THEN Stay(a, "choose") ELSE Leave(a, "save")
  /\ UNCHANGED <<core, events, chances, mishap>>

SaveRoute(a) ==
  /\ At(a, "save")
  /\ Go(a, IF Cancelled(a) THEN "exit"
           ELSE IF Running /\ (attempt[a].tun => TunRunning) THEN "emit" ELSE "next")
  /\ UNCHANGED <<core, events, applyLock, chances, mishap>>

Succeed(a) ==
  /\ At(a, "emit") /\ Done(a) /\ Post([kind |-> "state", on |-> TRUE])
  /\ UNCHANGED <<core, applyLock, chances, mishap>>

Fail(a) ==
  /\ At(a, "failed") /\ Go(a, "exit")
  /\ IF Cancelled(a) THEN UNCHANGED events ELSE Post([kind |-> "state", on |-> FALSE])
  /\ UNCHANGED <<core, applyLock, chances, mishap>>

\* finally: if not connected: self.engine.stop(notify=False)
Finally(a) ==
  /\ At(a, "exit") /\ StopAs(a) /\ Done(a)
  /\ UNCHANGED <<events, applyLock, chances>>

Work(a) ==
  /\ \/ OrderProfiles(a) \/ TryProfile(a) \/ Probe(a) \/ Fallback(a) \/ StartAgain(a)
     \/ Locate(a) \/ TryFails(a) \/ EnterMode(a) \/ ChooseMode(a) \/ ProbeTun(a) \/ UseTun(a)
     \/ DropTun(a) \/ UseProxy(a) \/ ProxySet(a) \/ ModeSet(a) \/ SaveRoute(a) \/ Succeed(a)
     \/ Fail(a) \/ Finally(a)
  /\ UNCHANGED <<ui, gui, timers, job>>

-----------------------------------------------------------------------------
(* Switching the Windows proxy or TUN mode while connected *)

Current(j) == ~ui.closing /\ j = ui.job /\ j \in fresh /\ Running
JobAt(j, kind, p) == Alive /\ job[j].kind = kind /\ job[j].pc = p
JobGo(j, p) == job' = [job EXCEPT ![j].pc = p]
JobEnds(j) == job' = [job EXCEPT ![j] = NoJob]
Result(j, on, ok) == job' = [job EXCEPT ![j].pc = "report", ![j].on = on, ![j].ok = ok]
Quits(j) == JobEnds(j) /\ UNCHANGED <<core, chances>>

ProxyBegin(j) ==
  /\ JobAt(j, "proxy", "begin") /\ applyLock = 0
  /\ IF Current(j) THEN JobGo(j, "read") /\ applyLock' = j ELSE JobEnds(j) /\ UNCHANGED applyLock
  /\ UNCHANGED <<core, events, chances>>

\* want: what is applied; on: what is reported, the value first read if that fails.
ProxyRead(j) ==
  /\ JobAt(j, "proxy", "read")
  /\ IF Current(j)
     THEN /\ job' = [job EXCEPT ![j].pc = "apply", ![j].want = ui.proxyMode /\ ~ui.tunMode]
          /\ UNCHANGED applyLock
     ELSE JobEnds(j) /\ applyLock' = 0
  /\ UNCHANGED <<core, events, chances>>

\* The setting stays, and the switches will say proxyMode, and tun of TUN.
Left(proxyMode, tun) ==
  mishap' = mishap \cup IF eng.windows = (proxyMode /\ ~tun) THEN {} ELSE {"unrestored"}

ProxyApply(j) ==
  /\ JobAt(j, "proxy", "apply") /\ applyLock' = 0
  /\ IF j \notin fresh THEN Quits(j) /\ UNCHANGED mishap
     ELSE IF job[j].want /\ ~Running
     THEN Result(j, job[j].on, FALSE) /\ UNCHANGED <<core, chances, mishap>>
     ELSE SetProxy(job[j].want,
            /\ Result(j, job[j].want, TRUE)
            /\ mishap' = mishap \cup IF j = ui.job /\ job[j].want /\ TunRunning THEN {"deferred"} ELSE {},
            /\ Result(j, job[j].on, FALSE)
            /\ IF j = ui.job THEN Left(~job[j].on, TunRunning) ELSE UNCHANGED mishap)
  /\ UNCHANGED events

TunBegin(j) ==
  /\ JobAt(j, "tun", "begin")
  /\ IF Current(j) THEN JobGo(j, IF ui.tunMode THEN "up" ELSE "down") ELSE JobEnds(j)
  /\ UNCHANGED <<core, events, applyLock, chances>>

Wants(j, tun) == Current(j) /\ ui.tunMode = tun

TunStart(j) ==
  /\ JobAt(j, "tun", "up") /\ applyLock = 0
  /\ IF Wants(j, TRUE) THEN Call(TunUp, TunDown, JobGo(j, "probe"), JobGo(j, "undo")) ELSE Quits(j)
  /\ UNCHANGED <<events, applyLock>>

TunProbe(j) ==
  /\ JobAt(j, "tun", "probe")
  /\ IF Wants(j, TRUE) THEN JobGo(j, "suspend") \/ JobGo(j, "undo") ELSE JobEnds(j)
  /\ UNCHANGED <<core, events, applyLock, chances>>

TunSuspend(j) ==
  /\ JobAt(j, "tun", "suspend") /\ applyLock = 0
  /\ IF ~Wants(j, TRUE) THEN Quits(j)
     ELSE IF ~TunRunning THEN JobGo(j, "undo") /\ UNCHANGED <<core, chances>>
     ELSE SetProxy(FALSE, Result(j, TRUE, TRUE), JobGo(j, "undo"))
  /\ UNCHANGED <<events, applyLock>>

TunUndo(j) ==
  /\ JobAt(j, "tun", "undo") /\ applyLock = 0
  /\ IF ~Wants(j, TRUE) THEN Quits(j) /\ UNCHANGED mishap
     ELSE /\ Result(j, TRUE, FALSE)
          /\ IF ui.proxyMode
             THEN Call([WithProxy EXCEPT !.tun = "off"], TunDown, UNCHANGED mishap, Left(TRUE, FALSE))
             ELSE SameRun(TunDown) /\ Left(FALSE, FALSE) /\ UNCHANGED chances
  /\ UNCHANGED <<events, applyLock>>

TunProxy(j) ==
  /\ JobAt(j, "tun", "down") /\ applyLock = 0
  /\ IF ~Wants(j, FALSE) THEN Quits(j) /\ UNCHANGED <<applyLock, mishap>>
     ELSE SetProxy(ui.proxyMode, JobGo(j, "untun") /\ applyLock' = j /\ UNCHANGED mishap,
                   Result(j, FALSE, FALSE) /\ Left(ui.proxyMode, TunRunning) /\ UNCHANGED applyLock)
  /\ UNCHANGED events

TunStop(j) ==
  /\ JobAt(j, "tun", "untun") /\ applyLock' = 0
  /\ IF Wants(j, FALSE) THEN SameRun(TunDown) /\ Result(j, FALSE, TRUE) ELSE Quits(j)
  /\ UNCHANGED <<events, chances>>

\* The job stays until its signal has been handled.
Report(j) ==
  /\ Alive /\ job[j].pc = "report"
  /\ IF Current(j) THEN Post([kind |-> "mode", job |-> j]) /\ JobGo(j, "reported")
     ELSE JobEnds(j) /\ UNCHANGED events
  /\ UNCHANGED <<core, applyLock, chances>>

Switch(j) ==
  /\ \/ ProxyApply(j) \/ TunUndo(j) \/ TunProxy(j)
     \/ /\ \/ ProxyBegin(j) \/ ProxyRead(j) \/ TunBegin(j) \/ TunStart(j) \/ TunProbe(j)
           \/ TunSuspend(j) \/ TunStop(j) \/ Report(j)
        /\ UNCHANGED mishap
  /\ UNCHANGED <<ui, gui, timers, attempt>>

-----------------------------------------------------------------------------
(* The GUI thread *)

\* Mutant of SetState: believes the signal.
SetStateBelieving(on) ==
  /\ ui' = [ui EXCEPT !.shown = on, !.connecting = FALSE]
  /\ timers' = timers \cup IF on /\ ~ui.tunMode THEN {"proxy"} ELSE {}
  /\ mishap' = mishap \cup IF on /\ Running /\ ui.tunMode # TunRunning THEN {"deferred"} ELSE {}

\* MainWindow._set_state.
SetState(on) ==
  LET r == on /\ Running /\ (ui.tunMode => TunRunning)
  IN  /\ ui' = [ui EXCEPT !.shown = r, !.connecting = FALSE]
      /\ timers' = timers \cup IF r /\ ~ui.tunMode THEN {"proxy"} ELSE {}
      /\ mishap' = mishap \cup IF on /\ Running /\ ui.tunMode # TunRunning THEN {"deferred"} ELSE {}

\* _begin_mode_apply and the thread it is for; nothing when the engine is down.
QueueApply(u, kind) ==
  IF ~Running THEN ui' = u /\ UNCHANGED <<job, fresh, mishap>>
  ELSE \E j \in Job :
         /\ job[j] = NoJob /\ \A i \in Job : i < j => job[i] # NoJob
         /\ job' = [job EXCEPT ![j] = [NoJob EXCEPT !.kind = kind, !.pc = "begin", !.on = u.proxyMode]]
         /\ ui' = [u EXCEPT !.job = j]
         /\ fresh' = fresh \cup {j}
         /\ mishap' = mishap \cup IF kind = "proxy" /\ ui.job # 0 /\ job[ui.job].kind = "tun"
                                   /\ Current(ui.job) THEN {"overtaken"} ELSE {}

Click == gui = "idle" /\ Happens

\* _cancel_connect_attempt up to engine.stop.
CancelAttempt == ui' = [ui EXCEPT !.connecting = FALSE, !.current = 0, !.job = 0]

\* toggle_connection: cancel or disconnect, or begin an attempt (there is a
\* configuration and an SNI to try).
Toggle ==
  IF ui.connecting \/ Running
  THEN CancelAttempt /\ gui' = "disconnect" /\ UNCHANGED attempt
  ELSE LET a == ui.worker + 1
       IN  /\ a \in Attempt
           /\ ui' = [ui EXCEPT !.connecting = TRUE, !.worker = a, !.current = a, !.job = 0]
           /\ attempt' = [attempt EXCEPT ![a] = [pc |-> "order", tries |-> MaxTries, retry |-> TRUE,
                                                 tun |-> FALSE]]
           /\ UNCHANGED gui

ClickConnect ==
  /\ Click /\ Toggle
  /\ UNCHANGED <<core, events, timers, job, applyLock, mishap>>

\* The thread of the last attempt has not ended.
WorkerAlive == ui.worker # 0 /\ attempt[ui.worker].pc # "done"

\* Another configuration is chosen, or the programs that bypass the VPN change.
Restart ==
  /\ Click /\ CancelAttempt
  /\ \/ (ui.connecting \/ Running \/ WorkerAlive) /\ "switch" \notin timers /\ gui' = "switch"
     \/ (ui.connecting \/ Running) /\ gui' = "reconnect"
  /\ UNCHANGED <<core, events, timers, attempt, job, applyLock, mishap>>

\* engine.stop waits for the lifecycle lock on the GUI thread; then _set_state(False).
StopForUser ==
  /\ gui \in {"disconnect", "switch", "reconnect"} /\ gui' = "idle"
  /\ NewRun(Stopped(eng))
  /\ ui' = [ui EXCEPT !.shown = FALSE, !.connecting = FALSE]
  /\ timers' = timers \cup ({gui} \cap {"switch", "reconnect"})
  /\ UNCHANGED <<events, attempt, job, applyLock, chances, mishap>>

\* _resume_profile_switch polls until the thread of the attempt is gone.
ResumeSwitch ==
  /\ gui = "idle" /\ "switch" \in timers /\ ~WorkerAlive
  /\ timers' = timers \ {"switch"} /\ Toggle
  /\ UNCHANGED <<core, events, job, applyLock, chances, mishap>>

Reconnect ==
  /\ gui = "idle" /\ "reconnect" \in timers /\ timers' = timers \ {"reconnect"}
  /\ IF Running \/ ui.connecting THEN UNCHANGED <<ui, gui, attempt>> ELSE Toggle
  /\ UNCHANGED <<core, events, job, applyLock, chances, mishap>>

\* The interface is drawn again in another language.
Relabel ==
  /\ Click /\ ~ui.connecting
  /\ SetState(Running) \/ (~Running /\ UNCHANGED <<ui, timers, mishap>>)
  /\ UNCHANGED <<core, gui, events, attempt, job, applyLock>>

\* A preference that is changed during an attempt is only saved.
Deferred == ui.connecting /\ ~ui.shown

ChangeTun ==
  LET u == [ui EXCEPT !.tunMode = ~@]
  IN  /\ Click
      /\ IF Deferred THEN ui' = u /\ UNCHANGED <<job, fresh, mishap>> ELSE QueueApply(u, "tun")
      /\ UNCHANGED <<eng, readers, gui, events, timers, attempt, applyLock>>

\* The switch of the proxy is disabled in TUN mode.
ChangeProxy ==
  LET u == [ui EXCEPT !.proxyMode = ~@]
  IN  /\ Click /\ ~ui.tunMode
      /\ IF Deferred THEN ui' = u /\ UNCHANGED <<job, fresh, mishap>> ELSE QueueApply(u, "proxy")
      /\ UNCHANGED <<eng, readers, gui, events, timers, attempt, applyLock>>

ApplyProxyTimer ==
  /\ gui = "idle" /\ "proxy" \in timers /\ timers' = timers \ {"proxy"}
  /\ QueueApply(ui, "proxy")
  /\ UNCHANGED <<eng, readers, gui, events, attempt, applyLock, chances>>

\* A preference that could not be applied is put back.
ModeApplied(j) ==
  LET failed == j = ui.job /\ j \in fresh /\ ~job[j].ok
  IN  /\ ui' = CASE failed /\ job[j].kind = "proxy" /\ job[j].on = ui.proxyMode ->
                      [ui EXCEPT !.proxyMode = ~@, !.connecting = FALSE]
                 [] failed /\ job[j].kind = "tun" /\ job[j].on = ui.tunMode ->
                      [ui EXCEPT !.tunMode = TunRunning, !.connecting = FALSE]
                 [] OTHER -> ui
      /\ JobEnds(j) /\ UNCHANGED <<timers, mishap>>

HandleSignal ==
  /\ gui = "idle" /\ events # <<>> /\ events' = Tail(events)
  /\ LET e == Head(events)
     IN  IF e.kind = "state" THEN SetState(e.on) /\ UNCHANGED job ELSE ModeApplied(e.job)
  /\ UNCHANGED <<core, gui, attempt, applyLock, chances>>

\* shutdown: cancels, stops, waits three seconds for the thread, stops again.
Quit ==
  /\ \/ gui = "idle" /\ gui' = "quit" /\ ui' = [ui EXCEPT !.closing = TRUE] /\ UNCHANGED core
     \/ gui = "quit" /\ gui' = "quit stop" /\ CancelAttempt /\ UNCHANGED core
     \/ gui = "quit stop" /\ gui' = "quit again" /\ NewRun(Stopped(eng)) /\ UNCHANGED ui
     \/ gui = "quit again" /\ gui' = "gone" /\ NewRun(Stopped(eng)) /\ UNCHANGED ui
  /\ UNCHANGED <<events, timers, attempt, job, applyLock, chances, mishap>>

CNext ==
  \/ ClickConnect \/ Restart \/ StopForUser \/ ResumeSwitch \/ Reconnect \/ Relabel
  \/ ChangeTun \/ ChangeProxy \/ ApplyProxyTimer \/ HandleSignal \/ Quit
  \/ \E a \in Attempt : Work(a)
  \/ \E j \in Job : Switch(j)
  \/ Dies \/ ReaderStops

CSpec == CInit /\ [][CNext]_cvars

-----------------------------------------------------------------------------
(* Properties *)

Quiet ==
  /\ gui = "idle" /\ events = <<>> /\ timers = {} /\ readers = {}
  /\ \A a \in Attempt : attempt[a].pc \in {"idle", "done"}
  /\ \A j \in Job : job[j] = NoJob

\* When nothing is under way any more, the window shows a connection exactly
\* when the engine runs, and then TUN and the proxy of Windows are what the two
\* switches say.  After the process has gone nothing of it runs.
ShownIsSo ==
  /\ Quiet /\ mishap = {} =>
       /\ ui.shown = Running
       /\ ui.shown => /\ TunRunning = ui.tunMode
                      /\ eng.windows = (ui.proxyMode /\ ~ui.tunMode)
  /\ gui = "gone" => ~eng.active /\ eng.xray = "none" /\ eng.tun = "off" /\ ~eng.windows

=============================================================================
