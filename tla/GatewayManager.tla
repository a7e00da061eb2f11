--------------------------- MODULE GatewayManager ---------------------------
(***************************************************************************)
(* The Mobile Gateway inside one process: class GatewayManager of          *)
(* uac_desktop/gateway.py together with the part of class Engine           *)
(* (uac_desktop/engine.py) that calls it and that it calls back.           *)
(*                                                                         *)
(* Threads of the user interface, one worker thread per session, the       *)
(* discovery thread and the ARP responder share three locks:               *)
(*   lock       GatewayManager._lock          (reentrant)                  *)
(*   serial     GatewayManager._stop_serial   (not reentrant)              *)
(*   lifecycle  Engine._lifecycle_lock        (reentrant)                  *)
(* A step is what a thread does between two points at which it waits for   *)
(* a lock, joins another thread or leaves a lock, so that every order in   *)
(* which the code can take its locks is a behaviour.  What is done inside  *)
(* one critical section and is invisible to the other threads is one step; *)
(* crashes between those calls belong to GatewayRecovery.                  *)
(***************************************************************************)
EXTENDS Naturals, FiniteSets

CONSTANTS
  Thread,       \* threads that call the engine
  Device,       \* devices of the local network
  Responder, Discovery, None, Free,
  MaxSession,   \* bound on the sessions that are started
  MaxRequests,  \* bound on the requests of the threads and on the deaths of xray and sing-box
  Requests,     \* the kinds of requests the threads make
  Faults        \* what may go wrong

RequestKinds == {"enable", "disable", "connect", "disconnect", "tun on", "tun off"}

\* setup: activation fails or is cancelled.  restore: a restore command fails.
\* engine, tun, forwarder: the xray process, the sing-box process, the packet
\* filter ends by itself.  socks: the SOCKS port of xray does not answer.
\* arp: devices send ARP packets.  expire: a device is not seen for the time to
\* live of its entry.  previous: a dead process left a session.
FaultKinds == {"setup", "restore", "engine", "socks", "tun", "forwarder", "arp",
              "expire", "previous"}

Session == 1..MaxSession
Caller  == Thread \cup Session            \* who may hold a lock across steps

ASSUME ConstAssumption ==
  /\ MaxSession \in Nat \ {0} /\ MaxRequests \in Nat
  /\ Thread \cap Session = {}
  /\ {Responder, Discovery, None, Free} \cap (Caller \cup Device) = {}
  /\ Requests \subseteq RequestKinds /\ Faults \subseteq FaultKinds

VARIABLES
  lock, serial, lifecycle,
  pc,          \* where each caller is
  after,       \* where a caller goes when GatewayManager.stop returns
  victim,      \* token of the session the running stop found (0: none runs)
  trouble,     \* the errors list of the running stop is not empty
  expected,    \* callers whose expected_run_id (or the reader's run_id) is still the current one
  awaited,     \* the same for the id read for acquire_tun and release_tun
  batch,       \* the devices a worker or the discovery is about to redirect
  seen,        \* the _stop_event object a worker waits on
  failures,    \* failed polls of a worker in a row, below failure_limit = 2
  \* GatewayManager
  active, stopping, token, devices, worker,
  event,       \* the _stop_event objects that are set
  latest,      \* the object _stop_event refers to
  started,     \* tokens used so far
  \* its threads and the packet filter
  discovery, scanning, responder, heard, forwarding,
  \* the machine: state file, Windows settings, devices that were told we are the router
  file, windows, lan,
  \* Engine
  running, tun, lease, ownsTun,
  userTun,     \* history: the user asked for TUN mode
  left         \* requests and deaths left

locks   == <<lock, serial, lifecycle>>
session == <<active, stopping, event, token, devices, worker, latest, started>>
calls   == <<after, victim, trouble, expected, awaited>>
aux     == <<discovery, scanning, responder, heard, batch, seen, failures>>
machine == <<forwarding, file, windows, lan>>
engine  == <<running, tun, lease, ownsTun, userTun>>
vars    == <<locks, session, calls, aux, machine, engine, pc, left>>

PC == {"idle", "dead",
       "start", "recover", "ready", "tun", "setup", "retry", "undo", "untun", "started",
       "serial", "mark", "join", "lock", "restore", "release",
       "life", "halt", "xray log", "tun log",
       "wait", "look", "restart", "redirect"}

\* The restore file: token 0 is a session of a process that is gone.
State == [token : Session \cup {0}, devices : SUBSET Device]
ASSUME NoneAssumption == None \notin State

TypeOK ==
  /\ lock \in Caller \cup {Free} /\ serial \in Caller \cup {Free}
  /\ lifecycle \in Caller \cup {Free}
  /\ pc \in [Caller -> PC]
  /\ after \in [Caller -> {"return", "life", "stop", "start"}]
  /\ victim \in Session \cup {0} /\ trouble \in BOOLEAN
  /\ expected \subseteq Caller /\ awaited \subseteq Caller
  /\ batch \in [Session \cup {Discovery} -> SUBSET Device]
  /\ seen \in [Session -> Session \cup {0}] /\ failures \in [Session -> 0..1]
  /\ active \in BOOLEAN /\ stopping \in BOOLEAN
  /\ event \subseteq Session \cup {0}
  /\ token \in Session \cup {0} /\ worker \in Session \cup {0}
  /\ devices \subseteq Device
  /\ started \in Session \cup {0} /\ latest \in Session \cup {0}
  /\ discovery \in {"off", "begin", "scan", "check", "send"}
  /\ scanning \in Session \cup {0}
  /\ responder \in {"off", "listen", "answer", "send"}
  /\ heard \in Device \cup {None}
  /\ forwarding \in BOOLEAN
  /\ file \in State \cup {None}
  /\ windows \in {"user", "gateway"}
  /\ lan \subseteq Device
  /\ running \in BOOLEAN
  /\ tun \in {"off", "on", "dead"} /\ lease \in BOOLEAN /\ ownsTun \in BOOLEAN
  /\ userTun \in BOOLEAN
  /\ left \in 0..MaxRequests

Init ==
  /\ lock = Free /\ serial = Free /\ lifecycle = Free
  /\ pc = [c \in Caller |-> IF c \in Thread THEN "idle" ELSE "dead"]
  /\ after = [c \in Caller |-> "return"]
  /\ victim = 0 /\ trouble = FALSE /\ expected = {} /\ awaited = {}
  /\ batch = [c \in Session \cup {Discovery} |-> {}]
  /\ seen = [s \in Session |-> 0] /\ failures = [s \in Session |-> 0]
  /\ active = FALSE /\ stopping = FALSE
  /\ event = {}
  /\ token = 0 /\ worker = 0 /\ devices = {} /\ started = 0 /\ latest = 0
  /\ discovery = "off" /\ scanning = 0 /\ responder = "off" /\ heard = None
  /\ forwarding = FALSE
  /\ \/ file = None /\ windows = "user" /\ lan = {}
     \/ /\ "previous" \in Faults
        /\ \E D \in SUBSET Device : file = [token |-> 0, devices |-> D] /\ lan = D
        /\ windows = "gateway"
  /\ running = TRUE
  /\ tun = "off" /\ lease = FALSE /\ ownsTun = FALSE /\ userTun = FALSE
  /\ left = MaxRequests

-----------------------------------------------------------------------------
(* Helpers *)

Goto(a, p) == pc' = [pc EXCEPT ![a] = p]

\* Whom an ARP burst reaches: one without devices goes to the whole network.
Reached(D) == IF D = {} THEN Device ELSE D

\* Mutant: the responder goes on after the session.
RestoreStateAnswering(arpOk, windowsOk) ==
  /\ (arpOk /\ windowsOk) \/ "restore" \in Faults
  /\ forwarding' = FALSE
  /\ lan' = IF arpOk THEN lan \ Reached(file.devices) ELSE lan
  /\ windows' = IF windowsOk THEN "user" ELSE windows
  /\ UNCHANGED <<responder, heard>>

\* _restore_state: stop_responder joins the sniffer thread, the packet filter
\* stops, then the true router is announced and Windows is reset.  The two
\* flags are the outcomes of the last two.
RestoreState(arpOk, windowsOk) ==
  /\ responder \in {"off", "listen"}
  /\ (arpOk /\ windowsOk) \/ "restore" \in Faults
  /\ responder' = "off" /\ heard' = None
  /\ forwarding' = FALSE
  /\ lan' = IF arpOk THEN lan \ Reached(file.devices) ELSE lan
  /\ windows' = IF windowsOk THEN "user" ELSE windows

\* The first test of _refresh_devices and _ensure_forwarder, and the stricter
\* one of _record_device and of the second half of _refresh_devices.
InSession(t)   == active /\ ~stopping /\ file # None /\ file.token = t
UnchangedSession(t) == InSession(t) /\ latest \notin event

-----------------------------------------------------------------------------
(* Engine.acquire_tun and release_tun for the gateway, under the lifecycle   *)
(* lock.  The system proxy is not touched: the gateway passes its networks.  *)

\* Mutant: the gateway believes it started the TUN.
AcquireTunAsOwner ==
  /\ lease' = TRUE
  /\ tun' = IF lease THEN tun ELSE "on"
  /\ ownsTun' = TRUE
  /\ UNCHANGED <<running, userTun>>

AcquireTun ==
  /\ lease' = TRUE
  /\ tun' = IF lease THEN tun ELSE "on"
  /\ ownsTun' = IF lease THEN ownsTun ELSE tun # "on"
  /\ UNCHANGED <<running, userTun>>

ReleaseTun ==
  /\ lease' = FALSE
  /\ ownsTun' = IF lease THEN FALSE ELSE ownsTun
  /\ tun' = IF lease /\ ownsTun THEN "off" ELSE tun
  /\ UNCHANGED <<running, userTun>>

-----------------------------------------------------------------------------
(* GatewayManager.start, called by Engine.enable_gateway *)

Enable(a) ==
  /\ lifecycle = Free /\ running
  /\ expected' = expected \cup {a}
  /\ Goto(a, "start")
  /\ UNCHANGED <<locks, session, after, victim, trouble, awaited, aux, machine, engine>>

\* Nothing to do for an active session; a session of this process that could
\* not be restored is refused; one of a dead process is recovered first.
StartLock(a) ==
  /\ pc[a] = "start" /\ lock = Free
  /\ \/ active /\ Goto(a, "started") /\ UNCHANGED lock
     \/ ~active /\ file = None /\ lock' = a /\ Goto(a, "ready")
     \/ ~active /\ file # None /\ file.token = 0 /\ lock' = a /\ Goto(a, "recover")
     \/ ~active /\ file # None /\ file.token # 0 /\ Goto(a, "idle") /\ UNCHANGED lock
  /\ UNCHANGED <<serial, lifecycle, session, calls, aux, machine, engine, left>>

\* recover(force=True) takes _stop_serial while start holds _lock.
StartRecover(a) ==
  /\ pc[a] = "recover" /\ serial = Free
  /\ \E arpOk, windowsOk \in BOOLEAN :
       /\ RestoreState(arpOk, windowsOk)
       /\ IF arpOk /\ windowsOk
          THEN /\ file' = None /\ token' = 0 /\ devices' = {} /\ active' = FALSE
               /\ Goto(a, "ready") /\ UNCHANGED lock
          ELSE /\ Goto(a, "idle") /\ lock' = Free
               /\ UNCHANGED <<file, token, devices, active>>
  /\ UNCHANGED <<serial, lifecycle, stopping, event, worker, latest, started, calls,
                 discovery, scanning, batch, seen, failures, engine, left>>

\* _engine_ready, then detect_lan.
StartReady(a) ==
  /\ pc[a] = "ready"
  /\ IF running
     THEN Goto(a, "tun") /\ awaited' = awaited \cup {a} /\ UNCHANGED lock
     ELSE Goto(a, "idle") /\ lock' = Free /\ UNCHANGED awaited
  /\ UNCHANGED <<serial, lifecycle, session, after, victim, trouble, expected, aux,
                 machine, engine, left>>

\* What the except branch of start leaves: no session, and the lock free.
StartEnds(a) ==
  /\ active' = FALSE /\ devices' = {} /\ token' = 0
  /\ expected' = expected \ {a} /\ awaited' = awaited \ {a}
  /\ lock' = Free
  /\ Goto(a, "idle")

StartTun(a) ==
  /\ pc[a] = "tun" /\ lifecycle = Free
  /\ \/ /\ a \in awaited /\ (lease \/ running)
        /\ AcquireTun
        /\ Goto(a, "setup")
        /\ UNCHANGED <<lock, active, devices, token, expected, awaited>>
     \/ /\ a \notin awaited \/ ~(lease \/ running) \/ "setup" \in Faults
        /\ StartEnds(a)
        /\ UNCHANGED engine
  /\ UNCHANGED <<serial, lifecycle, stopping, event, worker, latest, started, after, victim,
                 trouble, aux, machine, left>>

\* From wait_for_tun to the first redirect; D are the neighbours Windows knows.
SetUp(a) ==
  /\ pc[a] = "setup" /\ started < MaxSession /\ tun = "on"
  /\ \E D \in SUBSET Device :
       LET s == started + 1 IN
       /\ file' = [token |-> s, devices |-> D]
       /\ lan' = lan \cup Reached(D)
       /\ started' = s /\ token' = s /\ devices' = D /\ worker' = s
       /\ latest' = s
       /\ seen' = [seen EXCEPT ![s] = s]
       /\ pc' = [pc EXCEPT ![a] = "started", ![s] = "wait"]
  /\ windows' = "gateway" /\ forwarding' = TRUE /\ responder' = "listen"
  /\ active' = TRUE /\ stopping' = FALSE
  /\ discovery' = IF discovery = "off" THEN "begin" ELSE discovery
  /\ lock' = Free
  /\ UNCHANGED <<serial, lifecycle, event, calls, scanning, heard, batch, failures, engine, left>>

\* The activation fails or is cancelled: the TUN adapter does not appear (and
\* is tried again: three times in the code, any number here), or the machine
\* was not changed yet, or the first so many of the four changes were made.
SetUpFails(a) ==
  /\ pc[a] = "setup"
  /\ "setup" \in Faults \/ started = MaxSession \/ tun # "on"
  /\ \/ Goto(a, "retry") /\ UNCHANGED machine /\ UNCHANGED <<started, responder>>
     \/ Goto(a, "untun") /\ UNCHANGED machine /\ UNCHANGED <<started, responder>>
     \/ /\ "setup" \in Faults /\ started < MaxSession /\ started' = started + 1
        /\ \E D \in SUBSET Device, done \in 0..4 :
             /\ file' = [token |-> started + 1, devices |-> D]
             /\ forwarding' = (done >= 1)
             /\ windows' = IF done >= 2 THEN "gateway" ELSE windows
             /\ responder' = IF done >= 3 THEN "listen" ELSE responder
             /\ lan' = IF done = 4 THEN lan \cup Reached(D) ELSE lan
        /\ Goto(a, "undo")
  /\ awaited' = awaited \cup {a}
  /\ UNCHANGED <<locks, active, stopping, event, token, devices, worker, latest, after, victim,
                 trouble, expected, discovery, scanning, heard, batch, seen, failures, engine, left>>

StartRetry(a) ==
  /\ pc[a] = "retry" /\ lifecycle = Free
  /\ IF a \in awaited
     THEN /\ ReleaseTun /\ Goto(a, "tun")
          /\ UNCHANGED <<lock, active, devices, token, expected, awaited>>
     ELSE /\ StartEnds(a)
          /\ UNCHANGED engine
  /\ UNCHANGED <<serial, lifecycle, stopping, event, worker, latest, started, after, victim,
                 trouble, aux, machine, left>>

StartUndo(a) ==
  /\ pc[a] = "undo"
  /\ \E arpOk, windowsOk \in BOOLEAN :
       /\ RestoreState(arpOk, windowsOk)
       /\ file' = IF arpOk /\ windowsOk THEN None ELSE file
  /\ awaited' = awaited \cup {a}
  /\ Goto(a, "untun")
  /\ UNCHANGED <<locks, session, after, victim, trouble, expected, discovery, scanning,
                 batch, seen, failures, engine, left>>

StartUntun(a) ==
  /\ pc[a] = "untun" /\ lifecycle = Free
  /\ IF a \in awaited THEN ReleaseTun ELSE UNCHANGED engine
  /\ StartEnds(a)
  /\ UNCHANGED <<serial, lifecycle, stopping, event, worker, latest, started, after, victim,
                 trouble, aux, machine, left>>

\* enable_gateway looks at the run id once more and takes the session back.
StartAfter(a) ==
  /\ pc[a] = "started" /\ lifecycle = Free
  /\ \/ a \in expected /\ Goto(a, "idle") /\ UNCHANGED after
     \/ /\ a \notin expected \/ "setup" \in Faults
        /\ Goto(a, "serial") /\ after' = [after EXCEPT ![a] = "return"]
  /\ expected' = expected \ {a}
  /\ UNCHANGED <<locks, session, victim, trouble, awaited, aux, machine, engine, left>>

Start(a) == StartLock(a) \/ StartRecover(a) \/ StartReady(a) \/ StartTun(a) \/ SetUp(a)
            \/ SetUpFails(a) \/ StartRetry(a) \/ StartUndo(a) \/ StartUntun(a)
            \/ StartAfter(a)

-----------------------------------------------------------------------------
(* GatewayManager.stop *)

Disable(a) ==
  /\ lifecycle = Free
  /\ Goto(a, "serial") /\ after' = [after EXCEPT ![a] = "return"]
  /\ UNCHANGED <<locks, session, victim, trouble, expected, awaited, aux, machine, engine>>

\* Where a caller goes on when stop returns.
Return(a) ==
  Goto(a, CASE after[a] = "return" -> IF a \in Thread THEN "idle" ELSE "dead"
            [] after[a] = "life"   -> "life"
            [] OTHER               -> "halt")

StopSerial(a) ==
  /\ pc[a] = "serial" /\ serial = Free
  /\ serial' = a
  /\ Goto(a, "mark")
  /\ UNCHANGED <<lock, lifecycle, session, calls, aux, machine, engine, left>>

\* Mutant: the early return keeps _stop_serial.
StopMarkKeepsSerial(a) ==
  /\ pc[a] = "mark" /\ lock = Free
  /\ IF file = None /\ ~active
     THEN Return(a) /\ UNCHANGED <<stopping, event, victim>>
     ELSE /\ stopping' = TRUE
          /\ event' = event \cup {latest}
          /\ victim' = IF token # 0 THEN token ELSE file.token
          /\ Goto(a, "join")
  /\ UNCHANGED <<lock, serial, lifecycle, active, token, devices, worker, latest, started, after,
                 trouble, expected, awaited, aux, machine, engine, left>>

StopMark(a) ==
  /\ pc[a] = "mark" /\ lock = Free
  /\ IF file = None /\ ~active
     THEN /\ serial' = Free /\ Return(a)
          /\ UNCHANGED <<stopping, event, victim>>
     ELSE /\ stopping' = TRUE
          /\ event' = event \cup {latest}
          /\ victim' = IF token # 0 THEN token ELSE file.token
          /\ Goto(a, "join") /\ UNCHANGED serial
  /\ UNCHANGED <<lock, lifecycle, active, token, devices, worker, latest, started, after,
                 trouble, expected, awaited, aux, machine, engine, left>>

\* worker.join(timeout) gives up on a worker that waits for a lock, starts the
\* packet filter (its own timeout is longer) or has many packets to send.  A stop
\* called by the worker itself does not join.  (No start gets past StartLock
\* meanwhile, so _worker is still the one StopMark read.)
JoinReturns(w) == pc[w] = "dead"
JoinTimesOut(w) ==
  pc[w] \in {"serial", "restart", "redirect"} \/ (pc[w] = "look" /\ lock # Free)

StopJoin(a) ==
  /\ pc[a] = "join"
  /\ worker \notin {0, a} => JoinReturns(worker) \/ JoinTimesOut(worker)
  /\ Goto(a, "lock")
  /\ UNCHANGED <<locks, session, calls, aux, machine, engine, left>>

\* A state file of another session is left alone.
StopLock(a) ==
  /\ pc[a] = "lock" /\ lock = Free
  /\ IF file # None /\ file.token # victim
     THEN /\ stopping' = FALSE /\ serial' = Free /\ Return(a) /\ UNCHANGED lock
     ELSE /\ lock' = a /\ Goto(a, "restore") /\ UNCHANGED <<serial, stopping>>
  /\ victim' = 0
  /\ UNCHANGED <<lifecycle, active, event, token, devices, worker, latest, started, after,
                 trouble, expected, awaited, aux, machine, engine, left>>

\* Mutant: the file goes although a restore command failed.
FinishAnyway(a, bad) ==
  /\ file' = None
  /\ active' = FALSE /\ stopping' = FALSE /\ worker' = 0
  /\ token' = 0 /\ devices' = {}
  /\ lock' = Free /\ serial' = Free
  /\ trouble' = FALSE /\ awaited' = awaited \ {a}
  /\ Return(a)
  /\ UNCHANGED <<lifecycle, event, latest, started>>

\* The end of stop: the file goes unless something failed; the session ends
\* in either case, and both locks are released.
Finish(a, bad) ==
  /\ file' = IF bad THEN file ELSE None
  /\ active' = FALSE /\ stopping' = FALSE /\ worker' = 0
  /\ token' = 0 /\ devices' = {}
  /\ lock' = Free /\ serial' = Free
  /\ trouble' = FALSE /\ awaited' = awaited \ {a}
  /\ Return(a)
  /\ UNCHANGED <<lifecycle, event, latest, started>>

StopRestore(a) ==
  /\ pc[a] = "restore"
  /\ \E arpOk, windowsOk \in BOOLEAN :
       LET bad == ~(arpOk /\ windowsOk) IN
       /\ RestoreState(arpOk, windowsOk)
       /\ IF after[a] # "return"                      \* engine_stopping
          THEN Finish(a, bad)
          ELSE /\ Goto(a, "release")
               /\ trouble' = bad /\ awaited' = awaited \cup {a}
               /\ UNCHANGED <<locks, session, file>>
  /\ UNCHANGED <<after, victim, expected, discovery, scanning, batch, seen, failures, engine, left>>

StopRelease(a) ==
  /\ pc[a] = "release" /\ lifecycle = Free
  /\ IF a \in awaited
     THEN ReleaseTun /\ Finish(a, trouble)
     ELSE UNCHANGED engine /\ Finish(a, TRUE)         \* EngineCancelled
  /\ UNCHANGED <<after, victim, expected, aux, forwarding, windows, lan, left>>

Stop(a) == StopSerial(a) \/ StopMark(a) \/ StopJoin(a) \/ StopLock(a)
           \/ StopRestore(a) \/ StopRelease(a)

-----------------------------------------------------------------------------
(* Engine.stop and Engine.start *)

\* stop ends the session before it takes the lifecycle lock, start does not.
Disconnect(a) ==
  /\ Goto(a, "serial") /\ after' = [after EXCEPT ![a] = "life"]
  /\ UNCHANGED <<locks, session, victim, trouble, expected, awaited, aux, machine, engine>>

Connect(a) ==
  /\ Goto(a, "life") /\ after' = [after EXCEPT ![a] = "start"]
  /\ UNCHANGED <<locks, session, victim, trouble, expected, awaited, aux, machine, engine>>

\* Mutant: _stop_locked relies on stop having ended the session.
EngineLifeNoGateway(a) ==
  /\ pc[a] = "life" /\ lifecycle = Free
  /\ lifecycle' = a
  /\ after' = [after EXCEPT ![a] = IF @ = "start" THEN "start" ELSE "stop"]
  /\ Goto(a, "halt")
  /\ UNCHANGED <<lock, serial, session, victim, trouble, expected, awaited, aux, machine,
                 engine, left>>

\* _stop_locked calls before_engine_stop (again) under the lifecycle lock.
EngineLife(a) ==
  /\ pc[a] = "life" /\ lifecycle = Free
  /\ lifecycle' = a
  /\ after' = [after EXCEPT ![a] = IF @ = "start" THEN "start" ELSE "stop"]
  /\ Goto(a, "serial")
  /\ UNCHANGED <<lock, serial, session, victim, trouble, expected, awaited, aux, machine,
                 engine, left>>

\* The rest of _stop_locked, and of start; start may fail or be cancelled.
EngineHalt(a) ==
  /\ pc[a] = "halt"
  /\ lease' = FALSE /\ ownsTun' = FALSE /\ tun' = "off" /\ userTun' = FALSE
  /\ IF after[a] = "start" THEN running' \in BOOLEAN ELSE running' = FALSE
  /\ expected' = {} /\ awaited' = {}                \* a new run id
  /\ lifecycle' = Free
  /\ Goto(a, "idle")
  /\ UNCHANGED <<lock, serial, session, after, victim, trouble, aux, machine, left>>

Engine(a) == EngineLife(a) \/ EngineHalt(a)

-----------------------------------------------------------------------------
(* Engine.enable_tun and disable_tun for the TUN mode of the user *)

TunOn(a) ==
  /\ lifecycle = Free /\ running
  /\ tun' = "on" /\ userTun' = TRUE
  /\ ownsTun' = IF tun = "on" /\ lease THEN FALSE ELSE ownsTun
  /\ UNCHANGED <<running, lease, pc, locks, session, calls, aux, machine>>

\* Mutant: the TUN is not handed over to the gateway.
TunOffForgets(a) ==
  /\ lifecycle = Free
  /\ userTun' = FALSE
  /\ tun' = IF lease THEN tun ELSE "off"
  /\ UNCHANGED <<running, lease, ownsTun, pc, locks, session, calls, aux, machine>>

TunOff(a) ==
  /\ lifecycle = Free
  /\ userTun' = FALSE
  /\ IF lease THEN ownsTun' = TRUE /\ UNCHANGED tun ELSE tun' = "off" /\ UNCHANGED ownsTun
  /\ UNCHANGED <<running, lease, pc, locks, session, calls, aux, machine>>

Request(a) ==
  /\ pc[a] = "idle" /\ left > 0
  /\ left' = left - 1
  /\ \/ "enable" \in Requests /\ Enable(a)
     \/ "disable" \in Requests /\ Disable(a)
     \/ "connect" \in Requests /\ Connect(a)
     \/ "disconnect" \in Requests /\ Disconnect(a)
     \/ "tun on" \in Requests /\ TunOn(a)
     \/ "tun off" \in Requests /\ TunOff(a)

-----------------------------------------------------------------------------
(* GatewayManager._run, the worker of session s *)

Healthy == running /\ tun = "on"

\* Mutant: the limit is off by one.
FailedOffByOne(s) ==
  IF failures[s] = 2
  THEN /\ Goto(s, "serial") /\ after' = [after EXCEPT ![s] = "return"]
       /\ UNCHANGED failures
  ELSE /\ failures' = [failures EXCEPT ![s] = @ + 1] /\ Goto(s, "look")
       /\ UNCHANGED after

\* What a poll that went wrong does: the second in a row ends the session.
Failed(s) ==
  IF failures[s] = 1
  THEN /\ Goto(s, "serial") /\ after' = [after EXCEPT ![s] = "return"]
       /\ UNCHANGED failures
  ELSE /\ failures' = [failures EXCEPT ![s] = 1] /\ Goto(s, "look")
       /\ UNCHANGED after

Passed(s) ==
  failures' = [failures EXCEPT ![s] = 0] /\ Goto(s, "look") /\ UNCHANGED after

WorkerEnds(s) ==
  /\ pc[s] = "wait" /\ seen[s] \in event
  /\ Goto(s, "dead")
  /\ seen' = [seen EXCEPT ![s] = 0] /\ failures' = [failures EXCEPT ![s] = 0]
  /\ UNCHANGED <<locks, session, calls, discovery, scanning, responder, heard, batch, machine,
                 engine, left>>

\* _health_ok, and the part of _ensure_forwarder under the lock.
WorkerPoll(s) ==
  /\ pc[s] = "wait" /\ seen[s] \notin event
  /\ \/ Healthy /\ forwarding /\ Passed(s)
     \/ (~Healthy \/ "socks" \in Faults) /\ Failed(s)
     \/ /\ Healthy /\ ~forwarding /\ lock = Free
        /\ IF InSession(token) THEN Goto(s, "restart") /\ UNCHANGED <<failures, after>>
                               ELSE Failed(s)
  /\ UNCHANGED <<locks, session, victim, trouble, expected, awaited, discovery, scanning,
                 responder, heard, batch, seen, machine, engine, left>>

\* Mutant: a filter that did not start counts as repaired.
WorkerRestartBlind(s) ==
  /\ pc[s] = "restart"
  /\ forwarding' \in {TRUE, "forwarder" \notin Faults}
  /\ Passed(s)
  /\ UNCHANGED <<locks, session, victim, trouble, expected, awaited, discovery, scanning,
                 responder, heard, batch, seen, file, windows, lan, engine, left>>

\* The packet filter is started outside the lock.
WorkerRestart(s) ==
  /\ pc[s] = "restart"
  /\ \/ forwarding' = TRUE /\ Passed(s)
     \/ "forwarder" \in Faults /\ UNCHANGED forwarding /\ Failed(s)
  /\ UNCHANGED <<locks, session, victim, trouble, expected, awaited, discovery, scanning,
                 responder, heard, batch, seen, file, windows, lan, engine, left>>

\* The next wait is on whatever object _stop_event refers to by then.
WaitAgain(s) == Goto(s, "wait") /\ seen' = [seen EXCEPT ![s] = latest]

\* Under the lock: is there still a session?  A discovery may be due.
WorkerLook(s) ==
  /\ pc[s] = "look" /\ lock = Free
  /\ IF file # None /\ devices # {} /\ active /\ ~stopping /\ latest \notin event
     THEN /\ batch' = [batch EXCEPT ![s] = devices]
          /\ Goto(s, "redirect") /\ UNCHANGED seen
     ELSE WaitAgain(s) /\ UNCHANGED batch
  /\ discovery' \in {discovery, IF discovery = "off" THEN "begin" ELSE discovery}
  /\ UNCHANGED <<locks, session, calls, scanning, responder, heard, failures, machine,
                 engine, left>>

WorkerRedirect(s) ==
  /\ pc[s] = "redirect"
  /\ lan' = lan \cup batch[s]
  /\ batch' = [batch EXCEPT ![s] = {}]
  /\ WaitAgain(s)
  /\ UNCHANGED <<locks, session, calls, discovery, scanning, responder, heard, failures,
                 forwarding, file, windows, engine, left>>

Worker(s) == WorkerEnds(s) \/ WorkerPoll(s) \/ WorkerRestart(s) \/ WorkerLook(s)
             \/ WorkerRedirect(s)

-----------------------------------------------------------------------------
(* _refresh_devices, the discovery thread *)

DiscoveryEnds == discovery' = "off" /\ scanning' = 0 /\ UNCHANGED batch

RefreshBegin ==
  /\ discovery = "begin" /\ lock = Free
  /\ IF InSession(token)
     THEN discovery' = "scan" /\ scanning' = token /\ UNCHANGED batch
     ELSE DiscoveryEnds
  /\ UNCHANGED <<devices, file, lan>>

\* The list becomes what the scan found and what was seen lately.
RefreshMerge ==
  /\ discovery = "scan" /\ lock = Free
  /\ IF UnchangedSession(scanning)
     THEN \E D \in SUBSET Device :
            /\ "expire" \in Faults \/ devices \subseteq D
            /\ devices' = D /\ file' = [file EXCEPT !.devices = D]
            /\ batch' = [batch EXCEPT ![Discovery] = D]
            /\ discovery' = "check" /\ UNCHANGED scanning
     ELSE DiscoveryEnds /\ UNCHANGED <<devices, file>>
  /\ UNCHANGED lan

RefreshCheck ==
  /\ discovery = "check" /\ lock = Free
  /\ IF active /\ ~stopping /\ latest \notin event /\ token = scanning
     THEN discovery' = "send" /\ UNCHANGED <<scanning, batch>>
     ELSE DiscoveryEnds
  /\ UNCHANGED <<devices, file, lan>>

\* The redirect is sent after the lock was released.
RefreshSend ==
  /\ discovery = "send"
  /\ lan' = lan \cup Reached(batch[Discovery])
  /\ discovery' = "off" /\ scanning' = 0
  /\ batch' = [batch EXCEPT ![Discovery] = {}]
  /\ UNCHANGED <<devices, file>>

Refresh ==
  /\ RefreshBegin \/ RefreshMerge \/ RefreshCheck \/ RefreshSend
  /\ UNCHANGED <<locks, active, stopping, event, token, worker, latest, started, calls,
                 responder, heard, seen, failures, forwarding, windows, engine, pc, left>>

-----------------------------------------------------------------------------
(* The ARP responder: the callback "answer" of start_responder *)

Hear(d) ==
  /\ "arp" \in Faults /\ responder = "listen"
  /\ responder' = "answer" /\ heard' = d
  /\ UNCHANGED <<devices, file, lan>>

\* Mutant: the new device is not written to the file.
RecordDeviceInMemory ==
  /\ responder = "answer" /\ lock = Free
  /\ responder' = "send"
  /\ devices' = IF UnchangedSession(token) THEN devices \cup {heard} ELSE devices
  /\ UNCHANGED <<file, heard, lan>>

\* _record_device waits for the lock.
RecordDevice ==
  /\ responder = "answer" /\ lock = Free
  /\ responder' = "send"
  /\ IF UnchangedSession(token)
     THEN /\ devices' = devices \cup {heard}
          /\ file' = [file EXCEPT !.devices = devices \cup {heard}]
     ELSE UNCHANGED <<devices, file>>
  /\ UNCHANGED <<heard, lan>>

\* A device that asks for the router is answered even if it was not recorded.
Answer ==
  /\ responder = "send"
  /\ responder' = "listen" /\ heard' = None
  /\ lan' \in {lan, lan \cup {heard}}
  /\ UNCHANGED <<devices, file>>

Respond ==
  /\ (\E d \in Device : Hear(d)) \/ RecordDevice \/ Answer
  /\ UNCHANGED <<locks, active, stopping, event, token, worker, latest, started, calls,
                 discovery, scanning, batch, seen, failures, forwarding, windows, engine, pc,
                 left>>

-----------------------------------------------------------------------------
(* Processes that end by themselves, and the threads that read their output *)

XrayDies(a) ==
  /\ "engine" \in Faults /\ running /\ pc[a] = "idle" /\ left > 0
  /\ left' = left - 1
  /\ running' = FALSE
  /\ expected' = expected \cup {a}
  /\ Goto(a, "xray log")
  /\ UNCHANGED <<locks, session, after, victim, trouble, awaited, aux, machine, tun, lease,
                 ownsTun, userTun>>

\* _read_logs: the run id is compared under the lifecycle lock, stop comes after.
ReadLogs(a) ==
  /\ pc[a] = "xray log" /\ lifecycle = Free
  /\ IF a \in expected THEN Goto(a, "serial") /\ after' = [after EXCEPT ![a] = "life"]
                          ELSE Goto(a, "idle") /\ UNCHANGED after
  /\ UNCHANGED <<locks, session, victim, trouble, expected, awaited, aux, machine, engine, left>>

TunDies(a) ==
  /\ "tun" \in Faults /\ tun = "on" /\ pc[a] = "idle" /\ left > 0
  /\ left' = left - 1
  /\ \A b \in Thread : pc[b] # "tun log"
  /\ tun' = "dead"
  /\ Goto(a, "tun log")
  /\ UNCHANGED <<locks, session, calls, aux, machine, running, lease, ownsTun, userTun>>

\* _read_tun_logs: with a lease only the TUN process is put away.
ReadTunLogs(a) ==
  /\ pc[a] = "tun log" /\ lifecycle = Free
  /\ tun' = IF tun = "dead" /\ lease THEN "off" ELSE tun
  /\ IF tun = "dead" /\ ~lease
     THEN Goto(a, "serial") /\ after' = [after EXCEPT ![a] = "life"]
     ELSE Goto(a, "idle") /\ UNCHANGED after
  /\ UNCHANGED <<locks, session, victim, trouble, expected, awaited, aux, machine, running,
                 lease, ownsTun, userTun, left>>

ForwarderDies ==
  /\ "forwarder" \in Faults /\ forwarding
  /\ forwarding' = FALSE
  /\ UNCHANGED <<locks, session, calls, aux, file, windows, lan, engine, pc, left>>

-----------------------------------------------------------------------------
(* The system *)

Run(a) == Start(a) \/ Engine(a) \/ ReadLogs(a) \/ ReadTunLogs(a)

Next ==
  \/ \E a \in Thread : Request(a) \/ Run(a) \/ XrayDies(a) \/ TunDies(a)
  \/ \E a \in Caller : Stop(a)
  \/ \E s \in Session : Worker(s)
  \/ Refresh \/ Respond \/ ForwarderDies

Spec == Init /\ [][Next]_vars

\* Every thread that can run eventually does.
Fairness ==
  /\ \A a \in Thread : WF_vars(Run(a) \/ Stop(a))
  /\ \A s \in Session : WF_vars(Worker(s) \/ Stop(s))
  /\ WF_vars(Refresh) /\ WF_vars(Respond /\ responder # "listen")

FairSpec == Spec /\ Fairness

-----------------------------------------------------------------------------
(* Properties *)

\* A live session can be undone by whoever finds its file: whatever threads
\* and late callbacks did, the file carries the token of the session and
\* lists the devices the manager believes it redirects.
SessionOnDisk ==
  active => file # None /\ file.token = token /\ file.devices = devices

\* Windows is never left with the gateway settings and no file to undo them
\* from, whichever start or stop failed half way.
AlteredIsRecorded == windows = "gateway" => file # None

\* The two objects agree: a live session of the manager holds the TUN lease of
\* the engine, although every path that drops the lease is the engine's.
SessionHasLease == active => lease

\* sing-box runs only while the user or the gateway wants it.
TunHasAWanter == tun # "off" => userTun \/ lease

\* Ending or failing a gateway session, or any thread but the user's own
\* request and the engine's stop, leaves a TUN the user asked for running.
UserTunKept == [][userTun /\ userTun' /\ tun = "on" => tun' = "on"]_vars

\* The responder answers for the router in a session only, or while the start
\* or the stop of one holds the lock.
AnswersInSession == responder # "off" => active \/ lock # Free

\* A stop that was begun ends, with the locks given back.
StopReturns ==
  \A a \in Caller : pc[a] = "serial" ~> pc[a] \in {"idle", "dead"}

\* A packet filter that ends by itself is started again, or the session ends.
FilterIsRepaired == active /\ ~forwarding ~> ~active \/ forwarding

\* README.en.md:64: when the gateway is off and nothing waits to be restored,
\* the network is what it was.
CleanAtRest ==
  lock = Free /\ serial = Free /\ ~active /\ file = None
  => windows = "user" /\ lan = {}

=============================================================================
