--------------------------- MODULE CoreProcesses ---------------------------
(***************************************************************************)
(* The xray and sing-box processes of class Engine (uac_desktop/engine.py) *)
(* across starts, stops, crashes and restarts of the program: the owner    *)
(* records, the job object around sing-box, and the recovery of what an    *)
(* earlier run left behind.                                                *)
(*                                                                         *)
(* Windows gives process ids out again.  A record holds a pid and a        *)
(* creation time; here it holds the pid and whether the process with that  *)
(* pid is still the one it was written for.  All steps of the engine are   *)
(* under Engine._lifecycle_lock, and one instance of the program runs.     *)
(***************************************************************************)
EXTENDS Naturals, FiniteSets

CONSTANTS
  Pid,          \* process ids
  MaxEvents,    \* bound on crashes, strangers, failing writes and kills
  MaxRuns       \* bound on starts of xray

ASSUME ProcessAssumption ==
  IsFiniteSet(Pid) /\ Pid \subseteq Nat \ {0} /\ {MaxEvents, MaxRuns} \subseteq Nat

VARIABLES
  proc,     \* per pid: the process, if any
  xrec,     \* XRAY_OWNER_FILE
  srec,     \* SING_BOX_OWNER_FILE
  app,      \* the program: where it is, Engine.process, tun_process and _active
  budget,   \* <<what may still happen, starts left>>
  accident  \* history: see Accidents

ovars == <<proc, xrec, srec, app, budget, accident>>

\* home: its executable is the xray.exe of the running program (a one-file build
\* unpacks itself somewhere else on every launch); orphan: nothing has the pid of its
\* parent; listens: it holds the local ports.
NoProcess == [kind |-> "none", home |-> FALSE, orphan |-> FALSE, listens |-> FALSE]
NoRecord == [pid |-> 0, same |-> FALSE]

\* unrecorded: the program died with an xray of its own that the record, naming an
\* earlier one, does not name.  moved, parent: the executable, and the pid of the
\* parent, stopped telling whose an xray is.  reuse: a pid changed hands between the
\* check of its process and the kill.  stuck: a process outlived its kill.
Accidents == {"crash", "unrecorded", "moved", "parent", "reuse", "stuck"}
Places == {"down", "boot", "idle", "reclaim", "kill", "ports", "recover", "spawn", "record",
           "settle", "up", "tun", "tun record", "stop tun", "stop xray", "unrecord"}

OTypeOK ==
  /\ proc \in [Pid -> [kind : {"none", "xray", "sing", "other"}, home : BOOLEAN,
                       orphan : BOOLEAN, listens : BOOLEAN]]
  /\ {xrec, srec} \subseteq [pid : Pid \cup {0}, same : BOOLEAN]
  /\ app \in [pc : Places, xray : Pid \cup {0}, tun : Pid \cup {0}, active : BOOLEAN,
              todo : SUBSET Pid, target : Pid \cup {0}, refused : BOOLEAN, killed : BOOLEAN,
              quit : BOOLEAN]
  /\ budget \in (0..MaxEvents) \X (0..MaxRuns) /\ accident \subseteq Accidents

OInit ==
  /\ proc = [p \in Pid |-> NoProcess] /\ xrec = NoRecord /\ srec = NoRecord
  /\ app = [pc |-> "down", xray |-> 0, tun |-> 0, active |-> FALSE, todo |-> {}, target |-> 0,
            refused |-> FALSE, killed |-> FALSE, quit |-> FALSE]
  /\ budget = <<MaxEvents, MaxRuns>> /\ accident = {}

Chance == budget[1] > 0 /\ budget' = [budget EXCEPT ![1] = @ - 1]
Free(p) == proc[p].kind = "none"
Listeners(t) == {p \in Pid : t[p].listens}
Of(p, kind) == p # 0 /\ proc[p].kind = kind
Without(P) == [p \in Pid |-> IF p \in P THEN NoProcess ELSE proc[p]]
Forget(r, P) == [r EXCEPT !.same = @ /\ r.pid \notin P]

\* The processes P are gone, and the program goes on as a.
Ended(P, a) ==
  /\ proc' = Without(P) /\ app' = a /\ xrec' = Forget(xrec, P) /\ srec' = Forget(srec, P)
Goes(pc) == app' = [app EXCEPT !.pc = pc]
InPlace(pc) == app.pc = pc

-----------------------------------------------------------------------------
(* Windows *)

\* Another program takes a pid, perhaps one that a record or a check still means.
Stranger(p) ==
  /\ Chance /\ Free(p)
  /\ \E l \in BOOLEAN :
       /\ l => Listeners(proc) = {}
       /\ proc' = [proc EXCEPT ![p] = [NoProcess EXCEPT !.kind = "other", !.listens = l]]
  /\ accident' = accident \cup IF InPlace("kill") /\ app.target = p THEN {"reuse"} ELSE {}
  /\ UNCHANGED <<xrec, srec, app>>

\* Something else gets the pid of the dead parent of an xray.
ParentReused(p) ==
  /\ Chance /\ proc[p].kind = "xray" /\ proc[p].orphan
  /\ proc' = [proc EXCEPT ![p].orphan = FALSE] /\ accident' = accident \cup {"parent"}
  /\ UNCHANGED <<xrec, srec, app>>

EndsByItself(p) ==
  /\ Chance /\ ~Free(p) /\ Ended({p}, app) /\ UNCHANGED accident

\* A fresh xray takes the ports, or ends because they are taken.
Listens(p) ==
  /\ proc[p].kind = "xray" /\ ~proc[p].listens
  /\ IF Listeners(proc) = {}
     THEN proc' = [proc EXCEPT ![p].listens = TRUE] /\ UNCHANGED <<xrec, srec, app>>
     ELSE Ended({p}, app)
  /\ UNCHANGED <<budget, accident>>

\* The program dies: its job handle is closed, which ends sing-box; xray stays.
Crash ==
  /\ ~InPlace("down") /\ Chance
  /\ LET sings == {p \in Pid : p = app.tun /\ Of(p, "sing")}
     IN  /\ proc' = [p \in Pid |-> IF p \in sings THEN NoProcess
                                   ELSE [proc[p] EXCEPT !.orphan = proc[p].kind = "xray"]]
         /\ xrec' = Forget(xrec, sings) /\ srec' = Forget(srec, sings)
  /\ app' = [app EXCEPT !.pc = "down", !.xray = 0, !.tun = 0, !.active = FALSE, !.todo = {},
                        !.target = 0, !.quit = FALSE]
  /\ accident' = accident \cup {"crash"} \cup
       IF Of(app.xray, "xray") /\ xrec # NoRecord /\ ~(xrec.pid = app.xray /\ xrec.same)
       THEN {"unrecorded"} ELSE {}

-----------------------------------------------------------------------------
(* Launch, and what an earlier run left *)

\* Slower than an xray of the last run on its way to the ports.
LaunchApp ==
  /\ InPlace("down") /\ \A p \in Pid : proc[p].kind = "xray" => proc[p].listens
  /\ \E moved \in BOOLEAN :
       /\ proc' = [p \in Pid |-> [proc[p] EXCEPT !.home = @ /\ ~moved]]
       /\ accident' = accident \cup IF moved /\ \E p \in Pid : proc[p].home THEN {"moved"} ELSE {}
  /\ app' = [app EXCEPT !.pc = "boot", !.quit = FALSE]
  /\ UNCHANGED <<xrec, srec, budget>>

\* recover_stale_tun: the process is checked and ended through one handle.
RecoverTun(next) ==
  /\ IF srec = NoRecord THEN Goes(next) /\ UNCHANGED <<proc, xrec, srec>>
     ELSE /\ srec' = NoRecord
          /\ IF srec.same /\ Of(srec.pid, "sing")
             THEN proc' = Without({srec.pid}) ELSE UNCHANGED proc
          /\ Goes(next) /\ UNCHANGED xrec
  /\ UNCHANGED <<budget, accident>>

Boot == InPlace("boot") /\ RecoverTun("idle")

\* Engine.start, its own stop done: reclaim_stale_listeners.
StartXray ==
  /\ InPlace("idle") /\ budget[2] > 0 /\ budget' = [budget EXCEPT ![2] = @ - 1]
  /\ app' = [app EXCEPT !.pc = "reclaim", !.todo = Listeners(proc)]
  /\ UNCHANGED <<proc, xrec, srec, accident>>

\* Mutant of IsOwnedXray: a record is not asked for its process.
IsOwnedXrayOnPort(p) ==
  IF xrec # NoRecord THEN xrec.pid = p ELSE proc[p].home \/ proc[p].orphan

\* _is_owned_xray: with a record, the process it names; without, an xray of this
\* program's executable, or one whose parent has gone.
IsOwnedXray(p) ==
  /\ proc[p].kind = "xray"
  /\ IF xrec # NoRecord THEN xrec.pid = p /\ xrec.same ELSE proc[p].home \/ proc[p].orphan

Reclaim ==
  /\ InPlace("reclaim")
  /\ \/ app.todo = {} /\ Goes("ports")
     \/ \E p \in app.todo :
          app' = [app EXCEPT !.todo = @ \ {p}, !.target = p,
                             !.pc = IF IsOwnedXray(p) THEN "kill" ELSE "reclaim"]
  /\ UNCHANGED <<proc, xrec, srec, budget, accident>>

\* The process is looked up again by its pid.
Kill ==
  LET on == [app EXCEPT !.pc = "reclaim", !.killed = @ \/ proc[app.target].kind = "other"]
  IN  /\ InPlace("kill")
      /\ \/ Free(app.target) /\ Goes("reclaim") /\ UNCHANGED <<proc, xrec, srec, budget, accident>>
         \/ /\ ~Free(app.target) /\ proc' = Without({app.target}) /\ app' = on
            /\ xrec' = IF xrec.pid = app.target THEN NoRecord ELSE xrec
            /\ srec' = Forget(srec, {app.target}) /\ UNCHANGED <<budget, accident>>
         \/ /\ ~Free(app.target) /\ Chance /\ Goes("reclaim") /\ accident' = accident \cup {"stuck"}
            /\ UNCHANGED <<proc, xrec, srec>>

\* Waits three seconds for the ports.
Ports ==
  /\ InPlace("ports")
  /\ IF Listeners(proc) = {} THEN Goes("recover")
     ELSE app' = [app EXCEPT !.pc = "idle", !.refused = \A p \in Listeners(proc) : proc[p].kind # "other"]
  /\ UNCHANGED <<proc, xrec, srec, budget, accident>>

Recover == InPlace("recover") /\ RecoverTun("spawn")

-----------------------------------------------------------------------------
(* Start and stop *)

Spawn ==
  /\ InPlace("spawn")
  /\ \/ Goes("idle") /\ UNCHANGED proc
     \/ \E p \in Pid :
          /\ Free(p) /\ proc' = [proc EXCEPT ![p] = [NoProcess EXCEPT !.kind = "xray", !.home = TRUE]]
          /\ app' = [app EXCEPT !.pc = "record", !.xray = p]
  /\ UNCHANGED <<xrec, srec, budget, accident>>

\* A record that cannot be written is passed over.
Named(p, kind) == [pid |-> p, same |-> Of(p, kind)]
Record ==
  /\ InPlace("record") /\ Goes("settle")
  /\ \/ xrec' = Named(app.xray, "xray") /\ UNCHANGED budget
     \/ Chance /\ UNCHANGED xrec
  /\ UNCHANGED <<proc, srec, accident>>

\* The xray still runs after 0.7 seconds, or has ended, or the attempt is cancelled.
Settle ==
  /\ InPlace("settle")
  /\ \/ Of(app.xray, "xray") /\ app' = [app EXCEPT !.pc = "up", !.active = TRUE]
     \/ Goes("stop tun")
  /\ UNCHANGED <<proc, xrec, srec, budget, accident>>

\* enable_tun: sing-box is created suspended and inside its job.
TunSpawn ==
  /\ InPlace("up") /\ app.tun = 0
  /\ \E p \in Pid :
       /\ Free(p) /\ proc' = [proc EXCEPT ![p] = [NoProcess EXCEPT !.kind = "sing"]]
       /\ app' = [app EXCEPT !.pc = "tun record", !.tun = p]
  /\ UNCHANGED <<xrec, srec, budget, accident>>

TunRecord ==
  /\ InPlace("tun record") /\ Goes("tun")
  /\ \/ srec' = Named(app.tun, "sing") /\ UNCHANGED budget
     \/ Chance /\ UNCHANGED srec
  /\ UNCHANGED <<proc, xrec, accident>>

\* Resumed, it stays up or is stopped again.
TunSettles ==
  /\ InPlace("tun") /\ (Goes("up") \/ Goes("stop tun"))
  /\ UNCHANGED <<proc, xrec, srec, budget, accident>>

\* stop by the user, by a failed attempt, or by the reader of an xray that ended.
Stop == InPlace("up") /\ Goes("stop tun") /\ UNCHANGED <<proc, xrec, srec, budget, accident>>

StopTun ==
  /\ InPlace("stop tun")
  /\ proc' = IF Of(app.tun, "sing") THEN Without({app.tun}) ELSE proc
  /\ srec' = IF app.tun # 0 /\ srec.pid = app.tun THEN NoRecord ELSE srec
  /\ app' = [app EXCEPT !.pc = "stop xray", !.tun = 0]
  /\ UNCHANGED <<xrec, budget, accident>>

StopXray ==
  /\ InPlace("stop xray")
  /\ \/ /\ Ended({app.xray} \cap {p \in Pid : Of(p, "xray")},
                 [app EXCEPT !.pc = "unrecord", !.active = FALSE])
        /\ UNCHANGED <<budget, accident>>
     \/ /\ Of(app.xray, "xray") /\ Chance /\ accident' = accident \cup {"stuck"}
        /\ app' = [app EXCEPT !.pc = "unrecord", !.active = FALSE] /\ UNCHANGED <<proc, xrec, srec>>

\* _remove_owner_record(process.pid)
Unrecord ==
  /\ InPlace("unrecord") /\ app' = [app EXCEPT !.pc = "idle", !.xray = 0]
  /\ xrec' = IF xrec.pid = app.xray THEN NoRecord ELSE xrec
  /\ UNCHANGED <<proc, srec, budget, accident>>

LeaveApp ==
  /\ InPlace("idle") /\ app' = [app EXCEPT !.pc = "down", !.quit = TRUE]
  /\ proc' = [p \in Pid |-> [proc[p] EXCEPT !.orphan = proc[p].kind = "xray"]]
  /\ UNCHANGED <<xrec, srec, budget, accident>>

ONext ==
  \/ \E p \in Pid : Stranger(p) \/ ParentReused(p) \/ EndsByItself(p) \/ Listens(p)
  \/ Crash \/ LaunchApp \/ Boot \/ StartXray \/ Reclaim \/ Kill \/ Ports \/ Recover
  \/ Spawn \/ Record \/ Settle \/ TunSpawn \/ TunRecord \/ TunSettles
  \/ Stop \/ StopTun \/ StopXray \/ Unrecord \/ LeaveApp

OSpec == OInit /\ [][ONext]_ovars

-----------------------------------------------------------------------------
(* Properties *)

\* While the engine is up, the only xray on the local ports is its own, unless an
\* earlier one outlived its kill.  A start is refused for the ports only when a
\* stranger holds them, unless an xray was left behind that the record, or without one
\* the executable and the parent, no longer tell.  No stranger is killed, unless it got
\* the pid in the instant before.  After an orderly exit and no crash no xray and no
\* sing-box of the program is left.
ProcessesAreOurs ==
  /\ app.active /\ "stuck" \notin accident =>
       \A p \in Listeners(proc) : proc[p].kind = "xray" => p = app.xray
  /\ app.refused => "unrecorded" \in accident \/ {"moved", "parent"} \subseteq accident
                    \/ "stuck" \in accident
  /\ app.killed => "reuse" \in accident
  /\ app.quit /\ accident = {} => \A p \in Pid : proc[p].kind \in {"none", "other"}

=============================================================================
