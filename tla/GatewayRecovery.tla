--------------------------- MODULE GatewayRecovery ---------------------------
(***************************************************************************)
(* The restore file of the Mobile Gateway and everybody who acts on it:    *)
(* the processes of the application (main.py: recover before and after the *)
(* single instance mutex, sessions, the recover of the normal exit), the   *)
(* detached watchdog of each session (GatewayManager.run_watchdog) and the *)
(* PowerShell processes that change Windows for them, which outlive a      *)
(* parent that dies.  No lock is shared between processes: the file and    *)
(* the Windows settings are all they have in common.                       *)
(*                                                                         *)
(* GatewayManager.tla has the threads of one process; here a process is    *)
(* sequential, and a step is one access to the file, to the network or to  *)
(* one Windows setting.                                                    *)
(***************************************************************************)
EXTENDS Naturals, FiniteSets

CONSTANTS
  MaxInstance,  \* bound on the application processes that are launched
  MaxToken,     \* bound on the sessions
  MaxTries,     \* restore_attempts of the watchdog
  MaxFaults,    \* bound on the faults
  Interface,    \* the adapters whose forwarding is changed
  Faults,       \* what may go wrong
  None

\* crash: the application dies; power: the machine restarts; unread: the file
\* cannot be read for a moment; script: a command of a script fails; timeout: a
\* script is killed; arp: Npcap fails; setup: a step of the activation fails.
FaultKinds == {"crash", "power", "unread", "script", "timeout", "arp", "setup"}

Instance == 1..MaxInstance
Token    == 1..MaxToken
Watchdog(t) == MaxInstance + t
Proc     == 1..(MaxInstance + MaxToken)

ASSUME RecoveryAssumption ==
  /\ MaxInstance \in Nat \ {0} /\ MaxToken \in Nat \ {0}
  /\ MaxTries \in Nat \ {0} /\ MaxFaults \in Nat
  /\ Faults \subseteq FaultKinds
  /\ IsFiniteSet(Interface) /\ {"router", "rule"} \cap Interface = {}

VARIABLES
  file,      \* None, or the session it describes: its token and snapshot
  altered,   \* the settings that differ from what the user had
  rules,     \* sessions whose firewall rule exists
  told,      \* devices of the network were told that this machine is the router
  pc, why,   \* where each process is, and what its recover or restore is for
  held,      \* the session record a process works with
  failed,    \* the errors list of a restore in progress is not empty
  script,    \* the PowerShell process started by each process
  token,     \* GatewayManager._token of an active session (0: none)
  owner,     \* the process each session belongs to (0: no such session yet)
  tries,     \* attempts each watchdog has left
  left,      \* faults left
  mishap     \* history: kinds of accidents the code does not survive

world == <<file, altered, rules, told>>
rvars == <<world, pc, why, held, failed, script, token, owner, tries, left, mishap>>

Setting == {"router"} \cup Interface
Record  == [token : Token, snap : SUBSET Setting]
Script  == [kind : {"apply", "restore"}, state : Record,
            todo : SUBSET (Setting \cup {"rule"}), bad : BOOLEAN]

ASSUME NoneAssumption == None \notin Record /\ None \notin Script

RTypeOK ==
  /\ file \in Record \cup {None}
  /\ altered \subseteq Setting /\ rules \subseteq Token /\ told \in BOOLEAN
  /\ pc \in [Proc -> {"off", "gone", "look", "tell", "script", "settle", "unlink", "mutex",
                      "idle", "start", "detect", "capture", "snapshot", "record", "guard",
                      "apply", "redirect", "active", "stop", "wait", "watch"}]
  /\ why \in [Proc -> {"pre", "post", "start", "undo", "stop", "quit", "exit", "watch"}]
  /\ held \in [Proc -> Record \cup {None}] /\ failed \in [Proc -> BOOLEAN]
  /\ script \in [Proc -> Script \cup {None}]
  /\ token \in [Instance -> Token \cup {0}] /\ owner \in [Token -> Instance \cup {0}]
  /\ tries \in [Token -> 0..MaxTries] /\ left \in 0..MaxFaults
  /\ mishap \subseteq {"overlap", "orphan", "unread", "silent", "power"}

RInit ==
  /\ file = None /\ altered = {} /\ rules = {} /\ told = FALSE
  /\ pc = [p \in Proc |-> "off"]
  /\ why = [p \in Proc |-> IF p \in Instance THEN "pre" ELSE "watch"]
  /\ held = [p \in Proc |-> None] /\ failed = [p \in Proc |-> FALSE]
  /\ script = [p \in Proc |-> None]
  /\ token = [i \in Instance |-> 0] /\ owner = [t \in Token |-> 0]
  /\ tries = [t \in Token |-> MaxTries]
  /\ left = MaxFaults /\ mishap = {}

-----------------------------------------------------------------------------
(* Helpers *)

Alive(p)    == pc[p] \notin {"off", "gone"}
PastMutex(i) == Alive(i) /\ ~(pc[i] = "mutex" \/ why[i] = "pre")
Goto(p, l)  == pc' = [pc EXCEPT ![p] = l]
Fault(f)    == f \in Faults /\ left > 0 /\ mishap \subseteq {"power"} /\ left' = left - 1
Hit(m)      == mishap' = mishap \cup m

\* Somebody is in the middle of a restore, or a script of a dead process runs.
Restoring(q) == pc[q] \in {"tell", "script", "settle", "unlink"}
Working(q)   == script[q] # None /\ script[q].todo # {}
Overlap(p)   == IF \E q \in Proc \ {p} : Restoring(q) \/ Working(q) THEN {"overlap"} ELSE {}

\* The code after recover, or after the restore of a start or stop, returned.
Resume(p, ok) ==
  /\ held' = [held EXCEPT ![p] = None] /\ failed' = [failed EXCEPT ![p] = FALSE]
  /\ pc' = [pc EXCEPT ![p] =
       CASE why[p] = "pre"   -> "mutex"
         [] why[p] = "start" -> IF ok THEN "detect" ELSE "idle"
         [] why[p] = "quit"  -> "look"
         [] why[p] = "exit"  -> "gone"
         [] why[p] = "watch" -> IF ok \/ tries[p - MaxInstance] = 0 THEN "gone" ELSE "watch"
         [] OTHER            -> "idle"]
  /\ why' = [why EXCEPT ![p] = CASE @ = "quit" -> "exit" [] @ \in {"pre", "watch"} -> @
                                  [] OTHER -> "post"]
  /\ token' = IF why[p] \in {"stop", "quit", "undo"} THEN [token EXCEPT ![p] = 0] ELSE token

-----------------------------------------------------------------------------
(* PowerShell: WindowsGatewayBackend.apply and restore *)

RunScript(p, kind, state) ==
  script' = [script EXCEPT ![p] =
    [kind |-> kind, state |-> state, todo |-> Setting \cup {"rule"}, bad |-> FALSE]]

\* apply: the router value, then the adapters, then the rule; restore: backwards.
Rank(x) == CASE x = "router" -> 0 [] x \in Interface -> 1 [] OTHER -> 2
Earlier(kind, x, y) == IF kind = "apply" THEN Rank(x) <= Rank(y) ELSE Rank(y) <= Rank(x)

\* What one command of a script does.
Command(s, x) ==
  IF x = "rule"
  THEN /\ rules' = IF s.kind = "apply" THEN rules \cup {s.state.token}
                                       ELSE rules \ {s.state.token}
       /\ UNCHANGED altered
  ELSE /\ altered' = IF s.kind = "apply" \/ x \in s.state.snap
                     THEN altered \cup {x} ELSE altered \ {x}
       /\ UNCHANGED rules

\* A command that fails, with its netsh fallback, is an error only for the
\* forwarding of an adapter, and only in apply: restore ignores it.
ScriptStep(p) ==
  /\ Working(p)
  /\ LET s == script[p]
         Ends(x) == ~Alive(p) /\ s.todo = {x}     \* nobody waits for it
     IN
     \E x \in {y \in s.todo : \A z \in s.todo : Earlier(s.kind, y, z)} :
       \/ /\ Command(s, x)
          /\ script' = IF Ends(x) THEN [script EXCEPT ![p] = None]
                                  ELSE [script EXCEPT ![p].todo = @ \ {x}]
          /\ UNCHANGED <<left, mishap>>
       \/ /\ Fault("script")
          /\ script' = IF Ends(x) THEN [script EXCEPT ![p] = None]
                       ELSE [script EXCEPT ![p].todo = @ \ {x},
                               ![p].bad = @ \/ (s.kind = "apply" /\ x \in Interface)]
          /\ Hit(IF s.kind = "restore" THEN {"silent"} ELSE {})
          /\ UNCHANGED <<altered, rules>>
  /\ UNCHANGED <<file, told, pc, why, held, failed, token, owner, tries>>

\* subprocess.run: the script ended, or is killed when it takes too long.
ScriptReturns(p, ok) ==
  \/ ok /\ script[p].todo = {} /\ ~script[p].bad /\ UNCHANGED left
  \/ ~ok /\ script[p].todo = {} /\ script[p].bad /\ UNCHANGED left
  \/ ~ok /\ script[p].todo # {} /\ Fault("timeout")

-----------------------------------------------------------------------------
(* GatewayManager.recover and _restore_state *)

\* Mutant: recover does not ask whether the owner of the session is alive.
LookCareless(p) ==
  /\ pc[p] = "look"
  /\ \/ /\ file = None /\ Resume(p, TRUE) /\ UNCHANGED <<left, mishap>>
     \/ /\ file # None /\ Fault("unread") /\ Resume(p, FALSE) /\ UNCHANGED mishap
     \/ /\ file # None
        /\ IF why[p] = "watch" /\ Watchdog(file.token) # p
           THEN Resume(p, FALSE)
           ELSE /\ held' = [held EXCEPT ![p] = file] /\ Goto(p, "tell")
                /\ UNCHANGED <<why, failed, token>>
        /\ UNCHANGED <<left, mishap>>
  /\ UNCHANGED <<world, script, owner, tries>>

\* recover: forced on the way out, in start and in the watchdog, which also
\* insists on its token.
Look(p) ==
  /\ pc[p] = "look"
  /\ \/ /\ file = None /\ Resume(p, TRUE) /\ UNCHANGED <<left, mishap>>
     \/ /\ file # None /\ Fault("unread") /\ Resume(p, FALSE) /\ UNCHANGED mishap
     \/ /\ file # None
        /\ IF \/ why[p] = "watch" /\ Watchdog(file.token) # p
              \/ why[p] \in {"pre", "post"} /\ Alive(owner[file.token])
           THEN Resume(p, FALSE)
           ELSE /\ held' = [held EXCEPT ![p] = file] /\ Goto(p, "tell")
                /\ UNCHANGED <<why, failed, token>>
        /\ UNCHANGED <<left, mishap>>
  /\ UNCHANGED <<world, script, owner, tries>>

\* The true router is announced, five times, before Windows is restored.
Tell(p) ==
  /\ pc[p] = "tell"
  /\ \/ told' = FALSE /\ UNCHANGED <<failed, left>>
     \/ Fault("arp") /\ failed' = [failed EXCEPT ![p] = TRUE] /\ UNCHANGED told
  /\ RunScript(p, "restore", held[p])
  /\ Goto(p, "script")
  /\ UNCHANGED <<file, altered, rules, why, held, token, owner, tries, mishap>>

RestoreReturns(p) ==
  /\ pc[p] = "script"
  /\ \E ok \in BOOLEAN :
       ScriptReturns(p, ok) /\ failed' = [failed EXCEPT ![p] = @ \/ ~ok]
  /\ script' = [script EXCEPT ![p] = None]
  /\ Goto(p, "settle")
  /\ UNCHANGED <<world, why, held, token, owner, tries, mishap>>

\* Mutant: the record is dropped although something was not restored.
SettleAlways(p) ==
  /\ pc[p] = "settle"
  /\ IF file = held[p]
     THEN Goto(p, "unlink") /\ UNCHANGED <<file, why, held, failed, token>>
     ELSE Resume(p, TRUE) /\ UNCHANGED file
  /\ UNCHANGED <<altered, rules, told, script, owner, tries, left, mishap>>

\* With errors the record is written again as "restore-pending" (a start leaves
\* it as it is); without, _remove_state reads the token once more.
Settle(p) ==
  /\ pc[p] = "settle"
  /\ IF failed[p]
     THEN /\ file' = IF why[p] = "undo" THEN file ELSE held[p]
          /\ Resume(p, FALSE)
     ELSE /\ UNCHANGED file
          /\ IF file # None /\ file.token = held[p].token
             THEN Goto(p, "unlink") /\ UNCHANGED <<why, held, failed, token>>
             ELSE Resume(p, TRUE)
  /\ UNCHANGED <<altered, rules, told, script, owner, tries, left, mishap>>

Unlink(p) ==
  /\ pc[p] = "unlink"
  /\ file' = None
  /\ Resume(p, TRUE)
  /\ UNCHANGED <<altered, rules, told, script, owner, tries, left, mishap>>

-----------------------------------------------------------------------------
(* GatewayManager.start and stop *)

Begin(i) ==
  /\ pc[i] = "idle" /\ \E t \in Token : owner[t] = 0
  /\ Goto(i, "start")
  /\ UNCHANGED <<world, why, held, failed, script, token, owner, tries, left, mishap>>

\* A record that cannot be read counts as no record.
Start(i) ==
  /\ pc[i] = "start"
  /\ \/ /\ file = None /\ Goto(i, "detect") /\ UNCHANGED <<why, left, mishap>>
     \/ /\ file # None /\ Fault("unread") /\ Hit({"unread"}) /\ Goto(i, "detect") /\ UNCHANGED why
     \/ /\ file # None
        /\ IF Alive(owner[file.token])
           THEN Goto(i, "idle") /\ UNCHANGED why
           ELSE Goto(i, "look") /\ why' = [why EXCEPT ![i] = "start"]
        /\ UNCHANGED <<left, mishap>>
  /\ UNCHANGED <<world, held, failed, script, token, owner, tries>>

\* The LAN adapter, its neighbours and the TUN adapter are found, or not.
Detect(i) ==
  /\ pc[i] = "detect"
  /\ \/ Goto(i, "capture") /\ UNCHANGED left
     \/ Fault("setup") /\ Goto(i, "idle")
  /\ UNCHANGED <<world, why, held, failed, script, token, owner, tries, mishap>>

\* The capture interface and the hardware address of the router.
Capture(i) ==
  /\ pc[i] = "capture"
  /\ \/ Goto(i, "snapshot") /\ UNCHANGED left
     \/ Fault("arp") /\ Goto(i, "idle")
  /\ UNCHANGED <<world, why, held, failed, script, token, owner, tries, mishap>>

Snapshot(i) ==
  /\ pc[i] = "snapshot"
  /\ \E t \in Token :
       /\ owner[t] = 0 /\ \A u \in 1..(t - 1) : owner[u] # 0
       /\ owner' = [owner EXCEPT ![t] = i]
       /\ held' = [held EXCEPT ![i] = [token |-> t, snap |-> altered]]
  /\ Hit(Overlap(i))
  /\ Goto(i, "record")
  /\ UNCHANGED <<world, why, failed, script, token, tries, left>>

\* _write_state, atomic through os.replace.
WriteRecord(i) ==
  /\ pc[i] = "record"
  /\ file' = held[i]
  /\ Hit(Overlap(i)) /\ Goto(i, "guard")
  /\ UNCHANGED <<altered, rules, told, why, held, failed, script, token, owner, tries, left>>

Undo(i) == Goto(i, "tell") /\ why' = [why EXCEPT ![i] = "undo"]

\* Mutant: nobody watches the session.
GuardNobody(i) ==
  /\ pc[i] = "guard"
  /\ Goto(i, "apply") /\ RunScript(i, "apply", held[i]) /\ UNCHANGED <<why, left>>
  /\ UNCHANGED <<world, held, failed, token, owner, tries, mishap>>

\* The watchdog is launched, the packet filter started and apply runs.
Guard(i) ==
  /\ pc[i] = "guard"
  /\ \/ /\ pc' = [pc EXCEPT ![i] = "apply", ![Watchdog(held[i].token)] = "wait"]
        /\ RunScript(i, "apply", held[i]) /\ UNCHANGED <<why, left>>
     \/ /\ Fault("setup") /\ Undo(i) /\ UNCHANGED script
  /\ UNCHANGED <<world, held, failed, token, owner, tries, mishap>>

ApplyReturns(i) ==
  /\ pc[i] = "apply"
  /\ \E ok \in BOOLEAN :
       /\ ScriptReturns(i, ok)
       /\ IF ok THEN Goto(i, "redirect") /\ UNCHANGED why ELSE Undo(i)
  /\ script' = [script EXCEPT ![i] = None]
  /\ UNCHANGED <<world, held, failed, token, owner, tries, mishap>>

\* The responder starts, the devices are told, the record says "active".
Redirect(i) ==
  /\ pc[i] = "redirect" /\ told' = TRUE
  /\ \/ /\ file' = held[i] /\ Goto(i, "active")
        /\ token' = [token EXCEPT ![i] = held[i].token]
        /\ held' = [held EXCEPT ![i] = None] /\ UNCHANGED <<why, left>>
     \/ /\ Fault("setup") /\ Undo(i) /\ UNCHANGED <<file, token, held>>
  /\ UNCHANGED <<altered, rules, failed, script, owner, tries, mishap>>

\* The user, the worker or the end of the engine stops the session; the user
\* may also leave the application, with or without a session.
AskStop(i) ==
  /\ \/ pc[i] = "active" /\ \E w \in {"stop", "quit"} : why' = [why EXCEPT ![i] = w]
     \/ pc[i] = "idle" /\ why' = [why EXCEPT ![i] = "quit"]
  /\ Goto(i, "stop")
  /\ UNCHANGED <<world, held, failed, script, token, owner, tries, left, mishap>>

\* Mutant: stop restores the state start left in memory, which is gone.
StopStale(i) ==
  /\ pc[i] = "stop"
  /\ IF file = None
     THEN Resume(i, TRUE)
     ELSE Goto(i, "tell") /\ UNCHANGED <<why, held, failed, token>>
  /\ UNCHANGED <<world, script, owner, tries, left, mishap>>

\* stop: nothing to restore without a record (of its own token); an unreadable
\* one is not restored either, and then removed.
Stop(i) ==
  /\ pc[i] = "stop"
  /\ \/ /\ file = None /\ Resume(i, TRUE) /\ UNCHANGED <<left, mishap>>
     \/ /\ file # None /\ Fault("unread") /\ Hit({"unread"})
        /\ IF file.token = token[i]
           THEN Goto(i, "unlink") /\ UNCHANGED <<why, held, failed, token>>
           ELSE Resume(i, TRUE)
     \/ /\ file # None /\ token[i] \in {0, file.token}
        /\ held' = [held EXCEPT ![i] = file] /\ Goto(i, "tell")
        /\ UNCHANGED <<why, failed, token, left, mishap>>
     \/ /\ file # None /\ token[i] \notin {0, file.token}
        /\ pc' = [pc EXCEPT ![i] = IF why[i] = "quit" THEN "look" ELSE "active"]
        /\ why' = [why EXCEPT ![i] = IF @ = "quit" THEN "exit" ELSE @]
        /\ UNCHANGED <<held, failed, token, left, mishap>>
  /\ UNCHANGED <<world, script, owner, tries>>

-----------------------------------------------------------------------------
(* main.py and the watchdog *)

Launch(i) ==
  /\ pc[i] = "off" /\ \A j \in 1..(i - 1) : pc[j] # "off"
  /\ Goto(i, "look")
  /\ UNCHANGED <<world, why, held, failed, script, token, owner, tries, left, mishap>>

\* acquire_single_instance: a second instance shows a message and ends.
TakeMutex(i) ==
  /\ pc[i] = "mutex"
  /\ IF \E j \in Instance \ {i} : PastMutex(j)
     THEN Goto(i, "gone") /\ UNCHANGED why
     ELSE Goto(i, "look") /\ why' = [why EXCEPT ![i] = "post"]
  /\ UNCHANGED <<world, held, failed, script, token, owner, tries, left, mishap>>

\* run_watchdog: wait for the end of the owner, then restore what still is its
\* session, restore_attempts times at most.
Watch(t) ==
  LET w == Watchdog(t) IN
  /\ \/ pc[w] = "wait" /\ ~Alive(owner[t]) /\ Goto(w, "watch") /\ UNCHANGED <<tries, left, mishap>>
     \/ /\ pc[w] = "watch"
        /\ \/ /\ file # None /\ file.token = t
              /\ tries' = [tries EXCEPT ![t] = @ - 1] /\ Goto(w, "look")
              /\ UNCHANGED <<left, mishap>>
           \/ /\ IF file = None THEN TRUE ELSE file.token # t
              /\ Goto(w, "gone") /\ UNCHANGED <<tries, left, mishap>>
           \/ /\ file # None /\ Fault("unread") /\ Hit({"unread"}) /\ Goto(w, "gone") /\ UNCHANGED tries
  /\ UNCHANGED <<world, why, held, failed, script, token, owner>>

\* The memory of the processes P is gone with them.
Forget(P) ==
  /\ pc' = [p \in Proc |-> IF p \in P /\ pc[p] # "off" THEN "gone" ELSE pc[p]]
  /\ held' = [p \in Proc |-> IF p \in P THEN None ELSE held[p]]
  /\ failed' = [p \in Proc |-> p \notin P /\ failed[p]]
  /\ why' = [p \in Proc |-> IF p \in P /\ p \in Instance THEN "pre" ELSE why[p]]
  /\ token' = [i \in Instance |-> IF i \in P THEN 0 ELSE token[i]]

\* The process dies; the PowerShell it runs does not.
Crash(i) ==
  /\ Alive(i) /\ Fault("crash")
  /\ Forget({i})
  /\ script' = [script EXCEPT ![i] = IF Working(i) THEN @ ELSE None]
  /\ Hit(IF Working(i) /\ script[i].kind = "apply" THEN {"orphan"} ELSE {})
  /\ UNCHANGED <<world, owner, tries>>

PowerLoss ==
  /\ Fault("power") /\ \E p \in Proc : Alive(p)
  /\ Forget(Proc)
  /\ script' = [p \in Proc |-> None]
  /\ Hit({"power"})
  /\ UNCHANGED <<world, owner, tries>>

-----------------------------------------------------------------------------
Restore(p) == Look(p) \/ Tell(p) \/ RestoreReturns(p) \/ Settle(p) \/ Unlink(p)

Session(i) == Begin(i) \/ Start(i) \/ Detect(i) \/ Capture(i) \/ Snapshot(i) \/ WriteRecord(i)
              \/ Guard(i) \/ ApplyReturns(i) \/ Redirect(i) \/ AskStop(i) \/ Stop(i)

RNext ==
  \/ \E p \in Proc : Restore(p) \/ ScriptStep(p)
  \/ \E i \in Instance : Session(i) \/ Launch(i) \/ TakeMutex(i) \/ Crash(i)
  \/ \E t \in Token : Watch(t)
  \/ PowerLoss

\* Scripts, watchdogs and restores run on; nobody has to launch or to stop.
Goes == (\E p \in Proc : Restore(p) \/ ScriptStep(p)) \/ (\E t \in Token : Watch(t))

RSpec == RInit /\ [][RNext]_rvars /\ WF_rvars(Goes)

-----------------------------------------------------------------------------
Altered == altered # {} \/ rules # {} \/ told

\* Whatever differs from the network the user had, and whoever died on the way,
\* is described by the restore file, whose snapshot is what the user had: unless
\* the record was unreadable when it was needed, a restore command failed
\* without being noticed, a script outlived its process or two processes were
\* at work (hazards of gateway.py:1374, 415, 162 and 1961).
NetworkIsRecorded ==
  mishap \subseteq {"power"} /\ Altered =>
    /\ file # None /\ file.snap = {}
    /\ rules \subseteq {file.token}

\* The session a user sees as active is in force and is the recorded one: no
\* recover of a second instance or of an old watchdog takes it away, unless it
\* was already at work when the session started.
ActiveInForce ==
  \A i \in Instance :
    pc[i] = "active" /\ "overlap" \notin mishap =>
      /\ told /\ Interface \subseteq altered
      /\ file # None /\ file.token = token[i]

\* When the application dies, its watchdog brings the network back.
Abandoned == Altered /\ file # None /\ ~Alive(owner[file.token])
NetworkComesBack == Abandoned ~> (~Altered \/ mishap # {})
=============================================================================
