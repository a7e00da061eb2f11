---------------------------- MODULE WindowsProxy ----------------------------
(***************************************************************************)
(* The class WindowsProxy of uac_desktop/engine.py with the callers that   *)
(* live in main.py: the WinINET proxy values of the current user, the      *)
(* restore file that remembers what they were, the lock that serialises    *)
(* proxy transactions of all processes of the application, the GUI         *)
(* processes, and one detached watchdog process per saved snapshot.        *)
(*                                                                         *)
(* Every registry write is a step of its own, and so is the existence test *)
(* of the restore file that precedes its read: the code performs both      *)
(* outside the lock in recover_stale.  A process may die between any two   *)
(* steps.  A pid with its creation time is one member of Proc and is never *)
(* used twice; the uuid of a snapshot is one member of Token.              *)
(***************************************************************************)
EXTENDS Naturals

CONSTANTS
  Proc,          \* GUI processes, one per start of the application
  Token,         \* snapshot tokens (uuid4 in _enable_locked)
  UserSettings,  \* the settings a user may have chosen
  App,           \* the value the application writes in ProxyServer and ProxyOverride
  Keep,          \* "the snapshot has no entry of this name"
  NoToken, Nobody, NoFile, Free,
  MaxAttempts,   \* 20 in run_watchdog
  Faults,        \* what the environment may do to us
  QuietStart,    \* TRUE: the user starts the application only when it is not running at all
  Legacy         \* TRUE: the machine may hold an ownerless snapshot of a version <= 1.4

FaultKinds == {"write", "read", "damage", "reboot", "timeout"}

Actor == Proc \cup Token

Name == {"ProxyEnable", "ProxyServer", "ProxyOverride"}

ASSUME ConstAssumption ==
  /\ Proc \cap Token = {}
  /\ NoToken \notin Actor /\ Nobody \notin Actor /\ Free \notin Actor
  /\ MaxAttempts \in Nat \ {0}
  /\ Faults \subseteq FaultKinds
  /\ QuietStart \in BOOLEAN /\ Legacy \in BOOLEAN
  /\ UserSettings # {}
  /\ App # Keep /\ Keep \notin {"off", "on"}
  /\ \A u \in UserSettings :
       /\ DOMAIN u = Name
       /\ u = [n \in Name |-> u[n]]
       /\ u["ProxyEnable"] \in {"off", "on"}
       /\ \A n \in Name : u[n] # App /\ u[n] # Keep

UserValue == UNION { {u[n] : n \in Name} : u \in UserSettings }
Value     == UserValue \cup {"off", "on", App}
Setting   == [Name -> Value]

\* What a parsed restore file holds: see _normalize_state.
Snapshot == [owner   : Proc \cup {Nobody},
             token   : Token \cup {NoToken},
             values  : [Name -> Value \cup {Keep}],
             corrupt : BOOLEAN]

ASSUME NoFileAssumption == NoFile \notin Snapshot \cup UserSettings

\* The proxy values as the application sets them.
AppSetting == [n \in Name |-> IF n = "ProxyEnable" THEN "on" ELSE App]

\* The state that stands for a file that cannot be parsed, is damaged, or
\* vanished after the existence test: no owner, and only "turn it off".
Unreadable == [owner |-> Nobody, token |-> NoToken, corrupt |-> TRUE,
               values |-> [n \in Name |-> IF n = "ProxyEnable" THEN "off" ELSE Keep]]

VARIABLES
  registry,   \* HKCU Internet Settings
  file,       \* the restore file, as a reader would parse it
  guard,      \* who holds _proxy_state_guard
  mutex,      \* who holds the single instance mutex
  pc,         \* where each process is
  caller,     \* for whom recover_stale or _disable_locked runs
  step,       \* the next registry write of the running loop of writes
  previous,   \* WindowsProxy._previous of a process
  token,      \* WindowsProxy._state_token of a process
  enabled,    \* the argument of _enable_locked / _write_app_proxy_values
  loaded,     \* the state recover_stale read
  restoring,  \* the state _disable_locked decided to restore
  attempts,   \* attempts made by a watchdog
  launcher,   \* the process that took the snapshot of this token
  oldAlive,   \* a GUI of a version <= 1.4 is running
  user        \* history: the setting the user chose last

files   == <<file, registry>>
objects == <<previous, token, enabled>>
work    == <<caller, step, loaded, restoring>>
vars == <<registry, file, guard, mutex, pc, caller, step, previous, token,
          enabled, loaded, restoring, attempts, launcher, oldAlive, user>>

PC == {"unborn", "dead", "mutex", "gui", "stop",    \* main
       "exists", "read", "lock",                    \* recover_stale
       "restore", "unlink",                         \* _disable_locked
       "snapshot", "launch", "apply",               \* _enable_locked
       "poll", "try"}                               \* run_watchdog

Caller == {"none", "main1", "main2", "enable", "resume", "rollback",
           "disable", "quit", "exit", "watchdog"}

TypeOK ==
  /\ registry \in Setting
  /\ file \in Snapshot \cup {NoFile}
  /\ guard \in Actor \cup {Free}
  /\ mutex \in Proc \cup {Free}
  /\ pc \in [Actor -> PC]
  /\ caller \in [Actor -> Caller]
  /\ step \in [Actor -> 1..4]
  /\ previous \in [Proc -> Snapshot \cup {NoFile}]
  /\ token \in [Proc -> Token \cup {NoToken}]
  /\ enabled \in [Proc -> BOOLEAN]
  /\ loaded \in [Actor -> Snapshot \cup {NoFile}]
  /\ restoring \in [Actor -> Snapshot \cup {NoFile}]
  /\ attempts \in [Token -> 0..MaxAttempts]
  /\ launcher \in [Token -> Proc \cup {Nobody}]
  /\ oldAlive \in BOOLEAN
  /\ user \in UserSettings

Init ==
  /\ user \in UserSettings
  /\ \/ registry = user /\ file = NoFile /\ oldAlive = FALSE
     \/ /\ Legacy
        /\ registry = AppSetting
        /\ file = [owner |-> Nobody, token |-> NoToken,
                   values |-> user, corrupt |-> FALSE]
        /\ oldAlive \in BOOLEAN
  /\ guard = Free
  /\ mutex = Free
  /\ pc = [a \in Actor |-> "unborn"]
  /\ caller = [a \in Actor |-> "none"]
  /\ step = [a \in Actor |-> 1]
  /\ previous = [p \in Proc |-> NoFile]
  /\ token = [p \in Proc |-> NoToken]
  /\ enabled = [p \in Proc |-> FALSE]
  /\ loaded = [a \in Actor |-> NoFile]
  /\ restoring = [a \in Actor |-> NoFile]
  /\ attempts = [t \in Token |-> 0]
  /\ launcher = [t \in Token |-> Nobody]

-----------------------------------------------------------------------------
(* Processes and what they can see of each other. *)

Alive(a) == pc[a] \notin {"unborn", "dead"}

\* False of a missing file and of one without an owner, too.
OwnerMatches(s, p, t) == s # NoFile /\ s.owner = p /\ s.token = t

OwnerIsAliveByPid(s) == s.owner \in Proc
OwnerIsAlive(s) == s.owner \in Proc /\ Alive(s.owner)

OtherAppInstanceAlive(a) == oldAlive \/ \E p \in Proc \ {a} : Alive(p)

\* _load_state: a failing read yields Unreadable, a missing file NoFile.
LoadState ==
  IF file = NoFile THEN {NoFile}
  ELSE {file} \cup (IF "read" \in Faults THEN {Unreadable} ELSE {})

-----------------------------------------------------------------------------
(* How recover_stale and _disable_locked hand control back to their caller. *)
(* An exception and a False result are told apart only by main (which does  *)
(* not catch the second call's exception).                                  *)

\* A watchdog tries again until its attempts are used up.
NextAttemptOffByOne(a, ok) ==
  IF ok \/ attempts[a] + 1 > MaxAttempts THEN "dead" ELSE "try"
NextAttemptNone(a, ok) == "dead"
NextAttempt(a, ok) ==
  IF ok \/ attempts[a] + 1 >= MaxAttempts THEN "dead" ELSE "try"

AfterReturn(a, ok, raised) ==
  CASE caller[a] = "main1"    -> "mutex"
    [] caller[a] = "main2"    -> IF raised THEN "dead" ELSE "gui"
    [] caller[a] = "enable"   -> IF ok THEN "snapshot" ELSE "gui"
    [] caller[a] = "quit"     -> "exists"
    [] caller[a] = "exit"     -> "dead"
    [] caller[a] = "watchdog" -> NextAttempt(a, ok)
    [] OTHER                  -> "gui"

\* Leave recover_stale or _disable_locked; the lock goes with it unless the
\* call is nested in an _enable_locked that carries on.
Leave(a, ok, raised) ==
  LET next == AfterReturn(a, ok, raised) IN
  /\ pc' = [pc EXCEPT ![a] = next]
  /\ caller' = [caller EXCEPT ![a] = IF caller[a] = "quit" THEN "exit"
                                     ELSE IF next = "snapshot" THEN "enable"
                                     ELSE "none"]
  /\ guard' = IF guard = a /\ next # "snapshot" THEN Free ELSE guard
  /\ mutex' = IF mutex = a /\ next = "dead" THEN Free ELSE mutex
  /\ step' = [step EXCEPT ![a] = 1]
  /\ loaded' = [loaded EXCEPT ![a] = NoFile]
  /\ restoring' = [restoring EXCEPT ![a] = NoFile]
  /\ attempts' = IF caller[a] = "watchdog" /\ ~ok
                 THEN [attempts EXCEPT ![a] = @ + 1] ELSE attempts

\* _disable_locked leaves a snapshot alone that carries another token than
\* the object's or, for an object without a token, another owner.
RefusedNever(a, tok, disk) == FALSE
Refused(a, tok, disk) ==
  /\ disk # NoFile
  /\ IF tok # NoToken THEN disk.token # tok ELSE disk.owner \notin {Nobody, a}

\* The first half of _disable_locked, up to the registry writes, for a
\* WindowsProxy object that remembers prev and tok.  c is the caller.
BeginRestore(a, prev, tok, c) ==
  \E disk \in LoadState :
    LET exact     == prev # NoFile /\ ~prev.corrupt
        useMemory == disk # NoFile /\ disk.corrupt /\ exact
        state     == IF useMemory \/ disk = NoFile THEN prev ELSE disk
    IN IF state = NoFile \/ (~useMemory /\ Refused(a, tok, disk))
       THEN Leave(a, FALSE, FALSE)
       ELSE /\ restoring' = [restoring EXCEPT ![a] = state]
            /\ pc' = [pc EXCEPT ![a] = "restore"]
            /\ caller' = [caller EXCEPT ![a] = c]
            /\ step' = [step EXCEPT ![a] = 1]
            /\ guard' = a
            /\ UNCHANGED <<mutex, loaded, attempts>>

-----------------------------------------------------------------------------
(* recover_stale: a load without the lock, then helper.disable(). *)

RecoverExists(a) ==
  /\ pc[a] = "exists"
  /\ IF file = NoFile
     THEN Leave(a, FALSE, FALSE)
     ELSE /\ pc' = [pc EXCEPT ![a] = "read"]
          /\ UNCHANGED <<caller, guard, mutex, step, loaded, restoring, attempts>>
  /\ UNCHANGED <<registry, file, previous, token, enabled, launcher, oldAlive, user>>

\* May this caller restore the state s it has read?
MayRecover(a, s) ==
  CASE caller[a] = "watchdog" -> OwnerMatches(s, launcher[a], a)
    [] caller[a] = "exit"     -> s.owner = a
    [] OTHER                  -> /\ ~OwnerIsAlive(s)
                                 /\ s.owner = Nobody => ~OtherAppInstanceAlive(a)

RecoverRead(a) ==
  /\ pc[a] = "read"
  /\ \E s \in (IF file = NoFile THEN {Unreadable} ELSE LoadState) :
       IF MayRecover(a, s)
       THEN /\ loaded' = [loaded EXCEPT ![a] = s]
            /\ pc' = [pc EXCEPT ![a] = "lock"]
            /\ UNCHANGED <<caller, guard, mutex, step, restoring, attempts>>
       ELSE Leave(a, FALSE, FALSE)
  /\ UNCHANGED <<registry, file, previous, token, enabled, launcher, oldAlive, user>>

CanLockAlways(a) == TRUE
CanLock(a) == guard \in {Free, a}

RecoverLocked(a) ==
  /\ pc[a] = "lock"
  /\ CanLock(a)
  /\ BeginRestore(a, loaded[a], loaded[a].token, caller[a])
  /\ UNCHANGED <<registry, file, previous, token, enabled, launcher, oldAlive, user>>

\* _proxy_state_guard gives up after its timeout while another process holds
\* the lock; recover_stale then raises TimeoutError.
RecoverTimeout(a) ==
  /\ "timeout" \in Faults
  /\ pc[a] = "lock"
  /\ ~CanLock(a)
  /\ Leave(a, FALSE, TRUE)
  /\ UNCHANGED <<registry, file, previous, token, enabled, launcher, oldAlive, user>>

-----------------------------------------------------------------------------
(* _disable_locked: the registry writes, then the removal of the file. *)

\* The registry with the snapshot's entry of name n, if it has one.
WithEntry(s, n) ==
  IF s.values[n] = Keep THEN registry ELSE [registry EXCEPT ![n] = s.values[n]]

\* Both loops write ProxyEnable first and last.
WriteOrder == <<"ProxyEnable", "ProxyServer", "ProxyOverride", "ProxyEnable">>

\* A restore turns the proxy off first and writes the user's ProxyEnable last.
RestoredWithoutOverride(s, i) ==
  IF i = 1 THEN [registry EXCEPT !["ProxyEnable"] = "off"]
  ELSE IF i = 3 THEN registry ELSE WithEntry(s, WriteOrder[i])
RestoredStringsOnly(s, i) ==
  IF WriteOrder[i] = "ProxyEnable" THEN registry ELSE WithEntry(s, WriteOrder[i])
Restored(s, i) ==
  IF i = 1 THEN [registry EXCEPT !["ProxyEnable"] = "off"]
  ELSE WithEntry(s, WriteOrder[i])

LastRestoreWriteShort == 3
LastRestoreWrite == 4

RestoreWrite(a) ==
  /\ pc[a] = "restore"
  /\ registry' = Restored(restoring[a], step[a])
  /\ IF step[a] < LastRestoreWrite
     THEN step' = [step EXCEPT ![a] = @ + 1] /\ pc' = pc
     ELSE step' = [step EXCEPT ![a] = 1] /\ pc' = [pc EXCEPT ![a] = "unlink"]
  /\ UNCHANGED <<file, guard, mutex, caller, previous, token, enabled, loaded,
                 restoring, attempts, launcher, oldAlive, user>>

\* Only the process's own object forgets its snapshot; a helper of
\* recover_stale is dropped with its call.
UsesOwnObject(a) == caller[a] \in {"disable", "quit", "rollback"}

Unlink(a) ==
  /\ pc[a] = "unlink"
  /\ \E latest \in LoadState :
       file' = IF \/ latest = NoFile
                  \/ latest # NoFile /\ latest.corrupt
                  \/ restoring[a].token = NoToken
                  \/ latest # NoFile /\ latest.token = restoring[a].token
               THEN NoFile ELSE file
  /\ previous' = IF UsesOwnObject(a) THEN [previous EXCEPT ![a] = NoFile] ELSE previous
  /\ token' = IF UsesOwnObject(a) THEN [token EXCEPT ![a] = NoToken] ELSE token
  /\ Leave(a, TRUE, FALSE)
  /\ UNCHANGED <<registry, enabled, launcher, oldAlive, user>>

\* A registry call or the unlink raises: the file and the memory stay.
RestoreFails(a) ==
  /\ "write" \in Faults
  /\ pc[a] \in {"restore", "unlink"}
  /\ Leave(a, FALSE, TRUE)
  /\ UNCHANGED <<registry, file, previous, token, enabled, launcher, oldAlive, user>>

-----------------------------------------------------------------------------
(* The operations the engine calls on the WindowsProxy of its process. *)

\* _owned_pending_state: the snapshot this process may reuse, or NoFile.
OwnedPending(p, disk) ==
  LET state == IF disk # NoFile /\ disk.corrupt /\ previous[p] # NoFile
               THEN previous[p] ELSE disk
  IN IF /\ state # NoFile
        /\ state.owner = p
        /\ token[p] # NoToken => state.token = token[p]
     THEN state ELSE NoFile

\* resume (on = TRUE) and suspend_for_tun (on = FALSE): rewrite the
\* application's values over an own snapshot, or take one first.
Resume(p, on) ==
  /\ pc[p] = "gui" /\ guard = Free
  /\ enabled' = [enabled EXCEPT ![p] = on]
  /\ \E disk \in LoadState :
       LET state == OwnedPending(p, disk) IN
       \/ /\ state # NoFile
          /\ previous' = [previous EXCEPT ![p] = state]
          /\ token' = [token EXCEPT ![p] = state.token]
          /\ pc' = [pc EXCEPT ![p] = "apply"]
          /\ caller' = [caller EXCEPT ![p] = "resume"]
          /\ guard' = p
       \/ /\ state = NoFile                                 \* _enable_locked
          /\ \E existing \in LoadState :
               IF existing = NoFile
               THEN /\ pc' = [pc EXCEPT ![p] = "snapshot"]
                    /\ caller' = [caller EXCEPT ![p] = "enable"]
                    /\ guard' = p
               ELSE IF OwnerIsAlive(existing)               \* RuntimeError
               THEN UNCHANGED <<pc, caller, guard>>
               ELSE /\ pc' = [pc EXCEPT ![p] = "exists"]
                    /\ caller' = [caller EXCEPT ![p] = "enable"]
                    /\ guard' = p
          /\ UNCHANGED <<previous, token>>
  /\ UNCHANGED <<registry, file, mutex, step, loaded, restoring, attempts,
                 launcher, oldAlive, user>>

\* suspend: one write, only over an own snapshot.
Suspend(p) ==
  /\ pc[p] = "gui" /\ guard = Free
  /\ \E disk \in LoadState :
       LET state == OwnedPending(p, disk) IN
       /\ state # NoFile
       /\ previous' = [previous EXCEPT ![p] = state]
       /\ token' = [token EXCEPT ![p] = state.token]
  /\ registry' = [registry EXCEPT !["ProxyEnable"] = "off"]
  /\ UNCHANGED <<file, guard, mutex, pc, caller, step, enabled, loaded,
                 restoring, attempts, launcher, oldAlive, user>>

\* _write_state: the snapshot reaches the disk before any registry write.
TakeSnapshot(p) ==
  /\ pc[p] = "snapshot"
  /\ \E t \in Token :
       LET s == [owner |-> p, token |-> t, values |-> registry, corrupt |-> FALSE] IN
       /\ launcher[t] = Nobody
       /\ launcher' = [launcher EXCEPT ![t] = p]
       /\ file' = s
       /\ previous' = [previous EXCEPT ![p] = s]
       /\ token' = [token EXCEPT ![p] = t]
  /\ pc' = [pc EXCEPT ![p] = "launch"]
  /\ UNCHANGED <<registry, guard, mutex, caller, step, enabled, loaded,
                 restoring, attempts, oldAlive, user>>

\* Nothing was changed yet: reading the registry or writing the file raises
\* (or, in a bounded model, every token is used up).
SnapshotFails(p) ==
  /\ pc[p] = "snapshot"
  /\ "write" \in Faults \/ \A t \in Token : launcher[t] # Nobody
  /\ pc' = [pc EXCEPT ![p] = "gui"]
  /\ caller' = [caller EXCEPT ![p] = "none"]
  /\ guard' = Free
  /\ UNCHANGED <<registry, file, mutex, step, previous, token, enabled, loaded,
                 restoring, attempts, launcher, oldAlive, user>>

\* _launch_watchdog: the detached process outlives its parent.
WatchdogStillborn == "dead"
WatchdogStart == "poll"

LaunchWatchdog(p) ==
  /\ pc[p] = "launch"
  /\ pc' = [pc EXCEPT ![p] = "apply", ![token[p]] = WatchdogStart]
  /\ UNCHANGED <<registry, file, guard, mutex, work, objects, attempts,
                 launcher, oldAlive, user>>

LastWrite(p) == IF enabled[p] THEN 4 ELSE 3

\* _write_app_proxy_values: off, both strings, on (unless for TUN).
AppValues == <<"off", App, App, "on">>

ApplyWrite(p) ==
  /\ pc[p] = "apply"
  /\ registry' = [registry EXCEPT ![WriteOrder[step[p]]] = AppValues[step[p]]]
  /\ IF step[p] < LastWrite(p)
     THEN /\ step' = [step EXCEPT ![p] = @ + 1]
          /\ UNCHANGED <<pc, caller, guard>>
     ELSE /\ step' = [step EXCEPT ![p] = 1]
          /\ pc' = [pc EXCEPT ![p] = "gui"]
          /\ caller' = [caller EXCEPT ![p] = "none"]
          /\ guard' = Free
  /\ UNCHANGED <<file, mutex, previous, token, enabled, loaded, restoring,
                 attempts, launcher, oldAlive, user>>

\* The watchdog does not start or a registry write raises.  _enable_locked
\* rolls back through disable(); resume just raises.
ApplyFails(p) ==
  /\ "write" \in Faults
  /\ pc[p] \in {"launch", "apply"}
  /\ IF caller[p] = "enable"
     THEN BeginRestore(p, previous[p], token[p], "rollback")
     ELSE Leave(p, FALSE, TRUE)
  /\ UNCHANGED <<registry, file, previous, token, enabled, launcher, oldAlive, user>>

\* disable, called by Engine._stop_locked when a restore is pending.
Disable(p) ==
  /\ pc[p] = "gui" /\ guard = Free
  /\ previous[p] # NoFile \/ file # NoFile            \* has_pending_restore
  /\ BeginRestore(p, previous[p], token[p], "disable")
  /\ UNCHANGED <<registry, file, previous, token, enabled, launcher, oldAlive, user>>

-----------------------------------------------------------------------------
(* main: two recoveries, the mutex, the event loop and its finally block. *)

Start(p) ==
  /\ pc[p] = "unborn"
  /\ QuietStart => \A a \in Actor \ {p} : ~Alive(a)
  /\ pc' = [pc EXCEPT ![p] = "exists"]
  /\ caller' = [caller EXCEPT ![p] = "main1"]
  /\ UNCHANGED <<registry, file, guard, mutex, step, objects, loaded,
                 restoring, attempts, launcher, oldAlive, user>>

AcquireSingleInstance(p) ==
  /\ pc[p] = "mutex"
  /\ IF mutex = Free
     THEN /\ mutex' = p
          /\ pc' = [pc EXCEPT ![p] = "exists"]
          /\ caller' = [caller EXCEPT ![p] = "main2"]
     ELSE /\ pc' = [pc EXCEPT ![p] = "dead"]          \* "already running"
          /\ UNCHANGED <<mutex, caller>>
  /\ UNCHANGED <<registry, file, guard, step, objects, loaded, restoring,
                 attempts, launcher, oldAlive, user>>

\* run_event_loop's finally: Engine.stop first, whatever becomes of it, then
\* recover_stale for this very process.
Quit(p) ==
  /\ pc[p] = "gui"
  /\ pc' = [pc EXCEPT ![p] = "stop"]
  /\ caller' = [caller EXCEPT ![p] = "quit"]
  /\ UNCHANGED <<registry, file, guard, mutex, step, objects, loaded, restoring,
                 attempts, launcher, oldAlive, user>>

QuitDisable(p) ==
  /\ pc[p] = "stop"
  /\ \/ guard = Free /\ BeginRestore(p, previous[p], token[p], "quit")
     \/ guard # Free /\ "timeout" \in Faults /\ Leave(p, FALSE, TRUE)
  /\ UNCHANGED <<registry, file, previous, token, enabled, launcher, oldAlive, user>>

-----------------------------------------------------------------------------
(* run_watchdog *)

\* The first loop: the owner lives.  It ends when the snapshot is gone or is
\* another one, and when the owner is gone.
WatchdogPoll(t) ==
  /\ pc[t] = "poll"
  /\ IF Alive(launcher[t])
     THEN /\ \E s \in LoadState : ~OwnerMatches(s, launcher[t], t)
          /\ pc' = [pc EXCEPT ![t] = "dead"]
     ELSE pc' = [pc EXCEPT ![t] = "try"]
  /\ UNCHANGED <<registry, file, guard, mutex, work, objects, attempts,
                 launcher, oldAlive, user>>

\* The second loop: one attempt.
WatchdogTry(t) ==
  /\ pc[t] = "try"
  /\ \E s \in LoadState :
       IF ~OwnerMatches(s, launcher[t], t)
       THEN pc' = [pc EXCEPT ![t] = "dead"] /\ UNCHANGED caller
       ELSE /\ pc' = [pc EXCEPT ![t] = "exists"]
            /\ caller' = [caller EXCEPT ![t] = "watchdog"]
  /\ UNCHANGED <<registry, file, guard, mutex, step, objects, loaded, restoring,
                 attempts, launcher, oldAlive, user>>

-----------------------------------------------------------------------------
(* The environment. *)

\* What is left of the processes in D when they die: nothing in memory, and
\* the operating system releases their locks.
Die(D) ==
  /\ pc' = [a \in Actor |-> IF a \in D /\ Alive(a) THEN "dead" ELSE pc[a]]
  /\ caller' = [a \in Actor |-> IF a \in D THEN "none" ELSE caller[a]]
  /\ step' = [a \in Actor |-> IF a \in D THEN 1 ELSE step[a]]
  /\ loaded' = [a \in Actor |-> IF a \in D THEN NoFile ELSE loaded[a]]
  /\ restoring' = [a \in Actor |-> IF a \in D THEN NoFile ELSE restoring[a]]
  /\ previous' = [p \in Proc |-> IF p \in D THEN NoFile ELSE previous[p]]
  /\ token' = [p \in Proc |-> IF p \in D THEN NoToken ELSE token[p]]
  /\ guard' = IF guard \in D THEN Free ELSE guard
  /\ mutex' = IF mutex \in D THEN Free ELSE mutex
  /\ UNCHANGED <<registry, file, enabled, attempts, launcher, user>>

\* A GUI process is killed, crashes, or exits in order to relaunch itself
\* with administrator rights (its successor is another member of Proc).
Crash(p) == Alive(p) /\ Die({p}) /\ UNCHANGED oldAlive

Reboot ==
  /\ "reboot" \in Faults
  /\ \E a \in Actor : Alive(a)
  /\ Die(Actor)
  /\ oldAlive' = FALSE

OldInstanceDies ==
  /\ oldAlive
  /\ oldAlive' = FALSE
  /\ UNCHANGED <<registry, file, guard, mutex, pc, work, objects, attempts,
                 launcher, user>>

DamageFile ==
  /\ "damage" \in Faults
  /\ file # NoFile /\ file # Unreadable
  /\ guard = Free
  /\ file' = Unreadable
  /\ UNCHANGED <<registry, guard, mutex, pc, work, objects, attempts,
                 launcher, oldAlive, user>>

\* The user changes the proxy settings.  Changes made while the application
\* overrides them are outside what a restore can promise, and a change in the
\* milliseconds of a transaction is left out.
UserEdit(u) ==
  /\ file = NoFile /\ guard = Free
  /\ registry' = u
  /\ user' = u
  /\ UNCHANGED <<file, guard, mutex, pc, work, objects, attempts, launcher, oldAlive>>

Recover(a) == RecoverExists(a) \/ RecoverRead(a) \/ RecoverLocked(a) \/ RecoverTimeout(a)
Restore(a) == RestoreWrite(a) \/ Unlink(a) \/ RestoreFails(a)
Enable(p)  == TakeSnapshot(p) \/ SnapshotFails(p) \/ LaunchWatchdog(p)
              \/ ApplyWrite(p) \/ ApplyFails(p)
Main(p)    == AcquireSingleInstance(p) \/ QuitDisable(p)
Request(p) == Start(p) \/ Resume(p, TRUE) \/ Resume(p, FALSE) \/ Suspend(p)
              \/ Disable(p) \/ Quit(p)
Watchdog(t) == WatchdogPoll(t) \/ WatchdogTry(t)
Environment == Reboot \/ OldInstanceDies \/ DamageFile
               \/ \E u \in UserSettings : UserEdit(u)

Next ==
  \/ \E a \in Actor : Recover(a) \/ Restore(a)
  \/ \E p \in Proc : Enable(p) \/ Main(p) \/ Request(p) \/ Crash(p)
  \/ \E t \in Token : Watchdog(t)
  \/ Environment

Spec == Init /\ [][Next]_vars

\* A process that runs makes its next step; nobody is obliged to press a
\* button, to crash or to start the application.
Fairness ==
  /\ \A a \in Actor : WF_vars(Recover(a)) /\ WF_vars(Restore(a))
  /\ \A p \in Proc : WF_vars(Enable(p)) /\ WF_vars(Main(p))
  /\ \A t \in Token : WF_vars(Watchdog(t))

FairSpec == Spec /\ Fairness

-----------------------------------------------------------------------------
(* Properties. *)

\* Browsers are being sent to the local listener of the application.
PointsToApp == registry["ProxyEnable"] = "on" /\ registry["ProxyServer"] = App

(***************************************************************************)
(* Whatever fails, dies or is damaged, and however many processes recover  *)
(* at once: while browsers are sent to the application's port there is a   *)
(* restore file, so the next start has something to turn the proxy off     *)
(* with (the file is written first in _enable_locked, removed last in      *)
(* _disable_locked).                                                       *)
(***************************************************************************)
NoOrphanedProxy == PointsToApp => file # NoFile

(***************************************************************************)
(* While browsers are sent to the application's port, either the process   *)
(* that took the snapshot or the watchdog it launched is there to restore  *)
(* it (the order launch, then ProxyEnable = 1, in _enable_locked).         *)
(***************************************************************************)
SomeoneWillRestore ==
  PointsToApp /\ ~oldAlive /\ file # NoFile /\ file.owner # Nobody =>
    \/ Alive(file.owner)
    \/ Alive(file.token)

(***************************************************************************)
(* What the user chose is in the registry, or else in the restore file:    *)
(* neither a crash between two writes nor a second snapshot taken over the *)
(* application's own values loses it.                                      *)
(***************************************************************************)
UserSettingKept ==
  IF file = NoFile THEN registry = user ELSE file.values = user

(***************************************************************************)
(* The same promise, asked only between transactions: once no snapshot is  *)
(* left and nobody is restoring, the registry is what the user chose       *)
(* ("Safe Windows proxy restore after disconnect, exit, or restart",       *)
(* README.en.md:50).                                                       *)
(***************************************************************************)
RestoredAtRest == file = NoFile /\ guard = Free => registry = user

(***************************************************************************)
(* While the process that took the snapshot lives, no other process writes *)
(* the registry or takes the restore file away: the late helper of a       *)
(* recover_stale that read an older snapshot before the lock finds the     *)
(* token changed.                                                          *)
(***************************************************************************)
LiveSnapshotUntouched ==
  [][file # NoFile /\ file.owner # Nobody /\ Alive(file.owner) /\ files' # files
       => \A a \in Actor \ {file.owner} : pc'[a] = pc[a] /\ step'[a] = step[a]]_vars

(***************************************************************************)
(* The event loop of a process starts with no snapshot of a dead process   *)
(* on disk: main recovers again after it got the single instance mutex.    *)
(***************************************************************************)
StartsRecovered ==
  [][\A p \in Proc :
       caller[p] = "main2" /\ pc'[p] = "gui" /\ file' # NoFile /\ file'.owner # Nobody
         => Alive(file'.owner)]_vars

(***************************************************************************)
(* At most one process is inside a proxy transaction, and it is the one    *)
(* that holds the lock: the reentrant calls (enable, recover, disable) give *)
(* it back exactly once.                                                   *)
(***************************************************************************)
InTransaction(a) == pc[a] \in {"restore", "unlink", "snapshot", "launch", "apply"}

Serialized == \A a \in Actor : InTransaction(a) => guard = a

(***************************************************************************)
(* The promise of ProxyRestore: every change of the setting lies between   *)
(* saving it and giving it back.                                           *)
(***************************************************************************)
Promise == INSTANCE ProxyRestore
             WITH Setting <- Setting, Choice <- UserSettings, None <- NoFile,
                  setting <- registry,
                  saved <- IF file = NoFile THEN NoFile ELSE file.values

ImplementsPromise == Promise!Spec

(***************************************************************************)
(* A watchdog that outlives its process restores the user's setting, or    *)
(* has failed in every one of its attempts.                                *)
(***************************************************************************)
CrashIsRepaired ==
  \A t \in Token :
    (Alive(t) /\ file # NoFile /\ file.token = t /\ ~Alive(launcher[t]))
      ~> ((file = NoFile /\ registry = user) \/ attempts[t] = MaxAttempts)

=============================================================================
