------------------------- MODULE GatewayManagerProofs -------------------------
(***************************************************************************)
(* Theorems about GatewayManager for any sets of threads and devices, any  *)
(* number of sessions and requests, and any combination of faults.         *)
(***************************************************************************)
EXTENDS GatewayManager, TLAPS

\* The conjuncts of TypeOK, by the part of the state.
ControlOK ==
  /\ lock \in Caller \cup {Free} /\ serial \in Caller \cup {Free}
  /\ lifecycle \in Caller \cup {Free}
  /\ pc \in [Caller -> PC]
  /\ after \in [Caller -> {"return", "life", "stop", "start"}]
CallOK ==
  /\ victim \in Session \cup {0} /\ trouble \in BOOLEAN
  /\ expected \subseteq Caller /\ awaited \subseteq Caller
  /\ left \in 0..MaxRequests
SessionOK ==
  /\ active \in BOOLEAN /\ stopping \in BOOLEAN
  /\ event \subseteq Session \cup {0}
  /\ token \in Session \cup {0} /\ worker \in Session \cup {0}
  /\ devices \subseteq Device
  /\ started \in Session \cup {0} /\ latest \in Session \cup {0}
AuxOK ==
  /\ batch \in [Session \cup {Discovery} -> SUBSET Device]
  /\ seen \in [Session -> Session \cup {0}] /\ failures \in [Session -> 0..1]
  /\ discovery \in {"off", "begin", "scan", "check", "send"}
  /\ scanning \in Session \cup {0}
  /\ responder \in {"off", "listen", "answer", "send"}
  /\ heard \in Device \cup {None}
  /\ responder \in {"answer", "send"} => heard \in Device
MachineOK ==
  /\ forwarding \in BOOLEAN
  /\ file \in State \cup {None}
  /\ windows \in {"user", "gateway"}
  /\ lan \subseteq Device
EngineOK ==
  /\ running \in BOOLEAN
  /\ tun \in {"off", "on", "dead"} /\ lease \in BOOLEAN /\ ownsTun \in BOOLEAN
  /\ userTun \in BOOLEAN
TypesOK == CallOK /\ SessionOK /\ AuxOK /\ MachineOK

\* Which points of start and of stop lie inside which lock.
Beginning == {"ready", "tun", "setup", "retry"}
Starting  == Beginning \cup {"recover", "undo", "untun"}
Stopping  == {"mark", "join", "lock", "restore", "release"}
Polling   == {"wait", "look", "restart", "redirect"}
Locked    == Starting \cup {"restore", "release"}

LockHeld == \A a \in Caller : pc[a] \in Locked <=> lock = a
SerialHeld == \A a \in Caller : pc[a] \in Stopping <=> serial = a
\* A stop of the engine keeps the lifecycle lock while it ends the session.
Nested(p, next) == p = "halt" \/ (p \in Stopping \cup {"serial"} /\ next \in {"stop", "start"})
LifecycleHeld == \A a \in Caller : Nested(pc[a], after[a]) <=> lifecycle = a
Releasing == \A a \in Caller : pc[a] = "release" => after[a] = "return"

\* A worker exists once its session was started, and stops for itself only.
WorkerOK(s, p, next, last) ==
  /\ p \in {"dead", "serial"} \cup Stopping \cup Polling
  /\ p \in {"serial"} \cup Stopping => next = "return"
  /\ s > last => p = "dead"
WorkersOK == \A s \in Session : WorkerOK(s, pc[s], after[s], started)

Control == ControlOK /\ started \in Session \cup {0}
           /\ LockHeld /\ SerialHeld /\ LifecycleHeld /\ Releasing /\ WorkersOK

\* What a start has found under the lock it still holds.
StartFound ==
  \A a \in Caller :
    /\ pc[a] \in Starting => ~active
    /\ pc[a] \in Beginning => file = None
    /\ pc[a] \in {"recover", "undo"} => file # None
    /\ pc[a] = "setup" => lease
    /\ pc[a] \in Beginning \cup {"recover", "untun", "release"} => responder = "off"

\* What a stop has found holds until it has the lock again: nobody can start.
StopFound ==
  \A a \in Caller :
    /\ pc[a] \in {"join", "lock"} =>
         /\ file # None /\ file.token = victim
         /\ \A b \in Caller : pc[b] \notin Beginning \cup {"undo", "untun"}
    /\ pc[a] = "release" => trouble \/ windows = "user"

\* When the engine goes down there is no session, and none comes up.
NoSessionAtHalt ==
  \A a \in Caller : pc[a] = "halt" => ~active /\ \A b \in Caller : pc[b] # "setup"

Found == StartFound /\ StopFound /\ NoSessionAtHalt

NothingWithout ==
  /\ ~active => token = 0 /\ devices = {}
  /\ active => token # 0

Promised == NothingWithout /\ SessionOnDisk /\ AlteredIsRecorded /\ SessionHasLease
            /\ AnswersInSession

\* Who wants the TUN is known to the engine alone.
TunWanted ==
  /\ EngineOK
  /\ TunHasAWanter
  /\ lease /\ ~ownsTun /\ tun # "off" => userTun

IInv == TypesOK /\ Control /\ Found /\ Promised /\ TunWanted

-----------------------------------------------------------------------------
(* A caller goes from one place to another. *)

\* Caller a goes to p; at most a worker that was not there yet starts besides.
Moves(a, p) ==
  /\ p \in PC /\ pc' \in [Caller -> PC] /\ pc'[a] = p
  /\ \A b \in Caller \ {a} :
       pc'[b] = pc[b] \/ (b \in Session /\ pc[b] = "dead" /\ pc'[b] = "wait" /\ b <= started')

\* Caller a leaves a lock as it was, or takes it, or gives it back.
Uses(a, l, next) == next = l \/ (l = Free /\ next = a) \/ (l = a /\ next = Free)

LEMMA GotoMoves ==
  ASSUME ControlOK, NEW a \in Caller, NEW p \in PC, Goto(a, p)
  PROVE  Moves(a, p)
BY DEF ControlOK, Goto, Moves

LEMMA FreeIsNoCaller == Free \notin Caller
BY ConstAssumption

LEMMA ControlStep ==
  ASSUME Control, NEW a \in Caller, NEW p \in PC, Moves(a, p),
         after' \in [Caller -> {"return", "life", "stop", "start"}],
         \A b \in Caller \ {a} : after'[b] = after[b],
         Uses(a, lock, lock'), Uses(a, serial, serial'), Uses(a, lifecycle, lifecycle'),
         p \in Locked <=> lock' = a,
         p \in Stopping <=> serial' = a,
         Nested(p, after'[a]) <=> lifecycle' = a,
         p = "release" => after'[a] = "return",
         started' \in Session \cup {0}, started <= started',
         a \in Session => WorkerOK(a, p, after'[a], started')
  PROVE  Control'
<1>0. /\ \A b \in Caller \ {a} : /\ lock' = b <=> lock = b
                                 /\ serial' = b <=> serial = b
                                 /\ lifecycle' = b <=> lifecycle = b
      /\ lock' \in Caller \cup {Free} /\ serial' \in Caller \cup {Free}
      /\ lifecycle' \in Caller \cup {Free}
  BY FreeIsNoCaller DEF Uses, Control, ControlOK
<1>1. ControlOK'
  BY <1>0 DEF Moves, Control, ControlOK
<1>2. LockHeld'
  BY <1>0 DEF Moves, Control, LockHeld, Locked, Starting, Beginning
<1>3. SerialHeld'
  BY <1>0 DEF Moves, Control, SerialHeld, Stopping
<1>4. LifecycleHeld'
  BY <1>0 DEF Moves, Control, LifecycleHeld, Nested, Stopping
<1>5. Releasing'
  BY DEF Moves, Control, Releasing
<1>6. /\ \A s \in Session : s \in Nat /\ s \in Caller
      /\ started \in Nat /\ started' \in Nat
  BY ConstAssumption DEF Session, Control, Caller
<1>7. ASSUME NEW s \in Session
      PROVE  WorkerOK(s, pc'[s], after'[s], started')
  <2>1. CASE s = a
    BY <2>1 DEF Moves
  <2>2. CASE s # a /\ pc'[s] = pc[s]
    BY <1>6, <2>2 DEF Control, WorkersOK, WorkerOK
  <2>3. CASE s # a /\ pc'[s] = "wait" /\ s <= started'
    BY <1>6, <2>3 DEF WorkerOK, Polling, Stopping
  <2> QED
    BY <1>6, <2>1, <2>2, <2>3 DEF Moves
<1> QED
  BY <1>1, <1>2, <1>3, <1>4, <1>5, <1>7 DEF Control, WorkersOK

\* The same for a step that starts no worker.
NextAfter(a) ==
  after' = after \/ \E x \in {"return", "life", "stop", "start"} : after' = [after EXCEPT ![a] = x]

LEMMA ControlMove ==
  ASSUME Control, NEW a \in Caller, NEW p \in PC, Goto(a, p), NextAfter(a), started' = started,
         Uses(a, lock, lock'), Uses(a, serial, serial'), Uses(a, lifecycle, lifecycle'),
         p \in Locked <=> lock' = a,
         p \in Stopping <=> serial' = a,
         Nested(p, after'[a]) <=> lifecycle' = a,
         p = "release" => after'[a] = "return",
         a \in Session => WorkerOK(a, p, after'[a], started)
  PROVE  Control'
<1>1. Moves(a, p)
  BY GotoMoves DEF Control
<1>2. /\ after' \in [Caller -> {"return", "life", "stop", "start"}]
      /\ \A b \in Caller \ {a} : after'[b] = after[b]
  BY DEF NextAfter, Control, ControlOK
<1>3. started \in Session \cup {0} /\ started <= started'
  BY ConstAssumption DEF Control, Session
<1> QED
  BY <1>1, <1>2, <1>3, ControlStep

\* The same for a step that uses no lock.
LEMMA ControlSame ==
  ASSUME Control, NEW a \in Caller, NEW p \in PC, Goto(a, p), NextAfter(a), started' = started,
         UNCHANGED <<lock, serial, lifecycle>>,
         p \in Locked <=> pc[a] \in Locked,
         p \in Stopping <=> pc[a] \in Stopping,
         Nested(p, after'[a]) <=> Nested(pc[a], after[a]),
         p = "release" => after'[a] = "return",
         a \in Session => WorkerOK(a, p, after'[a], started)
  PROVE  Control'
BY ControlMove DEF Control, LockHeld, SerialHeld, LifecycleHeld, Uses

\* What the steps of a may do to what the others have found.
LEMMA FoundStep ==
  ASSUME Control, Found, NEW a \in Caller, NEW p \in PC, Moves(a, p),
         \/ UNCHANGED <<active, file, responder, trouble, windows>>
         \/ \A b \in Caller \ {a} : pc[b] \notin Locked,
         lease' = lease \/ \A b \in Caller \ {a} : pc[b] # "setup",
         UNCHANGED <<file, victim>> \/ \A b \in Caller \ {a} : pc[b] \notin {"join", "lock"},
         active' => active \/ \A b \in Caller \ {a} : pc[b] # "halt",
         p \in Beginning \cup {"undo", "untun"} =>
           \A b \in Caller \ {a} : pc[b] \notin {"join", "lock"},
         p = "setup" => \A b \in Caller \ {a} : pc[b] # "halt",
         p \in Starting => ~active',
         p \in Beginning => file' = None,
         p \in {"recover", "undo"} => file' # None,
         p = "setup" => lease',
         p \in Beginning \cup {"recover", "untun", "release"} => responder' = "off",
         p \in {"join", "lock"} =>
           /\ file' # None /\ file'.token = victim'
           /\ \A b \in Caller \ {a} : pc[b] \notin Beginning \cup {"undo", "untun"},
         p = "release" => trouble' \/ windows' = "user",
         p = "halt" => ~active' /\ \A b \in Caller \ {a} : pc[b] # "setup"
  PROVE  Found'
<1>1. StartFound'
  BY DEF Found, StartFound, Moves, Locked, Starting, Beginning
<1>2. StopFound'
  BY DEF Found, StopFound, Moves, Locked, Starting, Beginning
<1>3. NoSessionAtHalt'
  BY DEF Found, NoSessionAtHalt, Moves
<1> QED
  BY <1>1, <1>2, <1>3 DEF Found

\* A step that leaves the session, the machine and the engine as they are.
LEMMA MoveKeeps ==
  ASSUME IInv, Control', Found', TypesOK', UNCHANGED engine,
         UNCHANGED <<active, token, devices, file, windows, responder>>,
         lock' = Free => lock = Free \/ active \/ responder = "off"
  PROVE  IInv'
<1>1. Promised'
  BY DEF IInv, Promised, NothingWithout, SessionOnDisk, AlteredIsRecorded, SessionHasLease,
         AnswersInSession, engine
<1>2. TunWanted'
  BY DEF IInv, TunWanted, EngineOK, TunHasAWanter, engine
<1> QED
  BY <1>1, <1>2 DEF IInv

\* The engine's half of the steps of the gateway.
LEMMA TunStep ==
  ASSUME TunWanted, AcquireTun \/ ReleaseTun
  PROVE  TunWanted'
BY DEF TunWanted, EngineOK, TunHasAWanter, AcquireTun, ReleaseTun

\* The holder of the lock is alone at the places inside it.
LEMMA AloneLocked ==
  ASSUME Control, NEW a \in Caller, lock = a \/ lock = Free
  PROVE  \A b \in Caller \ {a} : pc[b] \notin Locked
BY FreeIsNoCaller DEF Control, LockHeld

LEMMA AloneStopping ==
  ASSUME Control, NEW a \in Caller, serial = a \/ serial = Free
  PROVE  \A b \in Caller \ {a} : pc[b] \notin Stopping
BY FreeIsNoCaller DEF Control, SerialHeld

\* While a caller is about to start a session no other has found one to stop.
LEMMA NoneFoundOne ==
  ASSUME Found, NEW a \in Caller, pc[a] \in Beginning \cup {"undo", "untun"}
  PROVE  \A b \in Caller : pc[b] \notin {"join", "lock"}
BY DEF Found, StopFound

\* While a session is set up the engine does not go down.
LEMMA NoneHalts ==
  ASSUME Found, NEW a \in Caller, pc[a] = "setup"
  PROVE  \A b \in Caller : pc[b] # "halt"
BY DEF Found, NoSessionAtHalt

\* Stopping ends: who returns from it goes to a place that fits its locks.
LEMMA ReturnMoves ==
  ASSUME Control, NEW a \in Caller, pc[a] \in Stopping, Return(a)
  PROVE  \E p \in {"idle", "dead", "life", "halt"} :
           /\ Moves(a, p)
           /\ Nested(p, after[a]) <=> lifecycle = a
           /\ a \in Session => p = "dead"
<1> DEFINE p == CASE after[a] = "return" -> IF a \in Thread THEN "idle" ELSE "dead"
                  [] after[a] = "life"   -> "life"
                  [] OTHER               -> "halt"
<1>1. after[a] \in {"return", "life", "stop", "start"}
  BY DEF Control, ControlOK
<1>2. p \in {"idle", "dead", "life", "halt"} /\ p \in PC
  BY DEF PC
<1>3. Moves(a, p)
  BY <1>2, GotoMoves DEF Return, Control
<1>4. Nested(p, after[a]) <=> lifecycle = a
  BY <1>1 DEF Control, LifecycleHeld, Nested, Stopping
<1>5. a \in Session => p = "dead"
  BY ConstAssumption DEF Control, WorkersOK, WorkerOK
<1> QED
  BY <1>2, <1>3, <1>4, <1>5

-----------------------------------------------------------------------------
(* start *)

LEMMA ThreadIsCaller == ASSUME NEW a \in Thread PROVE a \in Caller /\ a \notin Session
BY ConstAssumption DEF Caller

LEMMA StartLockKeeps ==
  ASSUME IInv, NEW a \in Thread, StartLock(a)
  PROVE  IInv'
<1>1. a \in Caller /\ a \notin Session
  BY ThreadIsCaller
<1>2. /\ pc[a] = "start" /\ lock = Free
      /\ UNCHANGED <<serial, lifecycle, session, calls, aux, machine, engine, left>>
  BY DEF StartLock
<1>3. PICK p \in {"started", "ready", "recover", "idle"} :
        /\ Goto(a, p)
        /\ p \in {"ready", "recover"} => ~active /\ lock' = a
        /\ p = "ready" => file = None
        /\ p = "recover" => file # None
        /\ p \in {"started", "idle"} => lock' = lock
  BY DEF StartLock
<1>4. Moves(a, p) /\ p \in PC
  BY <1>1, <1>3, GotoMoves DEF IInv, Control, PC
<1>5. Control'
  <2>1. started' = started /\ NextAfter(a) /\ UNCHANGED <<serial, lifecycle>>
    BY <1>2 DEF session, calls, NextAfter
  <2>2. (p \in Locked <=> lock' = a) /\ Uses(a, lock, lock')
    BY <1>1, <1>2, <1>3, FreeIsNoCaller DEF Uses, Locked, Starting, Beginning
  <2>3. serial # a /\ p \notin Stopping /\ p \notin {"halt", "serial", "release"}
    BY <1>1, <1>2, <1>3 DEF IInv, Control, SerialHeld, Stopping
  <2>4. lifecycle # a
    BY <1>1, <1>2 DEF IInv, Control, LifecycleHeld, Nested, Stopping
  <2> QED
    BY <1>1, <1>2, <1>3, <1>4, <2>1, <2>2, <2>3, <2>4, ControlMove DEF IInv, Uses, Nested
<1>6. UNCHANGED <<active, token, devices, file, windows, responder, lease, trouble, victim>>
  BY <1>2 DEF session, machine, aux, engine, calls
<1>7. Found'
  <2>1. \A b \in Caller \ {a} : pc[b] \notin Locked
    BY <1>1, <1>2, AloneLocked DEF IInv
  <2>2. p = "ready" => \A b \in Caller \ {a} : pc[b] \notin {"join", "lock"}
    BY <1>3 DEF IInv, Found, StopFound
  <2>3. p \in {"ready", "recover"} => responder' = "off"
    BY <1>2, <1>3, <1>6 DEF IInv, Promised, AnswersInSession
  <2> QED
    BY <1>1, <1>3, <1>4, <1>6, <2>1, <2>2, <2>3, FoundStep DEF IInv, Starting, Beginning
<1>8. TypesOK'
  BY <1>2 DEF IInv, TypesOK, CallOK, SessionOK, AuxOK, MachineOK, session, calls, aux, machine
<1> QED
  BY <1>2, <1>3, <1>5, <1>6, <1>7, <1>8, MoveKeeps

LEMMA EngineRests == ASSUME TunWanted, UNCHANGED engine PROVE TunWanted' /\ lease' = lease
BY DEF TunWanted, EngineOK, TunHasAWanter, engine

LEMMA Restored ==
  ASSUME MachineOK, NEW arpOk \in BOOLEAN, NEW windowsOk \in BOOLEAN,
         RestoreState(arpOk, windowsOk)
  PROVE  /\ responder' = "off" /\ heard' = None /\ forwarding' = FALSE
         /\ lan' \subseteq Device /\ windows' \in {"user", "gateway"}
         /\ windowsOk => windows' = "user"
         /\ windows' = "gateway" => windows = "gateway"
BY DEF MachineOK, RestoreState

\* A start holds the lock until it gives up or its session is there.
LEMMA HeldByStart ==
  ASSUME Control, Found, NEW a \in Thread, pc[a] \in Starting
  PROVE  /\ a \in Caller /\ a \notin Session /\ lock = a /\ serial # a /\ lifecycle # a
         /\ ~active
         /\ \A b \in Caller \ {a} : pc[b] \notin Locked
<1>1. a \in Caller /\ a \notin Session
  BY ThreadIsCaller
<1>2. lock = a
  BY <1>1 DEF Control, LockHeld, Locked
<1>3. serial # a /\ lifecycle # a
  BY <1>1 DEF Control, SerialHeld, LifecycleHeld, Nested, Stopping, Starting, Beginning
<1> QED
  BY <1>1, <1>2, <1>3, AloneLocked DEF Found, StartFound

LEMMA StartingControl ==
  ASSUME Control, Found, NEW a \in Thread, pc[a] \in Starting,
         NEW p \in Starting \cup {"idle"}, Goto(a, p), after' = after,
         started' \in Session \cup {0}, started <= started',
         UNCHANGED <<serial, lifecycle>>, lock' = IF p = "idle" THEN Free ELSE lock
  PROVE  Control' /\ Moves(a, p)
<1>1. a \in Caller /\ a \notin Session /\ lock = a /\ serial # a /\ lifecycle # a
  BY HeldByStart
<1>2. p \in PC /\ Moves(a, p)
  BY <1>1, GotoMoves DEF Control, PC, Starting, Beginning
<1>3. (p \in Locked <=> lock' = a) /\ Uses(a, lock, lock')
  BY <1>1, FreeIsNoCaller DEF Uses, Locked, Starting, Beginning
<1>4. p \notin Stopping \cup {"halt", "serial"}
  BY DEF Stopping, Starting, Beginning
<1> QED
  BY <1>1, <1>2, <1>3, <1>4, ControlStep DEF Control, ControlOK, Uses, Nested, Stopping

LEMMA StartingFound ==
  ASSUME Control, Found, NEW a \in Thread, pc[a] \in Starting,
         NEW p \in Starting \cup {"idle"}, Moves(a, p),
         ~active', victim' = victim,
         pc[a] = "recover" => serial = Free,
         p = "setup" => lease' /\ \A b \in Caller \ {a} : pc[b] # "halt",
         p \in Beginning => file' = None,
         p \in {"recover", "undo"} => file' # None,
         p \in Beginning \cup {"recover", "untun"} => responder' = "off"
  PROVE  Found'
<1>1. /\ a \in Caller
      /\ \A b \in Caller \ {a} : pc[b] \notin Locked /\ pc[b] # "setup"
  BY HeldByStart DEF Locked, Starting, Beginning
<1>2. \A b \in Caller \ {a} : pc[b] \notin {"join", "lock"}
  BY <1>1, AloneStopping, NoneFoundOne DEF Starting, Stopping
<1>3. p \in PC /\ p \notin {"join", "lock", "release", "halt"}
  BY DEF PC, Starting, Beginning
<1> QED
  BY <1>1, <1>2, <1>3, FoundStep

LEMMA StartRecoverKeeps ==
  ASSUME IInv, NEW a \in Thread, StartRecover(a)
  PROVE  IInv'
<1>1. /\ pc[a] = "recover" /\ serial = Free
      /\ UNCHANGED <<serial, lifecycle, stopping, event, worker, latest, started, calls,
                     discovery, scanning, batch, seen, failures, engine, left>>
  BY DEF StartRecover
<1>2. PICK arpOk \in BOOLEAN, windowsOk \in BOOLEAN :
        /\ RestoreState(arpOk, windowsOk)
        /\ IF arpOk /\ windowsOk
           THEN /\ file' = None /\ token' = 0 /\ devices' = {} /\ active' = FALSE
                /\ Goto(a, "ready") /\ UNCHANGED lock
           ELSE /\ Goto(a, "idle") /\ lock' = Free
                /\ UNCHANGED <<file, token, devices, active>>
  BY DEF StartRecover
<1>3. /\ responder' = "off" /\ heard' = None /\ forwarding' = FALSE
      /\ lan' \subseteq Device /\ windows' \in {"user", "gateway"}
      /\ windowsOk => windows' = "user"
  BY <1>2, Restored DEF IInv, TypesOK
<1>4. PICK p \in {"ready", "idle"} :
        /\ Goto(a, p)
        /\ p = "ready" => /\ file' = None /\ token' = 0 /\ devices' = {} /\ active' = FALSE
                          /\ windows' = "user" /\ lock' = lock
        /\ p = "idle" => lock' = Free /\ UNCHANGED <<file, token, devices, active>>
  BY <1>2, <1>3
<1>5. pc[a] \in Starting /\ p \in Starting \cup {"idle"}
  BY <1>1 DEF Starting, Beginning
<1>6. a \in Caller /\ ~active /\ file # None
  BY <1>1, <1>5, HeldByStart DEF IInv, Found, StartFound
<1>7. started' = started /\ after' = after /\ victim' = victim /\ started <= started
  BY <1>1, ConstAssumption DEF calls, IInv, Control, Session
<1>8. Control' /\ Moves(a, p)
  BY <1>1, <1>4, <1>5, <1>7, StartingControl DEF IInv, Control
<1>9. Found'
  BY <1>1, <1>3, <1>4, <1>5, <1>6, <1>7, <1>8, StartingFound DEF IInv, Beginning
<1>10. TypesOK'
  <2>1. CallOK'
    BY <1>1 DEF IInv, TypesOK, CallOK, calls
  <2>2. SessionOK'
    BY <1>1, <1>4 DEF IInv, TypesOK, SessionOK
  <2>3. AuxOK'
    BY <1>1, <1>3 DEF IInv, TypesOK, AuxOK
  <2>4. MachineOK'
    BY <1>3, <1>4 DEF IInv, TypesOK, MachineOK
  <2> QED
    BY <2>1, <2>2, <2>3, <2>4 DEF TypesOK
<1>11. TunWanted'
  BY <1>1, EngineRests DEF IInv
<1>12. Promised'
  BY <1>3, <1>4, <1>6 DEF IInv, Promised, NothingWithout, SessionOnDisk, AlteredIsRecorded, SessionHasLease,
         AnswersInSession
<1> QED
  BY <1>8, <1>9, <1>10, <1>11, <1>12 DEF IInv

LEMMA StartReadyKeeps ==
  ASSUME IInv, NEW a \in Thread, StartReady(a)
  PROVE  IInv'
<1>1. /\ pc[a] = "ready"
      /\ UNCHANGED <<serial, lifecycle, session, after, victim, trouble, expected, aux,
                     machine, engine, left>>
  BY DEF StartReady
<1>2. PICK p \in {"tun", "idle"} :
        /\ Goto(a, p) /\ awaited' \in {awaited, awaited \cup {a}}
        /\ p = "tun" => lock' = lock
        /\ p = "idle" => lock' = Free
  BY DEF StartReady
<1>3. pc[a] \in Starting /\ p \in Starting \cup {"idle"}
  BY <1>1 DEF Starting, Beginning
<1>4. a \in Caller /\ ~active /\ file = None /\ responder = "off"
  BY <1>1, <1>3, HeldByStart DEF IInv, Found, StartFound, Beginning
<1>5. /\ UNCHANGED <<active, token, devices, file, windows, responder, victim, started, after>>
      /\ started <= started
  BY <1>1, ConstAssumption DEF session, machine, aux, IInv, Control, Session
<1>6. Control' /\ Moves(a, p)
  BY <1>1, <1>2, <1>3, <1>5, StartingControl DEF IInv, Control
<1>7. Found'
  BY <1>1, <1>2, <1>3, <1>4, <1>5, <1>6, StartingFound DEF IInv, Beginning
<1>8. TypesOK'
  BY <1>1, <1>2, <1>4 DEF IInv, TypesOK, CallOK, SessionOK, AuxOK, MachineOK, session, aux, machine
<1> QED
  BY <1>1, <1>2, <1>4, <1>5, <1>6, <1>7, <1>8, MoveKeeps

\* The steps of a start that talk to the engine about the TUN.
LEMMA TunStepKeeps ==
  ASSUME IInv, NEW a \in Thread, pc[a] \in {"tun", "retry", "untun"}, lifecycle = Free,
         UNCHANGED <<serial, lifecycle, stopping, event, worker, latest, started, after, victim,
                     trouble, aux, machine, left>>,
         NEW p \in {"setup", "tun", "idle"}, Goto(a, p),
         AcquireTun \/ ReleaseTun \/ UNCHANGED engine,
         p # "idle" => /\ pc[a] # "untun"
                       /\ UNCHANGED <<lock, active, devices, token, expected, awaited>>,
         p = "setup" => AcquireTun,
         p = "idle" => /\ active' = FALSE /\ devices' = {} /\ token' = 0 /\ lock' = Free
                       /\ expected' = expected \ {a} /\ awaited' = awaited \ {a}
  PROVE  IInv'
<1>1. pc[a] \in Starting /\ p \in Starting \cup {"idle"}
  BY DEF Starting, Beginning
<1>2. /\ a \in Caller /\ ~active /\ responder = "off"
      /\ pc[a] # "untun" => file = None
  BY <1>1, HeldByStart DEF IInv, Found, StartFound, Beginning
<1>3. ~active' /\ token' = 0 /\ devices' = {}
  BY <1>2 DEF IInv, Promised, NothingWithout
<1>4. UNCHANGED <<file, windows, lan, forwarding, responder, heard>>
  BY DEF aux, machine
<1>5. started <= started
  BY ConstAssumption DEF IInv, Control, Session
<1>6. Control' /\ Moves(a, p)
  BY <1>1, <1>5, StartingControl DEF IInv, Control
<1>7. p = "setup" => lease' /\ \A b \in Caller \ {a} : pc[b] # "halt"
  BY FreeIsNoCaller DEF IInv, Control, LifecycleHeld, Nested, AcquireTun
<1>8. Found'
  BY <1>1, <1>2, <1>3, <1>4, <1>6, <1>7, StartingFound DEF IInv, Beginning
<1>9. TypesOK'
  <2>1. CallOK'
    BY DEF IInv, TypesOK, CallOK
  <2>2. SessionOK'
    BY <1>3 DEF IInv, TypesOK, SessionOK
  <2>3. AuxOK'
    BY DEF IInv, TypesOK, AuxOK, aux
  <2>4. MachineOK'
    BY DEF IInv, TypesOK, MachineOK, machine
  <2> QED
    BY <2>1, <2>2, <2>3, <2>4 DEF TypesOK
<1>10. TunWanted'
  BY TunStep, EngineRests DEF IInv
<1>11. Promised'
  BY <1>2, <1>3, <1>4 DEF IInv, Promised, NothingWithout, SessionOnDisk, AlteredIsRecorded, SessionHasLease,
         AnswersInSession
<1> QED
  BY <1>6, <1>8, <1>9, <1>10, <1>11 DEF IInv

LEMMA StartTunKeeps ==
  ASSUME IInv, NEW a \in Thread, StartTun(a) \/ StartRetry(a) \/ StartUntun(a)
  PROVE  IInv'
<1>1. CASE StartTun(a)
  <2>1. /\ pc[a] = "tun" /\ lifecycle = Free
        /\ UNCHANGED <<serial, lifecycle, stopping, event, worker, latest, started, after, victim,
                       trouble, aux, machine, left>>
    BY <1>1 DEF StartTun
  <2>2. CASE /\ AcquireTun /\ Goto(a, "setup")
             /\ UNCHANGED <<lock, active, devices, token, expected, awaited>>
    BY <2>1, <2>2, TunStepKeeps
  <2>3. CASE StartEnds(a) /\ UNCHANGED engine
    BY <2>1, <2>3, TunStepKeeps DEF StartEnds
  <2> QED
    BY <1>1, <2>2, <2>3 DEF StartTun
<1>2. CASE StartRetry(a)
  <2>1. /\ pc[a] = "retry" /\ lifecycle = Free
        /\ UNCHANGED <<serial, lifecycle, stopping, event, worker, latest, started, after, victim,
                       trouble, aux, machine, left>>
    BY <1>2 DEF StartRetry
  <2>2. CASE /\ ReleaseTun /\ Goto(a, "tun")
             /\ UNCHANGED <<lock, active, devices, token, expected, awaited>>
    BY <2>1, <2>2, TunStepKeeps
  <2>3. CASE StartEnds(a) /\ UNCHANGED engine
    BY <2>1, <2>3, TunStepKeeps DEF StartEnds
  <2> QED
    BY <1>2, <2>2, <2>3 DEF StartRetry
<1>3. CASE StartUntun(a)
  <2>1. /\ pc[a] = "untun" /\ lifecycle = Free
        /\ UNCHANGED <<serial, lifecycle, stopping, event, worker, latest, started, after, victim,
                       trouble, aux, machine, left>>
        /\ ReleaseTun \/ UNCHANGED engine
    BY <1>3 DEF StartUntun
  <2>2. StartEnds(a)
    BY <1>3 DEF StartUntun
  <2> QED
    BY <2>1, <2>2, TunStepKeeps DEF StartEnds
<1> QED
  BY <1>1, <1>2, <1>3

LEMMA StartUndoKeeps ==
  ASSUME IInv, NEW a \in Thread, StartUndo(a)
  PROVE  IInv'
<1>1. /\ pc[a] = "undo" /\ awaited' = awaited \cup {a} /\ Goto(a, "untun")
      /\ UNCHANGED <<locks, session, after, victim, trouble, expected, discovery, scanning,
                     batch, seen, failures, engine, left>>
  BY DEF StartUndo
<1>2. PICK arpOk \in BOOLEAN, windowsOk \in BOOLEAN :
        /\ RestoreState(arpOk, windowsOk)
        /\ file' = IF arpOk /\ windowsOk THEN None ELSE file
  BY DEF StartUndo
<1>3. /\ responder' = "off" /\ heard' = None /\ forwarding' = FALSE
      /\ lan' \subseteq Device /\ windows' \in {"user", "gateway"}
      /\ windowsOk => windows' = "user"
  BY <1>2, Restored DEF IInv, TypesOK
<1>4. pc[a] \in Starting
  BY <1>1 DEF Starting
<1>5. a \in Caller /\ ~active /\ file # None
  BY <1>1, <1>4, HeldByStart DEF IInv, Found, StartFound
<1>6. /\ UNCHANGED <<lock, serial, lifecycle, active, token, devices, started, after, victim>>
      /\ started <= started
  BY <1>1, ConstAssumption DEF locks, session, IInv, Control, Session
<1>7. Control' /\ Moves(a, "untun")
  BY <1>1, <1>4, <1>6, StartingControl DEF IInv, Control, Starting
<1>8. Found'
  BY <1>1, <1>3, <1>4, <1>5, <1>6, <1>7, StartingFound DEF IInv, Starting, Beginning
<1>9. TypesOK'
  <2>1. CallOK'
    BY <1>1, <1>5 DEF IInv, TypesOK, CallOK
  <2>2. SessionOK'
    BY <1>1 DEF IInv, TypesOK, SessionOK, session
  <2>3. AuxOK'
    BY <1>1, <1>3 DEF IInv, TypesOK, AuxOK
  <2>4. MachineOK'
    BY <1>2, <1>3 DEF IInv, TypesOK, MachineOK
  <2> QED
    BY <2>1, <2>2, <2>3, <2>4 DEF TypesOK
<1>10. TunWanted'
  BY <1>1, EngineRests DEF IInv
<1>11. Promised'
  BY <1>2, <1>3, <1>5, <1>6 DEF IInv, Promised, NothingWithout, SessionOnDisk, AlteredIsRecorded,
         SessionHasLease, AnswersInSession
<1> QED
  BY <1>7, <1>8, <1>9, <1>10, <1>11 DEF IInv

LEMMA SetUpKeeps ==
  ASSUME IInv, NEW a \in Thread, SetUp(a)
  PROVE  IInv'
<1> DEFINE s == started + 1
<1>1. PICK D \in SUBSET Device :
        /\ file' = [token |-> s, devices |-> D]
        /\ lan' = lan \cup Reached(D)
        /\ started' = s /\ token' = s /\ devices' = D /\ worker' = s
        /\ latest' = s
        /\ seen' = [seen EXCEPT ![s] = s]
        /\ pc' = [pc EXCEPT ![a] = "started", ![s] = "wait"]
  BY DEF SetUp
<1>2. /\ pc[a] = "setup" /\ started < MaxSession
      /\ windows' = "gateway" /\ forwarding' = TRUE /\ responder' = "listen"
      /\ active' = TRUE /\ stopping' = FALSE
      /\ discovery' \in {discovery, "begin"}
      /\ lock' = Free
      /\ UNCHANGED <<serial, lifecycle, event, calls, scanning, heard, batch, failures, engine, left>>
  BY DEF SetUp
<1>3. /\ started \in Nat /\ s \in Session /\ started <= s /\ s # 0 /\ s > started
      /\ ~(s > s) /\ s <= s
  BY <1>2, ConstAssumption DEF IInv, Control, Session
<1> HIDE DEF s
<1>4. /\ a \in Caller /\ a \notin Session /\ lock = a /\ serial # a /\ lifecycle # a
      /\ \A b \in Caller \ {a} : pc[b] \notin Locked
  BY <1>2, HeldByStart DEF IInv, Starting, Beginning
<1>5. s \in Caller /\ s # a /\ pc[s] = "dead"
  BY <1>3, <1>4 DEF IInv, Control, WorkersOK, WorkerOK, Caller
<1>6. Moves(a, "started")
  BY <1>1, <1>3, <1>4, <1>5 DEF Moves, PC, IInv, Control, ControlOK
<1>7. Control'
  <2>1. after' = after /\ UNCHANGED <<serial, lifecycle>>
    BY <1>2 DEF calls
  <2> QED
    BY <1>1, <1>2, <1>3, <1>4, <1>6, <2>1, FreeIsNoCaller, ControlStep
       DEF IInv, Control, ControlOK, Uses, Nested, Stopping, Locked, Starting, Beginning, PC
<1>8. Found'
  <2>1. \A b \in Caller \ {a} : pc[b] \notin {"join", "lock"} /\ pc[b] # "halt"
    BY <1>2, <1>4, NoneFoundOne, NoneHalts DEF IInv, Beginning
  <2> QED
    BY <1>4, <1>6, <2>1, FoundStep DEF IInv, Locked, Starting, Beginning, PC
<1>9. TypesOK'
  <2>1. CallOK'
    BY <1>2 DEF IInv, TypesOK, CallOK, calls
  <2>2. SessionOK'
    BY <1>1, <1>2, <1>3 DEF IInv, TypesOK, SessionOK
  <2>3. AuxOK'
    BY <1>1, <1>2, <1>3 DEF IInv, TypesOK, AuxOK
  <2>4. MachineOK'
    BY <1>1, <1>2, <1>3 DEF IInv, TypesOK, MachineOK, State, Reached
  <2> QED
    BY <2>1, <2>2, <2>3, <2>4 DEF TypesOK
<1>10. TunWanted' /\ lease' /\ file' # None
  BY <1>1, <1>2, <1>3, <1>4, EngineRests, NoneAssumption DEF IInv, Found, StartFound, State
<1>11. Promised'
  BY <1>1, <1>2, <1>3, <1>10 DEF Promised, NothingWithout, SessionOnDisk, AlteredIsRecorded,
         SessionHasLease, AnswersInSession
<1> QED
  BY <1>7, <1>8, <1>9, <1>10, <1>11 DEF IInv

LEMMA SetUpFailsKeeps ==
  ASSUME IInv, NEW a \in Thread, SetUpFails(a)
  PROVE  IInv'
<1>1. /\ pc[a] = "setup" /\ awaited' = awaited \cup {a}
      /\ UNCHANGED <<locks, active, stopping, event, token, devices, worker, latest, after, victim,
                     trouble, expected, discovery, scanning, heard, batch, seen, failures, engine, left>>
  BY DEF SetUpFails
<1>2. pc[a] \in Starting /\ a \in Caller /\ lock = a /\ lock # Free
  BY <1>1, HeldByStart, FreeIsNoCaller DEF IInv, Starting, Beginning
<1>3. ~active /\ file = None /\ responder = "off"
  BY <1>1, <1>2 DEF IInv, Found, StartFound, Starting, Beginning
<1>4. PICK p \in {"retry", "untun", "undo"} :
        /\ Goto(a, p)
        /\ p # "undo" => UNCHANGED machine /\ UNCHANGED <<started, responder>>
        /\ p = "undo" =>
             /\ started < MaxSession /\ started' = started + 1
             /\ \E D \in SUBSET Device, done \in 0..4 :
                  /\ file' = [token |-> started + 1, devices |-> D]
                  /\ forwarding' = (done >= 1)
                  /\ windows' = IF done >= 2 THEN "gateway" ELSE windows
                  /\ responder' = IF done >= 3 THEN "listen" ELSE responder
                  /\ lan' = IF done = 4 THEN lan \cup Reached(D) ELSE lan
  BY <1>1 DEF SetUpFails
<1>5. /\ started' \in Session \cup {0} /\ started <= started'
      /\ p = "undo" => started + 1 \in Session
  BY <1>4, ConstAssumption DEF IInv, Control, Session
<1>6. /\ MachineOK' /\ responder' \in {"off", "listen"}
      /\ p = "undo" => file' # None
      /\ p # "undo" => responder' = "off" /\ UNCHANGED <<file, windows>>
  <2>1. CASE p = "undo"
    <3>1. PICK D \in SUBSET Device, done \in 0..4 :
            /\ file' = [token |-> started + 1, devices |-> D]
            /\ forwarding' = (done >= 1)
            /\ windows' = IF done >= 2 THEN "gateway" ELSE windows
            /\ responder' = IF done >= 3 THEN "listen" ELSE responder
            /\ lan' = IF done = 4 THEN lan \cup Reached(D) ELSE lan
      BY <1>4, <2>1
    <3>2. file' \in State
      BY <1>5, <2>1, <3>1 DEF State
    <3>3. lan' \subseteq Device
      BY <3>1 DEF IInv, TypesOK, MachineOK, Reached
    <3> QED
      BY <1>3, <2>1, <3>1, <3>2, <3>3, NoneAssumption DEF IInv, TypesOK, MachineOK
  <2>2. CASE p # "undo"
    BY <1>3, <1>4, <2>2 DEF IInv, TypesOK, MachineOK, machine
  <2> QED
    BY <2>1, <2>2
<1>7. /\ UNCHANGED <<lock, serial, lifecycle, active, token, devices, after, victim, trouble, expected>>
      /\ p # "idle" /\ p \in Starting \cup {"idle"}
  BY <1>1 DEF locks, Starting, Beginning
<1>8. Control' /\ Moves(a, p)
  BY <1>2, <1>4, <1>5, <1>7, StartingControl DEF IInv, Control
<1>9. Found'
  BY <1>1, <1>2, <1>3, <1>6, <1>7, <1>8, StartingFound DEF IInv, Starting, Beginning
<1>10. TypesOK'
  <2>1. CallOK'
    BY <1>1, <1>2 DEF IInv, TypesOK, CallOK
  <2>2. SessionOK'
    BY <1>1, <1>5 DEF IInv, TypesOK, SessionOK
  <2>3. AuxOK'
    BY <1>1, <1>6 DEF IInv, TypesOK, AuxOK
  <2> QED
    BY <1>6, <2>1, <2>2, <2>3 DEF TypesOK
<1>11. TunWanted'
  BY <1>1, EngineRests DEF IInv
<1>12. Promised'
  BY <1>2, <1>3, <1>6, <1>7 DEF IInv, Promised, NothingWithout, SessionOnDisk, AlteredIsRecorded,
         SessionHasLease, AnswersInSession
<1> QED
  BY <1>8, <1>9, <1>10, <1>11, <1>12 DEF IInv

-----------------------------------------------------------------------------
(* Steps that are taken outside of the locks, and stop *)

Outside == PC \ (Locked \cup Stopping \cup {"halt"})

\* A caller goes from one place outside of the locks to another.
LEMMA OutsideKeeps ==
  ASSUME IInv, NEW a \in Caller, pc[a] \in Outside, NEW p \in Outside,
         Goto(a, p), NextAfter(a),
         p = "serial" => pc[a] = "serial" \/ after'[a] \in {"return", "life"},
         pc[a] = "serial" => p = "serial" /\ after' = after,
         a \in Session => WorkerOK(a, p, after'[a], started),
         UNCHANGED <<lock, serial, lifecycle, active, token, devices, file, windows, responder,
                     trouble, victim, started, lease>>,
         TypesOK', TunWanted'
  PROVE  IInv'
<1>1. p \in PC /\ p \notin Locked /\ p \notin Stopping /\ p # "halt"
      /\ pc[a] \notin Locked /\ pc[a] \notin Stopping /\ pc[a] # "halt"
  BY DEF Outside
<1>2. Moves(a, p)
  BY <1>1, GotoMoves DEF IInv, Control
<1>3. Control'
  BY <1>1, ControlSame DEF IInv, Nested, Stopping, Locked
<1>4. Found'
  BY <1>1, <1>2, FoundStep DEF IInv, Stopping, Locked, Starting, Beginning
<1>5. Promised'
  BY DEF IInv, Promised, NothingWithout, SessionOnDisk, AlteredIsRecorded, SessionHasLease,
         AnswersInSession
<1> QED
  BY <1>3, <1>4, <1>5 DEF IInv

LEMMA StartAfterKeeps ==
  ASSUME IInv, NEW a \in Thread, StartAfter(a)
  PROVE  IInv'
<1>1. a \in Caller /\ a \notin Session
  BY ThreadIsCaller
<1>2. /\ pc[a] = "started" /\ lifecycle = Free /\ expected' = expected \ {a}
      /\ UNCHANGED <<locks, session, victim, trouble, awaited, aux, machine, engine, left>>
  BY DEF StartAfter
<1>3. PICK p \in {"idle", "serial"} :
        /\ Goto(a, p) /\ NextAfter(a)
        /\ p = "serial" => after' = [after EXCEPT ![a] = "return"]
  BY DEF StartAfter, NextAfter
<1>4. p = "serial" => after'[a] = "return"
  BY <1>1, <1>3 DEF IInv, Control, ControlOK
<1>5. pc[a] \in Outside /\ p \in Outside
  BY <1>2 DEF Outside, PC, Locked, Starting, Beginning, Stopping
<1>6. TypesOK'
  BY <1>2 DEF IInv, TypesOK, CallOK, SessionOK, AuxOK, MachineOK, session, aux, machine
<1>7. UNCHANGED <<lock, serial, lifecycle, active, token, devices, file, windows, responder,
                  trouble, victim, started, lease>> /\ TunWanted'
  BY <1>2, EngineRests DEF locks, session, machine, aux, engine, IInv
<1> QED
  BY <1>1, <1>2, <1>3, <1>4, <1>5, <1>6, <1>7, OutsideKeeps

LEMMA StopSerialKeeps ==
  ASSUME IInv, NEW a \in Caller, StopSerial(a)
  PROVE  IInv'
<1>1. /\ pc[a] = "serial" /\ serial = Free /\ serial' = a /\ Goto(a, "mark")
      /\ UNCHANGED <<lock, lifecycle, session, calls, aux, machine, engine, left>>
  BY DEF StopSerial
<1>2. UNCHANGED <<active, token, devices, file, windows, responder,
                  trouble, victim, started, lease, after>>
  BY <1>1 DEF session, machine, aux, engine, calls
<1>3. Moves(a, "mark")
  BY <1>1, GotoMoves DEF IInv, Control, PC
<1>4. Control'
  <2>1. lock # a /\ (lifecycle = a <=> after[a] \in {"stop", "start"})
    BY <1>1 DEF IInv, Control, LockHeld, LifecycleHeld, Nested, Locked, Starting, Beginning
  <2>2. a \in Session => WorkerOK(a, "mark", after[a], started)
    BY <1>1 DEF IInv, Control, WorkersOK, WorkerOK, Stopping
  <2> QED
    BY <1>1, <1>2, <2>1, <2>2, ControlMove
       DEF IInv, Uses, NextAfter, Nested, Stopping, Locked, Starting, Beginning, PC
<1>5. Found'
  BY <1>2, <1>3, FoundStep DEF IInv, PC, Starting, Beginning
<1>6. TypesOK'
  BY <1>1 DEF IInv, TypesOK, CallOK, SessionOK, AuxOK, MachineOK, session, aux, machine, calls
<1> QED
  BY <1>1, <1>2, <1>4, <1>5, <1>6, MoveKeeps

LEMMA StopJoinKeeps ==
  ASSUME IInv, NEW a \in Caller, StopJoin(a)
  PROVE  IInv'
<1>1. /\ pc[a] = "join" /\ Goto(a, "lock")
      /\ UNCHANGED <<locks, session, calls, aux, machine, engine, left>>
  BY DEF StopJoin
<1>2. UNCHANGED <<lock, serial, lifecycle, active, token, devices, file, windows, responder,
                  trouble, victim, started, lease, after>>
  BY <1>1 DEF locks, session, machine, aux, engine, calls
<1>3. Moves(a, "lock")
  BY <1>1, GotoMoves DEF IInv, Control, PC
<1>4. Control'
  <2>1. a \in Session => WorkerOK(a, "lock", after[a], started)
    BY <1>1 DEF IInv, Control, WorkersOK, WorkerOK, Stopping
  <2> QED
    BY <1>1, <1>2, <2>1, ControlSame
       DEF IInv, NextAfter, Nested, Stopping, Locked, Starting, Beginning, PC
<1>5. Found'
  <2>1. /\ file # None /\ file.token = victim
        /\ \A b \in Caller \ {a} : pc[b] \notin Beginning \cup {"undo", "untun"}
    BY <1>1 DEF IInv, Found, StopFound
  <2> QED
    BY <1>2, <1>3, <2>1, FoundStep DEF IInv, PC, Starting, Beginning
<1>6. TypesOK'
  BY <1>1 DEF IInv, TypesOK, CallOK, SessionOK, AuxOK, MachineOK, session, aux, machine, calls
<1> QED
  BY <1>1, <1>2, <1>4, <1>5, <1>6, MoveKeeps

LEMMA StopMarkKeeps ==
  ASSUME IInv, NEW a \in Caller, StopMark(a)
  PROVE  IInv'
<1>1. /\ pc[a] = "mark" /\ lock = Free
      /\ UNCHANGED <<lock, lifecycle, active, token, devices, worker, latest, started, after,
                     trouble, expected, awaited, aux, machine, engine, left>>
  BY DEF StopMark
<1>2. UNCHANGED <<file, windows, responder, lease>> /\ TunWanted'
  BY <1>1, EngineRests DEF aux, machine, engine, IInv
<1>3. serial = a /\ pc[a] \in Stopping
  BY <1>1 DEF IInv, Control, SerialHeld, Stopping
<1>4. \A b \in Caller \ {a} : pc[b] \notin Locked /\ pc[b] \notin Stopping
  BY <1>1, <1>3, AloneLocked, AloneStopping DEF IInv
<1>5. Promised'
  BY <1>1, <1>2 DEF IInv, Promised, NothingWithout, SessionOnDisk, AlteredIsRecorded,
         SessionHasLease, AnswersInSession
<1>6. CASE file = None /\ ~active
  <2>1. serial' = Free /\ Return(a) /\ UNCHANGED <<stopping, event, victim>>
    BY <1>6 DEF StopMark
  <2>2. PICK p \in {"idle", "dead", "life", "halt"} :
           /\ Moves(a, p)
           /\ Nested(p, after[a]) <=> lifecycle = a
           /\ a \in Session => p = "dead"
    BY <1>3, <2>1, ReturnMoves DEF IInv
  <2>3. p \in PC /\ p \notin Locked /\ p \notin Stopping
    BY DEF PC, Locked, Starting, Beginning, Stopping
  <2>4. Control'
    BY <1>1, <1>3, <2>1, <2>2, <2>3, FreeIsNoCaller, ConstAssumption, ControlStep
       DEF IInv, Control, ControlOK, Uses, WorkerOK, Stopping, Session
  <2>5. Found'
    BY <1>1, <1>2, <1>4, <1>6, <2>1, <2>2, <2>3, FoundStep
       DEF IInv, Locked, Starting, Beginning, Stopping
  <2>6. TypesOK'
    BY <1>1, <2>1 DEF IInv, TypesOK, CallOK, SessionOK, AuxOK, MachineOK, aux, machine
  <2> QED
    BY <1>2, <1>5, <2>4, <2>5, <2>6 DEF IInv
<1>7. CASE ~(file = None /\ ~active)
  <2>1. /\ event' = event \cup {latest} /\ stopping' = TRUE
        /\ victim' = IF token # 0 THEN token ELSE file.token
        /\ Goto(a, "join") /\ serial' = serial
    BY <1>7 DEF StopMark
  <2>2. file # None /\ file.token = victim' /\ victim' \in Session \cup {0}
    BY <1>7, <2>1, NoneAssumption
       DEF IInv, Promised, SessionOnDisk, NothingWithout, TypesOK, MachineOK, State
  <2>3. Moves(a, "join") /\ "join" \in PC
    BY <2>1, GotoMoves DEF IInv, Control, PC
  <2>4. Control'
    <3>1. a \in Session => WorkerOK(a, "join", after[a], started)
      BY <1>1 DEF IInv, Control, WorkersOK, WorkerOK, Stopping
    <3> QED
      BY <1>1, <2>1, <2>3, <3>1, ControlSame
         DEF IInv, NextAfter, Nested, Stopping, Locked, Starting, Beginning
  <2>5. Found'
    BY <1>1, <1>2, <1>4, <2>1, <2>2, <2>3, FoundStep
       DEF IInv, Locked, Starting, Beginning, Stopping
  <2>6. TypesOK'
    BY <1>1, <2>1, <2>2 DEF IInv, TypesOK, CallOK, SessionOK, AuxOK, MachineOK, aux, machine
  <2> QED
    BY <1>2, <1>5, <2>4, <2>5, <2>6 DEF IInv
<1> QED
  BY <1>6, <1>7

LEMMA StopLockKeeps ==
  ASSUME IInv, NEW a \in Caller, StopLock(a)
  PROVE  IInv'
<1>1. /\ pc[a] = "lock" /\ lock = Free /\ victim' = 0
      /\ UNCHANGED <<lifecycle, active, event, token, devices, worker, latest, started, after,
                     trouble, expected, awaited, aux, machine, engine, left>>
  BY DEF StopLock
<1>2. UNCHANGED <<file, windows, responder, lease>> /\ TunWanted'
  BY <1>1, EngineRests DEF aux, machine, engine, IInv
<1>3. serial = a /\ file # None /\ file.token = victim
  BY <1>1 DEF IInv, Control, SerialHeld, Stopping, Found, StopFound
<1>4. lock' = a /\ Goto(a, "restore") /\ UNCHANGED <<serial, stopping>>
  BY <1>3 DEF StopLock
<1>5. \A b \in Caller \ {a} : pc[b] \notin Locked /\ pc[b] \notin Stopping
  BY <1>1, <1>3, AloneLocked, AloneStopping DEF IInv
<1>6. Moves(a, "restore") /\ "restore" \in PC
  BY <1>4, GotoMoves DEF IInv, Control, PC
<1>7. Control'
  <2>1. a \in Session => WorkerOK(a, "restore", after[a], started)
    BY <1>1 DEF IInv, Control, WorkersOK, WorkerOK, Stopping
  <2>2. lifecycle = a <=> after[a] \in {"stop", "start"}
    BY <1>1 DEF IInv, Control, LifecycleHeld, Nested, Stopping
  <2> QED
    BY <1>1, <1>3, <1>4, <1>6, <2>1, <2>2, ControlMove
       DEF IInv, Uses, NextAfter, Nested, Stopping, Locked
<1>8. Found'
  BY <1>1, <1>2, <1>5, <1>6, FoundStep DEF IInv, Starting, Beginning, Stopping
<1>9. TypesOK'
  BY <1>1, <1>4 DEF IInv, TypesOK, CallOK, SessionOK, AuxOK, MachineOK, aux, machine
<1>10. a # Free
  BY FreeIsNoCaller
<1> QED
  BY <1>1, <1>2, <1>4, <1>7, <1>8, <1>9, <1>10, MoveKeeps

\* The end of a stop, whatever failed in it.
LEMMA FinishKeeps ==
  ASSUME IInv, NEW a \in Caller, pc[a] \in {"restore", "release"},
         NEW bad \in BOOLEAN, Finish(a, bad),
         UNCHANGED <<after, victim, expected, left>>,
         AuxOK', lan' \subseteq Device, forwarding' \in BOOLEAN, windows' \in {"user", "gateway"},
         responder' = "off",
         windows' = "gateway" => windows = "gateway" /\ bad,
         TunWanted'
  PROVE  IInv'
<1>1. /\ file' = IF bad THEN file ELSE None
      /\ active' = FALSE /\ stopping' = FALSE /\ worker' = 0
      /\ token' = 0 /\ devices' = {}
      /\ lock' = Free /\ serial' = Free
      /\ trouble' = FALSE /\ awaited' = awaited \ {a}
      /\ Return(a)
      /\ UNCHANGED <<lifecycle, event, latest, started>>
  BY DEF Finish
<1>2. lock = a /\ serial = a /\ pc[a] \in Stopping
  BY DEF IInv, Control, LockHeld, SerialHeld, Locked, Stopping
<1>3. \A b \in Caller \ {a} : pc[b] \notin Locked /\ pc[b] \notin Stopping
  BY <1>2, AloneLocked, AloneStopping DEF IInv
<1>4. PICK p \in {"idle", "dead", "life", "halt"} :
         /\ Moves(a, p)
         /\ Nested(p, after[a]) <=> lifecycle = a
         /\ a \in Session => p = "dead"
  BY <1>1, <1>2, ReturnMoves DEF IInv
<1>5. p \in PC /\ p \notin Locked /\ p \notin Stopping
  BY DEF PC, Locked, Starting, Beginning, Stopping
<1>6. Control'
  BY <1>1, <1>2, <1>4, <1>5, FreeIsNoCaller, ConstAssumption, ControlStep
     DEF IInv, Control, ControlOK, Uses, WorkerOK, Stopping, Session
<1>7. Found'
  BY <1>1, <1>3, <1>4, <1>5, FoundStep
     DEF IInv, Locked, Starting, Beginning, Stopping
<1>8. TypesOK'
  BY <1>1 DEF IInv, TypesOK, CallOK, SessionOK, MachineOK
<1>9. Promised'
  BY <1>1 DEF IInv, Promised, NothingWithout, SessionOnDisk, AlteredIsRecorded,
         SessionHasLease, AnswersInSession
<1> QED
  BY <1>6, <1>7, <1>8, <1>9 DEF IInv

LEMMA StopRestoreKeeps ==
  ASSUME IInv, NEW a \in Caller, StopRestore(a)
  PROVE  IInv'
<1>1. /\ pc[a] = "restore"
      /\ UNCHANGED <<after, victim, expected, discovery, scanning, batch, seen, failures, engine, left>>
  BY DEF StopRestore
<1>2. PICK arpOk \in BOOLEAN, windowsOk \in BOOLEAN :
        /\ RestoreState(arpOk, windowsOk)
        /\ IF after[a] # "return"
           THEN Finish(a, ~(arpOk /\ windowsOk))
           ELSE /\ Goto(a, "release")
                /\ trouble' = ~(arpOk /\ windowsOk) /\ awaited' = awaited \cup {a}
                /\ UNCHANGED <<locks, session, file>>
  BY DEF StopRestore
<1> DEFINE bad == ~(arpOk /\ windowsOk)
<1>3. /\ responder' = "off" /\ heard' = None /\ forwarding' = FALSE
      /\ lan' \subseteq Device /\ windows' \in {"user", "gateway"}
      /\ windows' = "gateway" => windows = "gateway" /\ bad
  BY <1>2, Restored DEF IInv, TypesOK
<1>4. bad \in BOOLEAN
  OBVIOUS
<1>5. TunWanted' /\ lease' = lease
  BY <1>1, EngineRests DEF IInv
<1>6. AuxOK'
  BY <1>1, <1>3 DEF IInv, TypesOK, AuxOK
<1>7. CASE after[a] # "return"
  <2>1. Finish(a, bad)
    BY <1>2, <1>7
  <2> HIDE DEF bad
  <2> QED
    BY <1>1, <1>3, <1>4, <1>5, <1>6, <2>1, FinishKeeps
<1>8. CASE after[a] = "return"
  <2>1. /\ Goto(a, "release") /\ trouble' = bad /\ awaited' = awaited \cup {a}
        /\ UNCHANGED <<lock, serial, lifecycle, session, file>>
    BY <1>2, <1>8 DEF locks
  <2> HIDE DEF bad
  <2>2. UNCHANGED <<active, token, devices, started, stopping, event, worker, latest>>
    BY <2>1 DEF session
  <2>3. lock = a /\ serial = a /\ a # Free
    BY <1>1, FreeIsNoCaller DEF IInv, Control, LockHeld, SerialHeld, Locked, Stopping
  <2>4. \A b \in Caller \ {a} : pc[b] \notin Locked /\ pc[b] \notin Stopping
    BY <2>3, AloneLocked, AloneStopping DEF IInv
  <2>5. Moves(a, "release") /\ "release" \in PC
    BY <2>1, GotoMoves DEF IInv, Control, PC
  <2>6. Control'
    <3>1. a \in Session => WorkerOK(a, "release", after[a], started)
      BY <1>1 DEF IInv, Control, WorkersOK, WorkerOK, Stopping
    <3> QED
      BY <1>1, <1>8, <2>1, <2>2, <2>5, <3>1, ControlSame
         DEF IInv, NextAfter, Nested, Stopping, Locked
  <2>7. Found'
    BY <1>1, <1>3, <1>5, <2>1, <2>2, <2>4, <2>5, FoundStep DEF IInv, Starting, Beginning, Stopping
  <2>8. TypesOK'
    <3>1. CallOK'
      BY <1>1, <1>4, <2>1 DEF IInv, TypesOK, CallOK
    <3>2. SessionOK' /\ MachineOK'
      BY <1>3, <2>1, <2>2 DEF IInv, TypesOK, SessionOK, MachineOK
    <3> QED
      BY <1>6, <3>1, <3>2 DEF TypesOK
  <2>9. Promised'
    BY <1>3, <1>5, <2>1, <2>2 DEF IInv, Promised, NothingWithout, SessionOnDisk, AlteredIsRecorded,
           SessionHasLease, AnswersInSession
  <2> QED
    BY <1>5, <2>6, <2>7, <2>8, <2>9 DEF IInv
<1> QED
  BY <1>7, <1>8

LEMMA StopReleaseKeeps ==
  ASSUME IInv, NEW a \in Caller, StopRelease(a)
  PROVE  IInv'
<1>1. /\ pc[a] = "release"
      /\ UNCHANGED <<after, victim, expected, aux, forwarding, windows, lan, left>>
  BY DEF StopRelease
<1>2. PICK bad \in {trouble, TRUE} : Finish(a, bad) /\ (ReleaseTun \/ UNCHANGED engine)
  BY DEF StopRelease
<1>3. bad \in BOOLEAN /\ TunWanted'
  BY <1>2, TunStep, EngineRests DEF IInv, TypesOK, CallOK
<1>4. /\ AuxOK' /\ lan' \subseteq Device /\ forwarding' \in BOOLEAN /\ windows' \in {"user", "gateway"}
      /\ responder' = responder
  BY <1>1 DEF IInv, TypesOK, AuxOK, MachineOK, aux
<1>5. responder = "off" /\ (trouble \/ windows = "user")
  BY <1>1 DEF IInv, Found, StartFound, StopFound
<1>6. trouble => bad
  BY <1>2
<1> QED
  BY <1>1, <1>2, <1>3, <1>4, <1>5, <1>6, FinishKeeps

LEMMA StopKeeps ==
  ASSUME IInv, NEW a \in Caller, Stop(a)
  PROVE  IInv'
BY StopSerialKeeps, StopMarkKeeps, StopJoinKeeps, StopLockKeeps, StopRestoreKeeps, StopReleaseKeeps
   DEF Stop

-----------------------------------------------------------------------------
(* The engine *)

LEMMA EngineKeeps ==
  ASSUME IInv, NEW a \in Thread, Engine(a)
  PROVE  IInv'
<1>1. a \in Caller /\ a \notin Session
  BY ThreadIsCaller
<1>2. CASE EngineLife(a)
  <2>1. /\ pc[a] = "life" /\ lifecycle = Free /\ lifecycle' = a /\ Goto(a, "serial")
        /\ UNCHANGED <<lock, serial, session, victim, trouble, expected, awaited, aux, machine,
                       engine, left>>
    BY <1>2 DEF EngineLife
  <2>2. PICK x \in {"start", "stop"} : after' = [after EXCEPT ![a] = x]
    BY <1>2 DEF EngineLife
  <2>3. NextAfter(a) /\ after'[a] \in {"start", "stop"}
    BY <1>1, <2>2 DEF NextAfter, IInv, Control, ControlOK
  <2>4. UNCHANGED <<active, token, devices, file, windows, responder, started, lease>>
    BY <2>1 DEF session, machine, aux, engine
  <2>5. Moves(a, "serial") /\ "serial" \in PC
    BY <1>1, <2>1, GotoMoves DEF IInv, Control, PC
  <2>6. Control'
    <3>1. lock # a /\ serial # a
      BY <1>1, <2>1 DEF IInv, Control, LockHeld, SerialHeld, Locked, Starting, Beginning, Stopping
    <3> QED
      BY <1>1, <2>1, <2>3, <2>4, <2>5, <3>1, ControlMove
         DEF IInv, Uses, Nested, Stopping, Locked, Starting, Beginning
  <2>7. Found'
    BY <1>1, <2>1, <2>4, <2>5, FoundStep DEF IInv, Starting, Beginning
  <2>8. TypesOK'
    BY <2>1 DEF IInv, TypesOK, CallOK, SessionOK, AuxOK, MachineOK, session, aux, machine
  <2> QED
    BY <2>1, <2>4, <2>6, <2>7, <2>8, MoveKeeps
<1>3. CASE EngineHalt(a)
  <2>1. /\ pc[a] = "halt"
        /\ lease' = FALSE /\ ownsTun' = FALSE /\ tun' = "off" /\ userTun' = FALSE
        /\ running' \in BOOLEAN
        /\ expected' = {} /\ awaited' = {}
        /\ lifecycle' = Free
        /\ Goto(a, "idle")
        /\ UNCHANGED <<lock, serial, session, after, victim, trouble, aux, machine, left>>
    BY <1>3 DEF EngineHalt
  <2>2. UNCHANGED <<active, token, devices, file, windows, responder, started>>
    BY <2>1 DEF session, machine, aux
  <2>3. lifecycle = a /\ ~active /\ \A b \in Caller \ {a} : pc[b] # "setup"
    BY <1>1, <2>1 DEF IInv, Control, LifecycleHeld, Nested, Found, NoSessionAtHalt
  <2>4. Moves(a, "idle") /\ "idle" \in PC
    BY <1>1, <2>1, GotoMoves DEF IInv, Control, PC
  <2>5. Control'
    <3>1. lock # a /\ serial # a
      BY <1>1, <2>1 DEF IInv, Control, LockHeld, SerialHeld, Locked, Starting, Beginning, Stopping
    <3> QED
      BY <1>1, <2>1, <2>2, <2>3, <2>4, <3>1, ControlMove, FreeIsNoCaller
         DEF IInv, Uses, Nested, NextAfter, Stopping, Locked, Starting, Beginning
  <2>6. Found'
    BY <1>1, <2>1, <2>2, <2>3, <2>4, FoundStep DEF IInv, Starting, Beginning
  <2>7. TypesOK'
    BY <2>1 DEF IInv, TypesOK, CallOK, SessionOK, AuxOK, MachineOK, session, aux, machine
  <2>8. TunWanted'
    BY <2>1 DEF TunWanted, EngineOK, TunHasAWanter
  <2>9. Promised'
    BY <2>1, <2>2, <2>3 DEF IInv, Promised, NothingWithout, SessionOnDisk, AlteredIsRecorded,
           SessionHasLease, AnswersInSession
  <2> QED
    BY <2>5, <2>6, <2>7, <2>8, <2>9 DEF IInv
<1> QED
  BY <1>2, <1>3 DEF Engine

\* A step in which no caller goes anywhere.
LEMMA StillKeeps ==
  ASSUME IInv, TypesOK', TunWanted',
         UNCHANGED <<pc, after, lock, serial, lifecycle, started, active, token, victim, trouble,
                     windows, lease>>,
         responder' = "off" <=> responder = "off",
         file' = None <=> file = None,
         file # None => file'.token = file.token,
         ~active => devices' = devices,
         active => file'.devices = devices'
  PROVE  IInv'
<1>1. Control'
  BY DEF IInv, Control, ControlOK, LockHeld, SerialHeld, LifecycleHeld, Releasing, WorkersOK
<1>2. Found'
  BY DEF IInv, Found, StartFound, StopFound, NoSessionAtHalt
<1>3. Promised'
  BY DEF IInv, Promised, NothingWithout, SessionOnDisk, AlteredIsRecorded, SessionHasLease,
         AnswersInSession
<1> QED
  BY <1>1, <1>2, <1>3 DEF IInv

LEMMA OneLess ==
  ASSUME TypesOK, left > 0, left' = left - 1
  PROVE  left' \in 0..MaxRequests
BY ConstAssumption DEF TypesOK, CallOK

LEMMA TunOnOffKeeps ==
  ASSUME IInv, NEW a \in Thread, TunOn(a) \/ TunOff(a), left' \in 0..MaxRequests
  PROVE  IInv'
<1>1. UNCHANGED <<running, lease, pc, locks, session, calls, aux, machine>>
  BY DEF TunOn, TunOff
<1>2. UNCHANGED <<after, lock, serial, lifecycle, started, active, token, victim, trouble,
                  windows, responder, file, devices>>
  BY <1>1 DEF locks, session, calls, aux, machine
<1>3. TypesOK'
  BY <1>1 DEF IInv, TypesOK, CallOK, SessionOK, AuxOK, MachineOK, session, calls, aux, machine
<1>4. TunWanted'
  BY <1>1 DEF IInv, TunWanted, EngineOK, TunHasAWanter, TunOn, TunOff
<1>5. active => file.devices = devices
  BY DEF IInv, Promised, SessionOnDisk
<1> QED
  BY <1>1, <1>2, <1>3, <1>4, <1>5, StillKeeps

LEMMA RequestKeeps ==
  ASSUME IInv, NEW a \in Thread, Request(a)
  PROVE  IInv'
<1>1. a \in Caller /\ a \notin Session
  BY ThreadIsCaller
<1>2. pc[a] = "idle" /\ left' \in 0..MaxRequests
  <2>1. pc[a] = "idle" /\ left > 0 /\ left' = left - 1
    BY DEF Request
  <2> QED
    BY <2>1, OneLess DEF IInv
<1>3. CASE TunOn(a) \/ TunOff(a)
  BY <1>2, <1>3, TunOnOffKeeps
<1>4. CASE Enable(a) \/ Disable(a) \/ Connect(a) \/ Disconnect(a)
  <2>1. /\ UNCHANGED <<locks, session, victim, trouble, awaited, aux, machine, engine>>
        /\ expected' \in {expected, expected \cup {a}}
    BY <1>4 DEF Enable, Disable, Connect, Disconnect
  <2>2. PICK p \in {"start", "serial", "life"} :
          /\ Goto(a, p) /\ NextAfter(a)
          /\ p = "serial" => \E x \in {"return", "life"} : after' = [after EXCEPT ![a] = x]
    BY <1>4 DEF Enable, Disable, Connect, Disconnect, NextAfter
  <2>3. p = "serial" => after'[a] \in {"return", "life"}
    BY <1>1, <2>2 DEF IInv, Control, ControlOK
  <2>4. pc[a] \in Outside /\ p \in Outside
    BY <1>2 DEF Outside, PC, Locked, Starting, Beginning, Stopping
  <2>5. TypesOK'
    BY <1>1, <1>2, <2>1 DEF IInv, TypesOK, CallOK, SessionOK, AuxOK, MachineOK, session, aux, machine
  <2>6. UNCHANGED <<lock, serial, lifecycle, active, token, devices, file, windows, responder,
                    trouble, victim, started, lease>> /\ TunWanted'
    BY <2>1, EngineRests DEF locks, session, machine, aux, IInv
  <2> QED
    BY <1>1, <1>2, <2>2, <2>3, <2>4, <2>5, <2>6, OutsideKeeps
<1> QED
  BY <1>3, <1>4 DEF Request

-----------------------------------------------------------------------------
(* The workers, the discovery thread and the responder *)

LEMMA WorkerStepKeeps ==
  ASSUME IInv, NEW s \in Session, pc[s] \in Polling,
         NEW p \in Polling \cup {"serial", "dead"}, Goto(s, p), NextAfter(s),
         p = "serial" => after'[s] = "return",
         UNCHANGED <<locks, session, victim, trouble, expected, awaited, responder,
                     file, windows, engine, left>>,
         AuxOK', MachineOK'
  PROVE  IInv'
<1>1. s \in Caller /\ ~(s > started)
  BY DEF IInv, Control, WorkersOK, WorkerOK, Polling, Caller
<1>2. pc[s] \in Outside /\ p \in Outside
  BY DEF Outside, PC, Locked, Starting, Beginning, Stopping, Polling
<1>3. WorkerOK(s, p, after'[s], started)
  BY <1>1 DEF WorkerOK, Polling, Stopping
<1>4. TypesOK'
  BY DEF IInv, TypesOK, CallOK, SessionOK, session
<1>5. UNCHANGED <<lock, serial, lifecycle, active, token, devices, file, windows, responder,
                  trouble, victim, started, lease>> /\ TunWanted'
  BY EngineRests DEF locks, session, IInv
<1>6. pc[s] # "serial"
  BY DEF Polling
<1> QED
  BY <1>1, <1>2, <1>3, <1>4, <1>5, <1>6, OutsideKeeps

\* What a poll does to the counter of failures.
LEMMA PollCounts ==
  ASSUME IInv, NEW s \in Session, pc[s] \in Polling, Failed(s) \/ Passed(s)
  PROVE  /\ NextAfter(s) /\ failures' \in [Session -> 0..1]
         /\ \E p \in {"serial", "look"} : Goto(s, p) /\ (p = "serial" => after'[s] = "return")
<1>1. s \in Caller /\ after \in [Caller -> {"return", "life", "stop", "start"}]
      /\ failures \in [Session -> 0..1]
  BY DEF IInv, Control, ControlOK, TypesOK, AuxOK, Caller
<1> QED
  BY <1>1 DEF Failed, Passed, NextAfter

LEMMA WorkerKeeps ==
  ASSUME IInv, NEW s \in Session, Worker(s)
  PROVE  IInv'
<1>1. CASE WorkerEnds(s)
  <2>1. /\ pc[s] = "wait" /\ Goto(s, "dead")
        /\ seen' = [seen EXCEPT ![s] = 0] /\ failures' = [failures EXCEPT ![s] = 0]
        /\ UNCHANGED <<locks, session, calls, discovery, scanning, responder, heard, batch, machine,
                       engine, left>>
    BY <1>1 DEF WorkerEnds
  <2>2. AuxOK' /\ MachineOK'
    BY <2>1 DEF IInv, TypesOK, AuxOK, MachineOK, machine
  <2> QED
    BY <2>1, <2>2, WorkerStepKeeps DEF NextAfter, Polling, calls, machine
<1>2. CASE WorkerPoll(s)
  <2>1. /\ pc[s] = "wait"
        /\ UNCHANGED <<locks, session, victim, trouble, expected, awaited, discovery, scanning,
                       responder, heard, batch, seen, machine, engine, left>>
        /\ Failed(s) \/ Passed(s) \/ (Goto(s, "restart") /\ UNCHANGED <<failures, after>>)
    BY <1>2 DEF WorkerPoll
  <2>2. PICK p \in {"serial", "look", "restart"} :
          /\ Goto(s, p) /\ (p = "serial" => after'[s] = "return")
          /\ NextAfter(s) /\ failures' \in [Session -> 0..1]
    BY <2>1, PollCounts DEF Polling, NextAfter, IInv, TypesOK, AuxOK
  <2>3. AuxOK' /\ MachineOK'
    BY <2>1, <2>2 DEF IInv, TypesOK, AuxOK, MachineOK, machine
  <2> QED
    BY <2>1, <2>2, <2>3, WorkerStepKeeps DEF Polling, machine
<1>3. CASE WorkerRestart(s)
  <2>1. /\ pc[s] = "restart" /\ forwarding' \in {forwarding, TRUE}
        /\ UNCHANGED <<locks, session, victim, trouble, expected, awaited, discovery, scanning,
                       responder, heard, batch, seen, file, windows, lan, engine, left>>
        /\ Failed(s) \/ Passed(s)
    BY <1>3 DEF WorkerRestart
  <2>2. PICK p \in {"serial", "look"} :
          /\ Goto(s, p) /\ (p = "serial" => after'[s] = "return")
          /\ NextAfter(s) /\ failures' \in [Session -> 0..1]
    BY <2>1, PollCounts DEF Polling
  <2>3. AuxOK' /\ MachineOK'
    BY <2>1, <2>2 DEF IInv, TypesOK, AuxOK, MachineOK
  <2> QED
    BY <2>1, <2>2, <2>3, WorkerStepKeeps DEF Polling
<1>4. CASE WorkerLook(s)
  <2>1. /\ pc[s] = "look"
        /\ UNCHANGED <<locks, session, calls, scanning, responder, heard, failures, machine,
                       engine, left>>
        /\ discovery' \in {discovery, "begin"}
    BY <1>4 DEF WorkerLook
  <2>2. PICK p \in {"redirect", "wait"} :
          /\ Goto(s, p)
          /\ seen' = seen \/ seen' = [seen EXCEPT ![s] = latest]
          /\ batch' = batch \/ batch' = [batch EXCEPT ![s] = devices]
    BY <1>4 DEF WorkerLook, WaitAgain
  <2>3. AuxOK' /\ MachineOK'
    BY <2>1, <2>2 DEF IInv, TypesOK, AuxOK, MachineOK, SessionOK, machine
  <2> QED
    BY <2>1, <2>2, <2>3, WorkerStepKeeps DEF NextAfter, Polling, calls, machine
<1>5. CASE WorkerRedirect(s)
  <2>1. /\ pc[s] = "redirect" /\ Goto(s, "wait")
        /\ lan' = lan \cup batch[s]
        /\ batch' = [batch EXCEPT ![s] = {}]
        /\ seen' = [seen EXCEPT ![s] = latest]
        /\ UNCHANGED <<locks, session, calls, discovery, scanning, responder, heard, failures,
                       forwarding, file, windows, engine, left>>
    BY <1>5 DEF WorkerRedirect, WaitAgain
  <2>2. AuxOK' /\ MachineOK'
    BY <2>1 DEF IInv, TypesOK, AuxOK, MachineOK, SessionOK
  <2> QED
    BY <2>1, <2>2, WorkerStepKeeps DEF NextAfter, Polling, calls
<1> QED
  BY <1>1, <1>2, <1>3, <1>4, <1>5 DEF Worker

\* What the discovery and the responder do to the list of devices, in memory
\* and in the file.
Relists ==
  \/ UNCHANGED <<devices, file>>
  \/ /\ active /\ file # None /\ devices' \in SUBSET Device
     /\ file' = [file EXCEPT !.devices = devices']

LEMMA RelistKeeps ==
  ASSUME IInv, Relists, AuxOK', lan' \subseteq Device,
         UNCHANGED <<pc, locks, calls, engine, left, active, stopping, event, token, worker,
                     latest, started, forwarding, windows>>,
         responder' = "off" <=> responder = "off"
  PROVE  IInv'
<1>1. /\ file' = None <=> file = None
      /\ file # None => file' \in State /\ file'.token = file.token
      /\ ~active => devices' = devices
      /\ active => file'.devices = devices'
      /\ devices' \subseteq Device
  <2>1. CASE UNCHANGED <<devices, file>>
    BY <2>1 DEF IInv, Promised, SessionOnDisk, TypesOK, SessionOK, MachineOK
  <2>2. CASE ~UNCHANGED <<devices, file>>
    <3>1. active /\ file \in State /\ devices' \in SUBSET Device
          /\ file' = [file EXCEPT !.devices = devices']
      BY <2>2 DEF Relists, IInv, TypesOK, MachineOK
    <3>2. file' \in State /\ file'.token = file.token /\ file'.devices = devices'
      BY <3>1 DEF State
    <3> QED
      BY <3>1, <3>2, NoneAssumption
  <2> QED
    BY <2>1, <2>2
<1>2. TypesOK'
  <2>1. CallOK' /\ SessionOK'
    BY <1>1 DEF IInv, TypesOK, CallOK, SessionOK, calls
  <2>2. MachineOK'
    BY <1>1 DEF IInv, TypesOK, MachineOK
  <2> QED
    BY <2>1, <2>2 DEF TypesOK
<1>3. TunWanted' /\ lease' = lease
  BY EngineRests DEF IInv
<1> QED
  BY <1>1, <1>2, <1>3, StillKeeps DEF locks, calls

LEMMA RefreshKeeps == ASSUME IInv, Refresh PROVE IInv'
<1>1. UNCHANGED <<locks, active, stopping, event, token, worker, latest, started, calls,
                  responder, heard, seen, failures, forwarding, windows, engine, pc, left>>
  BY DEF Refresh
<1>2. CASE RefreshBegin
  BY <1>1, <1>2, RelistKeeps
     DEF RefreshBegin, DiscoveryEnds, Relists, IInv, TypesOK, AuxOK, SessionOK, MachineOK
<1>3. CASE RefreshMerge
  <2>1. CASE UnchangedSession(scanning)
    <3>1. PICK D \in SUBSET Device :
            /\ devices' = D /\ file' = [file EXCEPT !.devices = D]
            /\ batch' = [batch EXCEPT ![Discovery] = D]
            /\ discovery' = "check" /\ UNCHANGED scanning
      BY <1>3, <2>1 DEF RefreshMerge
    <3>2. lan' = lan
      BY <1>3 DEF RefreshMerge
    <3>3. Relists
      BY <2>1, <3>1 DEF Relists, UnchangedSession, InSession
    <3>4. AuxOK'
      BY <1>1, <3>1 DEF IInv, TypesOK, AuxOK
    <3> QED
      BY <1>1, <3>2, <3>3, <3>4, RelistKeeps DEF IInv, TypesOK, MachineOK
  <2>2. CASE ~UnchangedSession(scanning)
    BY <1>1, <1>3, <2>2, RelistKeeps
       DEF RefreshMerge, DiscoveryEnds, Relists, IInv, TypesOK, AuxOK, MachineOK
  <2> QED
    BY <2>1, <2>2
<1>4. CASE RefreshCheck
  BY <1>1, <1>4, RelistKeeps
     DEF RefreshCheck, DiscoveryEnds, Relists, IInv, TypesOK, AuxOK, MachineOK
<1>5. CASE RefreshSend
  <2>1. /\ lan' = lan \cup Reached(batch[Discovery]) /\ Relists
        /\ discovery' = "off" /\ scanning' = 0
        /\ batch' = [batch EXCEPT ![Discovery] = {}]
    BY <1>5 DEF RefreshSend, Relists
  <2>2. lan' \subseteq Device /\ AuxOK'
    BY <1>1, <2>1 DEF IInv, TypesOK, AuxOK, MachineOK, Reached
  <2> QED
    BY <1>1, <2>1, <2>2, RelistKeeps
<1> QED
  BY <1>2, <1>3, <1>4, <1>5 DEF Refresh

LEMMA RespondKeeps == ASSUME IInv, Respond PROVE IInv'
<1>1. UNCHANGED <<locks, active, stopping, event, token, worker, latest, started, calls,
                  discovery, scanning, batch, seen, failures, forwarding, windows, engine, pc,
                  left>>
  BY DEF Respond
<1>2. ASSUME NEW d \in Device, Hear(d)
      PROVE  IInv'
  BY <1>1, <1>2, RelistKeeps DEF Hear, Relists, IInv, TypesOK, AuxOK, MachineOK
<1>3. CASE RecordDevice
  <2>1. /\ responder = "answer" /\ responder' = "send" /\ heard \in Device
        /\ UNCHANGED <<heard, lan>>
    BY <1>3 DEF RecordDevice, IInv, TypesOK, AuxOK
  <2>2. Relists
    BY <1>3, <2>1 DEF RecordDevice, Relists, UnchangedSession, InSession, IInv, TypesOK, SessionOK
  <2>3. AuxOK' /\ lan' \subseteq Device
    BY <1>1, <2>1 DEF IInv, TypesOK, AuxOK, MachineOK
  <2> QED
    BY <1>1, <2>1, <2>2, <2>3, RelistKeeps
<1>4. CASE Answer
  <2>1. /\ responder = "send" /\ responder' = "listen" /\ heard \in Device /\ heard' = None
        /\ lan' \in {lan, lan \cup {heard}} /\ Relists
    BY <1>4 DEF Answer, Relists, IInv, TypesOK, AuxOK
  <2>2. AuxOK' /\ lan' \subseteq Device
    BY <1>1, <2>1 DEF IInv, TypesOK, AuxOK, MachineOK
  <2> QED
    BY <1>1, <2>1, <2>2, RelistKeeps
<1> QED
  BY <1>2, <1>3, <1>4 DEF Respond

LEMMA ForwarderDiesKeeps == ASSUME IInv, ForwarderDies PROVE IInv'
<1>1. /\ forwarding' = FALSE
      /\ UNCHANGED <<locks, session, calls, aux, file, windows, lan, engine, pc, left>>
  BY DEF ForwarderDies
<1>2. TypesOK'
  <2>1. CallOK' /\ SessionOK'
    BY <1>1 DEF IInv, TypesOK, CallOK, SessionOK, session, calls
  <2>2. AuxOK'
    BY <1>1 DEF IInv, TypesOK, AuxOK, aux
  <2>3. MachineOK'
    BY <1>1 DEF IInv, TypesOK, MachineOK
  <2> QED
    BY <2>1, <2>2, <2>3 DEF TypesOK
<1>3. TunWanted' /\ lease' = lease /\ (active => file.devices = devices)
  BY <1>1, EngineRests DEF IInv, Promised, SessionOnDisk
<1> QED
  BY <1>1, <1>2, <1>3, StillKeeps DEF locks, session, calls, aux

-----------------------------------------------------------------------------
(* Processes that end by themselves *)

\* Their log readers: callers that come from, or go to, a place outside of the locks.
LEMMA ReaderStepKeeps ==
  ASSUME IInv, NEW a \in Thread, pc[a] \in {"idle", "xray log", "tun log"},
         NEW p \in {"idle", "serial", "xray log", "tun log"}, Goto(a, p),
         after' = after \/ after' = [after EXCEPT ![a] = "life"],
         p = "serial" => after' = [after EXCEPT ![a] = "life"],
         expected' \in {expected, expected \cup {a}}, left' \in 0..MaxRequests,
         UNCHANGED <<locks, session, victim, trouble, awaited, aux, machine, lease>>,
         TunWanted'
  PROVE  IInv'
<1>1. a \in Caller /\ a \notin Session
  BY ThreadIsCaller
<1>2. NextAfter(a) /\ (p = "serial" => after'[a] = "life")
  BY <1>1 DEF NextAfter, IInv, Control, ControlOK
<1>3. pc[a] \in Outside /\ p \in Outside /\ pc[a] # "serial"
  BY DEF Outside, PC, Locked, Starting, Beginning, Stopping
<1>4. TypesOK'
  <2>1. CallOK'
    BY <1>1 DEF IInv, TypesOK, CallOK
  <2>2. SessionOK'
    BY DEF IInv, TypesOK, SessionOK, session
  <2>3. AuxOK' /\ MachineOK'
    BY DEF IInv, TypesOK, AuxOK, MachineOK, aux, machine
  <2> QED
    BY <2>1, <2>2, <2>3 DEF TypesOK
<1>5. UNCHANGED <<lock, serial, lifecycle, active, token, devices, file, windows, responder,
                  trouble, victim, started, lease>>
  BY DEF locks, session, machine, aux
<1> QED
  BY <1>1, <1>2, <1>3, <1>4, <1>5, OutsideKeeps

LEMMA DeathKeeps ==
  ASSUME IInv, NEW a \in Thread, XrayDies(a) \/ ReadLogs(a) \/ TunDies(a) \/ ReadTunLogs(a)
  PROVE  IInv'
<1>0. left \in 0..MaxRequests
  BY DEF IInv, TypesOK, CallOK
<1>1. CASE XrayDies(a)
  <2>1. /\ pc[a] = "idle" /\ left > 0 /\ left' = left - 1 /\ running' = FALSE
        /\ expected' = expected \cup {a} /\ Goto(a, "xray log")
        /\ UNCHANGED <<locks, session, after, victim, trouble, awaited, aux, machine, tun, lease,
                       ownsTun, userTun>>
    BY <1>1 DEF XrayDies
  <2>2. TunWanted'
    BY <2>1 DEF IInv, TunWanted, EngineOK, TunHasAWanter
  <2> QED
    BY <2>1, <2>2, OneLess, ReaderStepKeeps DEF IInv
<1>2. CASE ReadLogs(a)
  <2>1. /\ pc[a] = "xray log"
        /\ UNCHANGED <<locks, session, victim, trouble, expected, awaited, aux, machine, engine, left>>
    BY <1>2 DEF ReadLogs
  <2>2. PICK p \in {"serial", "idle"} :
          /\ Goto(a, p)
          /\ after' = after \/ after' = [after EXCEPT ![a] = "life"]
          /\ p = "serial" => after' = [after EXCEPT ![a] = "life"]
    BY <1>2 DEF ReadLogs
  <2>3. TunWanted' /\ lease' = lease
    BY <2>1, EngineRests DEF IInv
  <2> QED
    BY <1>0, <2>1, <2>2, <2>3, ReaderStepKeeps
<1>3. CASE TunDies(a)
  <2>1. /\ pc[a] = "idle" /\ left > 0 /\ left' = left - 1 /\ tun = "on" /\ tun' = "dead"
        /\ Goto(a, "tun log")
        /\ UNCHANGED <<locks, session, calls, aux, machine, running, lease, ownsTun, userTun>>
    BY <1>3 DEF TunDies
  <2>2. TunWanted'
    BY <2>1 DEF IInv, TunWanted, EngineOK, TunHasAWanter
  <2> QED
    BY <2>1, <2>2, OneLess, ReaderStepKeeps DEF IInv, calls
<1>4. CASE ReadTunLogs(a)
  <2>1. /\ pc[a] = "tun log" /\ tun' \in {tun, "off"}
        /\ UNCHANGED <<locks, session, victim, trouble, expected, awaited, aux, machine, running,
                       lease, ownsTun, userTun, left>>
    BY <1>4 DEF ReadTunLogs
  <2>2. PICK p \in {"serial", "idle"} :
          /\ Goto(a, p)
          /\ after' = after \/ after' = [after EXCEPT ![a] = "life"]
          /\ p = "serial" => after' = [after EXCEPT ![a] = "life"]
    BY <1>4 DEF ReadTunLogs
  <2>3. TunWanted'
    BY <2>1 DEF IInv, TunWanted, EngineOK, TunHasAWanter
  <2> QED
    BY <1>0, <2>1, <2>2, <2>3, ReaderStepKeeps
<1> QED
  BY <1>1, <1>2, <1>3, <1>4

-----------------------------------------------------------------------------
(* The theorems *)

LEMMA StartKeeps ==
  ASSUME IInv, NEW a \in Thread, Start(a)
  PROVE  IInv'
BY StartLockKeeps, StartRecoverKeeps, StartReadyKeeps, StartTunKeeps, SetUpKeeps, SetUpFailsKeeps,
   StartUndoKeeps, StartAfterKeeps
   DEF Start

LEMMA InitHolds == ASSUME Init PROVE IInv
<1>1. /\ lock = Free /\ serial = Free /\ lifecycle = Free /\ active = FALSE /\ victim = 0
      /\ pc = [c \in Caller |-> IF c \in Thread THEN "idle" ELSE "dead"]
      /\ after = [c \in Caller |-> "return"]
      /\ token = 0 /\ devices = {} /\ started = 0 /\ responder = "off"
      /\ tun = "off" /\ lease = FALSE
  BY DEF Init
<1>2. /\ file \in State \cup {None} /\ windows \in {"user", "gateway"} /\ lan \subseteq Device
      /\ windows = "gateway" => file # None
  BY NoneAssumption DEF Init, State
<1>3. TypesOK
  <2>1. CallOK
    <3>1. MaxRequests \in 0..MaxRequests
      BY ConstAssumption
    <3> QED
      BY <3>1 DEF Init, CallOK
  <2>2. SessionOK
    BY DEF Init, SessionOK
  <2>3. AuxOK
    BY DEF Init, AuxOK
  <2>4. MachineOK
    BY <1>2 DEF Init, MachineOK
  <2> QED
    BY <2>1, <2>2, <2>3, <2>4 DEF TypesOK
<1>4. ControlOK /\ started \in Session \cup {0}
  BY <1>1 DEF ControlOK, PC
<1>5. \A a \in Caller : pc[a] \in {"idle", "dead"} /\ (a \in Session => pc[a] = "dead")
  BY <1>1, ConstAssumption DEF Caller
<1>6. Control
  <2>1. LockHeld /\ SerialHeld /\ LifecycleHeld /\ Releasing
    BY <1>1, <1>5, FreeIsNoCaller
       DEF LockHeld, SerialHeld, LifecycleHeld, Releasing, Nested, Locked, Starting, Beginning, Stopping
  <2>2. WorkersOK
    BY <1>5 DEF WorkersOK, WorkerOK, Stopping, Caller
  <2> QED
    BY <1>4, <2>1, <2>2 DEF Control
<1>7. Found
  BY <1>5 DEF Found, StartFound, StopFound, NoSessionAtHalt, Starting, Beginning
<1>8. Promised
  BY <1>1, <1>2 DEF Promised, NothingWithout, SessionOnDisk, AlteredIsRecorded, SessionHasLease,
         AnswersInSession
<1>9. TunWanted
  BY DEF Init, TunWanted, EngineOK, TunHasAWanter
<1> QED
  BY <1>3, <1>6, <1>7, <1>8, <1>9 DEF IInv

LEMMA StepKeepsIInv == IInv /\ [Next]_vars => IInv'
<1> SUFFICES ASSUME IInv, [Next]_vars
             PROVE  IInv'
  OBVIOUS
<1>1. CASE UNCHANGED vars
  <2>1. UNCHANGED <<locks, session, calls, aux, machine, engine, pc, left>>
    BY <1>1 DEF vars
  <2>2. TypesOK'
    <3>1. CallOK' /\ SessionOK'
      BY <2>1 DEF IInv, TypesOK, CallOK, SessionOK, session, calls
    <3>2. AuxOK'
      BY <2>1 DEF IInv, TypesOK, AuxOK, aux
    <3>3. MachineOK'
      BY <2>1 DEF IInv, TypesOK, MachineOK, machine
    <3> QED
      BY <3>1, <3>2, <3>3 DEF TypesOK
  <2>3. TunWanted' /\ lease' = lease /\ (active => file.devices = devices)
    BY <2>1, EngineRests DEF IInv, Promised, SessionOnDisk
  <2> QED
    BY <2>1, <2>2, <2>3, StillKeeps DEF locks, session, calls, aux, machine
<1>2. ASSUME NEW a \in Thread, Request(a) \/ Run(a) \/ XrayDies(a) \/ TunDies(a)
      PROVE  IInv'
  BY <1>2, RequestKeeps, StartKeeps, EngineKeeps, DeathKeeps DEF Run
<1>3. ASSUME NEW a \in Caller, Stop(a)
      PROVE  IInv'
  BY <1>3, StopKeeps
<1>4. ASSUME NEW s \in Session, Worker(s)
      PROVE  IInv'
  BY <1>4, WorkerKeeps
<1>5. CASE Refresh \/ Respond \/ ForwarderDies
  BY <1>5, RefreshKeeps, RespondKeeps, ForwarderDiesKeeps
<1> QED
  BY <1>1, <1>2, <1>3, <1>4, <1>5 DEF Next

\* The inductive invariant: which caller is inside which lock, what it found
\* there, and what the manager, the state file, Windows and the engine have
\* promised one another.
THEOREM Invariant == Spec => []IInv
<1>1. Init => IInv
  BY InitHolds
<1>2. IInv /\ [Next]_vars => IInv'
  BY StepKeepsIInv
<1> QED
  BY <1>1, <1>2, PTL DEF Spec

\* Type correctness of the gateway manager, its threads, the machine and the
\* engine.
THEOREM TypeCorrect == Spec => []TypeOK
<1>1. IInv => TypeOK
  BY DEF IInv, TypesOK, CallOK, SessionOK, AuxOK, MachineOK, Control, ControlOK, TunWanted, EngineOK, TypeOK
<1> QED
  BY <1>1, Invariant, PTL

\* _save_state, _refresh_devices, _record_device: the state file of a live
\* session carries its token and the devices it redirects.
THEOREM SessionIsOnDisk == Spec => []SessionOnDisk
<1>1. IInv => SessionOnDisk
  BY DEF IInv, Promised
<1> QED
  BY <1>1, Invariant, PTL

\* start and stop in any order, failing anywhere: Windows never carries the
\* gateway settings without a state file to undo them from.
THEOREM AlteredAlwaysRecorded == Spec => []AlteredIsRecorded
<1>1. IInv => AlteredIsRecorded
  BY DEF IInv, Promised
<1> QED
  BY <1>1, Invariant, PTL

\* acquire_tun, release_tun and the engine's stop: a live session has the lease.
THEOREM SessionAlwaysHasLease == Spec => []SessionHasLease
<1>1. IInv => SessionHasLease
  BY DEF IInv, Promised
<1> QED
  BY <1>1, Invariant, PTL

\* acquire_tun, release_tun, enable_tun, disable_tun and the reader of the TUN
\* log: sing-box is there only while the user or the gateway wants it.
THEOREM TunAlwaysWanted == Spec => []TunHasAWanter
<1>1. IInv => TunHasAWanter
  BY DEF IInv, TunWanted
<1> QED
  BY <1>1, Invariant, PTL

\* The responder answers for the router only in a session or inside the start
\* or the stop of one.
THEOREM AnswersOnlyInSession == Spec => []AnswersInSession
<1>1. IInv => AnswersInSession
  BY DEF IInv, Promised
<1> QED
  BY <1>1, Invariant, PTL

-----------------------------------------------------------------------------
(* The TUN of the user, where sing-box does not end by itself                 *)

\* Who wants the TUN gets it, and the gateway owns none the user has.
Shared ==
  /\ tun \in {"off", "on"} /\ lease \in BOOLEAN /\ ownsTun \in BOOLEAN /\ userTun \in BOOLEAN
  /\ lease \/ userTun => tun = "on"
  /\ lease /\ userTun => ~ownsTun

\* What one step may do to the engine.
Served ==
  Shared' /\ (userTun /\ userTun' /\ tun = "on" => tun' = "on")

LEMMA LeaseServes ==
  ASSUME Shared, AcquireTun \/ ReleaseTun \/ UNCHANGED engine
  PROVE  Served
<1>1. CASE AcquireTun
  BY <1>1 DEF Shared, Served, AcquireTun
<1>2. CASE ReleaseTun
  BY <1>2 DEF Shared, Served, ReleaseTun
<1>3. CASE UNCHANGED engine
  BY <1>3 DEF Shared, Served, engine
<1> QED
  BY <1>1, <1>2, <1>3

LEMMA StepServes ==
  ASSUME Shared, "tun" \notin Faults, [Next]_vars
  PROVE  Served
<1>1. CASE UNCHANGED vars
  BY <1>1, LeaseServes DEF vars
<1>2. ASSUME NEW a \in Thread, Request(a)
      PROVE  Served
  <2>0. CASE TunOn(a)
    BY <2>0 DEF TunOn, Shared, Served
  <2>1. CASE TunOff(a)
    <3>1. CASE lease
      BY <2>1, <3>1 DEF TunOff, Shared, Served
    <3>2. CASE ~lease
      BY <2>1, <3>2 DEF TunOff, Shared, Served
    <3> QED
      BY <3>1, <3>2
  <2>2. CASE Enable(a) \/ Disable(a) \/ Connect(a) \/ Disconnect(a)
    BY <2>2, LeaseServes DEF Enable, Disable, Connect, Disconnect
  <2> QED
    BY <1>2, <2>0, <2>1, <2>2 DEF Request
<1>3. ASSUME NEW a \in Thread, Start(a)
      PROVE  Served
  BY <1>3, LeaseServes
     DEF Start, StartLock, StartRecover, StartReady, StartTun, SetUp, SetUpFails, StartRetry,
         StartUndo, StartUntun, StartAfter
<1>4. ASSUME NEW a \in Thread, Engine(a) \/ ReadLogs(a)
      PROVE  Served
  <2>1. CASE EngineHalt(a)
    BY <2>1 DEF EngineHalt, Shared, Served
  <2>2. CASE EngineLife(a) \/ ReadLogs(a)
    BY <2>2, LeaseServes DEF EngineLife, ReadLogs
  <2> QED
    BY <1>4, <2>1, <2>2 DEF Engine
\* No reader of sing-box finds it dead.
<1>5. ASSUME NEW a \in Thread, ReadTunLogs(a) \/ XrayDies(a) \/ TunDies(a)
      PROVE  Served
  <2>1. UNCHANGED <<tun, lease, ownsTun, userTun>>
    BY <1>5 DEF ReadTunLogs, XrayDies, TunDies, Shared
  <2> QED
    BY <2>1 DEF Shared, Served
<1>6. ASSUME NEW a \in Caller, Stop(a)
      PROVE  Served
  BY <1>6, LeaseServes
     DEF Stop, StopSerial, StopMark, StopJoin, StopLock, StopRestore, StopRelease
<1>7. ASSUME NEW s \in Session, Worker(s)
      PROVE  Served
  BY <1>7, LeaseServes
     DEF Worker, WorkerEnds, WorkerPoll, WorkerRestart, WorkerLook, WorkerRedirect
<1>8. CASE Refresh \/ Respond \/ ForwarderDies
  BY <1>8, LeaseServes DEF Refresh, Respond, ForwarderDies
<1> QED
  BY <1>1, <1>2, <1>3, <1>4, <1>5, <1>6, <1>7, <1>8 DEF Next, Run

\* Where sing-box does not end by itself, no start, stop, failed activation or
\* worker of the gateway takes the TUN mode of the user away, for any number of
\* threads and sessions: acquire_tun and release_tun keep the account right.
THEOREM UserKeepsTun == ASSUME "tun" \notin Faults
                        PROVE  Spec => UserTunKept
<1>1. Init => Shared
  BY DEF Init, Shared
<1>2. Shared /\ [Next]_vars => Shared'
  BY StepServes DEF Served
<1>3. Shared /\ [Next]_vars => [userTun /\ userTun' /\ tun = "on" => tun' = "on"]_vars
  BY StepServes DEF Served
<1> QED
  BY <1>1, <1>2, <1>3, PTL DEF Spec, UserTunKept
=============================================================================
