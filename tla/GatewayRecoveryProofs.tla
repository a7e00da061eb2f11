------------------------ MODULE GatewayRecoveryProofs ------------------------
(***************************************************************************)
(* Theorems about GatewayRecovery for any number of processes, sessions,   *)
(* attempts, faults and adapters, and any combination of faults.           *)
(***************************************************************************)
EXTENDS GatewayRecovery, TLAPS

-----------------------------------------------------------------------------
(* Types, by the part of the state *)

Place  == {"off", "gone", "look", "tell", "script", "settle", "unlink", "mutex",
           "idle", "start", "detect", "capture", "snapshot", "record", "guard",
           "apply", "redirect", "active", "stop", "wait", "watch"}
Reason == {"pre", "post", "start", "undo", "stop", "quit", "exit", "watch"}

WorldOK == file \in Record \cup {None} /\ altered \subseteq Setting /\ rules \subseteq Token
           /\ told \in BOOLEAN
PlaceOK == pc \in [Proc -> Place] /\ why \in [Proc -> Reason]
WorkOK  == held \in [Proc -> Record \cup {None}] /\ failed \in [Proc -> BOOLEAN]
           /\ script \in [Proc -> Script \cup {None}]
TokenOK == token \in [Instance -> Token \cup {0}] /\ owner \in [Token -> Instance \cup {0}]
           /\ tries \in [Token -> 0..MaxTries]
PastOK  == left \in 0..MaxFaults
           /\ mishap \subseteq {"overlap", "orphan", "unread", "silent", "power"}
Types == WorldOK /\ PlaceOK /\ WorkOK /\ TokenOK /\ PastOK

-----------------------------------------------------------------------------
(* The inductive invariant *)

Recovering == {"look", "tell", "script", "settle", "unlink"}

InstanceOK(i) ==
  /\ pc[i] \notin {"wait", "watch"} /\ why[i] # "watch"
  \* Before the mutex a process does nothing but recover.
  /\ why[i] = "pre" => pc[i] \in {"off", "gone", "mutex"} \cup Recovering
  /\ pc[i] \in {"off", "mutex"} => why[i] = "pre"
  /\ pc[i] = "stop" => why[i] \in {"stop", "quit"}
  \* A token lasts from the end of start to the end of stop.
  /\ token[i] # 0 => \/ pc[i] \in {"active", "stop", "gone"}
                     \/ why[i] \in {"stop", "quit", "exit"} /\ pc[i] \in Recovering
  /\ pc[i] = "active" => token[i] # 0
  /\ token[i] # 0 => owner[token[i]] = i
  \* start works with a record of its own, whose watchdog is not yet there.
  /\ pc[i] \in {"record", "guard", "apply", "redirect"} =>
       held[i] # None /\ owner[held[i].token] = i
  /\ pc[i] \in {"record", "guard"} => pc[Watchdog(held[i].token)] = "off"

\* A watchdog belongs to a session, and sleeps while the owner lives.
WatchdogOK(t) ==
  /\ pc[Watchdog(t)] \in {"off", "gone", "wait", "watch"} \cup Recovering
  /\ why[Watchdog(t)] = "watch"
  /\ owner[t] = 0 => pc[Watchdog(t)] = "off"
  /\ owner[t] # 0 => pc[owner[t]] # "off"
  /\ pc[Watchdog(t)] \in {"watch"} \cup Recovering => ~Alive(owner[t])
  /\ pc[Watchdog(t)] \in {"off", "wait", "watch"} => tries[t] > 0

\* A living process waits for its script, and works on the record it holds.
ProcOK(p) ==
  /\ pc[p] \in {"tell", "script", "settle"} => held[p] # None
  /\ script[p] # None => pc[p] \in {"apply", "script", "gone"}
  /\ pc[p] = "apply"  => script[p] # None /\ script[p].kind = "apply" /\ script[p].state = held[p]
  /\ pc[p] = "script" => script[p] # None /\ script[p].kind = "restore" /\ script[p].state = held[p]

AtMostOne == \A i, j \in Instance : PastMutex(i) /\ PastMutex(j) => i = j

Control ==
  /\ \A i \in Instance : InstanceOK(i)
  /\ \A t \in Token : WatchdogOK(t)
  /\ \A p \in Proc : ProcOK(p)
  /\ AtMostOne

\* From its record on, until it stops, a session has the network for itself:
\* its record is the one on disk and nobody else restores anything.
Holding(i) ==
  \/ pc[i] \in {"guard", "apply", "redirect", "active"}
  \/ pc[i] = "stop" /\ token[i] # 0

InForce(i) ==
  /\ file # None
  /\ pc[i] \in {"active", "stop"} => file.token = token[i]
  /\ pc[i] \in {"guard", "apply", "redirect"} => file = held[i]
  /\ \A q \in Proc \ {i} : ~Restoring(q) /\ ~Working(q)
  /\ pc[i] = "apply" /\ ~script[i].bad => Interface \ script[i].todo \subseteq altered
  /\ pc[i] \in {"redirect", "active"} => Interface \subseteq altered
  /\ pc[i] = "active" => told

NoOverlap == "overlap" \notin mishap
Forced == NoOverlap => \A i \in Instance : Holding(i) => InForce(i)

\* What is true of the network as long as no accident but the loss of power
\* has happened.
Good == mishap \subseteq {"power"}

\* Every snapshot is what the user had.
Clean(p) ==
  /\ held[p] # None => held[p].snap = {}
  /\ script[p] # None => script[p].state.snap = {}
  /\ script[p] # None /\ pc[p] = "gone" => script[p].kind = "restore"

\* start takes its snapshot of a network that is as the user had it.
Unaltered(i) == pc[i] \in {"detect", "capture", "snapshot", "record"} => ~Altered

\* How far a restore has come.
Progress(q) ==
  /\ pc[q] = "script" => /\ ~failed[q] => ~told
                         /\ altered \subseteq script[q].todo
                         /\ rules \subseteq {held[q].token}
                         /\ "rule" \in script[q].todo \/ rules = {}
  /\ pc[q] = "settle" /\ ~failed[q] => ~Altered
  /\ pc[q] = "unlink" => ~Altered

\* All who restore at the same time restore the record on disk.
SameRecord(q) ==
  Restoring(q) => /\ held[q] # None
                  /\ file # None => file = held[q]
                  /\ \A r \in Proc : Restoring(r) => held[r] = held[q]

Network ==
  /\ Altered => file # None /\ rules \subseteq {file.token}
  /\ file # None => file.snap = {}

Recorded ==
  Good => /\ Network
          /\ \A i \in Instance : Unaltered(i)
          /\ \A q \in Proc : Clean(q) /\ Progress(q) /\ SameRecord(q)

IInv == Types /\ Control /\ Forced /\ Recorded

-----------------------------------------------------------------------------
(* Facts about the constants *)

LEMMA Numbers ==
  /\ Instance \subseteq Proc /\ Instance \subseteq Nat /\ Proc \subseteq Nat
  /\ 0 \notin Proc /\ 0 \notin Token
  /\ \A t \in Token : Watchdog(t) \in Proc /\ Watchdog(t) \notin Instance
  /\ \A t, u \in Token : Watchdog(t) = Watchdog(u) => t = u
  /\ \A p \in Proc \ Instance : p - MaxInstance \in Token /\ p = Watchdog(p - MaxInstance)
BY RecoveryAssumption DEF Instance, Token, Proc, Watchdog

LEMMA FaultLeft ==
  ASSUME PastOK, NEW f, Fault(f) \/ UNCHANGED left
  PROVE  left' \in 0..MaxFaults
BY RecoveryAssumption DEF PastOK, Fault

LEMMA Settings == "rule" \notin Setting /\ "router" \in Setting /\ Interface \subseteq Setting
BY RecoveryAssumption DEF Setting

-----------------------------------------------------------------------------
(* A step of one process *)

\* Process p moves, and at most the watchdog it launches besides.
Moves(p) ==
  /\ \A q \in Proc \ {p} :
       /\ \/ pc'[q] = pc[q]
          \/ /\ pc[q] = "off" /\ pc'[q] = "wait"
             /\ \E t \in Token : q = Watchdog(t) /\ owner[t] = p
       /\ why'[q] = why[q] /\ held'[q] = held[q] /\ failed'[q] = failed[q]
       /\ script'[q] = script[q]
  /\ \A i \in Instance \ {p} : token'[i] = token[i]
  /\ (pc[p] = "gone" => pc'[p] = "gone") /\ pc'[p] # "off"
  /\ p \notin Instance => pc[p] # "off"

LEMMA ControlStep ==
  ASSUME Types, Control, NEW p \in Proc, Moves(p),
         \A t \in Token : \/ owner'[t] = owner[t] /\ (tries'[t] = tries[t] \/ p = Watchdog(t))
                          \/ owner[t] = 0 /\ owner'[t] = p /\ tries'[t] = tries[t],
         p \in Instance => InstanceOK(p)',
         \A t \in Token : p = Watchdog(t) => WatchdogOK(t)',
         ProcOK(p)',
         p \in Instance /\ PastMutex(p)' =>
           PastMutex(p) \/ \A j \in Instance \ {p} : ~PastMutex(j)
  PROVE  Control'
<1>1. ASSUME NEW i \in Instance PROVE InstanceOK(i)'
  <2>1. CASE i = p
    BY <2>1
  <2>2. CASE i # p
    <3>1. pc'[i] = pc[i] /\ why'[i] = why[i] /\ held'[i] = held[i] /\ token'[i] = token[i]
      BY <2>2, Numbers DEF Moves
    <3>2. /\ token[i] \in Token \cup {0} /\ held[i] \in Record \cup {None} /\ i # 0
          /\ held[i] # None => held[i].token \in Token
      BY Numbers DEF Types, TokenOK, WorkOK, Record
    <3>3. ASSUME NEW t \in Token, owner[t] = i
          PROVE  owner'[t] = i /\ (pc[Watchdog(t)] = "off" => pc'[Watchdog(t)] = "off")
      BY <2>2, <3>2, <3>3, Numbers DEF Moves
    <3> QED
      BY <3>1, <3>2, <3>3 DEF Control, InstanceOK
  <2> QED
    BY <2>1, <2>2
<1>2. ASSUME NEW t \in Token PROVE WatchdogOK(t)'
  <2>1. CASE Watchdog(t) = p
    BY <2>1
  <2>2. CASE Watchdog(t) # p
    <3> DEFINE w == Watchdog(t)
    <3>1. w \in Proc /\ why'[w] = why[w] /\ tries'[t] = tries[t]
      BY <2>2, Numbers DEF Moves
    <3>2. \/ pc'[w] = pc[w]
          \/ pc[w] = "off" /\ pc'[w] = "wait" /\ owner[t] = p /\ p # 0
      <4> SUFFICES ASSUME pc'[w] # pc[w]
                   PROVE  pc[w] = "off" /\ pc'[w] = "wait" /\ owner[t] = p /\ p # 0
        OBVIOUS
      <4>1. pc[w] = "off" /\ pc'[w] = "wait" /\ \E u \in Token : w = Watchdog(u) /\ owner[u] = p
        BY <2>2, <3>1 DEF Moves
      <4> QED
        BY <4>1, Numbers
    <3>3. owner[t] \in Instance \cup {0} /\ 0 \notin Proc /\ Instance \subseteq Proc
      BY Numbers DEF Types, TokenOK
    <3>4. \A i \in Instance : \/ pc'[i] = pc[i] \/ i = p
      BY Numbers DEF Moves
    <3>5. WatchdogOK(t) /\ (pc[p] = "gone" => pc'[p] = "gone") /\ pc'[p] # "off"
      BY DEF Control, Moves
    <3>6. \/ owner'[t] = owner[t]
          \/ owner[t] = 0 /\ owner'[t] = p
      OBVIOUS
    <3>7. CASE owner'[t] = owner[t]
      BY <3>1, <3>2, <3>3, <3>4, <3>5, <3>7 DEF WatchdogOK, Alive, Recovering
    <3>8. CASE owner[t] = 0 /\ owner'[t] = p
      BY <3>1, <3>2, <3>3, <3>4, <3>5, <3>8 DEF WatchdogOK, Alive, Recovering
    <3> QED
      BY <3>6, <3>7, <3>8
  <2> QED
    BY <2>1, <2>2
<1>3. ASSUME NEW q \in Proc PROVE ProcOK(q)'
  <2>1. CASE q = p
    BY <2>1
  <2>2. CASE q # p
    BY <2>2 DEF Moves, Control, ProcOK
  <2> QED
    BY <2>1, <2>2
<1>4. AtMostOne'
  <2>1. \A i \in Instance \ {p} : PastMutex(i)' => PastMutex(i)
    BY Numbers DEF Moves, PastMutex, Alive
  <2> QED
    BY <2>1 DEF Control, AtMostOne
<1> QED
  BY <1>1, <1>2, <1>3, <1>4 DEF Control

\* Who is past the mutex has no session beside its own.
LEMMA Alone ==
  ASSUME Control, NEW p \in Instance, PastMutex(p)
  PROVE  \A i \in Instance \ {p} : ~PastMutex(i) /\ ~Holding(i)
BY DEF Control, AtMostOne, PastMutex, Holding, Alive, InstanceOK, Recovering

LEMMA ForcedStep ==
  ASSUME Types, Forced, NEW p \in Proc, Moves(p), NoOverlap' => NoOverlap,
         \A i \in Instance \ {p} : NoOverlap' /\ Holding(i) /\ InForce(i) =>
           /\ file' = file /\ altered \subseteq altered' /\ (told => told')
           /\ ~Restoring(p)' /\ ~Working(p)',
         p \in Instance /\ NoOverlap' /\ Holding(p)' => InForce(p)'
  PROVE  Forced'
<1> SUFFICES ASSUME NoOverlap', NEW i \in Instance, Holding(i)', i # p
             PROVE  InForce(i)'
  BY DEF Forced
<1>1. pc'[i] = pc[i] /\ held'[i] = held[i] /\ token'[i] = token[i] /\ script'[i] = script[i]
  BY Numbers DEF Moves
<1>2. Holding(i) /\ InForce(i)
  BY <1>1 DEF Holding, Forced
<1>3. /\ file' = file /\ altered \subseteq altered' /\ (told => told')
      /\ ~Restoring(p)' /\ ~Working(p)'
  BY <1>2
<1>4. \A q \in Proc \ {i} : ~Restoring(q)' /\ ~Working(q)'
  BY <1>2, <1>3 DEF InForce, Moves, Restoring, Working
<1> QED
  BY <1>1, <1>2, <1>3, <1>4 DEF InForce

\* The network comes closer to what the user had.
Shrinks == altered' \subseteq altered /\ rules' \subseteq rules /\ (told' => told)

LEMMA RecordedStep ==
  ASSUME Types, Control, Recorded, NEW p \in Proc, Moves(p), Good' => Good,
         Good' => Shrinks \/ /\ p \in Instance /\ PastMutex(p)
                             /\ \A q \in Proc \ {p} : ~Restoring(q),
         Good' /\ file' # None => \A q \in Proc \ {p} : Restoring(q) => file' = held[q],
         Good' => Network',
         Good' /\ p \in Instance => Unaltered(p)',
         Good' => Clean(p)' /\ Progress(p)',
         Good' /\ Restoring(p)' =>
           /\ held'[p] # None
           /\ file' # None => file' = held'[p]
           /\ \A r \in Proc \ {p} : Restoring(r) => held[r] = held'[p]
  PROVE  Recorded'
<1> SUFFICES ASSUME Good'
             PROVE  /\ \A i \in Instance \ {p} : Unaltered(i)'
                    /\ \A q \in Proc \ {p} : Clean(q)' /\ Progress(q)'
                    /\ \A q \in Proc : SameRecord(q)'
  BY DEF Recorded
<1>1. Good /\ Recorded
  OBVIOUS
<1>2. /\ \A i \in Instance \ {p} : pc'[i] = pc[i]
      /\ \A q \in Proc \ {p} : /\ pc'[q] = pc[q] \/ pc'[q] = "wait"
                               /\ held'[q] = held[q] /\ failed'[q] = failed[q]
                               /\ script'[q] = script[q]
                               /\ Restoring(q)' <=> Restoring(q)
                               /\ pc'[q] = "gone" => pc[q] = "gone"
  BY Numbers DEF Moves, Restoring
<1>3. ASSUME NEW i \in Instance \ {p} PROVE Unaltered(i)'
  <2>1. CASE Shrinks
    BY <1>1, <1>2, <2>1 DEF Recorded, Unaltered, Altered, Shrinks
  <2>2. CASE p \in Instance /\ PastMutex(p)
    <3>1. ~PastMutex(i)
      BY <2>2, Alone
    <3> QED
      BY <1>2, <3>1 DEF Control, InstanceOK, PastMutex, Alive, Unaltered, Recovering
  <2> QED
    BY <2>1, <2>2
<1>4. ASSUME NEW q \in Proc \ {p} PROVE Clean(q)' /\ Progress(q)'
  <2>1. Clean(q)'
    BY <1>1, <1>2 DEF Recorded, Clean
  <2>2. CASE Shrinks
    BY <1>1, <1>2, <2>1, <2>2 DEF Recorded, Progress, Altered, Shrinks
  <2>3. CASE ~Restoring(q)
    BY <1>2, <2>1, <2>3 DEF Progress, Restoring
  <2> QED
    BY <2>2, <2>3
<1>5. ASSUME NEW q \in Proc PROVE SameRecord(q)'
  <2>1. CASE q = p
    BY <1>2, <2>1 DEF SameRecord
  <2>2. CASE q # p
    <3> SUFFICES ASSUME Restoring(q)
                 PROVE  SameRecord(q)'
      BY <1>2, <2>2 DEF SameRecord
    <3>1. /\ held[q] # None
          /\ \A r \in Proc : Restoring(r) => held[r] = held[q]
      BY <1>1 DEF Recorded, SameRecord
    <3>2. file' # None => file' = held[q]
      BY <2>2
    <3>3. Restoring(p)' => held[q] = held'[p]
      BY <2>2
    <3>4. ASSUME NEW r \in Proc, Restoring(r)' PROVE held'[r] = held'[q]
      BY <1>2, <2>2, <3>1, <3>3, <3>4
    <3> QED
      BY <1>2, <2>2, <3>1, <3>2, <3>4 DEF SameRecord
  <2> QED
    BY <2>1, <2>2
<1> QED
  BY <1>3, <1>4, <1>5

-----------------------------------------------------------------------------
(* Steps that leave the file and the network alone *)

LEMMA QuietForced ==
  ASSUME Types, Forced, NEW p \in Proc, Moves(p), NoOverlap' => NoOverlap, UNCHANGED world,
         ~Restoring(p)', ~Working(p)', p \in Instance => ~Holding(p)'
  PROVE  Forced'
<1>1. file' = file /\ altered' = altered /\ told' = told
  BY DEF world
<1> QED
  BY <1>1, ForcedStep

LEMMA QuietRecorded ==
  ASSUME Types, Control, Recorded, NEW p \in Proc, Moves(p), Good' => Good, UNCHANGED world,
         ~Restoring(p)',
         held'[p] = held[p] \/ held'[p] = None, script'[p] = script[p] \/ script'[p] = None,
         pc'[p] = "gone" /\ script'[p] # None /\ Good' => script[p].kind = "restore",
         Good' /\ p \in Instance => Unaltered(p)'
  PROVE  Recorded'
<1>1. file' = file /\ altered' = altered /\ rules' = rules /\ told' = told
  BY DEF world
<1>2. Shrinks
  BY <1>1 DEF Shrinks
<1>3. Good' => Network'
  BY <1>1 DEF Recorded, Network, Altered
<1>4. Good' /\ file' # None => \A q \in Proc \ {p} : Restoring(q) => file' = held[q]
  BY <1>1 DEF Recorded, SameRecord
<1>5. Good' => Clean(p)' /\ Progress(p)'
  BY DEF Recorded, Clean, Progress, Restoring
<1> QED
  BY <1>2, <1>3, <1>4, <1>5, RecordedStep

\* Where the code goes on when a recover or a restore is over.
LEMMA ResumeControl ==
  ASSUME Types, Control, NEW p \in Proc, NEW ok \in BOOLEAN, Resume(p, ok),
         \/ pc[p] \in {"look", "settle", "unlink"}
         \/ p \in Instance /\ pc[p] = "stop",
         UNCHANGED <<script, owner, tries>>
  PROVE  /\ Control' /\ Moves(p) /\ PlaceOK' /\ WorkOK' /\ TokenOK'
         /\ held'[p] = None /\ script[p] = None
         /\ pc'[p] \in {"mutex", "detect", "idle", "look", "gone", "watch"}
         /\ pc'[p] = "detect" => ok
<1>1. /\ pc[p] \in Place /\ why[p] \in Reason /\ script[p] = None
      /\ p \in Instance => token[p] \in Token \cup {0} /\ InstanceOK(p)
  BY DEF Types, PlaceOK, TokenOK, Control, ProcOK
<1>2. /\ held' = [held EXCEPT ![p] = None] /\ failed' = [failed EXCEPT ![p] = FALSE]
      /\ held'[p] = None /\ failed'[p] = FALSE
      /\ \A q \in Proc \ {p} : held'[q] = held[q] /\ failed'[q] = failed[q]
      /\ held' \in [Proc -> Record \cup {None}] /\ failed' \in [Proc -> BOOLEAN]
  BY DEF Resume, Types, WorkOK
<1>3. CASE p \in Instance
  <2>1. /\ why[p] # "watch"
        /\ p \notin {}
    BY <1>1, <1>3 DEF InstanceOK
  <2>2. PICK l \in {"mutex", "detect", "idle", "look", "gone"} :
          /\ pc' = [pc EXCEPT ![p] = l]
          /\ why[p] = "pre" <=> l = "mutex"
          /\ why[p] = "quit" <=> l = "look"
          /\ l = "detect" => ok
          /\ why[p] = "exit" <=> l = "gone"
    BY <2>1 DEF Resume
  <2>3. PICK y \in {"exit", "pre", "post"} :
          /\ why' = [why EXCEPT ![p] = y]
          /\ y = "exit" <=> why[p] = "quit"
          /\ y = "pre" <=> why[p] = "pre"
    BY <2>1 DEF Resume, Types, PlaceOK
  <2>4. PICK k \in {0, token[p]} :
          /\ token' = [token EXCEPT ![p] = k]
          /\ why[p] = "stop" => k = 0
    BY <1>3 DEF Resume, Types, TokenOK
  <2>5. /\ pc' \in [Proc -> Place] /\ why' \in [Proc -> Reason]
        /\ token' \in [Instance -> Token \cup {0}]
        /\ pc'[p] = l /\ why'[p] = y /\ token'[p] = k
        /\ \A q \in Proc \ {p} : pc'[q] = pc[q] /\ why'[q] = why[q]
        /\ \A i \in Instance \ {p} : token'[i] = token[i]
    BY <1>1, <1>3, <2>2, <2>3, <2>4 DEF Types, PlaceOK, TokenOK, Place, Reason
  <2>6. Moves(p)
    BY <1>1, <1>2, <1>3, <2>5 DEF Moves
  <2>7. InstanceOK(p)'
    BY <1>1, <1>3, <2>1, <2>2, <2>3, <2>4, <2>5 DEF InstanceOK, Recovering
  <2>8. ProcOK(p)'
    BY <1>1, <2>5 DEF ProcOK
  <2>9. PastMutex(p)' => PastMutex(p)
    BY <1>1, <2>2, <2>3, <2>5 DEF PastMutex, Alive
  <2>10. Control'
    BY <1>3, <2>6, <2>7, <2>8, <2>9, Numbers, ControlStep
  <2> QED
    BY <1>1, <1>2, <2>2, <2>5, <2>6, <2>10 DEF PlaceOK, WorkOK, TokenOK, Types
<1>4. CASE p \notin Instance
  <2>1. PICK t \in Token : p = Watchdog(t)
    BY <1>4, Numbers
  <2>2. WatchdogOK(t) /\ why[p] = "watch" /\ t = p - MaxInstance
    BY <2>1, RecoveryAssumption DEF Control, WatchdogOK, Watchdog, Token
  <2>3. PICK l \in {"gone", "watch"} :
          pc' = [pc EXCEPT ![p] = l] /\ (l = "watch" => tries[t] # 0)
    BY <2>2 DEF Resume
  <2>4. why' = [why EXCEPT ![p] = "watch"] /\ token' = token
    BY <2>2 DEF Resume, Types, PlaceOK
  <2>5. /\ pc' \in [Proc -> Place] /\ why' \in [Proc -> Reason]
        /\ pc'[p] = l /\ why'[p] = "watch"
        /\ \A q \in Proc \ {p} : pc'[q] = pc[q] /\ why'[q] = why[q]
        /\ tries[t] \in 0..MaxTries /\ owner[t] \in Instance \cup {0}
    BY <2>3, <2>4 DEF Types, PlaceOK, TokenOK, Place, Reason
  <2>6. Moves(p)
    BY <1>1, <1>2, <1>4, <2>2, <2>4, <2>5 DEF Moves
  <2>7. WatchdogOK(t)'
    <3>1. \A i \in Instance : pc'[i] = pc[i]
      BY <1>4, <2>5, Numbers
    <3>2. pc[p] \in Recovering
      BY <1>4 DEF Recovering
    <3>3. l = "watch" => tries[t] > 0
      BY <2>3, <2>5, RecoveryAssumption
    <3> QED
      BY <2>1, <2>2, <2>5, <3>1, <3>2, <3>3 DEF WatchdogOK, Alive, Recovering
  <2>8. ProcOK(p)'
    BY <1>1, <2>5 DEF ProcOK
  <2>9. Control'
    BY <1>4, <2>1, <2>6, <2>7, <2>8, Numbers, ControlStep
  <2> QED
    BY <1>1, <1>2, <2>3, <2>4, <2>5, <2>6, <2>9 DEF PlaceOK, WorkOK, TokenOK, Types
<1> QED
  BY <1>3, <1>4

LEMMA ResumeQuiet ==
  ASSUME IInv, NEW p \in Proc, NEW ok \in BOOLEAN, Resume(p, ok),
         \/ pc[p] \in {"look", "settle", "unlink"}
         \/ p \in Instance /\ pc[p] = "stop",
         UNCHANGED <<world, script, owner, tries>>,
         PastOK', NoOverlap' => NoOverlap, Good' => Good,
         Good' /\ ok => ~Altered
  PROVE  IInv'
<1>1. /\ Control' /\ Moves(p) /\ PlaceOK' /\ WorkOK' /\ TokenOK'
      /\ held'[p] = None /\ script[p] = None
      /\ pc'[p] \in {"mutex", "detect", "idle", "look", "gone", "watch"}
      /\ pc'[p] = "detect" => ok
  BY ResumeControl DEF IInv
<1>2. Types'
  BY <1>1 DEF IInv, Types, WorldOK, world
<1>3. ~Restoring(p)' /\ ~Working(p)' /\ ~Holding(p)'
  BY <1>1 DEF Restoring, Working, Holding
<1>4. Forced'
  BY <1>1, <1>3, QuietForced DEF IInv
<1>5. Good' => Unaltered(p)'
  BY <1>1 DEF Unaltered, Altered, world
<1>6. Recorded'
  BY <1>1, <1>3, <1>5, QuietRecorded DEF IInv
<1> QED
  BY <1>1, <1>2, <1>4, <1>6 DEF IInv

-----------------------------------------------------------------------------
(* recover and the restore *)

\* A session that has the network for itself is the one the file describes,
\* and its process lives: nobody else may restore it.
LEMMA FileIsMine ==
  ASSUME Types, Control, NEW i \in Instance, Holding(i), InForce(i)
  PROVE  file \in Record /\ owner[file.token] = i /\ Alive(i)
<1>1. file \in Record /\ InstanceOK(i)
  BY DEF InForce, Types, WorldOK, Control
<1>2. pc[i] \in {"guard", "apply", "redirect", "active", "stop"}
      /\ (pc[i] \in {"active", "stop"} => token[i] # 0)
  BY <1>1 DEF Holding, InstanceOK
<1> QED
  BY <1>1, <1>2 DEF InForce, InstanceOK, Alive

LEMMA NobodyElse ==
  ASSUME Types, Control, Forced, NoOverlap, NEW i \in Instance, Holding(i)
  PROVE  \A q \in Proc \ {i} : ~Restoring(q) /\ ~Working(q)
BY DEF Forced, InForce

LEMMA GoodMeansNoOverlap == Good => NoOverlap
BY DEF Good, NoOverlap

\* A process goes from one place of its recover to another.
LEMMA RecoverMove ==
  ASSUME Types, Control, NEW p \in Proc, NEW l \in Recovering, Goto(p, l),
         \/ pc[p] \in Recovering
         \/ p \in Instance /\ pc[p] = "stop",
         UNCHANGED <<why, token, owner, tries>>,
         \A q \in Proc \ {p} :
           held'[q] = held[q] /\ failed'[q] = failed[q] /\ script'[q] = script[q],
         ProcOK(p)'
  PROVE  /\ Control' /\ Moves(p) /\ PlaceOK' /\ TokenOK' /\ pc'[p] = l
         /\ ~Holding(p)' /\ (p \in Instance => Unaltered(p)')
<1>1. /\ pc'[p] = l /\ PlaceOK' /\ TokenOK'
      /\ \A q \in Proc \ {p} : pc'[q] = pc[q]
  BY DEF Types, PlaceOK, TokenOK, Goto, Place, Recovering
<1>2. Moves(p)
  BY <1>1, Numbers DEF Moves, Recovering
<1>3. p \in Instance => InstanceOK(p)'
  BY <1>1 DEF Control, InstanceOK, Recovering
<1>4. ASSUME NEW t \in Token, p = Watchdog(t) PROVE WatchdogOK(t)'
  <2>1. (\A i \in Instance : pc'[i] = pc[i]) /\ p \notin Instance
    BY <1>1, <1>4, Numbers
  <2>2. WatchdogOK(t) /\ owner[t] \in Instance \cup {0}
    BY DEF Control, Types, TokenOK
  <2> QED
    BY <1>1, <1>4, <2>1, <2>2 DEF WatchdogOK, Alive, Recovering
<1>5. p \in Instance /\ PastMutex(p)' => PastMutex(p)
  BY <1>1 DEF PastMutex, Alive, Recovering, Control, InstanceOK
<1>6. Control'
  BY <1>2, <1>3, <1>4, <1>5, ControlStep
<1> QED
  BY <1>1, <1>2, <1>6 DEF Holding, Unaltered, Recovering

\* Who restores, or whose script runs, has nobody holding the network beside it.
LEMMA WorkingForced ==
  ASSUME Types, Forced, NEW p \in Proc, Moves(p), NoOverlap' => NoOverlap,
         Restoring(p) \/ Working(p),
         p \in Instance /\ NoOverlap' /\ Holding(p)' => InForce(p)'
  PROVE  Forced'
<1>1. ASSUME NEW i \in Instance \ {p}, InForce(i) PROVE FALSE
  BY <1>1 DEF InForce
<1> QED
  BY <1>1, ForcedStep

\* Who has read the record goes on to restore it.
LEMMA TakeRecord ==
  ASSUME IInv, NEW p \in Proc, file # None,
         \/ pc[p] = "look"
         \/ p \in Instance /\ pc[p] = "stop",
         held' = [held EXCEPT ![p] = file], Goto(p, "tell"),
         UNCHANGED <<world, why, failed, script, token, owner, tries, left, mishap>>,
         \A i \in Instance \ {p} : ~(NoOverlap /\ Holding(i) /\ InForce(i))
  PROVE  IInv'
<1>1. /\ held'[p] = file /\ file \in Record
      /\ \A q \in Proc \ {p} : held'[q] = held[q]
      /\ WorkOK' /\ WorldOK' /\ PastOK'
      /\ file' = file /\ altered' = altered /\ rules' = rules /\ told' = told
  BY DEF IInv, Types, WorldOK, WorkOK, PastOK, world
<1>2. pc'[p] = "tell" /\ script[p] = None /\ script' = script
  BY DEF IInv, Types, PlaceOK, Control, ProcOK, Goto
<1>3. ProcOK(p)'
  BY <1>1, <1>2, NoneAssumption DEF ProcOK
<1>4. /\ Control' /\ Moves(p) /\ PlaceOK' /\ TokenOK'
      /\ ~Holding(p)' /\ (p \in Instance => Unaltered(p)')
  BY <1>1, <1>3, RecoverMove DEF IInv, Recovering
<1>5. (NoOverlap' <=> NoOverlap) /\ (Good' <=> Good)
  BY DEF NoOverlap, Good
<1>6. Forced'
  BY <1>4, <1>5, ForcedStep DEF IInv
<1>7. Good => Shrinks /\ Clean(p)' /\ Progress(p)'
  BY <1>1, <1>2 DEF Shrinks, Clean, Progress, IInv, Recorded, Network
<1>8. Good => Network'
  BY <1>1 DEF IInv, Recorded, Network, Altered
<1>9. Good => \A q \in Proc \ {p} : Restoring(q) => file = held[q]
  BY DEF IInv, Recorded, SameRecord
<1>10. Recorded'
  BY <1>1, <1>4, <1>5, <1>7, <1>8, <1>9, NoneAssumption, RecordedStep DEF IInv
<1> QED
  BY <1>1, <1>4, <1>6, <1>10 DEF IInv, Types

LEMMA LookKeeps ==
  ASSUME IInv, NEW p \in Proc, Look(p)
  PROVE  IInv'
<1>1. /\ pc[p] = "look" /\ UNCHANGED <<world, script, owner, tries>>
      /\ \/ file = None /\ Resume(p, TRUE) /\ UNCHANGED <<left, mishap>>
         \/ file # None /\ Fault("unread") /\ Resume(p, FALSE) /\ UNCHANGED mishap
         \/ file # None /\ Resume(p, FALSE) /\ UNCHANGED <<left, mishap>>
         \/ /\ file # None
            /\ ~(why[p] = "watch" /\ Watchdog(file.token) # p)
            /\ ~(why[p] \in {"pre", "post"} /\ Alive(owner[file.token]))
            /\ held' = [held EXCEPT ![p] = file] /\ Goto(p, "tell")
            /\ UNCHANGED <<why, failed, token>>
            /\ UNCHANGED <<left, mishap>>
  BY DEF Look
<1>2. PastOK' /\ mishap' = mishap
  <2>1. mishap' = mishap /\ (Fault("unread") \/ UNCHANGED left)
    BY <1>1
  <2> QED
    BY <2>1, FaultLeft DEF IInv, Types, PastOK
<1>3. (NoOverlap' <=> NoOverlap) /\ (Good' <=> Good)
  BY <1>2 DEF NoOverlap, Good
<1>4. CASE file = None /\ Resume(p, TRUE)
  <2>1. Good' => ~Altered
    BY <1>3, <1>4 DEF IInv, Recorded, Network
  <2>2. PICK ok \in BOOLEAN : ok /\ Resume(p, ok)
    BY <1>4
  <2> QED
    BY <1>1, <1>2, <1>3, <2>1, <2>2, ResumeQuiet
<1>5. CASE Resume(p, FALSE)
  <2>2. PICK ok \in BOOLEAN : ~ok /\ Resume(p, ok)
    BY <1>5
  <2> QED
    BY <1>1, <1>2, <1>3, <2>2, ResumeQuiet
<1>6. CASE /\ file # None
           /\ ~(why[p] = "watch" /\ Watchdog(file.token) # p)
           /\ ~(why[p] \in {"pre", "post"} /\ Alive(owner[file.token]))
           /\ held' = [held EXCEPT ![p] = file] /\ Goto(p, "tell")
           /\ UNCHANGED <<why, failed, token>>
           /\ UNCHANGED <<left, mishap>>
  <2>1. ASSUME NEW i \in Instance \ {p}, Holding(i), InForce(i) PROVE FALSE
    <3>1. owner[file.token] = i /\ Alive(i) /\ PastMutex(i)
      BY <2>1, FileIsMine DEF IInv, Holding, PastMutex, Control, InstanceOK, Recovering
    <3>2. CASE p \in Instance
      <4>1. why[p] \notin {"pre", "post"} /\ pc[p] = "look"
        BY <1>1, <1>6, <3>1
      <4>2. PastMutex(p)
        BY <4>1, <3>2 DEF PastMutex, Alive
      <4> QED
        BY <3>1, <3>2, <4>2 DEF IInv, Control, AtMostOne
    <3>3. CASE p \notin Instance
      <4>1. PICK t \in Token : p = Watchdog(t)
        BY <3>3, Numbers
      <4>2. WatchdogOK(t) /\ file.token = t
        BY <1>6, <4>1, Numbers DEF IInv, Control, WatchdogOK, Types, WorldOK, Record
      <4> QED
        BY <1>1, <3>1, <4>1, <4>2 DEF WatchdogOK, Recovering
    <3> QED
      BY <3>2, <3>3
  <2> QED
    BY <1>1, <1>6, <2>1, TakeRecord
<1> QED
  BY <1>1, <1>4, <1>5, <1>6

LEMMA TellKeeps ==
  ASSUME IInv, NEW p \in Proc, Tell(p)
  PROVE  IInv'
<1> DEFINE s == [kind |-> "restore", state |-> held[p], todo |-> Setting \cup {"rule"}, bad |-> FALSE]
<1>1. /\ pc[p] = "tell" /\ Goto(p, "script") /\ held' = held /\ mishap' = mishap
      /\ script' = [script EXCEPT ![p] = s]
      /\ UNCHANGED <<why, token, owner, tries>>
      /\ file' = file /\ altered' = altered /\ rules' = rules
      /\ \/ told' = FALSE /\ failed' = failed /\ left' = left
         \/ told' = told /\ failed' = [failed EXCEPT ![p] = TRUE] /\ Fault("arp")
  BY DEF Tell, RunScript
<1>2. held[p] \in Record /\ s \in Script /\ s # None
  <2>1. held[p] \in Record
    BY <1>1 DEF IInv, Control, ProcOK, Types, WorkOK
  <2>2. s \in Script
    BY <2>1 DEF Script
  <2> QED
    BY <2>1, <2>2, NoneAssumption
<1>3. s.kind = "restore" /\ s.state = held[p] /\ s.todo = Setting \cup {"rule"}
  OBVIOUS
<1> HIDE DEF s
<1>4. /\ WorldOK' /\ WorkOK' /\ script'[p] = s /\ pc'[p] = "script"
      /\ (told' = FALSE \/ failed'[p] = TRUE)
      /\ \A q \in Proc \ {p} : failed'[q] = failed[q] /\ script'[q] = script[q]
  BY <1>1, <1>2 DEF IInv, Types, WorldOK, WorkOK, PlaceOK, Goto
<1>5. PastOK'
  BY <1>1, FaultLeft DEF IInv, Types, PastOK
<1>6. ProcOK(p)'
  BY <1>1, <1>2, <1>3, <1>4, NoneAssumption DEF ProcOK
<1>7. /\ Control' /\ Moves(p) /\ PlaceOK' /\ TokenOK'
      /\ ~Holding(p)' /\ (p \in Instance => Unaltered(p)')
  BY <1>1, <1>4, <1>6, RecoverMove DEF IInv, Recovering
<1>8. (NoOverlap' <=> NoOverlap) /\ (Good' <=> Good) /\ Restoring(p)
  BY <1>1 DEF NoOverlap, Good, Restoring
<1>9. Forced'
  BY <1>7, <1>8, WorkingForced DEF IInv
<1>10. ASSUME Good PROVE Recorded'
  <2>1. Network /\ SameRecord(p) /\ Clean(p) /\ WorldOK
    BY <1>10 DEF IInv, Recorded, Types
  <2>2. Shrinks
    BY <1>1 DEF Shrinks
  <2>3. Clean(p)'
    BY <1>1, <1>2, <1>3, <1>4, <2>1, NoneAssumption DEF Clean
  <2>4. rules \subseteq {held[p].token}
    BY <1>8, <2>1 DEF Network, SameRecord, Altered
  <2>5. Progress(p)'
    BY <1>1, <1>3, <1>4, <2>1, <2>4 DEF Progress, WorldOK
  <2>6. Network'
    BY <1>1, <2>1 DEF Network, Altered
  <2>7. \A q \in Proc \ {p} : file' # None /\ Restoring(q) => file' = held[q]
    BY <1>1, <1>10 DEF IInv, Recorded, SameRecord
  <2>8. /\ held'[p] # None
        /\ file' # None => file' = held'[p]
        /\ \A r \in Proc \ {p} : Restoring(r) => held[r] = held'[p]
    BY <1>1, <1>8, <2>1 DEF SameRecord
  <2> QED
    BY <1>7, <1>8, <2>2, <2>3, <2>5, <2>6, <2>7, <2>8, RecordedStep DEF IInv
<1>11. Recorded'
  BY <1>8, <1>10 DEF Recorded
<1> QED
  BY <1>4, <1>5, <1>7, <1>9, <1>11 DEF IInv, Types

LEMMA RestoreReturnsKeeps ==
  ASSUME IInv, NEW p \in Proc, RestoreReturns(p)
  PROVE  IInv'
<1>1. PICK ok \in BOOLEAN :
        ScriptReturns(p, ok) /\ failed' = [failed EXCEPT ![p] = @ \/ ~ok]
  BY DEF RestoreReturns
<1>2. /\ pc[p] = "script" /\ Goto(p, "settle") /\ held' = held /\ mishap' = mishap
      /\ script' = [script EXCEPT ![p] = None]
      /\ UNCHANGED <<why, token, owner, tries>>
      /\ file' = file /\ altered' = altered /\ rules' = rules /\ told' = told
  BY DEF RestoreReturns, world
<1>3. Fault("timeout") \/ UNCHANGED left
  BY <1>1 DEF ScriptReturns
<1>4. ok => script[p].todo = {}
  BY <1>1 DEF ScriptReturns
<1>5. /\ WorldOK' /\ WorkOK' /\ script'[p] = None /\ pc'[p] = "settle"
      /\ (failed[p] => failed'[p]) /\ (~ok => failed'[p])
      /\ \A q \in Proc \ {p} : failed'[q] = failed[q] /\ script'[q] = script[q]
  BY <1>1, <1>2 DEF IInv, Types, WorldOK, WorkOK, PlaceOK, Goto
<1>6. PastOK'
  BY <1>2, <1>3, FaultLeft DEF IInv, Types, PastOK
<1>7. ProcOK(p)'
  BY <1>2, <1>5 DEF ProcOK, IInv, Control
<1>8. /\ Control' /\ Moves(p) /\ PlaceOK' /\ TokenOK'
      /\ ~Holding(p)' /\ (p \in Instance => Unaltered(p)')
  BY <1>2, <1>5, <1>7, RecoverMove DEF IInv, Recovering
<1>9. (NoOverlap' <=> NoOverlap) /\ (Good' <=> Good) /\ Restoring(p)
  BY <1>2 DEF NoOverlap, Good, Restoring
<1>10. Forced'
  BY <1>8, <1>9, WorkingForced DEF IInv
<1>11. ASSUME Good PROVE Recorded'
  <2>1. Network /\ SameRecord(p) /\ Clean(p) /\ Progress(p) /\ WorldOK
    BY <1>11 DEF IInv, Recorded, Types
  <2>2. Shrinks /\ Network'
    BY <1>2, <2>1 DEF Shrinks, Network, Altered
  <2>3. Clean(p)'
    BY <1>2, <1>5, <2>1 DEF Clean
  <2>4. ~failed'[p] => ~Altered'
    BY <1>2, <1>4, <1>5, <2>1 DEF Progress, Altered
  <2>5. Progress(p)'
    BY <1>5, <2>4 DEF Progress
  <2>6. \A q \in Proc \ {p} : file' # None /\ Restoring(q) => file' = held[q]
    BY <1>2, <1>11 DEF IInv, Recorded, SameRecord
  <2>7. /\ held'[p] # None
        /\ file' # None => file' = held'[p]
        /\ \A r \in Proc \ {p} : Restoring(r) => held[r] = held'[p]
    BY <1>2, <1>9, <2>1 DEF SameRecord
  <2> QED
    BY <1>8, <1>9, <2>2, <2>3, <2>5, <2>6, <2>7, RecordedStep DEF IInv
<1>12. Recorded'
  BY <1>9, <1>11 DEF Recorded
<1> QED
  BY <1>5, <1>6, <1>8, <1>10, <1>12 DEF IInv, Types

\* The end of a restore that writes the record again, or removes it.
LEMMA ResumeWith ==
  ASSUME IInv, NEW p \in Proc, NEW ok \in BOOLEAN, Resume(p, ok),
         pc[p] \in {"settle", "unlink"},
         UNCHANGED <<altered, rules, told, script, owner, tries, left, mishap>>,
         \/ file' = file
         \/ file' = None /\ (Good => ~Altered)
         \/ pc[p] = "settle" /\ file' = held[p],
         Good /\ ok => ~Altered
  PROVE  IInv'
<1>1. /\ Control' /\ Moves(p) /\ PlaceOK' /\ WorkOK' /\ TokenOK'
      /\ held'[p] = None /\ script[p] = None
      /\ pc'[p] \in {"mutex", "detect", "idle", "look", "gone", "watch"}
      /\ pc'[p] = "detect" => ok
  BY ResumeControl DEF IInv
<1>2. pc[p] = "settle" => held[p] \in Record
  BY DEF IInv, Types, WorkOK, Control, ProcOK
<1>3. WorldOK' /\ PastOK'
  BY <1>2 DEF IInv, Types, WorldOK, PastOK
<1>4. ~Restoring(p)' /\ ~Holding(p)' /\ Restoring(p)
  BY <1>1 DEF Restoring, Holding
<1>5. (NoOverlap' <=> NoOverlap) /\ (Good' <=> Good)
  BY DEF NoOverlap, Good
<1>6. Forced'
  BY <1>1, <1>4, <1>5, WorkingForced DEF IInv
<1>7. ASSUME Good PROVE Recorded'
  <2>1. Network /\ SameRecord(p) /\ Clean(p)
    BY <1>7 DEF IInv, Recorded
  <2>2. Shrinks /\ (p \in Instance => Unaltered(p)')
    BY <1>1, <1>7 DEF Shrinks, Unaltered, Altered
  <2>3. Clean(p)' /\ Progress(p)'
    BY <1>1 DEF Clean, Progress
  <2>4. Network'
    <3>1. Altered' <=> Altered
      BY DEF Altered
    <3>2. CASE file' = file
      BY <2>1, <3>1, <3>2 DEF Network
    <3>3. CASE file' = None /\ ~Altered
      BY <3>1, <3>3 DEF Network
    <3>4. CASE pc[p] = "settle" /\ file' = held[p]
      <4>1. held[p] # None /\ held[p].snap = {}
        BY <1>2, <2>1, <3>4, NoneAssumption DEF Clean
      <4>2. rules \subseteq {held[p].token}
        BY <1>4, <2>1 DEF Network, SameRecord, Altered
      <4> QED
        BY <3>4, <4>1, <4>2 DEF Network
    <3> QED
      BY <1>7, <3>2, <3>3, <3>4
  <2>5. \A q \in Proc \ {p} : file' # None /\ Restoring(q) => file' = held[q]
    BY <1>4, <1>7, <2>1 DEF IInv, Recorded, SameRecord
  <2> QED
    BY <1>1, <1>4, <1>5, <2>2, <2>3, <2>4, <2>5, RecordedStep DEF IInv
<1>8. Recorded'
  BY <1>5, <1>7 DEF Recorded
<1> QED
  BY <1>1, <1>3, <1>6, <1>8 DEF IInv, Types

LEMMA SettleKeeps ==
  ASSUME IInv, NEW p \in Proc, Settle(p)
  PROVE  IInv'
<1>1. /\ pc[p] = "settle"
      /\ UNCHANGED <<altered, rules, told, script, owner, tries, left, mishap>>
  BY DEF Settle
<1>2. Good => /\ ~failed[p] => ~Altered
              /\ SameRecord(p) /\ Clean(p) /\ Network
  BY <1>1 DEF IInv, Recorded, Progress
<1>3. CASE failed[p]
  <2>1. PICK ok \in BOOLEAN : ~ok /\ Resume(p, ok)
    BY <1>1, <1>3 DEF Settle
  <2>2. file' = file \/ file' = held[p]
    BY <1>1, <1>3 DEF Settle
  <2> QED
    BY <1>1, <2>1, <2>2, ResumeWith
<1>4. CASE ~failed[p] /\ file # None /\ file.token = held[p].token
  <2>1. /\ Goto(p, "unlink")
        /\ file' = file /\ altered' = altered /\ rules' = rules /\ told' = told
        /\ held' = held /\ failed' = failed /\ script' = script
        /\ UNCHANGED <<why, token, owner, tries>>
    BY <1>1, <1>4 DEF Settle
  <2>2. WorldOK' /\ WorkOK' /\ PastOK' /\ pc'[p] = "unlink" /\ script[p] = None
    BY <1>1, <2>1 DEF IInv, Types, WorldOK, WorkOK, PastOK, PlaceOK, Goto, Control, ProcOK
  <2>3. ProcOK(p)'
    BY <2>1, <2>2 DEF ProcOK
  <2>4. /\ Control' /\ Moves(p) /\ PlaceOK' /\ TokenOK'
        /\ ~Holding(p)' /\ (p \in Instance => Unaltered(p)')
    BY <1>1, <2>1, <2>3, RecoverMove DEF IInv, Recovering
  <2>5. (NoOverlap' <=> NoOverlap) /\ (Good' <=> Good) /\ Restoring(p)
    BY <1>1 DEF NoOverlap, Good, Restoring
  <2>6. Forced'
    BY <2>4, <2>5, WorkingForced DEF IInv
  <2>7. ASSUME Good PROVE Recorded'
    <3>1. Shrinks /\ Network' /\ Clean(p)' /\ Progress(p)'
      BY <1>2, <1>4, <2>1, <2>2, <2>7 DEF Shrinks, Network, Clean, Progress, Altered
    <3>2. \A q \in Proc \ {p} : file' # None /\ Restoring(q) => file' = held[q]
      BY <2>1, <2>7 DEF IInv, Recorded, SameRecord
    <3>3. /\ held'[p] # None
          /\ file' # None => file' = held'[p]
          /\ \A r \in Proc \ {p} : Restoring(r) => held[r] = held'[p]
      BY <1>2, <2>1, <2>5, <2>7 DEF SameRecord
    <3> QED
      BY <2>4, <2>5, <3>1, <3>2, <3>3, RecordedStep DEF IInv
  <2>8. Recorded'
    BY <2>5, <2>7 DEF Recorded
  <2> QED
    BY <2>2, <2>4, <2>6, <2>8 DEF IInv, Types
<1>5. CASE ~failed[p] /\ ~(file # None /\ file.token = held[p].token)
  <2>1. PICK ok \in BOOLEAN : Resume(p, ok)
    BY <1>1, <1>5 DEF Settle
  <2>2. file' = file
    BY <1>1, <1>5 DEF Settle
  <2> QED
    BY <1>1, <1>2, <1>5, <2>1, <2>2, ResumeWith
<1> QED
  BY <1>3, <1>4, <1>5

LEMMA UnlinkKeeps ==
  ASSUME IInv, NEW p \in Proc, Unlink(p)
  PROVE  IInv'
<1>1. /\ pc[p] = "unlink" /\ file' = None
      /\ UNCHANGED <<altered, rules, told, script, owner, tries, left, mishap>>
  BY DEF Unlink
<1>2. Good => ~Altered
  BY <1>1 DEF IInv, Recorded, Progress
<1>3. PICK ok \in BOOLEAN : Resume(p, ok)
  BY DEF Unlink
<1> QED
  BY <1>1, <1>2, <1>3, ResumeWith

-----------------------------------------------------------------------------
(* The commands of a script *)

LEMMA ScriptStepKeeps ==
  ASSUME IInv, NEW p \in Proc, ScriptStep(p)
  PROVE  IInv'
<1> DEFINE s == script[p]
           done(x) == \/ ~Alive(p) /\ script' = [script EXCEPT ![p] = None]
                      \/ script' = [script EXCEPT ![p].todo = @ \ {x}]
           miss(x) == \/ ~Alive(p) /\ script' = [script EXCEPT ![p] = None]
                      \/ script' = [script EXCEPT ![p].todo = @ \ {x},
                               ![p].bad = @ \/ (s.kind = "apply" /\ x \in Interface)]
<1>1. /\ Working(p) /\ s \in Script /\ s # None
      /\ UNCHANGED <<file, told, pc, why, held, failed, token, owner, tries>>
  BY DEF ScriptStep, Working, IInv, Types, WorkOK
<1>2. PICK x \in s.todo :
        \/ Command(s, x) /\ done(x) /\ UNCHANGED <<left, mishap>>
        \/ /\ Fault("script") /\ miss(x) /\ UNCHANGED <<altered, rules>>
           /\ Hit(IF s.kind = "restore" THEN {"silent"} ELSE {})
  BY DEF ScriptStep
<1>3. /\ script' \in [Proc -> Script \cup {None}]
      /\ \A q \in Proc \ {p} : script'[q] = script[q]
      /\ \/ ~Alive(p) /\ script'[p] = None
         \/ /\ script'[p] \in Script
            /\ script'[p].kind = s.kind /\ script'[p].state = s.state
            /\ script'[p].todo = s.todo \ {x}
            /\ ~script'[p].bad =>
                 /\ ~s.bad
                 /\ \/ Command(s, x)
                    \/ s.kind = "restore" \/ x \notin Interface
  <2>1. s.kind \in {"apply", "restore"} /\ s.state \in Record
        /\ s.todo \in SUBSET (Setting \cup {"rule"}) /\ s.bad \in BOOLEAN
    BY <1>1 DEF Script
  <2>2. CASE ~Alive(p) /\ script' = [script EXCEPT ![p] = None]
    BY <2>2 DEF IInv, Types, WorkOK
  <2>3. CASE Command(s, x) /\ script' = [script EXCEPT ![p].todo = @ \ {x}]
    <3>1. script' = [script EXCEPT ![p] = [s EXCEPT !.todo = s.todo \ {x}]]
      BY <2>3
    <3>2. [s EXCEPT !.todo = s.todo \ {x}] \in Script
      BY <1>1, <2>1 DEF Script
    <3>3. script'[p] = [s EXCEPT !.todo = s.todo \ {x}]
      BY <3>1 DEF IInv, Types, WorkOK
    <3> QED
      BY <1>1, <2>1, <2>3, <3>1, <3>2, <3>3 DEF IInv, Types, WorkOK, Script
  <2>4. CASE miss(x) /\ ~(~Alive(p) /\ script' = [script EXCEPT ![p] = None])
    <3> DEFINE b == s.bad \/ (s.kind = "apply" /\ x \in Interface)
               r == [s EXCEPT !.todo = s.todo \ {x}, !.bad = b]
    <3>1. script' = [script EXCEPT ![p] = r]
      BY <2>4
    <3>2. /\ r \in Script /\ r.kind = s.kind /\ r.state = s.state /\ r.todo = s.todo \ {x}
          /\ r.bad = b
      BY <1>1, <2>1 DEF Script
    <3>3. ~r.bad => ~s.bad /\ (s.kind = "restore" \/ x \notin Interface)
      BY <2>1, <3>2
    <3> HIDE DEF r
    <3>4. script'[p] = r
      BY <3>1 DEF IInv, Types, WorkOK
    <3> QED
      BY <3>1, <3>2, <3>3, <3>4 DEF IInv, Types, WorkOK
  <2> QED
    BY <1>2, <2>2, <2>3, <2>4
<1>4. /\ (mishap' = mishap /\ Command(s, x)) \/ UNCHANGED <<altered, rules>>
      /\ Fault("script") \/ UNCHANGED left
      /\ mishap' = mishap \/ mishap' = mishap \cup {"silent"}
      /\ s.kind = "restore" /\ Good' => Command(s, x)
  BY <1>2 DEF Hit, Good
<1> HIDE DEF s, done, miss
<1>5. /\ s = script[p] /\ s.kind \in {"apply", "restore"} /\ s.state \in Record
      /\ x \in Setting \cup {"rule"} /\ x \in s.todo
  BY <1>1, <1>2 DEF Script, s
<1>6. (NoOverlap' => NoOverlap) /\ (Good' => Good) /\ PastOK'
  BY <1>4, FaultLeft DEF NoOverlap, Good, IInv, Types, PastOK
<1>7. /\ altered' \subseteq altered \cup {x} /\ altered' \subseteq Setting
      /\ rules' \subseteq rules \cup {s.state.token} /\ rules' \subseteq Token
      /\ s.kind = "apply" => altered \subseteq altered'
  BY <1>4, <1>5, Settings DEF Command, IInv, Types, WorldOK, Record
<1>8. Types'
  BY <1>1, <1>3, <1>6, <1>7 DEF IInv, Types, WorldOK, PlaceOK, WorkOK, TokenOK
<1>9. ProcOK(p) /\ pc[p] \in {"apply", "script", "gone"}
  BY <1>1, <1>5 DEF IInv, Control, ProcOK
<1>10. Moves(p)
  BY <1>1, <1>3, <1>9 DEF Moves
<1>11. ProcOK(p)'
  BY <1>1, <1>3, <1>5, <1>9, NoneAssumption DEF ProcOK, Alive
<1>12. Control'
  <2>1. p \in Instance => InstanceOK(p)'
    BY <1>1 DEF IInv, Control, InstanceOK
  <2>2. \A t \in Token : WatchdogOK(t)'
    BY <1>1 DEF IInv, Control, WatchdogOK, Alive
  <2>3. PastMutex(p)' => PastMutex(p)
    BY <1>1 DEF PastMutex, Alive
  <2> QED
    BY <1>1, <1>10, <1>11, <2>1, <2>2, <2>3, ControlStep DEF IInv
<1>13. ASSUME p \in Instance, NoOverlap', Holding(p)' PROVE InForce(p)'
  <2>1. pc[p] = "apply" /\ Holding(p) /\ pc' = pc
    BY <1>1, <1>9, <1>13 DEF Holding
  <2>2. InForce(p)
    BY <1>6, <1>13, <2>1 DEF IInv, Forced
  <2>3. s.kind = "apply" /\ script'[p] # None /\ Alive(p)
    BY <1>5, <1>9, <1>11, <2>1 DEF ProcOK, Alive
  <2>4. ~script'[p].bad => Interface \ script'[p].todo \subseteq altered'
    <3> SUFFICES ASSUME ~script'[p].bad PROVE Interface \ script'[p].todo \subseteq altered'
      OBVIOUS
    <3>1. ~s.bad /\ (Command(s, x) \/ x \notin Interface) /\ script'[p].todo = s.todo \ {x}
      BY <1>3, <2>3
    <3>2. Interface \ s.todo \subseteq altered
      BY <1>5, <2>1, <2>2, <3>1 DEF InForce
    <3>3. x \in Interface => x \in altered'
      BY <2>3, <3>1, Settings DEF Command
    <3> QED
      BY <1>7, <2>3, <3>1, <3>2, <3>3
  <2>5. \A q \in Proc \ {p} : ~Restoring(q)' /\ ~Working(q)'
    BY <1>3, <2>1, <2>2 DEF InForce, Restoring, Working
  <2> QED
    BY <1>1, <2>1, <2>2, <2>4, <2>5 DEF InForce
<1>14. Forced'
  BY <1>1, <1>6, <1>10, <1>13, WorkingForced DEF IInv
<1>15. ASSUME Good' PROVE Recorded'
  <2>1. /\ Network /\ SameRecord(p) /\ Clean(p) /\ Progress(p) /\ WorldOK /\ Good /\ NoOverlap
        /\ s.state.snap = {}
    BY <1>1, <1>5, <1>6, <1>15, GoodMeansNoOverlap DEF IInv, Recorded, Types, Clean
  <2>2. Clean(p)'
    BY <1>1, <1>3, <1>5, <2>1 DEF Clean
  <2>3. Unaltered(p)'
    BY <1>1, <1>9 DEF Unaltered
  <2>4. CASE s.kind = "apply"
    <3>1. pc[p] = "apply"
      BY <1>1, <1>5, <1>9, <2>1, <2>4 DEF ProcOK, Clean
    <3>2. p \in Instance
      BY <3>1, Numbers DEF IInv, Control, WatchdogOK, Recovering
    <3>3. Holding(p) /\ InForce(p) /\ PastMutex(p)
      BY <2>1, <3>1, <3>2 DEF Holding, IInv, Forced, Control, InstanceOK, PastMutex, Alive, Recovering
    <3>4. (\A q \in Proc \ {p} : ~Restoring(q)) /\ file = s.state
      BY <1>5, <1>9, <3>1, <3>3 DEF InForce, ProcOK
    <3>5. Network'
      BY <1>1, <1>5, <1>7, <2>1, <3>3, <3>4 DEF Network, Altered, InForce
    <3>6. Progress(p)' /\ ~Restoring(p)'
      BY <1>1, <3>1 DEF Progress, Restoring
    <3> QED
      BY <1>6, <1>10, <2>2, <2>3, <3>2, <3>3, <3>4, <3>5, <3>6, RecordedStep DEF IInv
  <2>5. CASE s.kind = "restore"
    <3>1. Command(s, x)
      BY <1>4, <1>15, <2>5
    <3>2. /\ x = "rule" => rules' = rules \ {s.state.token} /\ altered' = altered
          /\ x # "rule" => rules' = rules /\ altered' = altered \ {x}
      BY <2>1, <2>5, <3>1 DEF Command
    <3>3. Shrinks
      BY <1>1, <3>2 DEF Shrinks
    <3>4. Network'
      BY <1>1, <2>1, <3>3 DEF Network, Altered, Shrinks
    <3>5. Progress(p)'
      <4>1. CASE pc[p] = "script"
        <5>1. script'[p] # None /\ script'[p].todo = s.todo \ {x} /\ s.state = held[p]
          BY <1>3, <1>5, <1>9, <4>1, NoneAssumption DEF ProcOK, Alive
        <5>2. /\ ~failed[p] => ~told
              /\ altered \subseteq s.todo /\ rules \subseteq {held[p].token}
              /\ "rule" \in s.todo \/ rules = {}
          BY <1>5, <2>1, <4>1 DEF Progress
        <5>3. altered' \subseteq s.todo \ {x}
          BY <2>1, <3>2, <5>2, Settings DEF WorldOK
        <5>4. "rule" \in s.todo \ {x} \/ rules' = {}
          BY <3>2, <5>1, <5>2
        <5> QED
          BY <1>1, <3>3, <4>1, <5>1, <5>2, <5>3, <5>4 DEF Progress, Shrinks
      <4>2. CASE pc[p] # "script"
        BY <1>1, <1>9, <4>2 DEF Progress
      <4> QED
        BY <4>1, <4>2
    <3>6. \A q \in Proc \ {p} : file' # None /\ Restoring(q) => file' = held[q]
      BY <1>1, <2>1 DEF IInv, Recorded, SameRecord
    <3>7. Restoring(p)' =>
            /\ held'[p] # None
            /\ file' # None => file' = held'[p]
            /\ \A r \in Proc \ {p} : Restoring(r) => held[r] = held'[p]
      BY <1>1, <2>1 DEF SameRecord, Restoring
    <3> QED
      BY <1>6, <1>10, <2>2, <2>3, <3>3, <3>4, <3>5, <3>6, <3>7, RecordedStep DEF IInv
  <2> QED
    BY <1>5, <2>4, <2>5
<1>16. Recorded'
  BY <1>15 DEF Recorded
<1> QED
  BY <1>8, <1>12, <1>14, <1>16 DEF IInv

-----------------------------------------------------------------------------
(* Sessions *)

\* A step of an application process that touches neither file nor network.
LEMMA InstanceStep ==
  ASSUME IInv, NEW i \in Instance, NEW l \in Place \ {"off"}, Goto(i, l), pc[i] # "gone",
         NEW y \in Reason, why' = [why EXCEPT ![i] = y],
         UNCHANGED <<world, held, failed, script, token, owner, tries>>,
         PastOK', NoOverlap' => NoOverlap, Good' => Good,
         InstanceOK(i)',
         l \notin {"tell", "script", "settle", "unlink", "apply"}, pc[i] \notin {"apply", "script"},
         PastMutex(i)' => PastMutex(i) \/ \A j \in Instance \ {i} : ~PastMutex(j),
         Good' => Unaltered(i)',
         NoOverlap' /\ Holding(i)' => InForce(i)'
  PROVE  IInv'
<1>1. /\ PlaceOK' /\ pc'[i] = l
      /\ \A q \in Proc \ {i} : pc'[q] = pc[q] /\ why'[q] = why[q]
  BY Numbers DEF IInv, Types, PlaceOK, Goto
<1>2. Types'
  BY <1>1 DEF IInv, Types, WorldOK, WorkOK, TokenOK, world
<1>3. Moves(i) /\ i \in Proc
  BY <1>1, Numbers DEF Moves
<1>4. script[i] = None /\ script' = script
  BY <1>3 DEF IInv, Control, ProcOK
<1>5. ProcOK(i)'
  BY <1>1, <1>4 DEF ProcOK
<1>6. Control'
  BY <1>3, <1>5, Numbers, ControlStep DEF IInv
<1>7. ~Restoring(i)' /\ ~Working(i)'
  BY <1>1, <1>4 DEF Restoring, Working
<1>8. Forced'
  <2>1. file' = file /\ altered' = altered /\ told' = told
    BY DEF world
  <2> QED
    BY <1>3, <1>7, <2>1, ForcedStep DEF IInv
<1>9. Recorded'
  BY <1>3, <1>4, <1>7, QuietRecorded DEF IInv
<1> QED
  BY <1>2, <1>6, <1>8, <1>9 DEF IInv

LEMMA LaunchKeeps ==
  ASSUME IInv, NEW i \in Instance, Launch(i)
  PROVE  IInv'
<1>1. /\ pc[i] = "off" /\ Goto(i, "look") /\ pc'[i] = "look"
      /\ UNCHANGED <<world, why, held, failed, script, token, owner, tries, left, mishap>>
  BY Numbers DEF Launch, Goto, IInv, Types, PlaceOK
<1>2. why[i] = "pre" /\ why' = [why EXCEPT ![i] = "pre"] /\ InstanceOK(i)
  BY <1>1, Numbers DEF IInv, Control, InstanceOK, Types, PlaceOK
<1>3. InstanceOK(i)' /\ ~PastMutex(i)' /\ Unaltered(i)' /\ ~Holding(i)'
  BY <1>1, <1>2 DEF InstanceOK, PastMutex, Unaltered, Holding, Recovering
<1>4. PastOK' /\ (NoOverlap' => NoOverlap) /\ (Good' => Good)
  BY <1>1 DEF IInv, Types, PastOK, NoOverlap, Good
<1> QED
  BY <1>1, <1>2, <1>3, <1>4, InstanceStep DEF Place, Reason

LEMMA TakeMutexKeeps ==
  ASSUME IInv, NEW i \in Instance, TakeMutex(i)
  PROVE  IInv'
<1>1. /\ pc[i] = "mutex"
      /\ UNCHANGED <<world, held, failed, script, token, owner, tries, left, mishap>>
      /\ InstanceOK(i)
  BY DEF TakeMutex, IInv, Control
<1>2. why[i] = "pre" /\ token[i] = 0
  BY <1>1 DEF InstanceOK, Recovering
<1>3. PICK l \in {"gone", "look"}, y \in {"pre", "post"} :
        /\ Goto(i, l) /\ why' = [why EXCEPT ![i] = y]
        /\ l = "gone" => y = "pre"
        /\ l = "look" => y = "post" /\ \A j \in Instance \ {i} : ~PastMutex(j)
  BY <1>2, Numbers DEF TakeMutex, IInv, Types, PlaceOK
<1>4. pc'[i] = l /\ why'[i] = y /\ token'[i] = 0
  BY <1>1, <1>2, <1>3, Numbers DEF IInv, Types, PlaceOK, Goto
<1>5. InstanceOK(i)' /\ Unaltered(i)' /\ ~Holding(i)'
  BY <1>1, <1>2, <1>3, <1>4 DEF InstanceOK, Unaltered, Holding, Recovering
<1>6. PastMutex(i)' => \A j \in Instance \ {i} : ~PastMutex(j)
  BY <1>3, <1>4 DEF PastMutex, Alive
<1>7. PastOK' /\ (NoOverlap' => NoOverlap) /\ (Good' => Good)
  BY <1>1 DEF IInv, Types, PastOK, NoOverlap, Good
<1> QED
  BY <1>1, <1>3, <1>5, <1>6, <1>7, InstanceStep DEF Place, Reason

LEMMA BeginKeeps ==
  ASSUME IInv, NEW i \in Instance, Begin(i)
  PROVE  IInv'
<1>1. /\ pc[i] = "idle" /\ Goto(i, "start") /\ pc'[i] = "start"
      /\ UNCHANGED <<world, why, held, failed, script, token, owner, tries, left, mishap>>
      /\ InstanceOK(i) /\ why[i] \in Reason /\ why' = [why EXCEPT ![i] = why[i]]
  BY Numbers DEF Begin, Goto, IInv, Types, PlaceOK, Control
<1>2. InstanceOK(i)' /\ Unaltered(i)' /\ ~Holding(i)' /\ PastMutex(i)
  BY <1>1 DEF InstanceOK, PastMutex, Alive, Unaltered, Holding, Recovering
<1>3. PastOK' /\ (NoOverlap' => NoOverlap) /\ (Good' => Good)
  BY <1>1 DEF IInv, Types, PastOK, NoOverlap, Good
<1> QED
  BY <1>1, <1>2, <1>3, InstanceStep DEF Place

LEMMA StartKeeps ==
  ASSUME IInv, NEW i \in Instance, Start(i)
  PROVE  IInv'
<1>1. /\ pc[i] = "start" /\ InstanceOK(i) /\ why[i] \in Reason
      /\ UNCHANGED <<world, held, failed, script, token, owner, tries>>
  BY Numbers DEF Start, IInv, Types, PlaceOK, Control
<1>2. PICK l \in {"detect", "idle", "look"}, y \in {"start", why[i]} :
        /\ Goto(i, l) /\ why' = [why EXCEPT ![i] = y]
        /\ l # "look" => y = why[i]
        /\ l = "look" => y = "start"
        /\ l = "detect" => file = None \/ Hit({"unread"})
  BY <1>1, Numbers DEF Start, IInv, Types, PlaceOK
<1>3. /\ mishap' = mishap \/ Hit({"unread"})
      /\ Fault("unread") \/ UNCHANGED left
  BY DEF Start
<1>4. PastOK' /\ (NoOverlap' => NoOverlap) /\ (Good' => Good) /\ (Hit({"unread"}) => ~Good')
  <2>1. left' \in 0..MaxFaults
    BY <1>3, FaultLeft DEF IInv, Types
  <2>2. PastOK'
    BY <1>3, <2>1 DEF IInv, Types, PastOK, Hit
  <2>3. (NoOverlap' => NoOverlap) /\ (Good' => Good)
    BY <1>3 DEF NoOverlap, Good, Hit
  <2>4. Hit({"unread"}) => "unread" \in mishap'
    BY DEF Hit
  <2> QED
    BY <2>2, <2>3, <2>4 DEF Good
<1>5. pc'[i] = l /\ why'[i] = y /\ token'[i] = token[i]
  BY <1>1, <1>2, Numbers DEF IInv, Types, PlaceOK, Goto
<1>6. InstanceOK(i)' /\ ~Holding(i)' /\ PastMutex(i)
  BY <1>1, <1>2, <1>5 DEF InstanceOK, PastMutex, Alive, Holding, Recovering
<1>7. Good' => Unaltered(i)'
  BY <1>1, <1>2, <1>4, <1>5 DEF IInv, Recorded, Network, Unaltered, Altered, world
<1> QED
  BY <1>1, <1>2, <1>4, <1>6, <1>7, InstanceStep DEF Place, Reason

LEMMA SetupKeeps ==
  ASSUME IInv, NEW i \in Instance, Detect(i) \/ Capture(i)
  PROVE  IInv'
<1>1. /\ pc[i] \in {"detect", "capture"} /\ InstanceOK(i) /\ why[i] \in Reason
      /\ why' = [why EXCEPT ![i] = why[i]]
      /\ UNCHANGED <<world, held, failed, script, token, owner, tries, mishap>>
      /\ left' \in 0..MaxFaults
  BY Numbers, FaultLeft DEF Detect, Capture, IInv, Types, PlaceOK, Control
<1>2. PICK l \in {"capture", "snapshot", "idle"} : Goto(i, l)
  BY DEF Detect, Capture
<1>3. pc'[i] = l /\ why'[i] = why[i] /\ token'[i] = token[i]
  BY <1>1, <1>2, Numbers DEF IInv, Types, PlaceOK, Goto
<1>4. PastOK' /\ (NoOverlap' => NoOverlap) /\ (Good' => Good)
  BY <1>1 DEF IInv, Types, PastOK, NoOverlap, Good
<1>5. InstanceOK(i)' /\ ~Holding(i)' /\ PastMutex(i)
  BY <1>1, <1>2, <1>3 DEF InstanceOK, PastMutex, Alive, Holding, Recovering
<1>6. Good' => Unaltered(i)'
  BY <1>1, <1>4 DEF IInv, Recorded, Unaltered, Altered, world
<1> QED
  BY <1>1, <1>2, <1>4, <1>5, <1>6, InstanceStep DEF Place

LEMMA AskStopKeeps ==
  ASSUME IInv, NEW i \in Instance, AskStop(i)
  PROVE  IInv'
<1>1. /\ pc[i] \in {"active", "idle"} /\ InstanceOK(i) /\ Goto(i, "stop") /\ pc'[i] = "stop"
      /\ UNCHANGED <<world, held, failed, script, token, owner, tries, left, mishap>>
  BY Numbers DEF AskStop, Goto, IInv, Types, PlaceOK, Control
<1>2. PICK y \in {"stop", "quit"} : why' = [why EXCEPT ![i] = y]
  BY DEF AskStop
<1>3. why'[i] = y
  BY <1>2, Numbers DEF IInv, Types, PlaceOK
<1>4. PastOK' /\ (NoOverlap' <=> NoOverlap) /\ (Good' => Good)
  BY <1>1 DEF IInv, Types, PastOK, NoOverlap, Good
<1>5. InstanceOK(i)' /\ Unaltered(i)' /\ PastMutex(i)
  BY <1>1, <1>3 DEF InstanceOK, PastMutex, Alive, Unaltered, Recovering
<1>6. ASSUME NoOverlap', Holding(i)' PROVE InForce(i)'
  <2>1. token[i] # 0
    BY <1>1, <1>6 DEF Holding
  <2>2. pc[i] = "active" /\ Holding(i)
    BY <1>1, <2>1 DEF InstanceOK, Holding, Recovering
  <2>3. InForce(i)
    BY <1>4, <1>6, <2>2 DEF IInv, Forced
  <2>4. \A q \in Proc \ {i} : pc'[q] = pc[q]
    BY <1>1 DEF Goto, IInv, Types, PlaceOK
  <2> QED
    BY <1>1, <2>2, <2>3, <2>4 DEF InForce, Restoring, Working, world
<1> QED
  BY <1>1, <1>2, <1>4, <1>5, <1>6, InstanceStep DEF Place, Reason

LEMMA SnapshotKeeps ==
  ASSUME IInv, NEW i \in Instance, Snapshot(i)
  PROVE  IInv'
<1>1. PICK t \in Token :
        /\ owner[t] = 0 /\ owner' = [owner EXCEPT ![t] = i]
        /\ held' = [held EXCEPT ![i] = [token |-> t, snap |-> altered]]
  BY DEF Snapshot
<1>2. /\ pc[i] = "snapshot" /\ Goto(i, "record") /\ mishap' = mishap \cup Overlap(i)
      /\ UNCHANGED <<why, failed, script, token, tries, left>>
      /\ file' = file /\ altered' = altered /\ rules' = rules /\ told' = told
      /\ InstanceOK(i)
  BY DEF Snapshot, Hit, world, IInv, Control
<1> DEFINE r == [token |-> t, snap |-> altered]
<1>3. r \in Record /\ r.token = t /\ r.snap = altered
  BY DEF Record, IInv, Types, WorldOK
<1>4. r # None
  BY <1>3, NoneAssumption
<1> HIDE DEF r
<1>5. /\ held'[i] = r /\ pc'[i] = "record" /\ owner'[t] = i
      /\ \A q \in Proc \ {i} : pc'[q] = pc[q] /\ held'[q] = held[q]
      /\ \A u \in Token \ {t} : owner'[u] = owner[u]
      /\ PlaceOK' /\ WorkOK' /\ TokenOK' /\ WorldOK'
  BY <1>1, <1>2, <1>3, Numbers DEF IInv, Types, WorldOK, PlaceOK, WorkOK, TokenOK, Goto, Place, r
<1>6. PastOK' /\ (NoOverlap' => NoOverlap) /\ (Good' => Good)
  BY <1>2 DEF IInv, Types, PastOK, NoOverlap, Good, Overlap
<1>7. Moves(i) /\ i \in Proc
  BY <1>2, <1>5, Numbers DEF Moves
<1>8. InstanceOK(i)'
  <2>1. pc'[Watchdog(t)] = "off"
    BY <1>1, <1>5, Numbers DEF IInv, Control, WatchdogOK
  <2> QED
    BY <1>2, <1>3, <1>4, <1>5, <2>1 DEF InstanceOK, Recovering
<1>9. ProcOK(i)' /\ script[i] = None
  BY <1>2, <1>5, <1>7 DEF ProcOK, IInv, Control
<1>10. PastMutex(i)
  BY <1>2 DEF InstanceOK, PastMutex, Alive, Recovering
<1>11. Control'
  BY <1>1, <1>2, <1>5, <1>7, <1>8, <1>9, <1>10, Numbers, ControlStep DEF IInv
<1>12. Forced'
  BY <1>5, <1>6, <1>7, <1>10, Alone, ForcedStep DEF IInv, Holding
<1>13. ASSUME Good' PROVE Recorded'
  <2>1. Network /\ ~Altered
    BY <1>2, <1>6, <1>7, <1>13 DEF IInv, Recorded, Unaltered
  <2>2. Clean(i)' /\ Progress(i)' /\ Unaltered(i)' /\ ~Restoring(i)'
    BY <1>2, <1>3, <1>5, <1>9, <2>1 DEF Clean, Progress, Unaltered, Restoring, Altered
  <2>3. Shrinks /\ Network'
    BY <1>2, <2>1 DEF Shrinks, Network, Altered
  <2>4. \A q \in Proc \ {i} : file' # None /\ Restoring(q) => file' = held[q]
    BY <1>2, <1>6, <1>13 DEF IInv, Recorded, SameRecord
  <2> QED
    BY <1>6, <1>7, <2>2, <2>3, <2>4, RecordedStep DEF IInv
<1>14. Recorded'
  BY <1>13 DEF Recorded
<1> QED
  BY <1>5, <1>6, <1>11, <1>12, <1>14 DEF IInv, Types

LEMMA WriteRecordKeeps ==
  ASSUME IInv, NEW i \in Instance, WriteRecord(i)
  PROVE  IInv'
<1>1. /\ pc[i] = "record" /\ Goto(i, "guard") /\ mishap' = mishap \cup Overlap(i)
      /\ UNCHANGED <<why, held, failed, script, token, owner, tries, left>>
      /\ file' = held[i] /\ altered' = altered /\ rules' = rules /\ told' = told
      /\ InstanceOK(i) /\ i \in Proc
  BY Numbers DEF WriteRecord, Hit, IInv, Control
<1>2. held[i] \in Record /\ held[i] # None
  BY <1>1 DEF InstanceOK, IInv, Types, WorkOK
<1>3. /\ pc'[i] = "guard" /\ \A q \in Proc \ {i} : pc'[q] = pc[q]
      /\ PlaceOK' /\ WorkOK' /\ TokenOK' /\ WorldOK'
  BY <1>1, <1>2 DEF IInv, Types, WorldOK, PlaceOK, WorkOK, TokenOK, Goto, Place
<1>4. /\ PastOK' /\ (NoOverlap' => NoOverlap) /\ (Good' => Good) /\ (Good' => NoOverlap')
      /\ NoOverlap' => \A q \in Proc \ {i} : ~Restoring(q) /\ ~Working(q)
  BY <1>1 DEF IInv, Types, PastOK, NoOverlap, Good, Overlap
<1>5. Moves(i)
  BY <1>1, <1>3 DEF Moves
<1>6. InstanceOK(i)'
  <2>1. held[i].token \in Token
    BY <1>2 DEF Record
  <2> QED
    BY <1>1, <1>3, <2>1, Numbers DEF InstanceOK, Recovering
<1>7. ProcOK(i)' /\ script[i] = None
  BY <1>1, <1>3 DEF ProcOK, IInv, Control
<1>8. PastMutex(i)
  BY <1>1 DEF InstanceOK, PastMutex, Alive, Recovering
<1>9. Control'
  BY <1>1, <1>5, <1>6, <1>7, <1>8, Numbers, ControlStep DEF IInv
<1>10. NoOverlap' => InForce(i)'
  BY <1>1, <1>2, <1>3, <1>4 DEF InForce, Restoring, Working
<1>11. Forced'
  BY <1>4, <1>5, <1>8, <1>10, <1>1, Alone, ForcedStep DEF IInv
<1>12. ASSUME Good' PROVE Recorded'
  <2>1. Network /\ ~Altered /\ Clean(i)
    BY <1>1, <1>4, <1>12 DEF IInv, Recorded, Unaltered
  <2>2. Clean(i)' /\ Progress(i)' /\ Unaltered(i)' /\ ~Restoring(i)'
    BY <1>1, <1>3, <1>7, <2>1 DEF Clean, Progress, Unaltered, Restoring
  <2>3. Shrinks /\ Network'
    BY <1>1, <1>2, <2>1 DEF Shrinks, Network, Altered, Clean
  <2>4. \A q \in Proc \ {i} : ~Restoring(q)
    BY <1>4, <1>12
  <2> QED
    BY <1>4, <1>5, <1>1, <2>2, <2>3, <2>4, RecordedStep DEF IInv
<1>13. Recorded'
  BY <1>12 DEF Recorded
<1> QED
  BY <1>3, <1>4, <1>9, <1>11, <1>13 DEF IInv, Types

\* A start that fails restores what it has done.
LEMMA UndoStep ==
  ASSUME IInv, NEW i \in Instance, pc[i] \in {"guard", "apply", "redirect"}, Undo(i),
         UNCHANGED <<file, altered, rules, held, failed, token, owner, tries, mishap>>,
         told' \in BOOLEAN, left' \in 0..MaxFaults,
         script' = [script EXCEPT ![i] = None]
  PROVE  IInv'
<1>1. /\ pc'[i] = "tell" /\ why'[i] = "undo" /\ script'[i] = None /\ i \in Proc
      /\ \A q \in Proc \ {i} : pc'[q] = pc[q] /\ why'[q] = why[q] /\ script'[q] = script[q]
      /\ PlaceOK' /\ WorkOK' /\ TokenOK' /\ WorldOK' /\ PastOK'
  BY Numbers DEF IInv, Types, WorldOK, PlaceOK, WorkOK, TokenOK, PastOK, Undo, Goto, Place, Reason
<1>2. InstanceOK(i) /\ Moves(i) /\ Holding(i)
  BY <1>1 DEF IInv, Control, Moves, Holding
<1>3. InstanceOK(i)'
  BY <1>1, <1>2 DEF InstanceOK, Recovering
<1>4. ProcOK(i)' /\ held[i] # None
  BY <1>1, <1>2 DEF ProcOK, InstanceOK
<1>5. PastMutex(i)
  BY <1>2 DEF InstanceOK, PastMutex, Alive, Recovering
<1>6. Control'
  BY <1>1, <1>2, <1>3, <1>4, <1>5, Numbers, ControlStep DEF IInv
<1>7. (NoOverlap' <=> NoOverlap) /\ (Good' <=> Good)
  BY DEF NoOverlap, Good
<1>8. Forced'
  BY <1>1, <1>2, <1>5, <1>7, Alone, ForcedStep DEF IInv, Holding
<1>9. ASSUME Good' PROVE Recorded'
  <2>1. Network /\ Clean(i) /\ InForce(i)
    BY <1>1, <1>2, <1>7, <1>9, GoodMeansNoOverlap DEF IInv, Recorded, Forced
  <2>2. /\ \A q \in Proc \ {i} : ~Restoring(q)
        /\ file # None /\ file = held[i]
    BY <2>1 DEF InForce
  <2>3. Clean(i)' /\ Progress(i)' /\ Unaltered(i)'
    BY <1>1, <2>1 DEF Clean, Progress, Unaltered
  <2>4. Network'
    BY <2>1, <2>2 DEF Network, Altered
  <2> QED
    BY <1>1, <1>2, <1>5, <1>7, <2>2, <2>3, <2>4, RecordedStep DEF IInv
<1>10. Recorded'
  BY <1>9 DEF Recorded
<1> QED
  BY <1>1, <1>6, <1>8, <1>10 DEF IInv, Types

LEMMA GuardKeeps ==
  ASSUME IInv, NEW i \in Instance, Guard(i)
  PROVE  IInv'
<1> DEFINE w == Watchdog(held[i].token)
           s == [kind |-> "apply", state |-> held[i], todo |-> Setting \cup {"rule"}, bad |-> FALSE]
<1>1. /\ pc[i] = "guard" /\ InstanceOK(i) /\ i \in Proc
      /\ UNCHANGED <<held, failed, token, owner, tries, mishap>>
      /\ file' = file /\ altered' = altered /\ rules' = rules /\ told' = told
      /\ script[i] = None
  BY Numbers DEF Guard, world, IInv, Control, ProcOK
<1>2. CASE Undo(i) /\ Fault("setup") /\ script' = script
  <2>1. script' = [script EXCEPT ![i] = None]
    BY <1>1, <1>2 DEF IInv, Types, WorkOK
  <2>2. left' \in 0..MaxFaults /\ told' \in BOOLEAN
    BY <1>1, <1>2, FaultLeft DEF IInv, Types, WorldOK
  <2> QED
    BY <1>1, <1>2, <2>1, <2>2, UndoStep
<1>3. CASE /\ pc' = [pc EXCEPT ![i] = "apply", ![w] = "wait"]
           /\ script' = [script EXCEPT ![i] = s]
           /\ UNCHANGED <<why, left>>
  <2>1. held[i] \in Record /\ held[i] # None /\ owner[held[i].token] = i /\ pc[w] = "off"
    BY <1>1 DEF InstanceOK, IInv, Types, WorkOK
  <2>2. held[i].token \in Token /\ w \in Proc /\ w # i
    BY <2>1, Numbers DEF Record
  <2>3. s \in Script /\ s.kind = "apply" /\ s.state = held[i] /\ s.todo = Setting \cup {"rule"}
    BY <2>1 DEF Script
  <2>4. s # None
    BY <2>3, NoneAssumption
  <2> HIDE DEF s
  <2>5. /\ pc'[i] = "apply" /\ pc'[w] = "wait" /\ script'[i] = s
        /\ \A q \in Proc \ {i, w} : pc'[q] = pc[q]
        /\ \A q \in Proc \ {i} : script'[q] = script[q]
        /\ PlaceOK' /\ WorkOK' /\ TokenOK' /\ WorldOK' /\ PastOK'
    BY <1>1, <1>3, <2>2, <2>3
       DEF IInv, Types, WorldOK, PlaceOK, WorkOK, TokenOK, PastOK, Place
  <2>6. Moves(i)
    <3>1. \A q \in Proc \ {i} :
            \/ pc'[q] = pc[q]
            \/ /\ pc[q] = "off" /\ pc'[q] = "wait"
               /\ \E t \in Token : q = Watchdog(t) /\ owner[t] = i
      BY <2>1, <2>2, <2>5
    <3> QED
      BY <1>1, <1>3, <2>5, <3>1 DEF Moves
  <2>7. InstanceOK(i)' /\ PastMutex(i) /\ Holding(i)
    BY <1>1, <1>3, <2>1, <2>5 DEF InstanceOK, PastMutex, Alive, Holding, Recovering
  <2>8. ProcOK(i)'
    BY <1>1, <2>3, <2>4, <2>5 DEF ProcOK
  <2>9. Control'
    BY <1>1, <2>6, <2>7, <2>8, Numbers, ControlStep DEF IInv
  <2>10. (NoOverlap' <=> NoOverlap) /\ (Good' <=> Good)
    BY <1>1 DEF NoOverlap, Good
  <2>11. ASSUME NoOverlap' PROVE InForce(i)'
    <3>1. InForce(i)
      BY <2>7, <2>10, <2>11 DEF IInv, Forced
    <3>2. Interface \ script'[i].todo \subseteq altered'
      BY <2>3, <2>5, Settings
    <3>3. \A q \in Proc \ {i} : ~Restoring(q)' /\ ~Working(q)'
      BY <2>5, <3>1 DEF InForce, Restoring, Working
    <3> QED
      BY <1>1, <2>5, <3>1, <3>2, <3>3 DEF InForce
  <2>12. Forced'
    BY <1>1, <2>6, <2>7, <2>10, <2>11, Alone, ForcedStep DEF IInv
  <2>13. ASSUME Good' PROVE Recorded'
    <3>1. Network /\ Clean(i)
      BY <1>1, <2>10, <2>13 DEF IInv, Recorded
    <3>2. Clean(i)' /\ Progress(i)' /\ Unaltered(i)' /\ ~Restoring(i)'
      BY <1>1, <2>1, <2>3, <2>5, <3>1 DEF Clean, Progress, Unaltered, Restoring
    <3>3. Shrinks /\ Network'
      BY <1>1, <3>1 DEF Shrinks, Network, Altered
    <3>4. \A q \in Proc \ {i} : file' # None /\ Restoring(q) => file' = held[q]
      BY <1>1, <2>10, <2>13 DEF IInv, Recorded, SameRecord
    <3> QED
      BY <1>1, <2>6, <2>10, <3>2, <3>3, <3>4, RecordedStep DEF IInv
  <2>14. Recorded'
    BY <2>13 DEF Recorded
  <2> QED
    BY <2>5, <2>9, <2>12, <2>14 DEF IInv, Types
<1> QED
  BY <1>1, <1>2, <1>3 DEF Guard, RunScript

LEMMA ApplyReturnsKeeps ==
  ASSUME IInv, NEW i \in Instance, ApplyReturns(i)
  PROVE  IInv'
<1>1. /\ pc[i] = "apply" /\ InstanceOK(i) /\ i \in Proc
      /\ script' = [script EXCEPT ![i] = None]
      /\ UNCHANGED <<held, failed, token, owner, tries, mishap>>
      /\ file' = file /\ altered' = altered /\ rules' = rules /\ told' = told
  BY Numbers DEF ApplyReturns, world, IInv, Control
<1>2. PICK ok \in BOOLEAN :
        /\ ScriptReturns(i, ok)
        /\ IF ok THEN Goto(i, "redirect") /\ UNCHANGED why ELSE Undo(i)
  BY DEF ApplyReturns
<1>3. left' \in 0..MaxFaults /\ told' \in BOOLEAN
  BY <1>1, <1>2, FaultLeft DEF ScriptReturns, IInv, Types, WorldOK
<1>4. CASE ~ok
  BY <1>1, <1>2, <1>3, <1>4, UndoStep
<1>5. CASE ok
  <2>1. /\ Goto(i, "redirect") /\ why' = why
        /\ script[i].todo = {} /\ ~script[i].bad
    BY <1>2, <1>5 DEF ScriptReturns
  <2>2. /\ pc'[i] = "redirect" /\ script'[i] = None
        /\ \A q \in Proc \ {i} : pc'[q] = pc[q] /\ script'[q] = script[q]
        /\ PlaceOK' /\ WorkOK' /\ TokenOK' /\ WorldOK' /\ PastOK'
    BY <1>1, <1>3, <2>1
       DEF IInv, Types, WorldOK, PlaceOK, WorkOK, TokenOK, PastOK, Place, Goto
  <2>3. Moves(i)
    BY <1>1, <2>1, <2>2 DEF Moves
  <2>4. InstanceOK(i)' /\ PastMutex(i) /\ Holding(i) /\ ProcOK(i)'
    BY <1>1, <2>1, <2>2 DEF InstanceOK, PastMutex, Alive, Holding, Recovering, ProcOK
  <2>5. Control'
    BY <1>1, <2>3, <2>4, Numbers, ControlStep DEF IInv
  <2>6. (NoOverlap' <=> NoOverlap) /\ (Good' <=> Good)
    BY <1>1 DEF NoOverlap, Good
  <2>7. ASSUME NoOverlap' PROVE InForce(i)'
    <3>1. InForce(i)
      BY <2>4, <2>6, <2>7 DEF IInv, Forced
    <3>2. Interface \subseteq altered'
      BY <1>1, <2>1, <3>1 DEF InForce
    <3>3. \A q \in Proc \ {i} : ~Restoring(q)' /\ ~Working(q)'
      BY <2>2, <3>1 DEF InForce, Restoring, Working
    <3> QED
      BY <1>1, <2>2, <3>1, <3>2, <3>3 DEF InForce
  <2>8. Forced'
    BY <1>1, <2>3, <2>4, <2>6, <2>7, Alone, ForcedStep DEF IInv
  <2>9. ASSUME Good' PROVE Recorded'
    <3>1. Network /\ Clean(i)
      BY <1>1, <2>6, <2>9 DEF IInv, Recorded
    <3>2. Clean(i)' /\ Progress(i)' /\ Unaltered(i)' /\ ~Restoring(i)'
      BY <1>1, <2>2, <3>1 DEF Clean, Progress, Unaltered, Restoring
    <3>3. Shrinks /\ Network'
      BY <1>1, <3>1 DEF Shrinks, Network, Altered
    <3>4. \A q \in Proc \ {i} : file' # None /\ Restoring(q) => file' = held[q]
      BY <1>1, <2>6, <2>9 DEF IInv, Recorded, SameRecord
    <3> QED
      BY <1>1, <2>3, <2>6, <3>2, <3>3, <3>4, RecordedStep DEF IInv
  <2>10. Recorded'
    BY <2>9 DEF Recorded
  <2> QED
    BY <2>2, <2>5, <2>8, <2>10 DEF IInv, Types
<1> QED
  BY <1>4, <1>5

LEMMA RedirectKeeps ==
  ASSUME IInv, NEW i \in Instance, Redirect(i)
  PROVE  IInv'
<1>1. /\ pc[i] = "redirect" /\ InstanceOK(i) /\ i \in Proc /\ told' = TRUE
      /\ UNCHANGED <<altered, rules, failed, script, owner, tries, mishap>>
      /\ script[i] = None
  BY Numbers DEF Redirect, IInv, Control, ProcOK
<1>2. held[i] \in Record /\ held[i] # None /\ owner[held[i].token] = i
  BY <1>1 DEF InstanceOK, IInv, Types, WorkOK
<1>3. CASE Fault("setup") /\ Undo(i) /\ UNCHANGED <<file, token, held>>
  <2>1. script' = [script EXCEPT ![i] = None]
    BY <1>1, <1>3 DEF IInv, Types, WorkOK
  <2>2. left' \in 0..MaxFaults /\ told' \in BOOLEAN
    BY <1>1, <1>3, FaultLeft DEF IInv, Types
  <2> QED
    BY <1>1, <1>3, <2>1, <2>2, UndoStep
<1>4. CASE /\ file' = held[i] /\ Goto(i, "active")
           /\ token' = [token EXCEPT ![i] = held[i].token]
           /\ held' = [held EXCEPT ![i] = None] /\ UNCHANGED <<why, left>>
  <2>1. held[i].token \in Token /\ held[i].token # 0
    BY <1>2, Numbers DEF Record
  <2>2. /\ pc'[i] = "active" /\ token'[i] = held[i].token /\ held'[i] = None
        /\ \A q \in Proc \ {i} : pc'[q] = pc[q] /\ held'[q] = held[q]
        /\ \A j \in Instance \ {i} : token'[j] = token[j]
        /\ PlaceOK' /\ WorkOK' /\ TokenOK' /\ WorldOK' /\ PastOK'
    BY <1>1, <1>2, <1>4, <2>1
       DEF IInv, Types, WorldOK, PlaceOK, WorkOK, TokenOK, PastOK, Place, Goto
  <2>3. Moves(i)
    BY <1>1, <1>4, <2>2 DEF Moves
  <2>4. InstanceOK(i)' /\ PastMutex(i) /\ Holding(i) /\ ProcOK(i)'
    BY <1>1, <1>2, <1>4, <2>1, <2>2 DEF InstanceOK, PastMutex, Alive, Holding, Recovering, ProcOK
  <2>5. Control'
    BY <1>1, <2>3, <2>4, Numbers, ControlStep DEF IInv
  <2>6. (NoOverlap' <=> NoOverlap) /\ (Good' <=> Good)
    BY <1>1 DEF NoOverlap, Good
  <2>7. NoOverlap' => InForce(i)
    BY <2>4, <2>6 DEF IInv, Forced
  <2>8. ASSUME NoOverlap' PROVE InForce(i)'
    <3>1. \A q \in Proc \ {i} : ~Restoring(q)' /\ ~Working(q)'
      BY <1>1, <2>2, <2>7, <2>8 DEF InForce, Restoring, Working
    <3> QED
      BY <1>1, <1>2, <1>4, <2>2, <2>7, <2>8, <3>1 DEF InForce
  <2>9. Forced'
    BY <1>1, <2>3, <2>4, <2>6, <2>8, Alone, ForcedStep DEF IInv
  <2>10. ASSUME Good' PROVE Recorded'
    <3>1. /\ Network /\ Clean(i) /\ file = held[i] /\ file # None
          /\ \A q \in Proc \ {i} : ~Restoring(q)
      BY <1>1, <2>6, <2>7, <2>10, GoodMeansNoOverlap DEF IInv, Recorded, InForce
    <3>2. Clean(i)' /\ Progress(i)' /\ Unaltered(i)' /\ ~Restoring(i)'
      BY <1>1, <2>2, <3>1 DEF Clean, Progress, Unaltered, Restoring
    <3>3. Network'
      BY <1>1, <1>4, <3>1 DEF Network, Altered
    <3> QED
      BY <1>1, <2>3, <2>4, <2>6, <3>1, <3>2, <3>3, RecordedStep DEF IInv
  <2>11. Recorded'
    BY <2>10 DEF Recorded
  <2> QED
    BY <2>2, <2>5, <2>9, <2>11 DEF IInv, Types
<1> QED
  BY <1>3, <1>4 DEF Redirect

LEMMA StopKeeps ==
  ASSUME IInv, NEW i \in Instance, Stop(i)
  PROVE  IInv'
<1>1. /\ pc[i] = "stop" /\ InstanceOK(i) /\ i \in Proc
      /\ UNCHANGED <<world, script, owner, tries>>
      /\ script[i] = None /\ why[i] \in {"stop", "quit"}
  BY Numbers DEF Stop, IInv, Control, ProcOK, InstanceOK
<1>2. PastMutex(i) /\ \A j \in Instance \ {i} : ~Holding(j)
  <2>1. PastMutex(i)
    BY <1>1 DEF PastMutex, Alive
  <2> QED
    BY <2>1, Alone DEF IInv
<1>3. CASE file = None /\ Resume(i, TRUE) /\ UNCHANGED <<left, mishap>>
  <2>1. PICK ok \in BOOLEAN : ok /\ Resume(i, ok)
    BY <1>3
  <2>2. PastOK' /\ (NoOverlap' => NoOverlap) /\ (Good' => Good)
    BY <1>3 DEF IInv, Types, PastOK, NoOverlap, Good
  <2>3. Good' => ~Altered
    BY <1>3, <2>2 DEF IInv, Recorded, Network
  <2> QED
    BY <1>1, <2>1, <2>2, <2>3, ResumeQuiet
<1>4. ASSUME Fault("unread"), Hit({"unread"})
      PROVE  PastOK' /\ (NoOverlap' => NoOverlap) /\ (Good' => Good) /\ ~Good'
  <2>1. left' \in 0..MaxFaults
    BY <1>4, FaultLeft DEF IInv, Types
  <2>2. mishap' = mishap \cup {"unread"}
    BY <1>4 DEF Hit
  <2>3. "unread" \in mishap'
    BY <2>2
  <2> QED
    BY <2>1, <2>2, <2>3 DEF IInv, Types, PastOK, NoOverlap, Good
<1>5. CASE Fault("unread") /\ Hit({"unread"}) /\ Resume(i, TRUE)
  <2>1. PICK ok \in BOOLEAN : Resume(i, ok)
    BY <1>5
  <2> QED
    BY <1>1, <1>4, <1>5, <2>1, ResumeQuiet
<1>6. CASE /\ Fault("unread") /\ Hit({"unread"}) /\ Goto(i, "unlink")
           /\ UNCHANGED <<why, held, failed, token>>
  <2>1. pc'[i] = "unlink" /\ WorldOK' /\ WorkOK'
    BY <1>1, <1>6 DEF IInv, Types, PlaceOK, WorldOK, WorkOK, Goto, world
  <2>2. ProcOK(i)'
    BY <1>1, <2>1 DEF ProcOK
  <2>3. Control' /\ Moves(i) /\ PlaceOK' /\ TokenOK' /\ ~Holding(i)'
    BY <1>1, <1>6, <2>2, RecoverMove DEF IInv, Recovering
  <2>4. Forced'
    BY <1>1, <1>2, <1>4, <1>6, <2>3, ForcedStep DEF IInv
  <2>5. Recorded'
    BY <1>4, <1>6 DEF Recorded
  <2> QED
    BY <1>4, <1>6, <2>1, <2>3, <2>4, <2>5 DEF IInv, Types
<1>7. CASE /\ file # None /\ held' = [held EXCEPT ![i] = file] /\ Goto(i, "tell")
           /\ UNCHANGED <<why, failed, token, left, mishap>>
  BY <1>1, <1>2, <1>7, TakeRecord
<1>8. CASE /\ file # None /\ token[i] \notin {0, file.token}
           /\ pc' = [pc EXCEPT ![i] = IF why[i] = "quit" THEN "look" ELSE "active"]
           /\ why' = [why EXCEPT ![i] = IF @ = "quit" THEN "exit" ELSE @]
           /\ UNCHANGED <<held, failed, token, left, mishap>>
  <2>1. PICK l \in {"look", "active"}, y \in {"exit", "stop"} :
          /\ Goto(i, l) /\ why' = [why EXCEPT ![i] = y]
          /\ l = "look" <=> y = "exit"
    BY <1>1, <1>8 DEF Goto
  <2>2. PastOK' /\ (NoOverlap' <=> NoOverlap) /\ (Good' => Good)
    BY <1>8 DEF IInv, Types, PastOK, NoOverlap, Good
  <2>3. pc'[i] = l /\ why'[i] = y
    BY <1>1, <2>1 DEF IInv, Types, PlaceOK, Goto
  <2>4. InstanceOK(i)' /\ Unaltered(i)'
    BY <1>1, <1>8, <2>1, <2>3 DEF InstanceOK, Unaltered, Recovering
  <2>5. ~NoOverlap
    BY <1>1, <1>8 DEF IInv, Forced, Holding, InForce
  <2> QED
    BY <1>1, <1>2, <1>8, <2>1, <2>2, <2>4, <2>5, InstanceStep DEF Place, Reason
<1> QED
  BY <1>3, <1>5, <1>6, <1>7, <1>8 DEF Stop

-----------------------------------------------------------------------------
(* The watchdog, and the end of a process *)

LEMMA WatchKeeps ==
  ASSUME IInv, NEW t \in Token, Watch(t)
  PROVE  IInv'
<1> DEFINE w == Watchdog(t)
<1>1. /\ w \in Proc /\ w \notin Instance /\ pc[w] \in {"wait", "watch"}
      /\ WatchdogOK(t) /\ owner[t] \in Instance \cup {0}
      /\ UNCHANGED <<world, why, held, failed, script, token, owner>>
      /\ script[w] = None
  BY Numbers DEF Watch, IInv, Control, ProcOK, Types, TokenOK
<1>2. PICK l \in {"watch", "look", "gone"} :
        /\ Goto(w, l)
        /\ l # "gone" => ~Alive(owner[t])
        /\ tries' = tries \/ tries' = [tries EXCEPT ![t] = @ - 1]
        /\ l = "watch" => tries' = tries
        /\ mishap' = mishap \/ Hit({"unread"})
        /\ Fault("unread") \/ UNCHANGED left
  BY <1>1 DEF Watch, WatchdogOK, Recovering
<1>3. /\ pc'[w] = l /\ PlaceOK'
      /\ \A q \in Proc \ {w} : pc'[q] = pc[q]
  BY <1>1, <1>2 DEF IInv, Types, PlaceOK, Goto, Place
<1>4. TokenOK' /\ \A u \in Token : owner'[u] = owner[u] /\ (tries'[u] = tries[u] \/ w = Watchdog(u))
  <2>1. tries[t] > 0 /\ tries[t] \in 0..MaxTries /\ MaxTries \in Nat
    BY <1>1, RecoveryAssumption DEF WatchdogOK, IInv, Types, TokenOK
  <2>2. tries[t] - 1 \in 0..MaxTries
    BY <2>1
  <2>3. tries' \in [Token -> 0..MaxTries]
    BY <1>2, <2>2 DEF IInv, Types, TokenOK
  <2> QED
    BY <1>1, <1>2, <2>3 DEF IInv, Types, TokenOK
<1>5. PastOK' /\ (NoOverlap' => NoOverlap) /\ (Good' => Good)
  <2>1. left' \in 0..MaxFaults
    BY <1>2, FaultLeft DEF IInv, Types
  <2>2. PastOK'
    BY <1>2, <2>1 DEF IInv, Types, PastOK, Hit
  <2> QED
    BY <1>2, <2>2 DEF NoOverlap, Good, Hit
<1>6. Types'
  BY <1>1, <1>3, <1>4, <1>5 DEF IInv, Types, WorldOK, WorkOK, world
<1>7. Moves(w)
  BY <1>1, <1>3 DEF Moves
<1>8. WatchdogOK(t)'
  <2>1. \A i \in Instance : pc'[i] = pc[i]
    BY <1>1, <1>3, Numbers
  <2> QED
    BY <1>1, <1>2, <1>3, <2>1 DEF WatchdogOK, Alive, Recovering
<1>9. ProcOK(w)'
  BY <1>1, <1>3 DEF ProcOK
<1>10. Control'
  <2>1. \A u \in Token : w = Watchdog(u) => u = t
    BY Numbers
  <2> QED
    BY <1>1, <1>4, <1>7, <1>8, <1>9, <2>1, ControlStep DEF IInv
<1>11. ~Restoring(w)' /\ ~Working(w)' /\ script'[w] = script[w] /\ held'[w] = held[w]
  BY <1>1, <1>3 DEF Restoring, Working
<1>12. Forced'
  BY <1>1, <1>5, <1>7, <1>11, QuietForced DEF IInv
<1>13. Recorded'
  BY <1>1, <1>5, <1>7, <1>11, QuietRecorded DEF IInv
<1> QED
  BY <1>6, <1>10, <1>12, <1>13 DEF IInv

LEMMA CrashKeeps ==
  ASSUME IInv, NEW i \in Instance, Crash(i)
  PROVE  IInv'
<1>1. /\ i \in Proc /\ Alive(i) /\ UNCHANGED <<owner, tries>>
      /\ file' = file /\ altered' = altered /\ rules' = rules /\ told' = told
      /\ script[i] \in Script \cup {None}
  BY Numbers DEF Crash, world, IInv, Types, WorkOK
<1>2. /\ pc'[i] = "gone" /\ why'[i] = "pre" /\ held'[i] = None /\ failed'[i] = FALSE
      /\ token'[i] = 0
      /\ \A q \in Proc \ {i} : /\ pc'[q] = pc[q] /\ why'[q] = why[q] /\ held'[q] = held[q]
                               /\ failed'[q] = failed[q]
      /\ \A j \in Instance \ {i} : token'[j] = token[j]
      /\ PlaceOK' /\ TokenOK'
      /\ held' \in [Proc -> Record \cup {None}] /\ failed' \in [Proc -> BOOLEAN]
  <2>1. /\ pc' = [p \in Proc |-> IF p \in {i} /\ pc[p] # "off" THEN "gone" ELSE pc[p]]
        /\ held' = [p \in Proc |-> IF p \in {i} THEN None ELSE held[p]]
        /\ failed' = [p \in Proc |-> p \notin {i} /\ failed[p]]
        /\ why' = [p \in Proc |-> IF p \in {i} /\ p \in Instance THEN "pre" ELSE why[p]]
        /\ token' = [j \in Instance |-> IF j \in {i} THEN 0 ELSE token[j]]
    BY DEF Crash, Forget
  <2>2. pc[i] # "off"
    BY <1>1 DEF Alive
  <2>3. failed'[i] = FALSE /\ \A q \in Proc \ {i} : failed'[q] = failed[q]
    BY <1>1, <2>1 DEF IInv, Types, WorkOK
  <2>4. held' \in [Proc -> Record \cup {None}] /\ failed' \in [Proc -> BOOLEAN]
    BY <2>1 DEF IInv, Types, WorkOK
  <2> QED
    BY <1>1, <2>1, <2>2, <2>3, <2>4 DEF IInv, Types, PlaceOK, TokenOK, Place, Reason
<1>3. /\ script'[i] = (IF Working(i) THEN script[i] ELSE None)
      /\ \A q \in Proc \ {i} : script'[q] = script[q]
      /\ script' \in [Proc -> Script \cup {None}]
      /\ mishap' = mishap \cup (IF Working(i) /\ script[i].kind = "apply" THEN {"orphan"} ELSE {})
      /\ left' \in 0..MaxFaults
  BY <1>1, FaultLeft DEF Crash, Hit, IInv, Types, WorkOK
<1>4. PastOK' /\ (NoOverlap' => NoOverlap) /\ (Good' => Good)
  BY <1>3 DEF IInv, Types, PastOK, NoOverlap, Good
<1>5. Good' /\ Working(i) => script[i].kind = "restore"
  <2>1. Working(i) => script[i].kind \in {"apply", "restore"}
    BY <1>1 DEF Working, Script
  <2>2. Working(i) /\ script[i].kind = "apply" => "orphan" \in mishap'
    BY <1>3
  <2> QED
    BY <2>1, <2>2 DEF Good
<1>6. Moves(i)
  BY <1>1, <1>2, <1>3 DEF Moves, Alive
<1>7. InstanceOK(i)' /\ ProcOK(i)' /\ ~PastMutex(i)' /\ ~Restoring(i)' /\ ~Holding(i)' /\ Unaltered(i)'
  BY <1>2 DEF InstanceOK, ProcOK, PastMutex, Alive, Restoring, Holding, Unaltered
<1>8. Control'
  BY <1>1, <1>6, <1>7, Numbers, ControlStep DEF IInv
<1>9. Forced'
  <2>1. \A j \in Instance \ {i} : InForce(j) => ~Working(i)'
    BY <1>1, <1>3 DEF InForce, Working
  <2> QED
    BY <1>1, <1>4, <1>6, <1>7, <2>1, ForcedStep DEF IInv
<1>10. Recorded'
  BY <1>1, <1>2, <1>3, <1>4, <1>5, <1>6, <1>7, QuietRecorded DEF IInv, world
<1> QED
  BY <1>1, <1>2, <1>3, <1>4, <1>8, <1>9, <1>10 DEF IInv, Types, WorldOK, WorkOK

LEMMA PowerLossKeeps ==
  ASSUME IInv, PowerLoss
  PROVE  IInv'
<1>1. /\ UNCHANGED <<owner, tries>>
      /\ file' = file /\ altered' = altered /\ rules' = rules /\ told' = told
      /\ script' = [p \in Proc |-> None]
      /\ mishap' = mishap \cup {"power"} /\ left' \in 0..MaxFaults
  BY FaultLeft DEF PowerLoss, world, Hit, IInv, Types
<1>2. /\ \A p \in Proc : /\ pc'[p] = IF pc[p] = "off" THEN "off" ELSE "gone"
                         /\ why'[p] = IF p \in Instance THEN "pre" ELSE why[p]
                         /\ held'[p] = None /\ script'[p] = None
      /\ \A i \in Instance : token'[i] = 0
      /\ PlaceOK' /\ TokenOK'
      /\ held' \in [Proc -> Record \cup {None}] /\ failed' \in [Proc -> BOOLEAN]
  <2>1. /\ pc' = [p \in Proc |-> IF p \in Proc /\ pc[p] # "off" THEN "gone" ELSE pc[p]]
        /\ held' = [p \in Proc |-> IF p \in Proc THEN None ELSE held[p]]
        /\ failed' = [p \in Proc |-> p \notin Proc /\ failed[p]]
        /\ why' = [p \in Proc |-> IF p \in Proc /\ p \in Instance THEN "pre" ELSE why[p]]
        /\ token' = [j \in Instance |-> IF j \in Proc THEN 0 ELSE token[j]]
    BY DEF PowerLoss, Forget
  <2>2. held' \in [Proc -> Record \cup {None}] /\ failed' \in [Proc -> BOOLEAN]
    BY <2>1 DEF IInv, Types, WorkOK
  <2> QED
    BY <1>1, <2>1, <2>2, Numbers DEF IInv, Types, PlaceOK, TokenOK, Place, Reason
<1>3. Types'
  BY <1>1, <1>2 DEF IInv, Types, WorldOK, WorkOK, PastOK
<1>4. Control'
  <2>1. \A i \in Instance : InstanceOK(i)' /\ ~PastMutex(i)'
    BY <1>2, Numbers DEF InstanceOK, PastMutex, Alive
  <2>2. ASSUME NEW t \in Token PROVE WatchdogOK(t)'
    <3>1. WatchdogOK(t) /\ owner[t] \in Instance \cup {0} /\ Watchdog(t) \in Proc \ Instance
      BY Numbers DEF IInv, Control, Types, TokenOK
    <3> QED
      BY <1>1, <1>2, <3>1, Numbers DEF WatchdogOK, Alive, Recovering
  <2>3. \A p \in Proc : ProcOK(p)'
    BY <1>2 DEF ProcOK
  <2> QED
    BY <2>1, <2>2, <2>3 DEF Control, AtMostOne
<1>5. Forced'
  BY <1>2, Numbers DEF Forced, Holding
<1>6. Recorded'
  <2>1. Good' => Network'
    BY <1>1 DEF IInv, Recorded, Good, Network, Altered
  <2>2. \A i \in Instance : Unaltered(i)'
    BY <1>2, Numbers DEF Unaltered
  <2>3. \A q \in Proc : Clean(q)' /\ Progress(q)' /\ SameRecord(q)'
    BY <1>2 DEF Clean, Progress, SameRecord, Restoring
  <2> QED
    BY <2>1, <2>2, <2>3 DEF Recorded
<1> QED
  BY <1>3, <1>4, <1>5, <1>6 DEF IInv

-----------------------------------------------------------------------------
(* The theorems *)

LEMMA InitHolds == RInit => IInv
<1> SUFFICES ASSUME RInit PROVE IInv
  OBVIOUS
<1>1. Types
  <2>1. WorldOK /\ PastOK
    <3>1. WorldOK
      BY DEF RInit, WorldOK
    <3>2. MaxFaults \in Nat
      BY RecoveryAssumption
    <3>3. MaxFaults \in 0..MaxFaults
      BY <3>2
    <3> QED
      BY <3>1, <3>3 DEF RInit, PastOK
  <2>2. PlaceOK /\ WorkOK
    BY DEF RInit, PlaceOK, WorkOK, Place, Reason
  <2>3. TokenOK
    BY RecoveryAssumption DEF RInit, TokenOK
  <2> QED
    BY <2>1, <2>2, <2>3 DEF Types
<1>2. \A p \in Proc : pc[p] = "off" /\ script[p] = None /\ held[p] = None
  BY DEF RInit
<1>3. Control
  <2>1. \A i \in Instance : InstanceOK(i) /\ ~PastMutex(i)
    BY <1>2, Numbers DEF RInit, InstanceOK, PastMutex, Alive
  <2>2. ASSUME NEW t \in Token PROVE WatchdogOK(t)
    BY <1>2, Numbers, RecoveryAssumption DEF RInit, WatchdogOK, Recovering
  <2>3. \A p \in Proc : ProcOK(p)
    BY <1>2 DEF ProcOK
  <2> QED
    BY <2>1, <2>2, <2>3 DEF Control, AtMostOne
<1>4. Forced
  BY <1>2, Numbers DEF Forced, Holding
<1>5. Recorded
  BY <1>2, Numbers DEF RInit, Recorded, Network, Altered, Unaltered, Clean, Progress, SameRecord,
     Restoring
<1> QED
  BY <1>1, <1>3, <1>4, <1>5 DEF IInv

LEMMA NextKeeps == IInv /\ [RNext]_rvars => IInv'
<1> SUFFICES ASSUME IInv, [RNext]_rvars PROVE IInv'
  OBVIOUS
<1>1. CASE UNCHANGED rvars
  <2>1. /\ file' = file /\ altered' = altered /\ rules' = rules /\ told' = told
        /\ pc' = pc /\ why' = why /\ held' = held /\ failed' = failed /\ script' = script
        /\ token' = token /\ owner' = owner /\ tries' = tries /\ left' = left /\ mishap' = mishap
    BY <1>1 DEF rvars, world
  <2>2. Types'
    BY <2>1 DEF IInv, Types, WorldOK, PlaceOK, WorkOK, TokenOK, PastOK
  <2>3. Control'
    BY <2>1 DEF IInv, Control, InstanceOK, WatchdogOK, ProcOK, AtMostOne, PastMutex, Alive
  <2>4. Forced'
    BY <2>1 DEF IInv, Forced, NoOverlap, Holding, InForce, Restoring, Working
  <2>5. Recorded'
    BY <2>1 DEF IInv, Recorded, Good, Network, Unaltered, Clean, Progress, SameRecord, Restoring,
       Altered
  <2> QED
    BY <2>2, <2>3, <2>4, <2>5 DEF IInv
<1>2. ASSUME NEW p \in Proc, Restore(p) \/ ScriptStep(p) PROVE IInv'
  BY <1>2, LookKeeps, TellKeeps, RestoreReturnsKeeps, SettleKeeps, UnlinkKeeps, ScriptStepKeeps
     DEF Restore
<1>3. ASSUME NEW i \in Instance, Session(i) PROVE IInv'
  BY <1>3, BeginKeeps, StartKeeps, SetupKeeps, SnapshotKeeps, WriteRecordKeeps, GuardKeeps,
     ApplyReturnsKeeps, RedirectKeeps, AskStopKeeps, StopKeeps DEF Session
<1>4. ASSUME NEW i \in Instance, Launch(i) \/ TakeMutex(i) \/ Crash(i) PROVE IInv'
  BY <1>4, LaunchKeeps, TakeMutexKeeps, CrashKeeps
<1>5. ASSUME NEW t \in Token, Watch(t) PROVE IInv'
  BY <1>5, WatchKeeps
<1> QED
  BY <1>1, <1>2, <1>3, <1>4, <1>5, PowerLossKeeps DEF RNext

LEMMA Invariant == RSpec => []IInv
BY InitHolds, NextKeeps, PTL DEF RSpec

\* Every variable keeps to its type; in particular no watchdog restores more
\* often than restore_attempts allows.
THEOREM TypeCorrect == RSpec => []RTypeOK
<1>1. IInv => RTypeOK
  BY DEF IInv, Types, WorldOK, PlaceOK, WorkOK, TokenOK, PastOK, RTypeOK, Place, Reason
<1> QED
  BY <1>1, Invariant, PTL

\* Whoever crashes and however often the machine restarts, whatever differs from
\* the network the user had is described by a restore file whose snapshot is
\* what the user had (the accidents that break this are in mishap).
THEOREM NetworkAlwaysRecorded == RSpec => []NetworkIsRecorded
<1>1. IInv => NetworkIsRecorded
  BY DEF IInv, Recorded, Good, Network, NetworkIsRecorded
<1> QED
  BY <1>1, Invariant, PTL

\* No recover of another process and no watchdog takes an active session away
\* that it was not already working on when the session started.
THEOREM ActiveStaysInForce == RSpec => []ActiveInForce
<1>1. IInv => ActiveInForce
  BY DEF IInv, Forced, NoOverlap, Holding, InForce, ActiveInForce
<1> QED
  BY <1>1, Invariant, PTL
=============================================================================
