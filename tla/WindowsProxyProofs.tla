------------------------- MODULE WindowsProxyProofs -------------------------
(***************************************************************************)
(* Theorems about WindowsProxy for every number of processes and tokens,   *)
(* every set of user settings and every combination of faults.             *)
(***************************************************************************)
EXTENDS WindowsProxy, TLAPS

(***************************************************************************)
(* The inductive invariant.  A snapshot is sane when restoring it cannot   *)
(* leave browsers pointed at the application.                              *)
(***************************************************************************)
Sane(s) ==
  s # NoFile =>
    (s.values["ProxyEnable"] = "on" => s.values["ProxyServer"] \notin {App, Keep})

AllSane ==
  /\ Sane(file)
  /\ \A p \in Proc : Sane(previous[p])
  /\ \A a \in Actor : Sane(loaded[a]) /\ Sane(restoring[a])

\* Attempts of a watchdog that is still to try, and who may be one.
AttemptsLeft ==
  /\ \A t \in Token : pc[t] \in {"unborn", "poll", "try"} \/ caller[t] = "watchdog"
                        => attempts[t] < MaxAttempts
  /\ \A a \in Actor : caller[a] = "watchdog" => a \in Token

\* A token is fresh until its watchdog starts.
FreshTokens ==
  /\ \A t \in Token : launcher[t] = Nobody => pc[t] = "unborn"
  /\ \A p \in Proc : pc[p] = "launch" =>
       /\ token[p] \in Token
       /\ launcher[token[p]] = p
       /\ pc[token[p]] = "unborn"

\* How far the writes of a restore have come.
RestoreProgress ==
  \A a \in Actor :
    /\ pc[a] = "restore" =>
         /\ restoring[a] # NoFile
         /\ step[a] > 1 => registry["ProxyEnable"] = "off"
         /\ step[a] > 2 => restoring[a].values["ProxyServer"]
                             \in {registry["ProxyServer"], Keep}
    /\ pc[a] \in {"unlink", "snapshot"} => ~PointsToApp
    /\ pc[a] = "unlink" => restoring[a] # NoFile

\* The application's values are written over a saved snapshot only.
AppliedOverFile ==
  \A a \in Actor : pc[a] \in {"launch", "apply"} => file # NoFile

IInv ==
  /\ TypeOK
  /\ Serialized
  /\ AllSane
  /\ AttemptsLeft
  /\ FreshTokens
  /\ RestoreProgress
  /\ AppliedOverFile
  /\ NoOrphanedProxy

-----------------------------------------------------------------------------
(* What the values are. *)

LEMMA UserSettingsAreSettings ==
  \A u \in UserSettings : u \in Setting /\ u["ProxyServer"] \notin {App, Keep}
<1> SUFFICES ASSUME NEW u \in UserSettings
             PROVE  u \in Setting /\ u["ProxyServer"] \notin {App, Keep}
  OBVIOUS
<1>1. u = [n \in Name |-> u[n]] /\ \A n \in Name : u[n] # App /\ u[n] # Keep
  BY ConstAssumption
<1>2. \A n \in Name : u[n] \in UserValue
  BY DEF UserValue
<1> QED
  BY <1>1, <1>2 DEF Setting, Value, Name

LEMMA UnreadableIsSnapshot ==
  Unreadable \in Snapshot /\ Unreadable # NoFile /\ Sane(Unreadable)
<1>1. [n \in Name |-> IF n = "ProxyEnable" THEN "off" ELSE Keep]
        \in [Name -> Value \cup {Keep}]
  BY DEF Value
<1>2. Unreadable \in Snapshot
  BY <1>1 DEF Unreadable, Snapshot
<1>3. Unreadable.values["ProxyEnable"] = "off"
  BY DEF Unreadable, Name
<1> QED
  BY <1>2, <1>3, NoFileAssumption DEF Sane

\* A load yields the file or Unreadable, and NoFile exactly when there is none.
LEMMA Loads ==
  ASSUME TypeOK, Sane(file), NEW s \in LoadState
  PROVE  /\ s \in Snapshot \cup {NoFile}
         /\ Sane(s)
         /\ s = NoFile <=> file = NoFile
BY UnreadableIsSnapshot DEF LoadState, TypeOK, Sane

-----------------------------------------------------------------------------
(* What leaving a call, and beginning a restore, may change. *)

NextPC == {"mutex", "dead", "gui", "snapshot", "exists", "try"}

LEMMA AfterReturnIn ==
  ASSUME NEW a \in Actor, NEW ok \in BOOLEAN, NEW raised \in BOOLEAN
  PROVE  /\ AfterReturn(a, ok, raised) \in NextPC
         /\ AfterReturn(a, ok, raised) = "snapshot" => ok
         /\ AfterReturn(a, ok, raised) = "try" =>
              caller[a] = "watchdog" /\ ~ok /\ ~(attempts[a] + 1 >= MaxAttempts)
BY DEF AfterReturn, NextAttempt, NextPC

\* The part of the type invariant that speaks of running calls.
CallTypes ==
  /\ guard \in Actor \cup {Free}
  /\ mutex \in Proc \cup {Free}
  /\ pc \in [Actor -> PC]
  /\ caller \in [Actor -> Caller]
  /\ step \in [Actor -> 1..4]
  /\ loaded \in [Actor -> Snapshot \cup {NoFile}]
  /\ restoring \in [Actor -> Snapshot \cup {NoFile}]
  /\ attempts \in [Token -> 0..MaxAttempts]

CallsSane == \A a \in Actor : Sane(loaded[a]) /\ Sane(restoring[a])

CallInv ==
  /\ CallTypes
  /\ CallsSane
  /\ Serialized
  /\ AttemptsLeft
  /\ FreshTokens
  /\ RestoreProgress

LEMMA LeaveKeeps ==
  ASSUME IInv, NEW a \in Actor, NEW ok \in BOOLEAN, NEW raised \in BOOLEAN,
         Leave(a, ok, raised), pc[a] # "unborn",
         ok => guard = a /\ ~PointsToApp,
         UNCHANGED <<registry, launcher>>,
         \A p \in Proc \ {a} : token'[p] = token[p]
  PROVE  /\ CallInv'
         /\ pc'[a] \notin {"launch", "apply"}
         /\ \A b \in Actor \ {a} : pc'[b] = pc[b]
<1> DEFINE n == AfterReturn(a, ok, raised)
<1>1. /\ n \in NextPC
      /\ n = "snapshot" => ok
      /\ n = "try" => caller[a] = "watchdog" /\ ~ok /\ ~(attempts[a] + 1 >= MaxAttempts)
  BY AfterReturnIn
<1> HIDE DEF n
<1>2. /\ pc' = [pc EXCEPT ![a] = n]
      /\ step' = [step EXCEPT ![a] = 1]
      /\ loaded' = [loaded EXCEPT ![a] = NoFile]
      /\ restoring' = [restoring EXCEPT ![a] = NoFile]
      /\ guard' = IF guard = a /\ n # "snapshot" THEN Free ELSE guard
      /\ mutex' = IF mutex = a /\ n = "dead" THEN Free ELSE mutex
      /\ attempts' = IF caller[a] = "watchdog" /\ ~ok
                     THEN [attempts EXCEPT ![a] = @ + 1] ELSE attempts
      /\ caller' = [caller EXCEPT ![a] = IF caller[a] = "quit" THEN "exit"
                                         ELSE IF n = "snapshot" THEN "enable"
                                         ELSE "none"]
  BY DEF Leave, n
<1>3. TypeOK /\ Serialized /\ AttemptsLeft /\ FreshTokens /\ RestoreProgress /\ AllSane
  BY DEF IInv
<1>4. n \in PC
  BY <1>1 DEF NextPC, PC
<1>5. attempts' \in [Token -> 0..MaxAttempts]
  <2>1. CASE caller[a] = "watchdog" /\ ~ok
    <3>1. a \in Token /\ attempts[a] < MaxAttempts
      BY <2>1, <1>3 DEF AttemptsLeft
    <3> QED
      BY <3>1, <2>1, <1>2, <1>3, ConstAssumption DEF TypeOK
  <2> QED
    BY <2>1, <1>2, <1>3 DEF TypeOK
<1>6. CallTypes'
  BY <1>2, <1>3, <1>4, <1>5 DEF CallTypes, TypeOK, Caller
<1>7. CallsSane'
  BY <1>2, <1>3 DEF CallsSane, AllSane, Sane, TypeOK
<1>8. Serialized'
  BY <1>1, <1>2, <1>3 DEF Serialized, InTransaction, TypeOK, NextPC
<1>9. AttemptsLeft'
  <2>1. ASSUME NEW t \in Token,
               pc'[t] \in {"unborn", "poll", "try"} \/ caller'[t] = "watchdog"
        PROVE  attempts'[t] < MaxAttempts
    <3>1. CASE t = a
      <4>1. n = "try"
        BY <2>1, <3>1, <1>1, <1>2, <1>3 DEF TypeOK, NextPC
      <4>2. attempts'[t] = attempts[t] + 1
        BY <4>1, <3>1, <1>1, <1>2, <1>3 DEF TypeOK
      <4>3. attempts[t] + 1 \in Nat /\ ~(attempts[t] + 1 >= MaxAttempts)
        BY <4>1, <3>1, <1>1, <1>3 DEF TypeOK
      <4> QED
        BY <4>2, <4>3, ConstAssumption
    <3>2. CASE t # a
      BY <2>1, <3>2, <1>2, <1>3 DEF TypeOK, AttemptsLeft, Actor
    <3> QED
      BY <3>1, <3>2
  <2>2. \A b \in Actor : caller'[b] = "watchdog" => b \in Token
    BY <1>2, <1>3 DEF TypeOK, AttemptsLeft
  <2> QED
    BY <2>1, <2>2 DEF AttemptsLeft
<1>10. FreshTokens'
  <2>1. \A p \in Proc : pc'[p] = "launch" => p # a /\ pc[p] = "launch"
    BY <1>1, <1>2, <1>3 DEF TypeOK, NextPC, Actor
  <2>2. \A t \in Token : pc[t] = "unborn" => pc'[t] = "unborn"
    BY <1>2, <1>3 DEF TypeOK, Actor
  <2> QED
    BY <2>1, <2>2, <1>3 DEF FreshTokens
<1>11. RestoreProgress'
  BY <1>1, <1>2, <1>3 DEF RestoreProgress, TypeOK, NextPC, PointsToApp
<1>12. pc'[a] \notin {"launch", "apply"} /\ \A b \in Actor \ {a} : pc'[b] = pc[b]
  BY <1>1, <1>2, <1>3 DEF TypeOK, NextPC
<1> QED
  BY <1>6, <1>7, <1>8, <1>9, <1>10, <1>11, <1>12 DEF CallInv

LEMMA BeginRestoreKeeps ==
  ASSUME IInv, NEW a \in Actor, NEW prev \in Snapshot \cup {NoFile}, Sane(prev),
         NEW tok, NEW c \in Caller,
         c = "watchdog" => a \in Token /\ attempts[a] < MaxAttempts,
         guard \in {Free, a}, pc[a] # "unborn",
         BeginRestore(a, prev, tok, c),
         UNCHANGED <<registry, launcher, token>>
  PROVE  /\ CallInv'
         /\ pc'[a] \notin {"launch", "apply"}
         /\ \A b \in Actor \ {a} : pc'[b] = pc[b]
<1>1. TypeOK /\ Serialized /\ AttemptsLeft /\ FreshTokens /\ RestoreProgress /\ AllSane
  BY DEF IInv
<1>2. CASE Leave(a, FALSE, FALSE)
  BY <1>2, LeaveKeeps
<1>3. CASE ~Leave(a, FALSE, FALSE)
  <2>1. PICK disk \in LoadState, state \in {prev} \cup LoadState :
             /\ state # NoFile
             /\ restoring' = [restoring EXCEPT ![a] = state]
             /\ pc' = [pc EXCEPT ![a] = "restore"]
             /\ caller' = [caller EXCEPT ![a] = c]
             /\ step' = [step EXCEPT ![a] = 1]
             /\ guard' = a
             /\ UNCHANGED <<mutex, loaded, attempts>>
    BY <1>3 DEF BeginRestore
  <2>2. state \in Snapshot /\ Sane(state)
    BY <2>1, <1>1, Loads DEF AllSane
  <2>3. CallTypes'
    BY <2>1, <2>2, <1>1 DEF CallTypes, TypeOK, PC
  <2>4. CallsSane'
    BY <2>1, <2>2, <1>1 DEF CallsSane, AllSane, Sane, TypeOK
  <2>5. \A b \in Actor \ {a} : ~InTransaction(b)
    BY <1>1, ConstAssumption DEF Serialized
  <2>6. Serialized'
    BY <2>1, <2>5, <1>1 DEF Serialized, InTransaction, TypeOK
  <2>7. AttemptsLeft'
    BY <2>1, <1>1 DEF AttemptsLeft, TypeOK, Actor
  <2>8. FreshTokens'
    BY <2>1, <1>1 DEF FreshTokens, TypeOK, Actor
  <2>9. RestoreProgress'
    BY <2>1, <1>1 DEF RestoreProgress, TypeOK, PointsToApp
  <2> QED
    BY <2>1, <2>3, <2>4, <2>6, <2>7, <2>8, <2>9, <1>1 DEF CallInv, TypeOK
<1> QED
  BY <1>2, <1>3

\* A step that changes nothing but running calls.
LEMMA OnlyCallsChange ==
  ASSUME IInv, CallInv',
         UNCHANGED <<registry, file, previous, token, launcher, user>>,
         enabled' \in [Proc -> BOOLEAN], oldAlive' \in BOOLEAN,
         \A a \in Actor : pc'[a] \in {"launch", "apply"} => pc[a] \in {"launch", "apply"}
  PROVE  IInv'
<1>1. TypeOK'
  BY DEF IInv, CallInv, CallTypes, TypeOK
<1>2. AllSane'
  BY DEF IInv, CallInv, CallsSane, AllSane, Sane
<1>3. AppliedOverFile' /\ NoOrphanedProxy'
  BY DEF IInv, AppliedOverFile, NoOrphanedProxy, PointsToApp
<1> QED
  BY <1>1, <1>2, <1>3 DEF CallInv, IInv

\* A step of process a from one quiet place of its program to another.
QuietPC == {"dead", "mutex", "gui", "stop", "exists", "read", "lock", "try"}

LEMMA MoveKeeps ==
  ASSUME IInv, NEW a \in Actor, NEW n \in QuietPC, NEW c \in Caller,
         NEW l \in Snapshot \cup {NoFile}, Sane(l),
         pc' = [pc EXCEPT ![a] = n],
         caller' = [caller EXCEPT ![a] = c],
         loaded' = [loaded EXCEPT ![a] = l],
         pc[a] = "unborn" => a \in Proc,
         n = "try" \/ c = "watchdog" => a \in Token /\ attempts[a] < MaxAttempts,
         guard' = guard \/ (guard \in {a, Free} /\ guard' \in {a, Free}),
         mutex' \in Proc \cup {Free},
         UNCHANGED <<step, restoring, attempts, registry, launcher, token>>
  PROVE  /\ CallInv'
         /\ \A b \in Actor : pc'[b] \in {"launch", "apply"} => pc[b] \in {"launch", "apply"}
<1>1. TypeOK /\ Serialized /\ AttemptsLeft /\ FreshTokens /\ RestoreProgress /\ AllSane
  BY DEF IInv
<1>2. CallTypes' /\ CallsSane'
  BY <1>1 DEF CallTypes, CallsSane, AllSane, Sane, TypeOK, PC, QuietPC
<1>3. Serialized'
  <2>1. \A b \in Actor : InTransaction(b)' => b # a /\ InTransaction(b)
    BY <1>1 DEF InTransaction, TypeOK, QuietPC
  <2> QED
    BY <2>1, <1>1, ConstAssumption DEF Serialized
<1>4. AttemptsLeft'
  BY <1>1 DEF AttemptsLeft, TypeOK, QuietPC, Actor
<1>5. FreshTokens'
  <2>1. \A t \in Token : pc[t] = "unborn" => pc'[t] = "unborn"
    BY <1>1, ConstAssumption DEF TypeOK, Actor
  <2>2. \A p \in Proc : pc'[p] = "launch" => pc[p] = "launch"
    BY <1>1 DEF TypeOK, Actor, QuietPC
  <2> QED
    BY <2>1, <2>2, <1>1 DEF FreshTokens
<1>6. RestoreProgress'
  BY <1>1 DEF RestoreProgress, TypeOK, PointsToApp, QuietPC
<1>7. \A b \in Actor : pc'[b] \in {"launch", "apply"} => pc[b] \in {"launch", "apply"}
  BY <1>1 DEF TypeOK, QuietPC
<1> QED
  BY <1>2, <1>3, <1>4, <1>5, <1>6, <1>7 DEF CallInv

-----------------------------------------------------------------------------
(* recover_stale *)

LEMMA RecoverKeeps ==
  ASSUME IInv, NEW a \in Actor, Recover(a)
  PROVE  IInv'
<1>a. TypeOK /\ AttemptsLeft /\ AllSane
  BY DEF IInv
<1>b. /\ loaded[a] \in Snapshot \cup {NoFile} /\ Sane(loaded[a])
      /\ caller[a] \in Caller
      /\ caller[a] = "watchdog" => a \in Token /\ attempts[a] < MaxAttempts
  BY <1>a DEF TypeOK, AllSane, AttemptsLeft
<1>1. ASSUME NEW r \in BOOLEAN, Leave(a, FALSE, r),
             pc[a] \in {"exists", "read", "lock"},
             UNCHANGED <<registry, file, previous, token, enabled, launcher, oldAlive, user>>
      PROVE  IInv'
  <2>1. /\ CallInv'
        /\ pc'[a] \notin {"launch", "apply"}
        /\ \A b \in Actor \ {a} : pc'[b] = pc[b]
    BY <1>1, LeaveKeeps
  <2> QED
    BY <2>1, <1>1, <1>a, OnlyCallsChange DEF TypeOK
<1>2. CASE RecoverExists(a) /\ ~Leave(a, FALSE, FALSE)
  <2>1. /\ pc[a] = "exists" /\ pc' = [pc EXCEPT ![a] = "read"]
        /\ UNCHANGED <<caller, guard, mutex, step, loaded, restoring, attempts>>
        /\ UNCHANGED <<registry, file, previous, token, enabled, launcher, oldAlive, user>>
    BY <1>2 DEF RecoverExists
  <2>2. caller' = [caller EXCEPT ![a] = caller[a]] /\ loaded' = [loaded EXCEPT ![a] = loaded[a]]
    BY <2>1, <1>a DEF TypeOK
  <2>3. CallInv' /\ \A b \in Actor : pc'[b] \in {"launch", "apply"} => pc[b] \in {"launch", "apply"}
    BY <2>1, <2>2, <1>a, <1>b, MoveKeeps DEF TypeOK, QuietPC
  <2> QED
    BY <2>1, <2>3, <1>a, OnlyCallsChange DEF TypeOK
<1>3. CASE RecoverRead(a) /\ ~Leave(a, FALSE, FALSE)
  <2>1. PICK s \in (IF file = NoFile THEN {Unreadable} ELSE LoadState) :
               /\ loaded' = [loaded EXCEPT ![a] = s]
               /\ pc' = [pc EXCEPT ![a] = "lock"]
               /\ UNCHANGED <<caller, guard, mutex, step, restoring, attempts>>
    BY <1>3 DEF RecoverRead
  <2>2. s \in Snapshot \cup {NoFile} /\ Sane(s)
    BY <2>1, <1>a, Loads, UnreadableIsSnapshot DEF AllSane
  <2>3. caller' = [caller EXCEPT ![a] = caller[a]]
    BY <2>1, <1>a DEF TypeOK
  <2> QED
    BY <1>3, <2>1, <2>2, <2>3, <1>a, <1>b, MoveKeeps, OnlyCallsChange
       DEF RecoverRead, TypeOK, QuietPC
<1>4. CASE RecoverLocked(a)
  <2>1. /\ CallInv'
        /\ pc'[a] \notin {"launch", "apply"}
        /\ \A b \in Actor \ {a} : pc'[b] = pc[b]
    BY <1>4, <1>b, BeginRestoreKeeps DEF RecoverLocked, CanLock
  <2> QED
    BY <2>1, <1>4, <1>a, OnlyCallsChange DEF RecoverLocked, TypeOK
<1> QED
  BY <1>1, <1>2, <1>3, <1>4 DEF Recover, RecoverExists, RecoverRead, RecoverTimeout

-----------------------------------------------------------------------------
(* _disable_locked *)

LEMMA RestoreWriteKeeps ==
  ASSUME IInv, NEW a \in Actor, RestoreWrite(a)
  PROVE  IInv'
<1>a. TypeOK /\ Serialized /\ AllSane /\ AttemptsLeft /\ FreshTokens
      /\ RestoreProgress /\ AppliedOverFile
  BY DEF IInv
<1> DEFINE s == restoring[a]
<1>b. /\ pc[a] = "restore"
      /\ UNCHANGED <<file, guard, mutex, caller, previous, token, enabled, loaded,
                     restoring, attempts, launcher, oldAlive, user>>
  BY DEF RestoreWrite
<1>c. /\ s \in Snapshot /\ s.values \in [Name -> Value \cup {Keep}]
      /\ s.values["ProxyEnable"] = "on" => s.values["ProxyServer"] \notin {App, Keep}
      /\ step[a] > 1 => registry["ProxyEnable"] = "off"
      /\ step[a] > 2 => s.values["ProxyServer"] \in {registry["ProxyServer"], Keep}
      /\ step[a] \in 1..4
  BY <1>a, <1>b DEF TypeOK, RestoreProgress, AllSane, Sane, Snapshot
<1>d. /\ step[a] = 1 => registry' = [registry EXCEPT !["ProxyEnable"] = "off"]
      /\ step[a] = 2 => registry' = IF s.values["ProxyServer"] = Keep THEN registry
                         ELSE [registry EXCEPT !["ProxyServer"] = s.values["ProxyServer"]]
      /\ step[a] = 3 => registry' = IF s.values["ProxyOverride"] = Keep THEN registry
                         ELSE [registry EXCEPT !["ProxyOverride"] = s.values["ProxyOverride"]]
      /\ step[a] = 4 => registry' = IF s.values["ProxyEnable"] = Keep THEN registry
                         ELSE [registry EXCEPT !["ProxyEnable"] = s.values["ProxyEnable"]]
  <2>1. registry' = Restored(s, step[a])
    BY DEF RestoreWrite
  <2>2. /\ WriteOrder[2] = "ProxyServer"
        /\ WriteOrder[3] = "ProxyOverride"
        /\ WriteOrder[4] = "ProxyEnable"
    BY DEF WriteOrder
  <2> HIDE DEF s
  <2>3. CASE step[a] = 1
    BY <2>1, <2>3 DEF Restored
  <2>4. CASE step[a] # 1
    BY <2>1, <2>2, <2>4 DEF Restored, WithEntry
  <2> QED
    BY <2>3, <2>4
<1>e. /\ step[a] # 4 => step' = [step EXCEPT ![a] = step[a] + 1] /\ pc' = pc
      /\ step[a] = 4 => step' = [step EXCEPT ![a] = 1] /\ pc' = [pc EXCEPT ![a] = "unlink"]
  BY <1>c DEF RestoreWrite, LastRestoreWrite
<1> HIDE DEF s
<1>f. step[a] = 1 \/ step[a] = 2 \/ step[a] = 3 \/ step[a] = 4
  BY <1>c
<1>g. registry \in [Name -> Value] /\ "off" \in Value
  BY <1>a DEF TypeOK, Setting, Value
<1>1. registry' \in Setting
  <2>1. \A n \in Name : s.values[n] # Keep => s.values[n] \in Value
    BY <1>c
  <2> QED
    BY <2>1, <1>d, <1>f, <1>g DEF Setting, Name
<1>2. step' \in [Actor -> 1..4] /\ pc' \in [Actor -> PC]
  BY <1>a, <1>c, <1>e, <1>f DEF TypeOK, PC
<1>3. TypeOK'
  BY <1>1, <1>2, <1>a, <1>b DEF TypeOK
<1>4. /\ step[a] # 4 => registry'["ProxyEnable"] = "off"
      /\ step[a] \in {2, 3} => s.values["ProxyServer"] \in {registry'["ProxyServer"], Keep}
  BY <1>c, <1>d, <1>f, <1>g DEF Name
<1>5. ~PointsToApp'
  BY <1>4, <1>c, <1>d, <1>f, <1>g DEF PointsToApp, Name
<1>6. \A b \in Actor \ {a} : ~InTransaction(b) /\ pc'[b] = pc[b]
  BY <1>a, <1>b, <1>e, <1>f DEF Serialized, InTransaction, TypeOK
<1>7. RestoreProgress'
  <2>1. pc'[a] = "restore" => step[a] # 4 /\ step'[a] = step[a] + 1
    BY <1>a, <1>e DEF TypeOK
  <2>2. pc'[a] = "restore" =>
          /\ registry'["ProxyEnable"] = "off"
          /\ step'[a] > 2 => s.values["ProxyServer"] \in {registry'["ProxyServer"], Keep}
    BY <2>1, <1>4, <1>f
  <2>3. s # NoFile
    BY <1>c, NoFileAssumption
  <2> QED
    BY <2>2, <2>3, <1>5, <1>6, <1>b DEF RestoreProgress, InTransaction, PointsToApp, s
<1>8. Serialized' /\ FreshTokens' /\ AttemptsLeft' /\ AppliedOverFile'
  <2>1. pc'[a] \in {"restore", "unlink"} /\ guard' = a
    BY <1>a, <1>b, <1>e, <1>f DEF TypeOK, Serialized, InTransaction
  <2>2. Serialized' /\ AppliedOverFile'
    BY <2>1, <1>6, <1>b DEF Serialized, InTransaction, AppliedOverFile
  <2>3. FreshTokens' /\ AttemptsLeft'
    BY <2>1, <1>6, <1>a, <1>b DEF FreshTokens, AttemptsLeft, Actor
  <2> QED
    BY <2>2, <2>3
<1>9. AllSane'
  BY <1>a, <1>b DEF AllSane, Sane
<1> QED
  BY <1>3, <1>5, <1>7, <1>8, <1>9 DEF IInv, NoOrphanedProxy

LEMMA RestoreKeeps ==
  ASSUME IInv, NEW a \in Actor, Restore(a)
  PROVE  IInv'
<1>a. TypeOK /\ Serialized /\ AllSane /\ RestoreProgress /\ AppliedOverFile
  BY DEF IInv
<1>1. CASE RestoreWrite(a)
  BY <1>1, RestoreWriteKeeps
<1>2. CASE Unlink(a)
  <2>1. /\ pc[a] = "unlink" /\ guard = a /\ ~PointsToApp
        /\ Leave(a, TRUE, FALSE)
        /\ UNCHANGED <<registry, enabled, launcher, oldAlive, user>>
        /\ file' \in {file, NoFile}
        /\ previous' = IF UsesOwnObject(a) THEN [previous EXCEPT ![a] = NoFile] ELSE previous
        /\ token' = IF UsesOwnObject(a) THEN [token EXCEPT ![a] = NoToken] ELSE token
    BY <1>2, <1>a DEF Unlink, RestoreProgress, Serialized, InTransaction
  <2>2. \A p \in Proc \ {a} : token'[p] = token[p]
    BY <2>1, <1>a DEF TypeOK
  <2>3. /\ CallInv'
        /\ pc'[a] \notin {"launch", "apply"}
        /\ \A b \in Actor \ {a} : pc'[b] = pc[b]
    BY <2>1, <2>2, LeaveKeeps
  <2>4. TypeOK'
    <3>1. previous' \in [Proc -> Snapshot \cup {NoFile}]
          /\ token' \in [Proc -> Token \cup {NoToken}]
      BY <2>1, <1>a DEF TypeOK
    <3> QED
      BY <3>1, <2>1, <2>3, <1>a DEF TypeOK, CallInv, CallTypes
  <2>5. AllSane'
    BY <2>1, <2>3, <1>a DEF CallInv, CallsSane, AllSane, Sane, TypeOK
  <2>6. NoOrphanedProxy'
    BY <2>1 DEF NoOrphanedProxy, PointsToApp
  <2>7. AppliedOverFile'
    <3>1. \A b \in Actor : ~(pc'[b] \in {"launch", "apply"})
      BY <2>1, <2>3, <1>a DEF Serialized, InTransaction
    <3> QED
      BY <3>1 DEF AppliedOverFile
  <2> QED
    BY <2>3, <2>4, <2>5, <2>6, <2>7 DEF CallInv, IInv
<1>3. CASE RestoreFails(a)
  <2>1. /\ CallInv'
        /\ pc'[a] \notin {"launch", "apply"}
        /\ \A b \in Actor \ {a} : pc'[b] = pc[b]
    BY <1>3, LeaveKeeps DEF RestoreFails
  <2> QED
    BY <2>1, <1>3, <1>a, OnlyCallsChange DEF RestoreFails, TypeOK
<1> QED
  BY <1>1, <1>2, <1>3 DEF Restore

-----------------------------------------------------------------------------
(* _enable_locked and _write_app_proxy_values *)

\* Nobody else is in a transaction while this process holds the lock.
LEMMA Alone ==
  ASSUME TypeOK, Serialized, NEW p \in Actor, guard \in {p, Free}
  PROVE  \A b \in Actor \ {p} : ~InTransaction(b)
BY ConstAssumption DEF Serialized

LEMMA TakeSnapshotKeeps ==
  ASSUME IInv, NEW p \in Proc, TakeSnapshot(p)
  PROVE  IInv'
<1>a. TypeOK /\ Serialized /\ AllSane /\ AttemptsLeft /\ FreshTokens
      /\ RestoreProgress /\ AppliedOverFile /\ p \in Actor
  BY DEF IInv, Actor
<1>b. PICK t \in Token :
        LET s == [owner |-> p, token |-> t, values |-> registry, corrupt |-> FALSE] IN
        /\ launcher[t] = Nobody
        /\ launcher' = [launcher EXCEPT ![t] = p]
        /\ file' = s
        /\ previous' = [previous EXCEPT ![p] = s]
        /\ token' = [token EXCEPT ![p] = t]
  BY DEF TakeSnapshot
<1>c. /\ pc[p] = "snapshot" /\ pc' = [pc EXCEPT ![p] = "launch"] /\ guard = p
      /\ UNCHANGED <<registry, guard, mutex, caller, step, enabled, loaded,
                     restoring, attempts, oldAlive, user>>
  BY <1>a DEF TakeSnapshot, Serialized, InTransaction
<1> DEFINE s == [owner |-> p, token |-> t, values |-> registry, corrupt |-> FALSE]
<1>1. s \in Snapshot
  BY <1>a DEF TypeOK, Setting, Snapshot
<1>2. Sane(s)
  <2>1. Keep \notin Value
    BY ConstAssumption DEF Value, UserValue
  <2>2. ~PointsToApp
    BY <1>a, <1>c DEF RestoreProgress
  <2> QED
    BY <2>1, <2>2, <1>a DEF Sane, PointsToApp, TypeOK, Setting, Name
<1>3. TypeOK'
  BY <1>1, <1>a, <1>b, <1>c DEF TypeOK, PC
<1>4. AllSane'
  BY <1>2, <1>a, <1>b, <1>c DEF AllSane, Sane, TypeOK
<1>5. file' # NoFile
  BY <1>1, <1>b, NoFileAssumption
<1>6. \A b \in Actor \ {p} : ~InTransaction(b) /\ pc'[b] = pc[b]
  BY <1>a, <1>c, Alone DEF TypeOK
<1>7. pc'[p] = "launch"
  BY <1>a, <1>c DEF TypeOK
<1>8. Serialized' /\ AttemptsLeft' /\ RestoreProgress'
  BY <1>6, <1>7, <1>a, <1>c DEF Serialized, AttemptsLeft, RestoreProgress, InTransaction,
     PointsToApp, Actor
<1>9. FreshTokens'
  <2>1. pc[t] = "unborn" /\ t # p
    BY <1>a, <1>b, ConstAssumption DEF FreshTokens
  <2>2. \A q \in Proc : pc'[q] = "launch" => q = p
    BY <1>6 DEF InTransaction, Actor
  <2>3. \A r \in Token : pc'[r] = pc[r]
    BY <1>6, ConstAssumption DEF Actor
  <2> QED
    BY <2>1, <2>2, <2>3, <1>a, <1>b DEF FreshTokens, TypeOK
<1>10. AppliedOverFile' /\ NoOrphanedProxy'
  BY <1>5 DEF AppliedOverFile, NoOrphanedProxy
<1> QED
  BY <1>3, <1>4, <1>8, <1>9, <1>10 DEF IInv

LEMMA LaunchKeeps ==
  ASSUME IInv, NEW p \in Proc, LaunchWatchdog(p)
  PROVE  IInv'
<1>a. TypeOK /\ Serialized /\ AllSane /\ AttemptsLeft /\ FreshTokens
      /\ RestoreProgress /\ AppliedOverFile /\ NoOrphanedProxy /\ p \in Actor
  BY DEF IInv, Actor
<1>b. /\ pc[p] = "launch"
      /\ pc' = [pc EXCEPT ![p] = "apply", ![token[p]] = "poll"]
      /\ UNCHANGED <<registry, file, guard, mutex, work, objects, attempts,
                     launcher, oldAlive, user>>
  BY DEF LaunchWatchdog, WatchdogStart
<1>c. token[p] \in Token /\ token[p] \in Actor /\ pc[token[p]] = "unborn" /\ token[p] # p
  BY <1>a, <1>b, ConstAssumption DEF FreshTokens, Actor
<1>1. /\ pc'[p] = "apply" /\ pc'[token[p]] = "poll"
      /\ \A b \in Actor \ {p, token[p]} : pc'[b] = pc[b]
  BY <1>a, <1>b, <1>c DEF TypeOK
<1>2. \A b \in Actor \ {p} : ~InTransaction(b)
  BY <1>a, <1>b, Alone DEF Serialized, InTransaction
<1>3. TypeOK'
  BY <1>a, <1>b DEF TypeOK, PC, work, objects
<1>4. AllSane' /\ AppliedOverFile' /\ NoOrphanedProxy'
  BY <1>a, <1>b, <1>1 DEF AllSane, Sane, AppliedOverFile, NoOrphanedProxy, PointsToApp,
     work, objects
<1>5. Serialized' /\ RestoreProgress'
  BY <1>a, <1>b, <1>1, <1>2 DEF Serialized, RestoreProgress, InTransaction, PointsToApp, work
<1>6. AttemptsLeft'
  BY <1>a, <1>b, <1>c, <1>1, ConstAssumption DEF AttemptsLeft, work, Actor
<1>7. FreshTokens'
  <2>1. \A q \in Proc : pc'[q] # "launch"
    BY <1>1, <1>2 DEF InTransaction, Actor
  <2>2. \A r \in Token : launcher[r] = Nobody => r # token[p]
    BY <1>a, <1>b, ConstAssumption DEF FreshTokens, Actor
  <2>3. \A r \in Token : r # token[p] => pc'[r] = pc[r]
    BY <1>1, ConstAssumption DEF Actor
  <2> QED
    BY <2>1, <2>2, <2>3, <1>a, <1>b DEF FreshTokens
<1> QED
  BY <1>3, <1>4, <1>5, <1>6, <1>7 DEF IInv

LEMMA ApplyWriteKeeps ==
  ASSUME IInv, NEW p \in Proc, ApplyWrite(p)
  PROVE  IInv'
<1>a. TypeOK /\ Serialized /\ AllSane /\ AttemptsLeft /\ FreshTokens
      /\ RestoreProgress /\ AppliedOverFile /\ p \in Actor
  BY DEF IInv, Actor
<1>b. /\ pc[p] = "apply" /\ guard = p /\ file # NoFile
      /\ UNCHANGED <<file, mutex, previous, token, enabled, loaded, restoring,
                     attempts, launcher, oldAlive, user>>
  BY <1>a DEF ApplyWrite, Serialized, InTransaction, AppliedOverFile
<1>c. \/ /\ pc' = pc /\ caller' = caller /\ guard' = guard
         /\ step[p] < 4 /\ step' = [step EXCEPT ![p] = @ + 1]
      \/ /\ pc' = [pc EXCEPT ![p] = "gui"] /\ caller' = [caller EXCEPT ![p] = "none"]
         /\ guard' = Free /\ step' = [step EXCEPT ![p] = 1]
  BY <1>a DEF ApplyWrite, LastWrite, TypeOK
<1>1. registry' \in Setting
  <2>1. step[p] = 1 \/ step[p] = 2 \/ step[p] = 3 \/ step[p] = 4
    BY <1>a DEF TypeOK
  <2>2. AppValues[step[p]] \in Value
    BY <2>1 DEF AppValues, Value
  <2> QED
    BY <2>2, <1>a DEF ApplyWrite, TypeOK, Setting
<1>2. step' \in [Actor -> 1..4] /\ pc' \in [Actor -> PC] /\ caller' \in [Actor -> Caller]
  BY <1>a, <1>c DEF TypeOK, PC, Caller
<1>3. TypeOK'
  BY <1>1, <1>2, <1>a, <1>b, <1>c DEF TypeOK
<1>4. \A b \in Actor \ {p} : ~InTransaction(b) /\ pc'[b] = pc[b] /\ caller'[b] = caller[b]
  BY <1>a, <1>b, <1>c, Alone DEF TypeOK
<1>5. pc'[p] \in {"apply", "gui"} /\ (pc'[p] = "apply" => guard' = p)
  BY <1>a, <1>b, <1>c DEF TypeOK
<1>6. AllSane' /\ AppliedOverFile' /\ NoOrphanedProxy'
  BY <1>a, <1>b DEF AllSane, Sane, AppliedOverFile, NoOrphanedProxy
<1>7. Serialized' /\ RestoreProgress'
  BY <1>4, <1>5 DEF Serialized, RestoreProgress, InTransaction
<1>8. AttemptsLeft' /\ FreshTokens'
  <2>1. \A t \in Token : t # p
    BY ConstAssumption
  <2>2. p \notin Token /\ caller[p] # "watchdog" /\ caller'[p] # "watchdog"
    BY <2>1, <1>a, <1>c DEF AttemptsLeft, TypeOK
  <2> QED
    BY <2>1, <2>2, <1>4, <1>5, <1>a, <1>b DEF AttemptsLeft, FreshTokens, InTransaction, Actor
<1> QED
  BY <1>3, <1>6, <1>7, <1>8 DEF IInv

LEMMA EnableKeeps ==
  ASSUME IInv, NEW p \in Proc, Enable(p)
  PROVE  IInv'
<1>a. TypeOK /\ Serialized /\ AllSane /\ AttemptsLeft /\ p \in Actor
  BY DEF IInv, Actor
<1>1. CASE TakeSnapshot(p)
  BY <1>1, TakeSnapshotKeeps
<1>2. CASE LaunchWatchdog(p)
  BY <1>2, LaunchKeeps
<1>3. CASE ApplyWrite(p)
  BY <1>3, ApplyWriteKeeps
<1>4. CASE SnapshotFails(p)
  <2>1. /\ pc[p] = "snapshot" /\ guard = p
        /\ pc' = [pc EXCEPT ![p] = "gui"]
        /\ caller' = [caller EXCEPT ![p] = "none"]
        /\ loaded' = [loaded EXCEPT ![p] = loaded[p]]
        /\ guard' = Free
        /\ UNCHANGED <<registry, file, mutex, step, previous, token, enabled, restoring,
                       attempts, launcher, oldAlive, user>>
    BY <1>4, <1>a DEF SnapshotFails, Serialized, InTransaction, TypeOK
  <2>2. loaded[p] \in Snapshot \cup {NoFile} /\ Sane(loaded[p])
    BY <1>a DEF TypeOK, AllSane
  <2>3. /\ CallInv'
        /\ \A b \in Actor : pc'[b] \in {"launch", "apply"} => pc[b] \in {"launch", "apply"}
    <3>1. "gui" \in QuietPC /\ "none" \in Caller /\ mutex' \in Proc \cup {Free}
      BY <2>1, <1>a DEF QuietPC, Caller, TypeOK
    <3> QED
      BY <2>1, <2>2, <3>1, <1>a, MoveKeeps
  <2> QED
    BY <2>1, <2>3, <1>a, OnlyCallsChange DEF TypeOK
<1>5. CASE ApplyFails(p)
  <2>1. /\ pc[p] \in {"launch", "apply"} /\ guard = p
        /\ previous[p] \in Snapshot \cup {NoFile} /\ Sane(previous[p])
        /\ UNCHANGED <<registry, file, previous, token, enabled, launcher, oldAlive, user>>
    BY <1>5, <1>a DEF ApplyFails, Serialized, InTransaction, TypeOK, AllSane
  <2>2. /\ CallInv'
        /\ pc'[p] \notin {"launch", "apply"}
        /\ \A b \in Actor \ {p} : pc'[b] = pc[b]
    <3>1. CASE Leave(p, FALSE, TRUE)
      BY <3>1, <2>1, <1>a, LeaveKeeps
    <3>2. CASE BeginRestore(p, previous[p], token[p], "rollback")
      BY <3>2, <2>1, <1>a, BeginRestoreKeeps DEF Caller
    <3> QED
      BY <3>1, <3>2, <1>5 DEF ApplyFails
  <2> QED
    BY <2>1, <2>2, <1>a, OnlyCallsChange DEF TypeOK
<1> QED
  BY <1>1, <1>2, <1>3, <1>4, <1>5 DEF Enable

-----------------------------------------------------------------------------
(* main, and what the user asks the engine for *)

LEMMA MainKeeps ==
  ASSUME IInv, NEW p \in Proc, Main(p)
  PROVE  IInv'
<1>a. TypeOK /\ AllSane /\ p \in Actor
  BY DEF IInv, Actor
<1>b. /\ loaded[p] \in Snapshot \cup {NoFile} /\ Sane(loaded[p])
      /\ previous[p] \in Snapshot \cup {NoFile} /\ Sane(previous[p])
      /\ caller[p] \in Caller /\ caller[p] # "watchdog"
  BY <1>a, ConstAssumption DEF TypeOK, AllSane, IInv, AttemptsLeft
<1>1. CASE AcquireSingleInstance(p)
  <2>1. PICK n \in {"exists", "dead"}, c \in {"main2", caller[p]} :
          /\ pc' = [pc EXCEPT ![p] = n]
          /\ caller' = [caller EXCEPT ![p] = c]
          /\ mutex' \in {p, mutex}
    BY <1>1, <1>a DEF AcquireSingleInstance, TypeOK
  <2>2. /\ pc[p] = "mutex"
        /\ loaded' = [loaded EXCEPT ![p] = loaded[p]]
        /\ UNCHANGED <<registry, file, guard, step, previous, token, enabled, restoring,
                       attempts, launcher, oldAlive, user>>
    BY <1>1, <1>a DEF AcquireSingleInstance, objects, TypeOK
  <2>3. /\ CallInv'
        /\ \A b \in Actor : pc'[b] \in {"launch", "apply"} => pc[b] \in {"launch", "apply"}
    <3>1. n \in QuietPC /\ n # "try" /\ c \in Caller /\ c # "watchdog"
          /\ mutex' \in Proc \cup {Free}
      BY <2>1, <1>a, <1>b DEF QuietPC, Caller, TypeOK
    <3> QED
      BY <2>1, <2>2, <3>1, <1>a, <1>b, MoveKeeps
  <2> QED
    BY <2>2, <2>3, <1>a, OnlyCallsChange DEF TypeOK
<1>2. CASE QuitDisable(p)
  <2>1. /\ pc[p] = "stop"
        /\ UNCHANGED <<registry, file, previous, token, enabled, launcher, oldAlive, user>>
    BY <1>2 DEF QuitDisable
  <2>2. /\ CallInv'
        /\ pc'[p] \notin {"launch", "apply"}
        /\ \A b \in Actor \ {p} : pc'[b] = pc[b]
    <3>1. CASE Leave(p, FALSE, TRUE)
      BY <3>1, <2>1, <1>a, LeaveKeeps
    <3>2. CASE guard = Free /\ BeginRestore(p, previous[p], token[p], "quit")
      BY <3>2, <2>1, <1>a, <1>b, BeginRestoreKeeps DEF Caller
    <3> QED
      BY <3>1, <3>2, <1>2 DEF QuitDisable
  <2> QED
    BY <2>1, <2>2, <1>a, OnlyCallsChange DEF TypeOK
<1> QED
  BY <1>1, <1>2 DEF Main

LEMMA ResumeKeeps ==
  ASSUME IInv, NEW p \in Proc, NEW on \in BOOLEAN, Resume(p, on)
  PROVE  IInv'
<1>a. TypeOK /\ Serialized /\ AllSane /\ AttemptsLeft /\ FreshTokens
      /\ RestoreProgress /\ AppliedOverFile /\ NoOrphanedProxy /\ p \in Actor
  BY DEF IInv, Actor
<1>b. /\ pc[p] = "gui" /\ guard = Free
      /\ enabled' \in [Proc -> BOOLEAN]
      /\ UNCHANGED <<registry, file, mutex, step, loaded, restoring, attempts,
                     launcher, oldAlive, user>>
  BY <1>a DEF Resume, TypeOK
<1>c. PICK disk \in LoadState :
       LET state == OwnedPending(p, disk) IN
       \/ /\ state # NoFile
          /\ previous' = [previous EXCEPT ![p] = state]
          /\ token' = [token EXCEPT ![p] = state.token]
          /\ pc' = [pc EXCEPT ![p] = "apply"]
          /\ caller' = [caller EXCEPT ![p] = "resume"]
          /\ guard' = p
       \/ /\ UNCHANGED <<previous, token>>
          /\ \/ UNCHANGED <<pc, caller, guard>>
             \/ /\ caller' = [caller EXCEPT ![p] = "enable"] /\ guard' = p
                /\ \/ pc' = [pc EXCEPT ![p] = "exists"]
                   \/ pc' = [pc EXCEPT ![p] = "snapshot"] /\ NoFile \in LoadState
  BY DEF Resume
<1>d. \A b \in Actor : ~InTransaction(b)
  BY <1>a, <1>b, ConstAssumption DEF Serialized
<1>e. caller[p] # "watchdog" /\ \A t \in Token : t # p
  BY <1>a, ConstAssumption DEF AttemptsLeft
<1>1. \A b \in Actor \ {p} : pc'[b] = pc[b] /\ caller'[b] = caller[b]
  BY <1>a, <1>c DEF TypeOK
<1>2. /\ pc'[p] \in {"gui", "apply", "exists", "snapshot"} /\ caller'[p] # "watchdog"
      /\ pc'[p] \in {"apply", "snapshot"} => guard' = p
      /\ pc'[p] = "snapshot" => file = NoFile
      /\ pc'[p] = "apply" => file # NoFile
  <2>1. \A x \in LoadState : x = NoFile <=> file = NoFile
    BY <1>a, Loads DEF AllSane
  <2>2. OwnedPending(p, disk) # NoFile => file # NoFile
    BY <2>1 DEF OwnedPending
  <2> QED
    BY <2>1, <2>2, <1>a, <1>b, <1>c, <1>e DEF TypeOK
<1>3. /\ previous' \in [Proc -> Snapshot \cup {NoFile}]
      /\ token' \in [Proc -> Token \cup {NoToken}]
      /\ \A q \in Proc : Sane(previous'[q])
  <2>1. /\ OwnedPending(p, disk) \in Snapshot \cup {NoFile}
        /\ Sane(OwnedPending(p, disk))
    <3>1. disk \in Snapshot \cup {NoFile} /\ Sane(disk)
          /\ previous[p] \in Snapshot \cup {NoFile} /\ Sane(previous[p])
      BY <1>a, Loads DEF AllSane, TypeOK
    <3> QED
      BY <3>1 DEF OwnedPending, Sane
  <2>2. \A x \in Snapshot : x.token \in Token \cup {NoToken}
    BY DEF Snapshot
  <2> QED
    BY <2>1, <2>2, <1>a, <1>c DEF TypeOK, AllSane
<1>4. TypeOK'
  BY <1>3, <1>a, <1>b, <1>c DEF TypeOK, PC, Caller
<1>5. AllSane'
  BY <1>3, <1>a, <1>b DEF AllSane, Sane
<1>6. Serialized' /\ RestoreProgress' /\ AppliedOverFile' /\ NoOrphanedProxy'
  BY <1>1, <1>2, <1>d, <1>a, <1>b DEF Serialized, RestoreProgress, AppliedOverFile,
     NoOrphanedProxy, InTransaction, PointsToApp
<1>7. AttemptsLeft' /\ FreshTokens'
  BY <1>1, <1>2, <1>d, <1>e, <1>a, <1>b DEF AttemptsLeft, FreshTokens, InTransaction, Actor
<1> QED
  BY <1>4, <1>5, <1>6, <1>7 DEF IInv

LEMMA SuspendKeeps ==
  ASSUME IInv, NEW p \in Proc, Suspend(p)
  PROVE  IInv'
<1>a. TypeOK /\ Serialized /\ AllSane /\ AttemptsLeft /\ FreshTokens
      /\ AppliedOverFile /\ p \in Actor
  BY DEF IInv, Actor
<1>b. PICK disk \in LoadState :
       /\ OwnedPending(p, disk) # NoFile
       /\ previous' = [previous EXCEPT ![p] = OwnedPending(p, disk)]
       /\ token' = [token EXCEPT ![p] = OwnedPending(p, disk).token]
  BY DEF Suspend
<1>c. /\ guard = Free
      /\ registry' = [registry EXCEPT !["ProxyEnable"] = "off"]
      /\ UNCHANGED <<file, guard, mutex, pc, caller, step, enabled, loaded,
                     restoring, attempts, launcher, oldAlive, user>>
  BY DEF Suspend
<1>1. OwnedPending(p, disk) \in Snapshot /\ Sane(OwnedPending(p, disk))
  <2>1. disk \in Snapshot \cup {NoFile} /\ Sane(disk)
        /\ previous[p] \in Snapshot \cup {NoFile} /\ Sane(previous[p])
    BY <1>a, Loads DEF AllSane, TypeOK
  <2> QED
    BY <2>1, <1>b DEF OwnedPending, Sane
<1>2. TypeOK'
  <2>1. OwnedPending(p, disk).token \in Token \cup {NoToken}
    BY <1>1 DEF Snapshot
  <2> QED
    BY <1>1, <2>1, <1>a, <1>b, <1>c DEF TypeOK, Setting, Value
<1>3. AllSane'
  BY <1>1, <1>a, <1>b, <1>c DEF AllSane, Sane, TypeOK
<1>4. ~PointsToApp'
  BY <1>a, <1>c DEF PointsToApp, TypeOK, Setting, Name
<1>5. \A b \in Actor : ~InTransaction(b)
  BY <1>a, <1>c, ConstAssumption DEF Serialized
<1>6. RestoreProgress' /\ FreshTokens'
  BY <1>5, <1>a, <1>c DEF RestoreProgress, FreshTokens, InTransaction, Actor
<1>7. Serialized' /\ AttemptsLeft' /\ AppliedOverFile' /\ NoOrphanedProxy'
  BY <1>4, <1>a, <1>c DEF Serialized, AttemptsLeft, AppliedOverFile, NoOrphanedProxy,
     InTransaction
<1> QED
  BY <1>2, <1>3, <1>6, <1>7 DEF IInv

LEMMA RequestKeeps ==
  ASSUME IInv, NEW p \in Proc, Request(p)
  PROVE  IInv'
<1>a. TypeOK /\ AllSane /\ p \in Actor
  BY DEF IInv, Actor
<1>b. /\ loaded[p] \in Snapshot \cup {NoFile} /\ Sane(loaded[p])
      /\ previous[p] \in Snapshot \cup {NoFile} /\ Sane(previous[p])
      /\ loaded = [loaded EXCEPT ![p] = loaded[p]]
  BY <1>a DEF TypeOK, AllSane
<1>1. CASE Resume(p, TRUE) \/ Resume(p, FALSE)
  BY <1>1, ResumeKeeps
<1>2. CASE Suspend(p)
  BY <1>2, SuspendKeeps
<1>3. CASE Disable(p)
  <2>1. /\ CallInv'
        /\ pc'[p] \notin {"launch", "apply"}
        /\ \A b \in Actor \ {p} : pc'[b] = pc[b]
    BY <1>3, <1>a, <1>b, BeginRestoreKeeps DEF Disable, Caller
  <2> QED
    BY <2>1, <1>3, <1>a, OnlyCallsChange DEF Disable, TypeOK
<1>4. CASE Start(p) \/ Quit(p)
  <2>1. PICK n \in {"exists", "stop"}, c \in {"main1", "quit"} :
          /\ pc' = [pc EXCEPT ![p] = n]
          /\ caller' = [caller EXCEPT ![p] = c]
    BY <1>4 DEF Start, Quit
  <2>2. /\ UNCHANGED <<registry, file, guard, mutex, step, loaded, previous, token, enabled,
                       restoring, attempts, launcher, oldAlive, user>>
    BY <1>4 DEF Start, Quit, objects
  <2>3. n \in QuietPC /\ n # "try" /\ c \in Caller /\ c # "watchdog"
        /\ mutex' \in Proc \cup {Free}
    BY <2>2, <1>a DEF QuietPC, Caller, TypeOK
  <2>4. /\ CallInv'
        /\ \A b \in Actor : pc'[b] \in {"launch", "apply"} => pc[b] \in {"launch", "apply"}
    BY <2>1, <2>2, <2>3, <1>a, <1>b, MoveKeeps
  <2> QED
    BY <2>2, <2>4, <1>a, OnlyCallsChange DEF TypeOK
<1> QED
  BY <1>1, <1>2, <1>3, <1>4 DEF Request

-----------------------------------------------------------------------------
(* run_watchdog and the environment *)

LEMMA WatchdogKeeps ==
  ASSUME IInv, NEW t \in Token, Watchdog(t)
  PROVE  IInv'
<1>a. TypeOK /\ AllSane /\ AttemptsLeft /\ t \in Actor
  BY DEF IInv, Actor
<1>b. /\ loaded[t] \in Snapshot \cup {NoFile} /\ Sane(loaded[t])
      /\ loaded = [loaded EXCEPT ![t] = loaded[t]]
      /\ caller = [caller EXCEPT ![t] = caller[t]] /\ caller[t] \in Caller
  BY <1>a DEF TypeOK, AllSane
<1>1. /\ pc[t] \in {"poll", "try"}
      /\ UNCHANGED <<registry, file, guard, mutex, step, loaded, previous, token, enabled,
                     restoring, attempts, launcher, oldAlive, user>>
  BY DEF Watchdog, WatchdogPoll, WatchdogTry, objects, work
<1>2. PICK n \in {"dead", "try", "exists"}, c \in {caller[t], "watchdog"} :
        /\ pc' = [pc EXCEPT ![t] = n]
        /\ caller' = [caller EXCEPT ![t] = c]
  <2>1. CASE WatchdogPoll(t)
    BY <2>1, <1>b DEF WatchdogPoll, work
  <2>2. CASE WatchdogTry(t)
    BY <2>2, <1>b DEF WatchdogTry
  <2> QED
    BY <2>1, <2>2 DEF Watchdog
<1>3. n \in QuietPC /\ c \in Caller /\ attempts[t] < MaxAttempts /\ mutex' \in Proc \cup {Free}
  BY <1>1, <1>a, <1>b DEF QuietPC, Caller, TypeOK, AttemptsLeft
<1>4. /\ CallInv'
      /\ \A b \in Actor : pc'[b] \in {"launch", "apply"} => pc[b] \in {"launch", "apply"}
  BY <1>1, <1>2, <1>3, <1>a, <1>b, MoveKeeps
<1> QED
  BY <1>1, <1>4, <1>a, OnlyCallsChange DEF TypeOK

LEMMA DieKeeps ==
  ASSUME IInv, NEW D \in SUBSET Actor, Die(D), oldAlive' \in BOOLEAN
  PROVE  IInv'
<1>a. TypeOK /\ Serialized /\ AllSane /\ AttemptsLeft /\ FreshTokens
      /\ RestoreProgress /\ AppliedOverFile /\ NoOrphanedProxy
  BY DEF IInv
<1>b. UNCHANGED <<registry, file, enabled, attempts, launcher, user>>
  BY DEF Die
<1>1. \A a \in Actor :
        /\ pc'[a] = pc[a] \/ (pc'[a] = "dead" /\ pc[a] # "unborn")
        /\ pc'[a] \notin {"dead", "unborn"} => a \notin D
        /\ caller'[a] \in {caller[a], "none"}
        /\ a \notin D => /\ pc'[a] = pc[a] /\ step'[a] = step[a]
                         /\ restoring'[a] = restoring[a]
  BY <1>a DEF Die, Alive, TypeOK
<1>2. TypeOK'
  BY <1>a DEF Die, TypeOK, PC, Caller
<1>3. AllSane'
  BY <1>a DEF Die, AllSane, Sane, TypeOK, Actor
<1>4. Serialized'
  BY <1>1, <1>a DEF Die, Serialized, InTransaction
<1>5. AttemptsLeft'
  BY <1>1, <1>a, <1>b DEF AttemptsLeft, Actor
<1>6. FreshTokens'
  <2>1. \A p \in Proc : pc'[p] = "launch" => pc[p] = "launch" /\ token'[p] = token[p]
    BY <1>1 DEF Die, Actor
  <2>2. \A r \in Token : pc[r] = "unborn" => pc'[r] = "unborn"
    BY <1>1 DEF Actor
  <2> QED
    BY <2>1, <2>2, <1>a, <1>b DEF FreshTokens
<1>7. RestoreProgress' /\ AppliedOverFile' /\ NoOrphanedProxy'
  BY <1>1, <1>a, <1>b DEF RestoreProgress, AppliedOverFile, NoOrphanedProxy, PointsToApp
<1> QED
  BY <1>2, <1>3, <1>4, <1>5, <1>6, <1>7 DEF IInv

LEMMA EnvironmentKeeps ==
  ASSUME IInv, Environment
  PROVE  IInv'
<1>a. TypeOK /\ Serialized /\ AllSane /\ AttemptsLeft /\ FreshTokens
      /\ RestoreProgress /\ AppliedOverFile /\ NoOrphanedProxy
  BY DEF IInv
<1>1. CASE Reboot
  BY <1>1, DieKeeps DEF Reboot
<1>2. CASE OldInstanceDies
  BY <1>2, <1>a DEF OldInstanceDies, IInv, TypeOK, Serialized, InTransaction, AllSane, Sane,
     AttemptsLeft, FreshTokens, RestoreProgress, AppliedOverFile, NoOrphanedProxy,
     PointsToApp, work, objects
<1>3. CASE DamageFile
  <2>1. TypeOK' /\ AllSane' /\ file' # NoFile
    BY <1>3, <1>a, UnreadableIsSnapshot DEF DamageFile, TypeOK, AllSane, Sane, work, objects
  <2> QED
    BY <2>1, <1>3, <1>a DEF DamageFile, IInv, Serialized, InTransaction, AttemptsLeft,
       FreshTokens, RestoreProgress, AppliedOverFile, NoOrphanedProxy, PointsToApp,
       work, objects
<1>4. ASSUME NEW u \in UserSettings, UserEdit(u)
      PROVE  IInv'
  <2>1. /\ guard = Free /\ registry' = u /\ user' = u
        /\ UNCHANGED <<file, guard, mutex, pc, caller, step, previous, token, enabled,
                       loaded, restoring, attempts, launcher, oldAlive>>
    BY <1>4 DEF UserEdit, work, objects
  <2>2. TypeOK' /\ ~PointsToApp'
    BY <2>1, <1>a, UserSettingsAreSettings DEF TypeOK, PointsToApp
  <2>3. RestoreProgress'
    <3>1. \A b \in Actor : ~InTransaction(b)
      BY <2>1, <1>a, ConstAssumption DEF Serialized
    <3> QED
      BY <3>1, <2>1 DEF RestoreProgress, InTransaction
  <2> QED
    BY <2>1, <2>2, <2>3, <1>a DEF IInv, Serialized, InTransaction, AllSane, Sane,
       AttemptsLeft, FreshTokens, AppliedOverFile, NoOrphanedProxy
<1> QED
  BY <1>1, <1>2, <1>3, <1>4 DEF Environment

-----------------------------------------------------------------------------
(* The theorems *)

LEMMA InitIInv == Init => IInv
<1> SUFFICES ASSUME Init PROVE IInv
  OBVIOUS
<1>1. registry \in Setting /\ user \in UserSettings /\ oldAlive \in BOOLEAN
  <2>1. AppSetting \in Setting
    BY DEF AppSetting, Setting, Value
  <2> QED
    BY <2>1, UserSettingsAreSettings DEF Init
<1>2. /\ file \in Snapshot \cup {NoFile} /\ Sane(file)
      /\ file = NoFile => registry = user
  <2>1. ASSUME NEW u \in UserSettings
        PROVE  LET s == [owner |-> Nobody, token |-> NoToken, values |-> u, corrupt |-> FALSE]
               IN  s \in Snapshot /\ Sane(s)
    BY UserSettingsAreSettings DEF Snapshot, Setting, Sane
  <2> QED
    BY <2>1, NoFileAssumption DEF Init, Sane
<1>3. TypeOK
  BY <1>1, <1>2, ConstAssumption DEF Init, TypeOK, PC, Caller
<1>4. NoOrphanedProxy
  <2>1. file = NoFile => registry["ProxyServer"] # App
    BY <1>1, <1>2, UserSettingsAreSettings
  <2> QED
    BY <2>1 DEF NoOrphanedProxy, PointsToApp
<1>5. AllSane
  BY <1>2 DEF Init, AllSane, Sane
<1>6. Serialized /\ AttemptsLeft /\ FreshTokens /\ RestoreProgress /\ AppliedOverFile
  BY ConstAssumption DEF Init, Serialized, InTransaction, AttemptsLeft, FreshTokens,
     RestoreProgress, AppliedOverFile, Actor
<1> QED
  BY <1>3, <1>4, <1>5, <1>6 DEF IInv

LEMMA NextIInv == IInv /\ [Next]_vars => IInv'
<1> SUFFICES ASSUME IInv, [Next]_vars PROVE IInv'
  OBVIOUS
<1>1. ASSUME NEW a \in Actor, Recover(a) \/ Restore(a)
      PROVE  IInv'
  BY <1>1, RecoverKeeps, RestoreKeeps
<1>2. ASSUME NEW p \in Proc, Enable(p) \/ Main(p) \/ Request(p) \/ Crash(p)
      PROVE  IInv'
  <2>1. CASE Crash(p)
    <3>1. {p} \in SUBSET Actor /\ Die({p}) /\ oldAlive' \in BOOLEAN
      BY <2>1 DEF Crash, Actor, IInv, TypeOK
    <3> QED
      BY <3>1, DieKeeps
  <2> QED
    BY <1>2, <2>1, EnableKeeps, MainKeeps, RequestKeeps
<1>3. ASSUME NEW t \in Token, Watchdog(t)
      PROVE  IInv'
  BY <1>3, WatchdogKeeps
<1>4. CASE Environment
  BY <1>4, EnvironmentKeeps
<1>5. CASE UNCHANGED vars
  BY <1>5 DEF vars, IInv, TypeOK, Serialized, InTransaction, AllSane, Sane, AttemptsLeft,
     FreshTokens, RestoreProgress, AppliedOverFile, NoOrphanedProxy, PointsToApp
<1> QED
  BY <1>1, <1>2, <1>3, <1>4, <1>5 DEF Next

THEOREM Invariant == Spec => []IInv
BY InitIInv, NextIInv, PTL DEF Spec

(***************************************************************************)
(* Every variable of the proxy model keeps its type; in particular no      *)
(* watchdog makes more than MaxAttempts attempts (run_watchdog).           *)
(***************************************************************************)
THEOREM TypeCorrect == Spec => []TypeOK
<1>1. IInv => TypeOK
  BY DEF IInv
<1> QED
  BY <1>1, Invariant, PTL

(***************************************************************************)
(* However many processes and watchdogs enable, restore and recover, and   *)
(* whatever fails or dies in between, at most one is inside a transaction, *)
(* and it holds the lock of _proxy_state_guard.                            *)
(***************************************************************************)
THEOREM TransactionsSerialized == Spec => []Serialized
<1>1. IInv => Serialized
  BY DEF IInv
<1> QED
  BY <1>1, Invariant, PTL

(***************************************************************************)
(* As long as browsers are sent to the application's port, the restore     *)
(* file exists: no order of writes, failures, crashes, reboots, damage to  *)
(* the file and racing recoveries leaves a proxy without a snapshot.       *)
(***************************************************************************)
THEOREM ProxyNeverOrphaned == Spec => []NoOrphanedProxy
<1>1. IInv => NoOrphanedProxy
  BY DEF IInv
<1> QED
  BY <1>1, Invariant, PTL

-----------------------------------------------------------------------------
(* A restore file that can be read.  The theorems above hold whatever fails;     *)
(* what follows needs the file to be readable and undamaged, as the rest of      *)
(* this module does, and says so in the hypothesis of every theorem.             *)
Readable == Faults \cap {"read", "damage"} = {}

Recovering == {"exists", "read", "lock", "restore", "unlink"}
Enabling == {"snapshot", "launch", "apply"}

\* A snapshot is an old one, or of the process that launched its token.
Whose(s) ==
  \/ s.owner = Nobody /\ s.token = NoToken
  \/ s.token \in Token /\ s.owner \in Proc /\ launcher[s.token] = s.owner

LaunchersWereBorn ==
  \A t \in Token : launcher[t] # Nobody => pc[launcher[t]] # "unborn"

\* Nobody else who lives needs the snapshot.
MayTake(a, s) == s.owner \in {Nobody, a} \/ ~Alive(s.owner)

\* Who restores, restores what the file holds, and takes it from nobody who lives.
RecoveryAt(a) ==
  /\ pc[a] = "lock" => loaded[a] # NoFile
  /\ loaded[a] # NoFile => Whose(loaded[a]) /\ MayTake(a, loaded[a])
  /\ pc[a] \in {"restore", "unlink"} =>
       file \in {NoFile, restoring[a]} /\ (file # NoFile => MayTake(a, file))

\* Who enables, does it over no snapshot or over its own, which it remembers; who is
\* past the second recovery of main, or in it, has the mutex.
ProcessAt(p) ==
  /\ IF previous[p] = NoFile THEN token[p] = NoToken
     ELSE /\ token[p] \in Token /\ launcher[token[p]] = p
          /\ previous[p].owner = p /\ previous[p].token = token[p]
  /\ pc[p] = "snapshot" => file = NoFile
  /\ pc[p] \in {"launch", "apply"} => file # NoFile /\ file.owner = p /\ file.token = token[p]
  /\ caller[p] \in {"none", "main1"} \/ mutex = p
  /\ pc[p] \in {"gui", "stop"} \cup Enabling => mutex = p
  /\ pc[p] \in Recovering => caller[p] # "none"
  /\ caller[p] \in {"main1", "main2"} => pc[p] \in Recovering
  /\ caller[p] = "main2" /\ pc[p] = "lock" => file \in {NoFile, loaded[p]}

\* A watchdog acts when its process has gone.
WatchdogAt(t) ==
  /\ pc[t] \in {"unborn", "dead", "poll", "try"} \cup Recovering
  /\ caller[t] = IF pc[t] \in Recovering THEN "watchdog" ELSE "none"
  /\ pc[t] \in {"try"} \cup Recovering => ~Alive(launcher[t])
  /\ pc[t] = "lock" => loaded[t].token = t

FileIsKnown == file # NoFile => ~file.corrupt /\ Whose(file)

RInv ==
  /\ FileIsKnown
  /\ LaunchersWereBorn
  /\ \A a \in Actor : RecoveryAt(a)
  /\ \A p \in Proc : ProcessAt(p)
  /\ \A t \in Token : WatchdogAt(t)

\* A step of the world as one that is not part of it sees it.
Aging ==
  /\ \A b \in Actor : /\ pc[b] # "unborn" => pc'[b] # "unborn"
                      /\ pc[b] = "dead" => pc'[b] = "dead"
  /\ \A t \in Token : launcher[t] # Nobody => launcher'[t] = launcher[t]

Untouched(b) ==
  /\ pc'[b] = pc[b] /\ caller'[b] = caller[b]
  /\ loaded'[b] = loaded[b] /\ restoring'[b] = restoring[b]
  /\ b \in Proc => /\ previous'[b] = previous[b] /\ token'[b] = token[b]
                   /\ mutex = b => mutex' = b
  /\ file' # file => guard # b /\ (file' = NoFile \/ mutex # b)

LEMMA BornStaysDead ==
  ASSUME TypeOK, LaunchersWereBorn, Aging, NEW t \in Token, launcher[t] # Nobody
  PROVE  launcher'[t] = launcher[t] /\ launcher[t] \in Proc
         /\ (~Alive(launcher[t]) => ~Alive(launcher[t])')
<1>1. launcher'[t] = launcher[t] /\ launcher[t] \in Proc /\ launcher[t] \in Actor
  BY DEF Aging, TypeOK, Actor
<1>2. pc[launcher[t]] # "unborn"
  BY DEF LaunchersWereBorn
<1> QED
  BY <1>1, <1>2 DEF Aging, Alive

LEMMA KnownStays ==
  ASSUME TypeOK, LaunchersWereBorn, Aging, NEW s, Whose(s)
  PROVE  Whose(s)' /\ \A a : MayTake(a, s) => MayTake(a, s)'
<1>1. CASE s.owner = Nobody /\ s.token = NoToken
  BY <1>1 DEF Whose, MayTake
<1>2. CASE s.token \in Token /\ s.owner \in Proc /\ launcher[s.token] = s.owner
  <2>1. launcher[s.token] # Nobody
    BY <1>2, ConstAssumption DEF Actor
  <2> QED
    BY <1>2, <2>1, BornStaysDead DEF Whose, MayTake
<1> QED
  BY <1>1, <1>2 DEF Whose

LEMMA UntouchedKeeps ==
  ASSUME IInv, RInv, Aging, NEW b \in Actor, Untouched(b)
  PROVE  /\ RecoveryAt(b)'
         /\ b \in Proc => ProcessAt(b)'
         /\ b \in Token => WatchdogAt(b)'
<1>1. TypeOK /\ Serialized /\ LaunchersWereBorn /\ FileIsKnown /\ RecoveryAt(b)
  BY DEF IInv, RInv
<1>2. InTransaction(b) => guard = b /\ file' = file
  BY <1>1 DEF Serialized, Untouched
<1>3. RecoveryAt(b)'
  <2>1. loaded[b] # NoFile => (Whose(loaded[b]) /\ MayTake(b, loaded[b]))'
    BY <1>1, KnownStays DEF RecoveryAt, Untouched
  <2>2. pc[b] \in {"restore", "unlink"} /\ file # NoFile => MayTake(b, file)'
    BY <1>1, <1>2, KnownStays DEF RecoveryAt, FileIsKnown, InTransaction
  <2> QED
    BY <2>1, <2>2, <1>1, <1>2 DEF RecoveryAt, Untouched, InTransaction
<1>4. ASSUME b \in Proc
      PROVE  ProcessAt(b)'
  <2>1. ProcessAt(b)
    BY <1>4 DEF RInv
  <2>2. token[b] \in Token /\ launcher[token[b]] = b => launcher'[token[b]] = b
    BY <1>4, ConstAssumption DEF Aging, Actor
  <2>3. caller[b] = "main2" => mutex = b
    BY <2>1 DEF ProcessAt
  <2> QED
    BY <2>1, <2>2, <2>3, <1>2, <1>4 DEF ProcessAt, Untouched, InTransaction, Enabling
<1>5. ASSUME b \in Token
      PROVE  WatchdogAt(b)'
  <2>1. WatchdogAt(b) /\ (launcher[b] = Nobody => pc[b] = "unborn")
    BY <1>5 DEF RInv, IInv, FreshTokens
  <2> QED
    BY <2>1, <1>1, <1>5, BornStaysDead DEF WatchdogAt, Untouched, Recovering
<1> QED
  BY <1>3, <1>4, <1>5

\* A step of one actor, seen from the others.
StepOf(a) ==
  /\ Aging
  /\ \A b \in Actor \ {a} : Untouched(b)

LEMMA StepKeeps ==
  ASSUME IInv, RInv, NEW a \in Actor, StepOf(a),
         FileIsKnown', LaunchersWereBorn', RecoveryAt(a)',
         a \in Proc => ProcessAt(a)', a \in Token => WatchdogAt(a)'
  PROVE  RInv'
<1>1. \A b \in Actor : RecoveryAt(b)'
  BY UntouchedKeeps DEF StepOf
<1>2. \A p \in Proc : ProcessAt(p)'
  BY UntouchedKeeps DEF StepOf, Actor
<1>3. \A t \in Token : WatchdogAt(t)'
  BY UntouchedKeeps DEF StepOf, Actor
<1> QED
  BY <1>1, <1>2, <1>3 DEF RInv

\* The launchers and the file, when no snapshot is taken.
LEMMA NothingNew ==
  ASSUME IInv, RInv, Aging, launcher' = launcher, file' \in {file, NoFile}
  PROVE  FileIsKnown' /\ LaunchersWereBorn'
<1>1. LaunchersWereBorn'
  BY DEF IInv, TypeOK, RInv, LaunchersWereBorn, Aging, Actor
<1> QED
  BY <1>1 DEF RInv, FileIsKnown, Whose

LEMMA LeaveIsKnown ==
  ASSUME IInv, RInv, NEW a \in Actor, NEW ok \in BOOLEAN, NEW raised \in BOOLEAN,
         Leave(a, ok, raised),
         pc[a] \in Recovering \cup {"gui", "stop", "launch", "apply"},
         launcher' = launcher, file' \in {file, NoFile},
         ok => file' = NoFile, file' # file => guard = a,
         \A p \in Proc : \/ previous'[p] = previous[p] /\ token'[p] = token[p]
                         \/ p = a /\ previous'[p] = NoFile /\ token'[p] = NoToken
  PROVE  RInv'
<1> DEFINE n == AfterReturn(a, ok, raised)
<1>1. /\ n \in NextPC
      /\ n = "snapshot" => ok
      /\ n = "try" => caller[a] = "watchdog"
  BY AfterReturnIn
<1>2. /\ caller[a] = "quit" => n = "exists"
      /\ n = "snapshot" => caller[a] = "enable"
      /\ n = "mutex" => caller[a] = "main1"
      /\ n = "gui" => caller[a] \notin {"main1", "watchdog"}
      /\ n = "exists" => caller[a] = "quit"
      /\ caller[a] = "watchdog" => n \in {"dead", "try"}
  BY DEF AfterReturn, NextAttempt
<1> HIDE DEF n
<1>3. TypeOK
  BY DEF IInv
<1>4. /\ pc'[a] = n /\ loaded'[a] = NoFile /\ restoring'[a] = NoFile
      /\ caller'[a] = IF caller[a] = "quit" THEN "exit" ELSE IF n = "snapshot" THEN "enable" ELSE "none"
      /\ mutex' = IF mutex = a /\ n = "dead" THEN Free ELSE mutex
  BY <1>3 DEF Leave, n, TypeOK
<1>5. \A b \in Actor \ {a} : /\ pc'[b] = pc[b] /\ caller'[b] = caller[b]
                             /\ loaded'[b] = loaded[b] /\ restoring'[b] = restoring[b]
                             /\ mutex = b => mutex' = b
  BY <1>3, <1>4 DEF Leave, n, TypeOK
<1>6. StepOf(a)
  <2>1. Aging
    BY <1>1, <1>4, <1>5 DEF Aging, NextPC, Recovering
  <2>2. ASSUME NEW b \in Actor \ {a}
        PROVE  Untouched(b)
    BY <1>5 DEF Untouched
  <2> QED
    BY <2>1, <2>2 DEF StepOf
<1>7. FileIsKnown' /\ LaunchersWereBorn'
  BY <1>6, NothingNew DEF StepOf
<1>8. RecoveryAt(a)'
  BY <1>1, <1>4 DEF RecoveryAt, NextPC
<1>9. ASSUME a \in Proc
      PROVE  ProcessAt(a)'
  <2>1. ProcessAt(a) /\ caller[a] # "watchdog" /\ a # Free
    BY <1>9, ConstAssumption DEF RInv, IInv, AttemptsLeft, Actor
  <2>2. mutex = a \/ caller[a] = "main1"
    BY <2>1, <1>3 DEF ProcessAt, Recovering, Enabling
  <2>3. caller'[a] \in {"none", "exit", "enable"} /\ (caller'[a] # "none" => mutex' = a)
    BY <1>2, <1>4, <2>2
  <2>4. n \in {"gui", "stop", "snapshot"} => mutex' = a
    BY <1>1, <1>2, <1>4, <2>2 DEF NextPC
  <2>5. n \in Recovering => caller'[a] # "none"
    BY <1>1, <1>2, <1>4 DEF NextPC, Recovering
  <2>6. n = "snapshot" => file' = NoFile
    BY <1>1
  <2>7. n \notin {"launch", "apply"} /\ n # "lock"
    BY <1>1 DEF NextPC
  <2>8. \/ previous'[a] = previous[a] /\ token'[a] = token[a]
        \/ previous'[a] = NoFile /\ token'[a] = NoToken
    BY <1>9
  <2> QED
    BY <2>1, <2>3, <2>4, <2>5, <2>6, <2>7, <2>8, <1>4 DEF ProcessAt, Enabling
<1>10. ASSUME a \in Token
       PROVE  WatchdogAt(a)'
  <2>1. WatchdogAt(a) /\ launcher[a] # Nobody /\ LaunchersWereBorn /\ Aging
    BY <1>6, <1>10 DEF RInv, IInv, FreshTokens, StepOf, Recovering
  <2>2. caller[a] = "watchdog" /\ ~Alive(launcher[a])
    BY <2>1 DEF WatchdogAt, Recovering
  <2>3. ~Alive(launcher[a])' /\ pc'[a] \in {"dead", "try"} /\ caller'[a] = "none"
    BY <2>1, <2>2, <1>2, <1>3, <1>4, <1>10, BornStaysDead
  <2> QED
    BY <2>3 DEF WatchdogAt, Recovering
<1> QED
  BY <1>6, <1>7, <1>8, <1>9, <1>10, StepKeeps

LEMMA ReadIsFile ==
  ASSUME Readable, NEW s \in LoadState
  PROVE  s = file
BY DEF Readable, LoadState

LEMMA BeginRestoreIsKnown ==
  ASSUME Readable, IInv, RInv, NEW a \in Actor, NEW prev \in Snapshot \cup {NoFile},
         NEW tok, NEW c \in Caller, BeginRestore(a, prev, tok, c), guard \in {Free, a},
         tok # NoToken => tok \in Token /\ (launcher[tok] = a \/ ~Alive(launcher[tok])),
         pc[a] \in {"lock", "gui", "stop", "launch", "apply"},
         a \in Token => c = "watchdog",
         a \in Proc => c # "none" /\ (c = "main1" \/ mutex = a),
         UNCHANGED <<registry, file, previous, token, launcher>>
  PROVE  RInv'
<1>1. CASE Leave(a, FALSE, FALSE)
  BY <1>1, LeaveIsKnown DEF Recovering
<1>2. CASE ~Leave(a, FALSE, FALSE)
  <2>1. TypeOK /\ FileIsKnown /\ RecoveryAt(a) /\ Serialized
    BY DEF IInv, RInv
  <2>2. PICK disk \in LoadState :
          LET exact     == prev # NoFile /\ ~prev.corrupt
              useMemory == disk # NoFile /\ disk.corrupt /\ exact
              state     == IF useMemory \/ disk = NoFile THEN prev ELSE disk
          IN /\ ~(state = NoFile \/ (~useMemory /\ Refused(a, tok, disk)))
             /\ restoring' = [restoring EXCEPT ![a] = state]
             /\ pc' = [pc EXCEPT ![a] = "restore"]
             /\ caller' = [caller EXCEPT ![a] = c]
             /\ UNCHANGED <<mutex, loaded>>
    BY <1>2 DEF BeginRestore
  <2>3. disk = file
    BY ReadIsFile
  <2>4. ~(file # NoFile /\ file.corrupt)
    BY <2>1 DEF FileIsKnown
  <2>5. /\ restoring' = [restoring EXCEPT ![a] = IF file = NoFile THEN prev ELSE file]
        /\ pc' = [pc EXCEPT ![a] = "restore"]
        /\ caller' = [caller EXCEPT ![a] = c]
        /\ UNCHANGED <<mutex, loaded>>
        /\ ~Refused(a, tok, file)
    BY <2>2, <2>3, <2>4
  <2>6. /\ pc'[a] = "restore" /\ caller'[a] = c /\ loaded'[a] = loaded[a]
        /\ file \in {NoFile, restoring'[a]}
    BY <2>1, <2>5 DEF TypeOK
  <2>7. StepOf(a)
    BY <2>1, <2>5 DEF StepOf, Aging, Untouched, TypeOK
  <2>8. FileIsKnown' /\ LaunchersWereBorn' /\ Aging
    BY <2>7, NothingNew DEF StepOf
  <2>9. file # NoFile => MayTake(a, file)
    BY <2>1, <2>5 DEF FileIsKnown, Whose, MayTake, Refused
  <2>10. RecoveryAt(a)'
    <3>1. file # NoFile => MayTake(a, file)'
      BY <2>1, <2>8, <2>9, KnownStays DEF FileIsKnown, RInv
    <3>2. loaded[a] # NoFile => (Whose(loaded[a]) /\ MayTake(a, loaded[a]))'
      BY <2>1, <2>8, <2>6, KnownStays DEF RecoveryAt, RInv
    <3> QED
      BY <3>1, <3>2, <2>6 DEF RecoveryAt
  <2>11. ASSUME a \in Proc
         PROVE  ProcessAt(a)'
    <3>1. ProcessAt(a)
      BY <2>11 DEF RInv
    <3> QED
      BY <3>1, <2>5, <2>6, <2>11 DEF ProcessAt, Enabling, Recovering
  <2>12. ASSUME a \in Token
         PROVE  WatchdogAt(a)'
    <3>1. WatchdogAt(a) /\ pc[a] = "lock" /\ launcher[a] # Nobody /\ LaunchersWereBorn
      BY <2>12 DEF RInv, IInv, FreshTokens, WatchdogAt, Recovering
    <3>2. ~Alive(launcher[a])'
      BY <3>1, <2>1, <2>8, <2>12, BornStaysDead DEF WatchdogAt, Recovering
    <3> QED
      BY <3>2, <2>6, <2>12 DEF WatchdogAt, Recovering
  <2> QED
    BY <2>7, <2>8, <2>10, <2>11, <2>12, StepKeeps
<1> QED
  BY <1>1, <1>2

LEMMA RecoverIsKnown ==
  ASSUME Readable, IInv, RInv, NEW a \in Actor, Recover(a)
  PROVE  RInv'
<1>1. /\ TypeOK /\ FileIsKnown /\ RecoveryAt(a)
      /\ a \in Proc => ProcessAt(a)
      /\ a \in Token => WatchdogAt(a) /\ (launcher[a] = Nobody => pc[a] = "unborn")
  BY DEF IInv, RInv, FreshTokens
<1>2. ASSUME NEW r \in BOOLEAN, Leave(a, FALSE, r), pc[a] \in {"exists", "read", "lock"},
             UNCHANGED <<registry, file, previous, token, enabled, launcher, oldAlive, user>>
      PROVE  RInv'
  BY <1>2, LeaveIsKnown DEF Recovering
<1>3. CASE RecoverExists(a) /\ ~Leave(a, FALSE, FALSE)
  <2>1. /\ pc[a] = "exists" /\ pc'[a] = "read" /\ \A b \in Actor \ {a} : pc'[b] = pc[b]
        /\ UNCHANGED <<caller, mutex, loaded, restoring, file, previous, token, launcher>>
    BY <1>1, <1>3 DEF RecoverExists, TypeOK
  <2>2. StepOf(a) /\ Aging
    BY <2>1 DEF StepOf, Aging, Untouched
  <2>3. FileIsKnown' /\ LaunchersWereBorn'
    BY <2>1, <2>2, NothingNew
  <2>4. RecoveryAt(a)'
    <3>1. loaded[a] # NoFile => (Whose(loaded[a]) /\ MayTake(a, loaded[a]))'
      BY <2>1, <2>2, <1>1, KnownStays DEF RecoveryAt, RInv
    <3> QED
      BY <3>1, <2>1 DEF RecoveryAt
  <2>5. a \in Proc => ProcessAt(a)'
    BY <1>1, <2>1 DEF ProcessAt, Enabling, Recovering
  <2>6. ASSUME a \in Token
        PROVE  WatchdogAt(a)'
    <3>1. ~Alive(launcher[a])'
      BY <1>1, <2>1, <2>2, <2>6, BornStaysDead DEF RInv, WatchdogAt, Recovering
    <3> QED
      BY <3>1, <1>1, <2>1, <2>6 DEF WatchdogAt, Recovering
  <2> QED
    BY <2>2, <2>3, <2>4, <2>5, <2>6, StepKeeps
<1>4. CASE RecoverRead(a) /\ ~Leave(a, FALSE, FALSE)
  <2>1. PICK s \in (IF file = NoFile THEN {Unreadable} ELSE LoadState) :
               /\ MayRecover(a, s)
               /\ loaded' = [loaded EXCEPT ![a] = s]
               /\ pc' = [pc EXCEPT ![a] = "lock"]
    BY <1>4 DEF RecoverRead
  <2>2. /\ pc[a] = "read"
        /\ UNCHANGED <<caller, mutex, restoring, file, previous, token, launcher>>
    BY <1>4 DEF RecoverRead
  <2>3. /\ pc'[a] = "lock" /\ loaded'[a] = s
        /\ \A b \in Actor \ {a} : pc'[b] = pc[b] /\ loaded'[b] = loaded[b]
    BY <1>1, <2>1 DEF TypeOK
  <2>4. s # NoFile /\ Whose(s) /\ (file # NoFile => s = file)
    <3>1. CASE file = NoFile
      BY <3>1, <2>1, UnreadableIsSnapshot DEF Unreadable, Whose
    <3>2. CASE file # NoFile
      BY <3>2, <2>1, <1>1, ReadIsFile DEF FileIsKnown
    <3> QED
      BY <3>1, <3>2
  <2>5. MayTake(a, s)
    <3>1. CASE caller[a] = "watchdog"
      <4>1. a \in Token /\ s.owner = launcher[a]
        BY <3>1, <2>1 DEF MayRecover, OwnerMatches, IInv, AttemptsLeft
      <4> QED
        BY <4>1, <1>1, <2>2 DEF WatchdogAt, Recovering, MayTake
    <3>2. CASE caller[a] = "exit"
      BY <3>2, <2>1 DEF MayRecover, MayTake
    <3>3. CASE caller[a] \notin {"watchdog", "exit"}
      BY <3>3, <2>1, <2>4 DEF MayRecover, MayTake, OwnerIsAlive, Whose
    <3> QED
      BY <3>1, <3>2, <3>3
  <2>6. StepOf(a) /\ Aging
    BY <2>2, <2>3 DEF StepOf, Aging, Untouched
  <2>7. FileIsKnown' /\ LaunchersWereBorn'
    BY <2>2, <2>6, NothingNew
  <2>8. RecoveryAt(a)'
    <3>1. (Whose(s) /\ MayTake(a, s))'
      BY <2>4, <2>5, <2>6, <1>1, KnownStays DEF RInv
    <3> QED
      BY <3>1, <2>3, <2>4 DEF RecoveryAt
  <2>9. a \in Proc => ProcessAt(a)'
    BY <1>1, <2>2, <2>3, <2>4 DEF ProcessAt, Enabling, Recovering
  <2>10. ASSUME a \in Token
        PROVE  WatchdogAt(a)'
    <3>1. ~Alive(launcher[a])'
      BY <1>1, <2>2, <2>6, <2>10, BornStaysDead DEF RInv, WatchdogAt, Recovering
    <3>2. caller[a] = "watchdog" /\ s.token = a
      BY <1>1, <2>1, <2>2, <2>10 DEF WatchdogAt, Recovering, MayRecover, OwnerMatches
    <3> QED
      BY <3>1, <3>2, <2>2, <2>3, <2>10 DEF WatchdogAt, Recovering
  <2> QED
    BY <2>6, <2>7, <2>8, <2>9, <2>10, StepKeeps
<1>5. CASE RecoverLocked(a)
  <2>1. /\ pc[a] = "lock" /\ guard \in {Free, a}
        /\ BeginRestore(a, loaded[a], loaded[a].token, caller[a])
        /\ UNCHANGED <<registry, file, previous, token, launcher>>
    BY <1>5 DEF RecoverLocked, CanLock
  <2>2. loaded[a] # NoFile /\ Whose(loaded[a]) /\ MayTake(a, loaded[a])
    BY <2>1, <1>1 DEF RecoveryAt
  <2>3. loaded[a].token # NoToken =>
          loaded[a].token \in Token /\ (launcher[loaded[a].token] = a \/ ~Alive(launcher[loaded[a].token]))
    BY <2>2, ConstAssumption DEF Whose, MayTake, Actor
  <2>4. /\ a \in Token => caller[a] = "watchdog"
        /\ a \in Proc => caller[a] # "none" /\ (caller[a] = "main1" \/ mutex = a)
    BY <1>1, <2>1 DEF WatchdogAt, ProcessAt, Recovering
  <2>5. loaded[a] \in Snapshot \cup {NoFile} /\ caller[a] \in Caller
    BY <1>1 DEF TypeOK
  <2> QED
    BY <2>1, <2>3, <2>4, <2>5, BeginRestoreIsKnown
<1> QED
  BY <1>2, <1>3, <1>4, <1>5 DEF Recover, RecoverExists, RecoverRead, RecoverTimeout

LEMMA RestoreIsKnown ==
  ASSUME Readable, IInv, RInv, NEW a \in Actor, Restore(a)
  PROVE  RInv'
<1>1. /\ TypeOK /\ Serialized /\ FileIsKnown /\ RecoveryAt(a)
      /\ a \in Proc => ProcessAt(a)
      /\ a \in Token => WatchdogAt(a) /\ (launcher[a] = Nobody => pc[a] = "unborn")
  BY DEF IInv, RInv, FreshTokens
<1>2. CASE RestoreWrite(a)
  <2>1. /\ pc[a] = "restore" /\ pc'[a] \in {"restore", "unlink"}
        /\ \A b \in Actor \ {a} : pc'[b] = pc[b]
        /\ UNCHANGED <<file, guard, mutex, caller, previous, token, loaded, restoring, launcher>>
    BY <1>1, <1>2 DEF RestoreWrite, TypeOK
  <2>2. StepOf(a) /\ Aging
    BY <2>1 DEF StepOf, Aging, Untouched
  <2>3. FileIsKnown' /\ LaunchersWereBorn'
    BY <2>1, <2>2, NothingNew
  <2>4. RecoveryAt(a)'
    <3>1. loaded[a] # NoFile => (Whose(loaded[a]) /\ MayTake(a, loaded[a]))'
      BY <2>1, <2>2, <1>1, KnownStays DEF RecoveryAt, RInv
    <3>2. file # NoFile => MayTake(a, file)'
      BY <2>1, <2>2, <1>1, KnownStays DEF RecoveryAt, FileIsKnown, RInv
    <3> QED
      BY <3>1, <3>2, <2>1, <1>1 DEF RecoveryAt
  <2>5. a \in Proc => ProcessAt(a)'
    BY <1>1, <2>1 DEF ProcessAt, Enabling, Recovering
  <2>6. ASSUME a \in Token
        PROVE  WatchdogAt(a)'
    <3>1. ~Alive(launcher[a])'
      BY <1>1, <2>1, <2>2, <2>6, BornStaysDead DEF RInv, WatchdogAt, Recovering
    <3> QED
      BY <3>1, <1>1, <2>1, <2>6 DEF WatchdogAt, Recovering
  <2> QED
    BY <2>2, <2>3, <2>4, <2>5, <2>6, StepKeeps
<1>3. CASE Unlink(a)
  <2>1. /\ pc[a] = "unlink" /\ guard = a /\ Leave(a, TRUE, FALSE) /\ launcher' = launcher
        /\ previous' = IF UsesOwnObject(a) THEN [previous EXCEPT ![a] = NoFile] ELSE previous
        /\ token' = IF UsesOwnObject(a) THEN [token EXCEPT ![a] = NoToken] ELSE token
    BY <1>1, <1>3 DEF Unlink, Serialized, InTransaction
  <2>2. file' = NoFile
    <3>1. file = NoFile \/ file = restoring[a]
      BY <1>1, <2>1 DEF RecoveryAt
    <3> QED
      BY <3>1, <1>3, ReadIsFile DEF Unlink
  <2>3. \A p \in Proc : \/ previous'[p] = previous[p] /\ token'[p] = token[p]
                        \/ p = a /\ previous'[p] = NoFile /\ token'[p] = NoToken
    BY <1>1, <2>1 DEF TypeOK
  <2>4. pc[a] \in Recovering \cup {"gui", "stop", "launch", "apply"}
        /\ TRUE \in BOOLEAN /\ FALSE \in BOOLEAN
    BY <2>1 DEF Recovering
  <2> QED
    BY <2>1, <2>2, <2>3, <2>4, LeaveIsKnown
<1>4. CASE RestoreFails(a)
  BY <1>4, LeaveIsKnown DEF RestoreFails, Recovering
<1> QED
  BY <1>2, <1>3, <1>4 DEF Restore

LEMMA TakeSnapshotIsKnown ==
  ASSUME IInv, RInv, NEW p \in Proc, TakeSnapshot(p)
  PROVE  RInv'
<1>1. /\ TypeOK /\ Serialized /\ FileIsKnown /\ RecoveryAt(p) /\ ProcessAt(p) /\ p \in Actor
      /\ FreshTokens /\ LaunchersWereBorn /\ p \notin Token
  BY ConstAssumption DEF IInv, RInv, Actor
<1>2. PICK t \in Token :
        LET s == [owner |-> p, token |-> t, values |-> registry, corrupt |-> FALSE] IN
        /\ launcher[t] = Nobody
        /\ launcher' = [launcher EXCEPT ![t] = p]
        /\ file' = s
        /\ previous' = [previous EXCEPT ![p] = s]
        /\ token' = [token EXCEPT ![p] = t]
  BY DEF TakeSnapshot
<1>3. /\ pc[p] = "snapshot" /\ guard = p /\ mutex = p /\ caller[p] \notin {"main1", "main2"}
      /\ pc' = [pc EXCEPT ![p] = "launch"]
      /\ UNCHANGED <<registry, guard, mutex, caller, loaded, restoring>>
  BY <1>1 DEF TakeSnapshot, Serialized, InTransaction, ProcessAt, Recovering, Enabling
<1>4. /\ pc'[p] = "launch" /\ \A b \in Actor \ {p} : pc'[b] = pc[b]
      /\ launcher'[t] = p /\ \A r \in Token \ {t} : launcher'[r] = launcher[r]
      /\ file'.owner = p /\ file'.token = t /\ ~file'.corrupt
      /\ previous'[p] = file' /\ token'[p] = t
      /\ \A q \in Proc \ {p} : previous'[q] = previous[q] /\ token'[q] = token[q]
  BY <1>1, <1>2, <1>3 DEF TypeOK
<1>5. file' # NoFile
  <2>1. file' \in Snapshot
    BY <1>1, <1>2 DEF TypeOK, Setting, Snapshot
  <2> QED
    BY <2>1, NoFileAssumption
<1>6. StepOf(p) /\ Aging
  <2>1. Aging
    BY <1>2, <1>3, <1>4 DEF Aging
  <2>2. ASSUME NEW b \in Actor \ {p}
        PROVE  Untouched(b)
    BY <1>3, <1>4 DEF Untouched
  <2> QED
    BY <2>1, <2>2 DEF StepOf
<1>7. FileIsKnown'
  BY <1>4 DEF FileIsKnown, Whose
<1>8. LaunchersWereBorn'
  <2>1. ASSUME NEW r \in Token, launcher'[r] # Nobody
        PROVE  pc'[launcher'[r]] # "unborn"
    <3>1. CASE r = t
      BY <3>1, <1>4
    <3>2. CASE r # t
      BY <3>2, <2>1, <1>1, <1>4, <1>6 DEF LaunchersWereBorn, Aging, TypeOK, Actor
    <3> QED
      BY <3>1, <3>2
  <2> QED
    BY <2>1 DEF LaunchersWereBorn
<1>9. RecoveryAt(p)'
  <2>1. loaded[p] # NoFile => (Whose(loaded[p]) /\ MayTake(p, loaded[p]))'
    BY <1>1, <1>3, <1>6, KnownStays DEF RecoveryAt
  <2> QED
    BY <2>1, <1>3, <1>4 DEF RecoveryAt
<1>10. ProcessAt(p)'
  BY <1>1, <1>3, <1>4, <1>5 DEF ProcessAt, Enabling, Recovering
<1> QED
  BY <1>1, <1>6, <1>7, <1>8, <1>9, <1>10, StepKeeps

LEMMA LaunchIsKnown ==
  ASSUME IInv, RInv, NEW p \in Proc, LaunchWatchdog(p)
  PROVE  RInv'
<1>1. /\ TypeOK /\ Serialized /\ FileIsKnown /\ RecoveryAt(p) /\ ProcessAt(p) /\ p \in Actor
      /\ FreshTokens /\ LaunchersWereBorn
  BY DEF IInv, RInv, Actor
<1> DEFINE t == token[p]
<1>2. /\ pc[p] = "launch" /\ t \in Token /\ t \in Actor /\ t # p /\ pc[t] = "unborn"
      /\ pc' = [pc EXCEPT ![p] = "apply", ![t] = "poll"]
      /\ UNCHANGED <<file, guard, mutex, caller, loaded, restoring, previous, token, launcher>>
  BY <1>1, ConstAssumption DEF LaunchWatchdog, WatchdogStart, FreshTokens, Actor, work, objects
<1> HIDE DEF t
<1>3. /\ pc'[p] = "apply" /\ pc'[t] = "poll" /\ \A b \in Actor \ {p, t} : pc'[b] = pc[b]
  BY <1>1, <1>2 DEF TypeOK
<1>4. Aging
  BY <1>2, <1>3 DEF Aging
<1>5. ASSUME NEW b \in Actor \ {p, t}
      PROVE  Untouched(b)
  BY <1>2, <1>3 DEF Untouched
<1>6. FileIsKnown' /\ LaunchersWereBorn'
  BY <1>2, <1>4, NothingNew
<1>7. ASSUME NEW b \in Actor
      PROVE  RecoveryAt(b)'
  <2>1. loaded[b] # NoFile => (Whose(loaded[b]) /\ MayTake(b, loaded[b]))'
    BY <1>1, <1>2, <1>4, KnownStays DEF RecoveryAt, RInv
  <2>2. CASE b \in {p, t}
    BY <2>1, <2>2, <1>2, <1>3 DEF RecoveryAt
  <2>3. CASE b \notin {p, t}
    BY <2>3, <1>4, <1>5, UntouchedKeeps
  <2> QED
    BY <2>2, <2>3
<1>8. ASSUME NEW q \in Proc
      PROVE  ProcessAt(q)'
  <2>1. q \in Actor /\ q # t
    BY <1>2, ConstAssumption DEF Actor
  <2>2. CASE q = p
    BY <2>2, <1>1, <1>2, <1>3 DEF ProcessAt, Enabling, Recovering
  <2>3. CASE q # p
    BY <2>1, <2>3, <1>4, <1>5, UntouchedKeeps
  <2> QED
    BY <2>2, <2>3
<1>9. ASSUME NEW r \in Token
      PROVE  WatchdogAt(r)'
  <2>1. r \in Actor /\ r # p
    BY <1>2, ConstAssumption DEF Actor
  <2>2. CASE r = t
    BY <2>2, <1>2, <1>3 DEF RInv, WatchdogAt, Recovering
  <2>3. CASE r # t
    BY <2>1, <2>3, <1>4, <1>5, UntouchedKeeps
  <2> QED
    BY <2>2, <2>3
<1> QED
  BY <1>6, <1>7, <1>8, <1>9 DEF RInv

\* A process moves while nothing it remembers or has read changes.
LEMMA ProcessMoves ==
  ASSUME IInv, RInv, NEW p \in Proc, NEW n \in PC, NEW c \in Caller,
         pc[p] # "dead", n # "unborn",
         pc' = [pc EXCEPT ![p] = n], caller' = [caller EXCEPT ![p] = c],
         UNCHANGED <<file, loaded, restoring, launcher>>,
         \A q \in Proc \ {p} : previous'[q] = previous[q] /\ token'[q] = token[q]
                               /\ (mutex = q => mutex' = q),
         n \notin {"lock", "restore", "unlink"},
         ProcessAt(p)'
  PROVE  RInv'
<1>1. TypeOK /\ RecoveryAt(p) /\ p \in Actor /\ p \notin Token
  BY ConstAssumption DEF IInv, RInv, Actor
<1>2. pc'[p] = n /\ \A b \in Actor \ {p} : pc'[b] = pc[b] /\ caller'[b] = caller[b]
  BY <1>1 DEF TypeOK
<1>3. StepOf(p) /\ Aging
  BY <1>2 DEF StepOf, Aging, Untouched
<1>4. FileIsKnown' /\ LaunchersWereBorn'
  BY <1>3, NothingNew
<1>5. RecoveryAt(p)'
  <2>1. loaded[p] # NoFile => (Whose(loaded[p]) /\ MayTake(p, loaded[p]))'
    BY <1>1, <1>3, KnownStays DEF RecoveryAt, RInv
  <2> QED
    BY <2>1, <1>2 DEF RecoveryAt
<1> QED
  BY <1>1, <1>3, <1>4, <1>5, StepKeeps

LEMMA EnableIsKnown ==
  ASSUME Readable, IInv, RInv, NEW p \in Proc, Enable(p)
  PROVE  RInv'
<1>1. TypeOK /\ Serialized /\ ProcessAt(p) /\ p \in Actor /\ p \notin Token
  BY ConstAssumption DEF IInv, RInv, Actor
<1>2. CASE TakeSnapshot(p)
  BY <1>2, TakeSnapshotIsKnown
<1>3. CASE LaunchWatchdog(p)
  BY <1>3, LaunchIsKnown
<1>4. CASE SnapshotFails(p)
  <2>1. /\ pc[p] = "snapshot" /\ pc' = [pc EXCEPT ![p] = "gui"]
        /\ caller' = [caller EXCEPT ![p] = "none"]
        /\ UNCHANGED <<file, loaded, restoring, launcher, previous, token, mutex>>
    BY <1>4 DEF SnapshotFails
  <2>2. ProcessAt(p)'
    BY <2>1, <1>1 DEF ProcessAt, TypeOK, Enabling, Recovering
  <2> QED
    BY <2>1, <2>2, ProcessMoves DEF PC, Caller
<1>5. CASE ApplyWrite(p)
  <2>1. PICK n \in {"apply", "gui"}, c \in {caller[p], "none"} :
          /\ pc' = [pc EXCEPT ![p] = n] /\ caller' = [caller EXCEPT ![p] = c]
          /\ n = "apply" => c = caller[p]
    BY <1>1, <1>5 DEF ApplyWrite, TypeOK
  <2>2. /\ pc[p] = "apply"
        /\ UNCHANGED <<file, loaded, restoring, launcher, previous, token, mutex>>
    BY <1>5 DEF ApplyWrite
  <2>3. ProcessAt(p)'
    BY <2>1, <2>2, <1>1 DEF ProcessAt, TypeOK, Enabling, Recovering
  <2>4. n \in PC /\ c \in Caller
    BY <1>1 DEF PC, Caller, TypeOK
  <2> QED
    BY <2>1, <2>2, <2>3, <2>4, ProcessMoves
<1>6. CASE ApplyFails(p)
  <2>1. /\ pc[p] \in {"launch", "apply"} /\ guard = p
        /\ UNCHANGED <<registry, file, previous, token, launcher>>
        /\ previous[p] \in Snapshot \cup {NoFile}
    BY <1>1, <1>6 DEF ApplyFails, Serialized, InTransaction, TypeOK
  <2>2. CASE Leave(p, FALSE, TRUE)
    <3>1. pc[p] \in Recovering \cup {"gui", "stop", "launch", "apply"}
          /\ TRUE \in BOOLEAN /\ FALSE \in BOOLEAN /\ p \in Actor
      BY <1>1, <2>1
    <3> QED
      BY <2>1, <2>2, <3>1, LeaveIsKnown
  <2>3. CASE BeginRestore(p, previous[p], token[p], "rollback")
    <3>1. token[p] # NoToken => token[p] \in Token /\ launcher[token[p]] = p
      BY <1>1 DEF ProcessAt
    <3>2. mutex = p
      BY <1>1, <2>1 DEF ProcessAt, Enabling
    <3> QED
      BY <2>1, <2>3, <3>1, <3>2, <1>1, BeginRestoreIsKnown DEF Caller
  <2> QED
    BY <1>6, <2>2, <2>3 DEF ApplyFails
<1> QED
  BY <1>2, <1>3, <1>4, <1>5, <1>6 DEF Enable

LEMMA MainIsKnown ==
  ASSUME Readable, IInv, RInv, NEW p \in Proc, Main(p)
  PROVE  RInv'
<1>1. TypeOK /\ ProcessAt(p) /\ p \in Actor /\ p \notin Token /\ caller[p] \in Caller
      /\ caller = [caller EXCEPT ![p] = caller[p]] /\ previous[p] \in Snapshot \cup {NoFile}
  BY ConstAssumption DEF IInv, RInv, Actor, TypeOK
<1>2. CASE AcquireSingleInstance(p)
  <2>1. /\ pc[p] = "mutex"
        /\ UNCHANGED <<file, loaded, restoring, launcher, previous, token>>
    BY <1>2 DEF AcquireSingleInstance, objects
  <2>2. CASE mutex = Free
    <3>1. /\ mutex' = p /\ pc' = [pc EXCEPT ![p] = "exists"]
          /\ caller' = [caller EXCEPT ![p] = "main2"]
      BY <1>2, <2>2 DEF AcquireSingleInstance
    <3>2. ProcessAt(p)'
      BY <1>1, <2>1, <3>1 DEF ProcessAt, TypeOK, Enabling, Recovering
    <3>3. \A q \in Proc : q # Free
      BY ConstAssumption DEF Actor
    <3> QED
      BY <2>1, <2>2, <3>1, <3>2, <3>3, ProcessMoves DEF PC, Caller
  <2>3. CASE mutex # Free
    <3>1. /\ mutex' = mutex /\ pc' = [pc EXCEPT ![p] = "dead"] /\ caller' = caller
      BY <1>2, <2>3 DEF AcquireSingleInstance
    <3>2. ProcessAt(p)'
      BY <1>1, <2>1, <3>1 DEF ProcessAt, TypeOK, Enabling, Recovering
    <3> QED
      BY <1>1, <2>1, <3>1, <3>2, ProcessMoves DEF PC
  <2> QED
    BY <2>2, <2>3
<1>3. CASE QuitDisable(p)
  <2>1. /\ pc[p] = "stop"
        /\ UNCHANGED <<registry, file, previous, token, launcher>>
    BY <1>3 DEF QuitDisable
  <2>2. CASE Leave(p, FALSE, TRUE)
    <3>1. pc[p] \in Recovering \cup {"gui", "stop", "launch", "apply"}
          /\ TRUE \in BOOLEAN /\ FALSE \in BOOLEAN /\ p \in Actor
      BY <1>1, <2>1
    <3> QED
      BY <2>1, <2>2, <3>1, LeaveIsKnown
  <2>3. CASE guard = Free /\ BeginRestore(p, previous[p], token[p], "quit")
    <3>1. token[p] # NoToken => token[p] \in Token /\ launcher[token[p]] = p
      BY <1>1 DEF ProcessAt
    <3>2. mutex = p
      BY <1>1, <2>1 DEF ProcessAt
    <3> QED
      BY <1>1, <2>1, <2>3, <3>1, <3>2, BeginRestoreIsKnown DEF Caller
  <2> QED
    BY <1>3, <2>2, <2>3 DEF QuitDisable
<1> QED
  BY <1>2, <1>3 DEF Main

LEMMA OwnPendingIsFile ==
  ASSUME Readable, RInv, NEW p \in Proc, NEW disk \in LoadState, OwnedPending(p, disk) # NoFile
  PROVE  /\ OwnedPending(p, disk) = file /\ file.owner = p /\ file # NoFile
         /\ file.token \in Token /\ launcher[file.token] = p
<1>1. disk = file /\ p # Nobody
  BY ReadIsFile, ConstAssumption DEF Actor
<1>2. ~(file # NoFile /\ file.corrupt)
  BY DEF RInv, FileIsKnown
<1>3. OwnedPending(p, disk) = file /\ file.owner = p /\ file # NoFile
  BY <1>1, <1>2 DEF OwnedPending
<1> QED
  BY <1>1, <1>3 DEF RInv, FileIsKnown, Whose

LEMMA ResumeIsKnown ==
  ASSUME Readable, IInv, RInv, NEW p \in Proc, NEW on \in BOOLEAN, Resume(p, on)
  PROVE  RInv'
<1>1. TypeOK /\ ProcessAt(p) /\ NoToken \notin Token
  BY ConstAssumption DEF IInv, RInv, Actor
<1>2. /\ pc[p] = "gui" /\ mutex = p
      /\ UNCHANGED <<file, mutex, loaded, restoring, launcher>>
  BY <1>1 DEF Resume, ProcessAt
<1>3. PICK disk \in LoadState :
       LET state == OwnedPending(p, disk) IN
       \/ /\ state # NoFile
          /\ previous' = [previous EXCEPT ![p] = state]
          /\ token' = [token EXCEPT ![p] = state.token]
          /\ pc' = [pc EXCEPT ![p] = "apply"]
          /\ caller' = [caller EXCEPT ![p] = "resume"]
       \/ /\ UNCHANGED <<previous, token>>
          /\ \/ UNCHANGED <<pc, caller>>
             \/ /\ caller' = [caller EXCEPT ![p] = "enable"]
                /\ \/ pc' = [pc EXCEPT ![p] = "exists"]
                   \/ pc' = [pc EXCEPT ![p] = "snapshot"] /\ NoFile \in LoadState
  BY DEF Resume
<1>4. CASE OwnedPending(p, disk) # NoFile /\ pc' = [pc EXCEPT ![p] = "apply"]
           /\ previous' = [previous EXCEPT ![p] = OwnedPending(p, disk)]
           /\ token' = [token EXCEPT ![p] = OwnedPending(p, disk).token]
           /\ caller' = [caller EXCEPT ![p] = "resume"]
  <2>1. /\ OwnedPending(p, disk) = file /\ file.owner = p /\ file # NoFile
        /\ file.token \in Token /\ launcher[file.token] = p
    BY <1>4, OwnPendingIsFile
  <2>2. /\ pc'[p] = "apply" /\ caller'[p] = "resume" /\ previous'[p] = file /\ token'[p] = file.token
        /\ \A q \in Proc \ {p} : previous'[q] = previous[q] /\ token'[q] = token[q]
    BY <1>1, <1>4, <2>1 DEF TypeOK, Actor
  <2>3. ProcessAt(p)'
    BY <1>1, <1>2, <2>1, <2>2 DEF ProcessAt, Enabling, Recovering
  <2> QED
    BY <1>2, <1>4, <2>2, <2>3, ProcessMoves DEF PC, Caller
<1>5. CASE UNCHANGED <<previous, token, pc, caller>>
  <2>1. pc' = [pc EXCEPT ![p] = "gui"] /\ caller' = [caller EXCEPT ![p] = caller[p]]
        /\ caller[p] \in Caller
    BY <1>1, <1>2, <1>5 DEF TypeOK, Actor
  <2>2. ProcessAt(p)'
    BY <1>1, <1>2, <1>5 DEF ProcessAt
  <2> QED
    BY <1>2, <1>5, <2>1, <2>2, ProcessMoves DEF PC
<1>6. ASSUME UNCHANGED <<previous, token>>, caller' = [caller EXCEPT ![p] = "enable"],
             NEW n \in {"exists", "snapshot"}, pc' = [pc EXCEPT ![p] = n],
             n = "snapshot" => NoFile \in LoadState
      PROVE  RInv'
  <2>1. n = "snapshot" => file = NoFile
    BY <1>6, ReadIsFile
  <2>2. pc'[p] = n /\ caller'[p] = "enable"
    BY <1>1, <1>6 DEF TypeOK, Actor
  <2>3. ProcessAt(p)'
    BY <1>1, <1>2, <1>6, <2>1, <2>2 DEF ProcessAt, Enabling, Recovering
  <2> QED
    BY <1>2, <1>6, <2>3, ProcessMoves DEF PC, Caller
<1> QED
  BY <1>3, <1>4, <1>5, <1>6

LEMMA RequestIsKnown ==
  ASSUME Readable, IInv, RInv, NEW p \in Proc, Request(p)
  PROVE  RInv'
<1>1. TypeOK /\ ProcessAt(p) /\ p \in Actor /\ p \notin Token /\ NoToken \notin Token
  BY ConstAssumption DEF IInv, RInv, Actor
<1>2. CASE Resume(p, TRUE) \/ Resume(p, FALSE)
  BY <1>2, ResumeIsKnown
<1>3. CASE Suspend(p)
  <2>1. PICK disk \in LoadState :
         /\ OwnedPending(p, disk) # NoFile
         /\ previous' = [previous EXCEPT ![p] = OwnedPending(p, disk)]
         /\ token' = [token EXCEPT ![p] = OwnedPending(p, disk).token]
    BY <1>3 DEF Suspend
  <2>2. /\ OwnedPending(p, disk) = file /\ file.owner = p /\ file # NoFile
        /\ file.token \in Token /\ launcher[file.token] = p
    BY <2>1, OwnPendingIsFile
  <2>3. /\ pc[p] = "gui" /\ pc' = [pc EXCEPT ![p] = "gui"]
        /\ caller' = [caller EXCEPT ![p] = caller[p]] /\ caller[p] \in Caller
        /\ UNCHANGED <<file, mutex, pc, caller, loaded, restoring, launcher>>
    BY <1>1, <1>3 DEF Suspend, TypeOK
  <2>4. /\ previous'[p] = file /\ token'[p] = file.token
        /\ \A q \in Proc \ {p} : previous'[q] = previous[q] /\ token'[q] = token[q]
    BY <1>1, <2>1, <2>2 DEF TypeOK
  <2>5. ProcessAt(p)'
    BY <1>1, <2>2, <2>3, <2>4 DEF ProcessAt
  <2> QED
    BY <2>3, <2>4, <2>5, ProcessMoves DEF PC
<1>4. CASE Disable(p)
  <2>1. /\ pc[p] = "gui" /\ guard = Free /\ BeginRestore(p, previous[p], token[p], "disable")
        /\ UNCHANGED <<registry, file, previous, token, launcher>>
        /\ previous[p] \in Snapshot \cup {NoFile}
    BY <1>1, <1>4 DEF Disable, TypeOK
  <2>2. /\ token[p] # NoToken => token[p] \in Token /\ launcher[token[p]] = p
        /\ mutex = p
    BY <1>1, <2>1 DEF ProcessAt
  <2> QED
    BY <1>1, <2>1, <2>2, BeginRestoreIsKnown DEF Caller
<1>5. CASE Start(p)
  <2>1. /\ pc[p] = "unborn" /\ pc' = [pc EXCEPT ![p] = "exists"]
        /\ caller' = [caller EXCEPT ![p] = "main1"]
        /\ UNCHANGED <<file, mutex, loaded, restoring, launcher, previous, token>>
    BY <1>5 DEF Start, objects
  <2>2. ProcessAt(p)'
    BY <1>1, <2>1 DEF ProcessAt, TypeOK, Enabling, Recovering
  <2> QED
    BY <2>1, <2>2, ProcessMoves DEF PC, Caller
<1>6. CASE Quit(p)
  <2>1. /\ pc[p] = "gui" /\ pc' = [pc EXCEPT ![p] = "stop"]
        /\ caller' = [caller EXCEPT ![p] = "quit"]
        /\ UNCHANGED <<file, mutex, loaded, restoring, launcher, previous, token>>
    BY <1>6 DEF Quit, objects
  <2>2. ProcessAt(p)'
    BY <1>1, <2>1 DEF ProcessAt, TypeOK, Enabling, Recovering
  <2> QED
    BY <2>1, <2>2, ProcessMoves DEF PC, Caller
<1> QED
  BY <1>2, <1>3, <1>4, <1>5, <1>6 DEF Request

LEMMA WatchdogIsKnown ==
  ASSUME Readable, IInv, RInv, NEW t \in Token, Watchdog(t)
  PROVE  RInv'
<1>1. /\ TypeOK /\ RecoveryAt(t) /\ WatchdogAt(t) /\ t \in Actor /\ t \notin Proc
      /\ LaunchersWereBorn /\ (launcher[t] = Nobody => pc[t] = "unborn")
  BY ConstAssumption DEF IInv, RInv, FreshTokens, Actor
<1>2. /\ pc[t] \in {"poll", "try"}
      /\ UNCHANGED <<file, guard, mutex, loaded, restoring, previous, token, launcher>>
  BY DEF Watchdog, WatchdogPoll, WatchdogTry, objects, work
<1>3. /\ pc'[t] \in {"dead", "try", "exists"}
      /\ caller'[t] = IF pc'[t] = "exists" THEN "watchdog" ELSE "none"
      /\ pc'[t] # "dead" => ~Alive(launcher[t])
      /\ \A b \in Actor \ {t} : pc'[b] = pc[b] /\ caller'[b] = caller[b]
  <2>1. CASE WatchdogPoll(t)
    BY <1>1, <2>1 DEF WatchdogPoll, work, WatchdogAt, TypeOK, Recovering
  <2>2. CASE WatchdogTry(t)
    BY <1>1, <2>2 DEF WatchdogTry, WatchdogAt, TypeOK, Recovering
  <2> QED
    BY <2>1, <2>2 DEF Watchdog
<1>4. StepOf(t) /\ Aging
  BY <1>2, <1>3 DEF StepOf, Aging, Untouched
<1>5. FileIsKnown' /\ LaunchersWereBorn'
  BY <1>2, <1>4, NothingNew
<1>6. RecoveryAt(t)'
  <2>1. loaded[t] # NoFile => (Whose(loaded[t]) /\ MayTake(t, loaded[t]))'
    BY <1>1, <1>2, <1>4, KnownStays DEF RecoveryAt
  <2> QED
    BY <2>1, <1>2, <1>3 DEF RecoveryAt
<1>7. WatchdogAt(t)'
  <2>1. pc'[t] # "dead" => ~Alive(launcher[t])'
    BY <1>1, <1>2, <1>3, <1>4, BornStaysDead
  <2> QED
    BY <2>1, <1>3 DEF WatchdogAt, Recovering
<1> QED
  BY <1>1, <1>4, <1>5, <1>6, <1>7, StepKeeps

LEMMA DieIsKnown ==
  ASSUME IInv, RInv, NEW D \in SUBSET Actor, Die(D)
  PROVE  RInv'
<1>1. TypeOK /\ LaunchersWereBorn
  BY DEF IInv, RInv
<1>2. UNCHANGED <<file, launcher>>
  BY DEF Die
<1>3. \A b \in Actor :
        IF b \in D
        THEN /\ pc'[b] = IF pc[b] = "unborn" THEN "unborn" ELSE "dead"
             /\ caller'[b] = "none" /\ loaded'[b] = NoFile
             /\ b \in Proc => previous'[b] = NoFile /\ token'[b] = NoToken
        ELSE /\ pc'[b] = pc[b] /\ caller'[b] = caller[b]
             /\ loaded'[b] = loaded[b] /\ restoring'[b] = restoring[b]
             /\ b \in Proc => previous'[b] = previous[b] /\ token'[b] = token[b]
             /\ mutex = b => mutex' = b
  BY <1>1 DEF Die, Alive, TypeOK
<1>4. Aging
  BY <1>2, <1>3 DEF Aging
<1>5. FileIsKnown' /\ LaunchersWereBorn'
  BY <1>2, <1>4, NothingNew
<1>6. ASSUME NEW b \in Actor \ D
      PROVE  Untouched(b)
  BY <1>2, <1>3 DEF Untouched
<1>7. ASSUME NEW b \in D
      PROVE  /\ RecoveryAt(b)'
             /\ b \in Proc => ProcessAt(b)'
             /\ b \in Token => WatchdogAt(b)'
  <2>1. b \in Actor
    OBVIOUS
  <2>2. RecoveryAt(b)'
    BY <1>3, <1>7, <2>1 DEF RecoveryAt
  <2>3. b \in Proc => ProcessAt(b)'
    BY <1>3, <1>7, <2>1 DEF ProcessAt, Enabling, Recovering
  <2>4. b \in Token => WatchdogAt(b)'
    BY <1>3, <1>7, <2>1 DEF WatchdogAt, Recovering
  <2> QED
    BY <2>2, <2>3, <2>4
<1>8. \A b \in Actor : /\ RecoveryAt(b)'
                       /\ b \in Proc => ProcessAt(b)'
                       /\ b \in Token => WatchdogAt(b)'
  BY <1>4, <1>6, <1>7, UntouchedKeeps
<1> QED
  BY <1>5, <1>8 DEF RInv, Actor

LEMMA EnvironmentIsKnown ==
  ASSUME Readable, IInv, RInv, Environment
  PROVE  RInv'
<1>1. CASE Reboot
  BY <1>1, DieIsKnown DEF Reboot
<1>2. CASE OldInstanceDies \/ \E u \in UserSettings : UserEdit(u)
  <2>1. UNCHANGED <<file, mutex, pc, caller, loaded, restoring, previous, token, launcher>>
    BY <1>2 DEF OldInstanceDies, UserEdit, work, objects
  <2> QED
    BY <2>1 DEF RInv, FileIsKnown, LaunchersWereBorn, RecoveryAt, ProcessAt, WatchdogAt,
                Whose, MayTake, Alive
<1>3. ~DamageFile
  BY DEF DamageFile, Readable
<1> QED
  BY <1>1, <1>2, <1>3 DEF Environment

LEMMA InitIsKnown == Init => RInv
<1> SUFFICES ASSUME Init
             PROVE  RInv
  OBVIOUS
<1>1. FileIsKnown
  BY DEF Init, FileIsKnown, Whose
<1>2. /\ \A a \in Actor : pc[a] = "unborn" /\ caller[a] = "none" /\ loaded[a] = NoFile
      /\ \A p \in Proc : previous[p] = NoFile /\ token[p] = NoToken
      /\ \A t \in Token : launcher[t] = Nobody
  BY DEF Init
<1>3. LaunchersWereBorn /\ \A a \in Actor : RecoveryAt(a)
  BY <1>2 DEF LaunchersWereBorn, RecoveryAt
<1>4. \A p \in Proc : ProcessAt(p)
  BY <1>2 DEF ProcessAt, Enabling, Recovering, Actor
<1>5. \A t \in Token : WatchdogAt(t)
  BY <1>2 DEF WatchdogAt, Recovering, Actor
<1> QED
  BY <1>1, <1>3, <1>4, <1>5 DEF RInv

LEMMA NextIsKnown == Readable /\ IInv /\ RInv /\ [Next]_vars => RInv'
<1> SUFFICES ASSUME Readable, IInv, RInv, [Next]_vars
             PROVE  RInv'
  OBVIOUS
<1>1. ASSUME NEW a \in Actor, Recover(a) \/ Restore(a)
      PROVE  RInv'
  BY <1>1, RecoverIsKnown, RestoreIsKnown
<1>2. ASSUME NEW p \in Proc, Enable(p) \/ Main(p) \/ Request(p) \/ Crash(p)
      PROVE  RInv'
  <2>1. CASE Crash(p)
    BY <2>1, DieIsKnown DEF Crash, Actor
  <2> QED
    BY <1>2, <2>1, EnableIsKnown, MainIsKnown, RequestIsKnown
<1>3. ASSUME NEW t \in Token, Watchdog(t)
      PROVE  RInv'
  BY <1>3, WatchdogIsKnown
<1>4. CASE Environment
  BY <1>4, EnvironmentIsKnown
<1>5. CASE UNCHANGED vars
  BY <1>5 DEF vars, RInv, FileIsKnown, LaunchersWereBorn, RecoveryAt, ProcessAt, WatchdogAt,
              Whose, MayTake, Alive
<1> QED
  BY <1>1, <1>2, <1>3, <1>4, <1>5 DEF Next

(***************************************************************************)
(* A readable restore file belongs to nobody or to the process that took   *)
(* it, whoever restores has what the file holds and takes it from nobody   *)
(* who lives, and a watchdog acts only when its process has gone.          *)
(***************************************************************************)
THEOREM Known == ASSUME Readable
                 PROVE  Spec => []RInv
<1>1. Init => RInv
  BY InitIsKnown
<1>2. IInv /\ RInv /\ [Next]_vars => RInv'
  BY NextIsKnown
<1> QED
  BY <1>1, <1>2, Invariant, PTL DEF Spec

-----------------------------------------------------------------------------
(* What the steps do to the file of another process. *)

LEMMA FilesChangeBy ==
  ASSUME Readable, Next, files' # files
  PROVE  \/ \E a \in Actor : RestoreWrite(a) \/ Unlink(a)
         \/ \E p \in Proc : TakeSnapshot(p) \/ ApplyWrite(p) \/ Suspend(p)
         \/ file = NoFile
<1>1. ASSUME NEW a \in Actor, Recover(a) \/ RestoreFails(a)
      PROVE  FALSE
  BY <1>1 DEF Recover, RecoverExists, RecoverRead, RecoverLocked, RecoverTimeout, RestoreFails, files
<1>2. ASSUME NEW p \in Proc, SnapshotFails(p) \/ LaunchWatchdog(p) \/ ApplyFails(p) \/ Main(p)
                             \/ Crash(p)
      PROVE  FALSE
  BY <1>2 DEF SnapshotFails, LaunchWatchdog, ApplyFails, Main, AcquireSingleInstance, QuitDisable,
              Crash, Die, files
<1>3. ASSUME NEW p \in Proc, Start(p) \/ Resume(p, TRUE) \/ Resume(p, FALSE) \/ Disable(p) \/ Quit(p)
      PROVE  FALSE
  BY <1>3 DEF Start, Resume, Disable, Quit, files
<1>4. ASSUME NEW t \in Token, Watchdog(t)
      PROVE  FALSE
  BY <1>4 DEF Watchdog, WatchdogPoll, WatchdogTry, files
<1>5. Environment => file = NoFile
  BY DEF Environment, Reboot, Die, OldInstanceDies, DamageFile, UserEdit, Readable, files
<1> QED
  BY <1>1, <1>2, <1>3, <1>4, <1>5 DEF Next, Restore, Enable, Request

LEMMA OwnerChangesFiles ==
  ASSUME Readable, IInv, RInv, Next, files' # files,
         file # NoFile, file.owner # Nobody, Alive(file.owner),
         NEW a \in Actor \ {file.owner}
  PROVE  pc'[a] = pc[a] /\ step'[a] = step[a]
<1>1. TypeOK
  BY DEF IInv
<1>2. ASSUME NEW b \in Actor, RestoreWrite(b) \/ Unlink(b)
      PROVE  pc'[a] = pc[a] /\ step'[a] = step[a]
  <2>1. b = file.owner
    BY <1>2 DEF RInv, RecoveryAt, MayTake, RestoreWrite, Unlink
  <2> QED
    BY <1>1, <1>2, <2>1 DEF RestoreWrite, Unlink, Leave, TypeOK
<1>3. ASSUME NEW p \in Proc, TakeSnapshot(p) \/ ApplyWrite(p)
      PROVE  pc'[a] = pc[a] /\ step'[a] = step[a]
  <2>1. p = file.owner
    BY <1>3 DEF RInv, ProcessAt, TakeSnapshot, ApplyWrite
  <2> QED
    BY <1>1, <1>3, <2>1 DEF TakeSnapshot, ApplyWrite, TypeOK
<1>4. ASSUME NEW p \in Proc, Suspend(p)
      PROVE  pc'[a] = pc[a] /\ step'[a] = step[a]
  BY <1>4 DEF Suspend
<1> QED
  BY <1>2, <1>3, <1>4, FilesChangeBy

(***************************************************************************)
(* A snapshot whose process lives is touched by that process alone: no     *)
(* recovery of another process, however late, and no watchdog writes the   *)
(* registry or takes the file (recover_stale, _disable_locked).            *)
(***************************************************************************)
THEOREM LiveSnapshotIsUntouched == ASSUME Readable
                                   PROVE  Spec => LiveSnapshotUntouched
<1>1. IInv /\ RInv /\ [Next]_vars =>
        [file # NoFile /\ file.owner # Nobody /\ Alive(file.owner) /\ files' # files
         => \A a \in Actor \ {file.owner} : pc'[a] = pc[a] /\ step'[a] = step[a]]_vars
  BY OwnerChangesFiles
<1> QED
  BY <1>1, Invariant, Known, PTL DEF Spec, LiveSnapshotUntouched

LEMMA EntersRecovered ==
  ASSUME Readable, IInv, RInv, Next, NEW p \in Proc,
         caller[p] = "main2", pc'[p] = "gui", file' # NoFile, file'.owner # Nobody
  PROVE  Alive(file'.owner)
<1>1. /\ TypeOK /\ ProcessAt(p) /\ RecoveryAt(p) /\ FileIsKnown /\ p \in Actor /\ p \notin Token
      /\ FileIsKnown'
  BY NextIsKnown, ConstAssumption DEF IInv, RInv, Actor
<1>2. pc[p] \in Recovering /\ mutex = p
  BY <1>1 DEF ProcessAt
<1>3. CASE Recover(p) /\ file' = file
  <2>1. file.owner \in Proc
    BY <1>1, <1>3 DEF FileIsKnown, Whose
  <2>2. CASE RecoverRead(p)
    <3>1. ~MayRecover(p, file)
      BY <1>1, <1>3, <2>2, ReadIsFile DEF RecoverRead, TypeOK
    <3>2. Alive(file.owner)
      BY <3>1, <1>3 DEF MayRecover, OwnerIsAlive
    <3> QED
      BY <3>2, <1>3
  <2>3. CASE RecoverLocked(p)
    <3>1. file = loaded[p] /\ ~file.corrupt /\ pc[p] = "lock"
      BY <1>1, <1>3, <2>3 DEF RecoverLocked, ProcessAt, FileIsKnown
    <3>2. ~Refused(p, loaded[p].token, file)
      BY <3>1, <1>1, ConstAssumption DEF Refused, FileIsKnown, Whose, Actor
    <3>3. pc'[p] = "restore"
      BY <1>1, <1>3, <2>3, <3>1, <3>2, ReadIsFile DEF RecoverLocked, BeginRestore, TypeOK
    <3> QED
      BY <3>3
  <2>4. CASE RecoverExists(p)
    BY <1>1, <1>3, <2>4 DEF RecoverExists, TypeOK
  <2>5. CASE RecoverTimeout(p)
    <3>1. pc'[p] = "dead"
      BY <1>1, <2>5 DEF RecoverTimeout, Leave, AfterReturn, TypeOK
    <3> QED
      BY <3>1
  <2> QED
    BY <1>3, <2>2, <2>3, <2>4, <2>5 DEF Recover
<1>4. CASE Restore(p)
  <2>1. CASE Unlink(p)
    <3>1. file = NoFile \/ file = restoring[p]
      BY <1>1, <2>1 DEF RecoveryAt, Unlink
    <3>2. file' = NoFile
      BY <2>1, <3>1, ReadIsFile DEF Unlink
    <3> QED
      BY <3>2
  <2>2. CASE RestoreFails(p)
    <3>1. pc'[p] = "dead"
      BY <1>1, <2>2 DEF RestoreFails, Leave, AfterReturn, TypeOK
    <3> QED
      BY <3>1
  <2>3. CASE RestoreWrite(p)
    BY <1>1, <2>3 DEF RestoreWrite, TypeOK
  <2> QED
    BY <1>4, <2>1, <2>2, <2>3 DEF Restore
<1>5. ASSUME pc'[p] = pc[p]
      PROVE  FALSE
  BY <1>2, <1>5 DEF Recovering
<1>6. ASSUME NEW a \in Actor, Recover(a)
      PROVE  file' = file /\ (a # p => pc'[p] = pc[p])
  BY <1>1, <1>6 DEF Recover, RecoverExists, RecoverRead, RecoverLocked, RecoverTimeout, BeginRestore,
                    Leave, TypeOK
<1>7. ASSUME NEW a \in Actor \ {p}, Restore(a)
      PROVE  FALSE
  BY <1>1, <1>5, <1>7 DEF Restore, RestoreWrite, Unlink, RestoreFails, Leave, TypeOK
<1>8. ASSUME NEW q \in Proc, Enable(q) \/ Main(q) \/ Request(q) \/ Crash(q)
      PROVE  FALSE
  <2>1. CASE q = p
    <3>1. pc[p] \notin {"gui", "stop", "snapshot", "launch", "apply", "mutex", "unborn"}
      BY <1>2 DEF Recovering
    <3>2. CASE Crash(p)
      <4>1. pc'[p] = "dead"
        BY <1>1, <3>2 DEF Crash, Die
      <4> QED
        BY <4>1
    <3> QED
      BY <2>1, <3>1, <3>2, <1>8 DEF Enable, TakeSnapshot, SnapshotFails, LaunchWatchdog, ApplyWrite,
         ApplyFails, Main, AcquireSingleInstance, QuitDisable, Request, Start, Resume, Suspend,
         Disable, Quit
  <2>2. CASE q # p
    <3>1. token[q] # p \/ pc[q] # "launch"
      BY <1>1, ConstAssumption DEF IInv, FreshTokens
    <3>2. pc'[p] = pc[p]
      <4>1. CASE Enable(q)
        BY <1>1, <2>2, <3>1, <4>1 DEF Enable, TakeSnapshot, SnapshotFails, LaunchWatchdog, ApplyWrite,
           ApplyFails, BeginRestore, Leave, TypeOK
      <4>2. CASE Main(q)
        BY <1>1, <2>2, <4>2 DEF Main, AcquireSingleInstance, QuitDisable, BeginRestore, Leave, TypeOK
      <4>3. CASE Request(q)
        <5>1. CASE Disable(q)
          BY <1>1, <2>2, <5>1 DEF Disable, BeginRestore, Leave, TypeOK
        <5>2. ASSUME NEW on \in BOOLEAN, Resume(q, on)
              PROVE  pc'[p] = pc[p]
          BY <1>1, <2>2, <5>2 DEF Resume, TypeOK
        <5>3. TRUE \in BOOLEAN /\ FALSE \in BOOLEAN
          OBVIOUS
        <5>4. CASE Start(q) \/ Suspend(q) \/ Quit(q)
          BY <1>1, <2>2, <5>4 DEF Start, Suspend, Quit, TypeOK
        <5> QED
          BY <4>3, <5>1, <5>2, <5>3, <5>4 DEF Request
      <4>4. CASE Crash(q)
        BY <1>1, <2>2, <4>4 DEF Crash, Die, TypeOK
      <4> QED
        BY <1>8, <4>1, <4>2, <4>3, <4>4
    <3> QED
      BY <3>2, <1>5
  <2> QED
    BY <2>1, <2>2
<1>9. ASSUME NEW t \in Token, Watchdog(t)
      PROVE  FALSE
  <2>1. pc'[p] = pc[p]
    BY <1>1, <1>9 DEF Watchdog, WatchdogPoll, WatchdogTry, TypeOK
  <2> QED
    BY <2>1, <1>5
<1>10. CASE Environment
  <2>1. pc'[p] = pc[p] \/ pc'[p] = "dead"
    BY <1>1, <1>10 DEF Environment, Reboot, Die, OldInstanceDies, DamageFile, UserEdit
  <2> QED
    BY <2>1, <1>5
<1> QED
  BY <1>3, <1>4, <1>6, <1>7, <1>5, <1>8, <1>9, <1>10 DEF Next

(***************************************************************************)
(* However many processes start at once: the one that enters its event     *)
(* loop finds no snapshot of a dead process, because main recovers again   *)
(* once it has the mutex, and no one without it takes a snapshot.          *)
(***************************************************************************)
THEOREM StartIsRecovered == ASSUME Readable
                            PROVE  Spec => StartsRecovered
<1>1. IInv /\ RInv /\ [Next]_vars =>
        [\A p \in Proc :
           caller[p] = "main2" /\ pc'[p] = "gui" /\ file' # NoFile /\ file'.owner # Nobody
             => Alive(file'.owner)]_vars
  BY EntersRecovered
<1> QED
  BY <1>1, Invariant, Known, PTL DEF Spec, StartsRecovered

-----------------------------------------------------------------------------
(* The watchdog of a snapshot lives.  Its attempts are bounded, so this asks    *)
(* for a world in which no attempt fails: run_watchdog gives up after           *)
(* MaxAttempts of them, and a reboot takes every watchdog with it.              *)
Undisturbed == Faults = {}

\* The snapshot has its watchdog, or the application's values are not written yet.
WatchdogIsThere ==
  file # NoFile /\ file.owner # Nobody =>
    \/ Alive(file.token)
    \/ ~PointsToApp /\ (Alive(file.owner) => pc[file.owner] = "launch")

LEMMA WatchdogLives ==
  ASSUME Undisturbed, IInv, RInv, file # NoFile, file.owner # Nobody, file' # NoFile,
         NEW t \in Token, t = file.token, Alive(t),
         Recover(t) \/ Restore(t) \/ Watchdog(t)
  PROVE  Alive(t)'
<1>1. /\ TypeOK /\ WatchdogAt(t) /\ RecoveryAt(t) /\ t \in Actor /\ t \notin Proc
      /\ file.owner = launcher[t] /\ ~file.corrupt
  BY ConstAssumption DEF IInv, RInv, Actor, FileIsKnown, Whose
<1>2. Readable
  BY DEF Undisturbed, Readable
<1>3. ASSUME NEW n \in {"read", "lock", "restore", "unlink", "try", "exists"}, pc'[t] = n
      PROVE  Alive(t)'
  BY <1>3 DEF Alive
<1>4. pc[t] \in Recovering => caller[t] = "watchdog"
  BY <1>1 DEF WatchdogAt
<1>5. CASE RecoverExists(t)
  BY <1>1, <1>3, <1>5 DEF RecoverExists, TypeOK
<1>6. CASE RecoverRead(t)
  <2>1. MayRecover(t, file)
    BY <1>1, <1>4, <1>6 DEF RecoverRead, MayRecover, OwnerMatches, Recovering
  <2>2. pc'[t] = "lock"
    BY <2>1, <1>1, <1>2, <1>6, ReadIsFile DEF RecoverRead, TypeOK
  <2> QED
    BY <2>2, <1>3
<1>7. CASE RecoverLocked(t)
  <2>1. loaded[t].token = t
    BY <1>1, <1>7 DEF RecoverLocked, WatchdogAt
  <2>2. ~Refused(t, loaded[t].token, file)
    BY <2>1, ConstAssumption, <1>1 DEF Refused, Actor
  <2>3. pc'[t] = "restore"
    BY <1>1, <1>2, <1>7, <2>2, ReadIsFile DEF RecoverLocked, BeginRestore, TypeOK
  <2> QED
    BY <2>3, <1>3
<1>8. CASE RestoreWrite(t)
  BY <1>1, <1>3, <1>8 DEF RestoreWrite, TypeOK
<1>9. CASE Unlink(t)
  <2>1. file = restoring[t]
    BY <1>1, <1>9 DEF Unlink, RecoveryAt
  <2>2. file' = NoFile
    BY <2>1, <1>2, <1>9, ReadIsFile DEF Unlink
  <2> QED
    BY <2>2
<1>10. CASE WatchdogPoll(t)
  <2>1. \A s \in LoadState : OwnerMatches(s, launcher[t], t)
    BY <1>1, <1>2, ReadIsFile DEF OwnerMatches
  <2>2. pc'[t] = "try"
    BY <2>1, <1>1, <1>10 DEF WatchdogPoll, TypeOK
  <2> QED
    BY <2>2, <1>3
<1>11. CASE WatchdogTry(t)
  <2>1. \A s \in LoadState : OwnerMatches(s, launcher[t], t)
    BY <1>1, <1>2, ReadIsFile DEF OwnerMatches
  <2>2. pc'[t] = "exists"
    BY <2>1, <1>1, <1>11 DEF WatchdogTry, TypeOK
  <2> QED
    BY <2>2, <1>3
<1> QED
  BY <1>5, <1>6, <1>7, <1>8, <1>9, <1>10, <1>11 DEF Undisturbed, Recover, Restore, Watchdog,
     RecoverTimeout, RestoreFails

\* Nothing but its own steps ends a watchdog, when nothing fails.
LEMMA OthersLetItLive ==
  ASSUME Undisturbed, IInv, Next, NEW t \in Token, Alive(t),
         ~(Recover(t) \/ Restore(t) \/ Watchdog(t))
  PROVE  Alive(t)'
<1>1. TypeOK /\ FreshTokens /\ t \in Actor /\ t \notin Proc
  BY ConstAssumption DEF IInv, Actor
<1>2. ASSUME pc'[t] = pc[t]
      PROVE  Alive(t)'
  BY <1>2 DEF Alive
<1>3. ASSUME NEW a \in Actor \ {t}, Recover(a) \/ Restore(a)
      PROVE  Alive(t)'
  <2>1. pc'[t] = pc[t]
    <3>1. CASE Recover(a)
      BY <3>1, <1>1 DEF Recover, RecoverExists, RecoverRead, RecoverLocked, RecoverTimeout,
         BeginRestore, Leave, TypeOK
    <3>2. CASE Restore(a)
      BY <3>2, <1>1 DEF Restore, RestoreWrite, Unlink, RestoreFails, Leave, TypeOK
    <3> QED
      BY <1>3, <3>1, <3>2
  <2> QED
    BY <2>1, <1>2
<1>4. ASSUME NEW p \in Proc, Enable(p) \/ Main(p) \/ Request(p) \/ Crash(p)
      PROVE  Alive(t)'
  <2>1. p # t
    BY <1>1
  <2>2. CASE LaunchWatchdog(p)
    <3>1. token[p] \in Token /\ pc[token[p]] = "unborn"
      BY <1>1, <2>2 DEF LaunchWatchdog, FreshTokens
    <3>2. pc'[t] = pc[t]
      BY <3>1, <2>1, <2>2, <1>1 DEF LaunchWatchdog, TypeOK, Alive
    <3> QED
      BY <3>2, <1>2
  <2>3. ASSUME NEW on \in BOOLEAN, Resume(p, on)
        PROVE  pc'[t] = pc[t]
    BY <2>1, <2>3, <1>1 DEF Resume, TypeOK
  <2>4. TRUE \in BOOLEAN /\ FALSE \in BOOLEAN
    OBVIOUS
  <2>5. CASE Disable(p) \/ Main(p)
    <3>1. pc'[t] = pc[t]
      BY <2>1, <2>5, <1>1 DEF Disable, Main, AcquireSingleInstance, QuitDisable, BeginRestore,
         Leave, TypeOK
    <3> QED
      BY <3>1, <1>2
  <2>6. CASE Start(p) \/ Suspend(p) \/ Quit(p) \/ Crash(p)
    <3>1. pc'[t] = pc[t]
      BY <2>1, <2>6, <1>1 DEF Start, Suspend, Quit, Crash, Die, TypeOK
    <3> QED
      BY <3>1, <1>2
  <2>7. CASE TakeSnapshot(p) \/ SnapshotFails(p) \/ ApplyWrite(p) \/ ApplyFails(p)
    <3>1. pc'[t] = pc[t]
      BY <2>1, <2>7, <1>1 DEF TakeSnapshot, SnapshotFails, ApplyWrite, ApplyFails, Undisturbed,
         TypeOK
    <3> QED
      BY <3>1, <1>2
  <2> QED
    BY <1>4, <1>2, <2>2, <2>3, <2>4, <2>5, <2>6, <2>7 DEF Enable, Request
<1>5. ASSUME NEW r \in Token \ {t}, Watchdog(r)
      PROVE  Alive(t)'
  <2>1. r \in Actor /\ r # t
    BY <1>5 DEF Actor
  <2>2. pc'[t] = pc[t]
    BY <2>1, <1>1, <1>5 DEF Watchdog, WatchdogPoll, WatchdogTry, TypeOK
  <2> QED
    BY <2>2, <1>2
<1>6. CASE Environment
  <2>1. pc'[t] = pc[t]
    BY <1>6 DEF Environment, Reboot, OldInstanceDies, DamageFile, UserEdit, Undisturbed
  <2> QED
    BY <2>1, <1>2
<1> QED
  BY <1>3, <1>4, <1>5, <1>6 DEF Next

\* Nothing but its own steps moves a process, when nothing fails.
LEMMA OthersLetItBe ==
  ASSUME Undisturbed, IInv, Next, NEW p \in Proc,
         ~(Recover(p) \/ Restore(p) \/ Enable(p) \/ Main(p) \/ Request(p) \/ Crash(p))
  PROVE  pc'[p] = pc[p]
<1>1. TypeOK /\ FreshTokens /\ p \in Actor /\ p \notin Token
  BY ConstAssumption DEF IInv, Actor
<1>2. ASSUME NEW a \in Actor \ {p}, Recover(a)
      PROVE  pc'[p] = pc[p]
  BY <1>1, <1>2 DEF Recover, RecoverExists, RecoverRead, RecoverLocked, RecoverTimeout,
     BeginRestore, Leave, TypeOK
<1>3. ASSUME NEW a \in Actor \ {p}, Restore(a)
      PROVE  pc'[p] = pc[p]
  BY <1>1, <1>3 DEF Restore, RestoreWrite, Unlink, RestoreFails, Leave, TypeOK
<1>4. ASSUME NEW q \in Proc \ {p}, Enable(q) \/ Main(q) \/ Request(q) \/ Crash(q)
      PROVE  pc'[p] = pc[p]
  <2>1. CASE LaunchWatchdog(q)
    BY <2>1, <1>1 DEF LaunchWatchdog, FreshTokens, TypeOK
  <2>2. ASSUME NEW on \in BOOLEAN, Resume(q, on)
        PROVE  pc'[p] = pc[p]
    BY <2>2, <1>1 DEF Resume, TypeOK
  <2>3. TRUE \in BOOLEAN /\ FALSE \in BOOLEAN
    OBVIOUS
  <2>4. CASE Disable(q) \/ Main(q)
    BY <2>4, <1>1 DEF Disable, Main, AcquireSingleInstance, QuitDisable, BeginRestore, Leave, TypeOK
  <2>5. CASE Start(q) \/ Suspend(q) \/ Quit(q) \/ Crash(q)
    BY <2>5, <1>1 DEF Start, Suspend, Quit, Crash, Die, TypeOK
  <2>6. CASE TakeSnapshot(q) \/ SnapshotFails(q) \/ ApplyWrite(q) \/ ApplyFails(q)
    BY <2>6, <1>1 DEF TakeSnapshot, SnapshotFails, ApplyWrite, ApplyFails, Undisturbed, TypeOK
  <2> QED
    BY <1>4, <2>1, <2>2, <2>3, <2>4, <2>5, <2>6 DEF Enable, Request
<1>5. ASSUME NEW t \in Token, Watchdog(t)
      PROVE  pc'[p] = pc[p]
  BY <1>1, <1>5 DEF Watchdog, WatchdogPoll, WatchdogTry, TypeOK
<1>6. CASE Environment
  BY <1>6 DEF Environment, Reboot, OldInstanceDies, DamageFile, UserEdit, Undisturbed
<1> QED
  BY <1>2, <1>3, <1>4, <1>5, <1>6 DEF Next

\* Browsers are sent to the application by the process that owns the snapshot, alone.
LEMMA OwnerPointsToApp ==
  ASSUME Undisturbed, IInv, IInv', RInv, Next, file # NoFile, ~PointsToApp, PointsToApp'
  PROVE  file.owner \in Proc /\ pc[file.owner] = "apply"
<1>1. TypeOK /\ RestoreProgress' /\ Serialized
  BY DEF IInv
<1>2. ASSUME NEW a \in Actor, Restore(a)
      PROVE  FALSE
  <2>1. CASE RestoreWrite(a)
    <3>1. \/ pc'[a] = "unlink"
          \/ pc'[a] = "restore" /\ step'[a] > 1
      BY <1>1, <2>1 DEF RestoreWrite, LastRestoreWrite, TypeOK
    <3> QED
      BY <3>1, <1>1 DEF RestoreProgress, PointsToApp
  <2>2. CASE Unlink(a) \/ RestoreFails(a)
    BY <2>2 DEF Unlink, RestoreFails, PointsToApp
  <2> QED
    BY <1>2, <2>1, <2>2 DEF Restore
<1>3. ASSUME NEW p \in Proc, ApplyWrite(p)
      PROVE  file.owner = p /\ pc[p] = "apply"
  BY <1>3 DEF ApplyWrite, RInv, ProcessAt
<1>4. ASSUME NEW p \in Proc, Suspend(p)
      PROVE  FALSE
  BY <1>1, <1>4 DEF Suspend, PointsToApp, TypeOK, Setting, Name
<1>5. ASSUME registry' = registry
      PROVE  FALSE
  BY <1>5 DEF PointsToApp
<1>6. ASSUME NEW a \in Actor, Recover(a)
      PROVE  registry' = registry
  BY <1>6 DEF Recover, RecoverExists, RecoverRead, RecoverLocked, RecoverTimeout
<1>7. ASSUME NEW p \in Proc, Enable(p) \/ Main(p) \/ Request(p) \/ Crash(p), ~ApplyWrite(p), ~Suspend(p)
      PROVE  registry' = registry
  BY <1>7 DEF Enable, TakeSnapshot, SnapshotFails, LaunchWatchdog, ApplyFails, Main,
     AcquireSingleInstance, QuitDisable, Request, Start, Resume, Disable, Quit, Crash, Die
<1>8. ASSUME NEW t \in Token, Watchdog(t)
      PROVE  registry' = registry
  BY <1>8 DEF Watchdog, WatchdogPoll, WatchdogTry
<1>9. ASSUME Environment
      PROVE  registry' = registry
  BY <1>9 DEF Environment, Reboot, OldInstanceDies, DamageFile, UserEdit, Undisturbed
<1> QED
  BY <1>2, <1>3, <1>4, <1>5, <1>6, <1>7, <1>8, <1>9 DEF Next

\* Before the application's values are written, its process launches the watchdog.
LEMMA LaunchFirst ==
  ASSUME Undisturbed, IInv, RInv, Next, NEW p \in Proc, pc[p] = "launch", file' = file,
         file # NoFile, file.owner = p
  PROVE  Alive(file.token)' \/ pc'[p] \in {"launch", "dead"}
<1>1. TypeOK /\ FreshTokens /\ p \in Actor /\ p \notin Token /\ ProcessAt(p)
  BY ConstAssumption DEF IInv, RInv, Actor
<1>2. CASE LaunchWatchdog(p)
  <2>1. token[p] = file.token /\ token[p] \in Token /\ token[p] # p
    BY <1>1 DEF ProcessAt, FreshTokens
  <2>2. pc'[token[p]] = "poll"
    BY <1>1, <1>2, <2>1 DEF LaunchWatchdog, WatchdogStart, TypeOK, Actor
  <2> QED
    BY <2>1, <2>2 DEF Alive
<1>3. CASE Crash(p)
  BY <1>1, <1>3 DEF Crash, Die, Alive
<1>4. ~(Recover(p) \/ Restore(p) \/ Main(p) \/ Request(p))
  BY DEF Recover, RecoverExists, RecoverRead, RecoverLocked, RecoverTimeout, Restore, RestoreWrite,
     Unlink, RestoreFails, Main, AcquireSingleInstance, QuitDisable, Request, Start, Resume, Suspend,
     Disable, Quit
<1>5. Enable(p) => LaunchWatchdog(p)
  BY DEF Enable, TakeSnapshot, SnapshotFails, ApplyWrite, ApplyFails, Undisturbed
<1> QED
  BY <1>2, <1>3, <1>4, <1>5, OthersLetItBe

LEMMA DeadStaysDead ==
  ASSUME Undisturbed, IInv, Next, NEW p \in Proc, pc[p] = "dead"
  PROVE  pc'[p] = "dead"
<1>1. ~(Recover(p) \/ Restore(p) \/ Enable(p) \/ Main(p) \/ Request(p) \/ Crash(p))
  BY DEF Recover, RecoverExists, RecoverRead, RecoverLocked, RecoverTimeout, Restore, RestoreWrite,
     Unlink, RestoreFails, Main, AcquireSingleInstance, QuitDisable, Request, Start, Resume, Suspend,
     Disable, Quit, Enable, TakeSnapshot, SnapshotFails, LaunchWatchdog, ApplyWrite, ApplyFails,
     Crash, Alive
<1> QED
  BY <1>1, OthersLetItBe

\* A file appears where there is none, with a process about to launch its watchdog.
LEMMA NewFileIsMine ==
  ASSUME Undisturbed, IInv, RInv, Next, file' # file, file' # NoFile
  PROVE  ~PointsToApp' /\ pc'[file'.owner] = "launch"
<1>1. TypeOK /\ RestoreProgress
  BY DEF IInv
<1>2. ASSUME NEW a \in Actor, Recover(a) \/ Restore(a)
      PROVE  FALSE
  BY <1>2 DEF Recover, RecoverExists, RecoverRead, RecoverLocked, RecoverTimeout, Restore,
     RestoreWrite, Unlink, RestoreFails
<1>3. ASSUME NEW p \in Proc, Enable(p) \/ Main(p) \/ Request(p) \/ Crash(p), ~TakeSnapshot(p)
      PROVE  FALSE
  BY <1>3 DEF Enable, SnapshotFails, LaunchWatchdog, ApplyWrite, ApplyFails, Main,
     AcquireSingleInstance, QuitDisable, Request, Start, Resume, Suspend, Disable, Quit, Crash, Die
<1>4. ASSUME NEW t \in Token, Watchdog(t)
      PROVE  FALSE
  BY <1>4 DEF Watchdog, WatchdogPoll, WatchdogTry
<1>5. ASSUME Environment
      PROVE  FALSE
  BY <1>5 DEF Environment, Reboot, OldInstanceDies, DamageFile, UserEdit, Undisturbed
<1>6. ASSUME NEW p \in Proc, TakeSnapshot(p)
      PROVE  ~PointsToApp' /\ pc'[file'.owner] = "launch"
  <2>1. p \in Actor
    BY DEF Actor
  <2>2. file'.owner = p /\ pc'[p] = "launch"
    BY <1>1, <1>6, <2>1 DEF TakeSnapshot, TypeOK
  <2> QED
    BY <2>1, <2>2, <1>1, <1>6 DEF TakeSnapshot, RestoreProgress, PointsToApp
<1> QED
  BY <1>2, <1>3, <1>4, <1>5, <1>6 DEF Next

LEMMA NextKeepsWatchdog ==
  ASSUME Undisturbed, IInv, IInv', RInv, WatchdogIsThere, [Next]_vars
  PROVE  WatchdogIsThere'
<1>1. CASE UNCHANGED vars
  BY <1>1 DEF vars, WatchdogIsThere, Alive, PointsToApp
<1>2. CASE Next /\ (file' = NoFile \/ file'.owner = Nobody)
  BY <1>2 DEF WatchdogIsThere
<1>3. CASE Next /\ file' # NoFile /\ file' # file
  BY <1>3, NewFileIsMine DEF WatchdogIsThere
<1>4. CASE Next /\ file' = file /\ file # NoFile /\ file.owner # Nobody
  <2>1. file.owner \in Proc /\ file.token \in Token /\ file.owner \in Actor
    BY <1>4 DEF RInv, FileIsKnown, Whose, Actor
  <2>2. CASE Alive(file.token)
    BY <1>4, <2>1, <2>2, WatchdogLives, OthersLetItLive DEF WatchdogIsThere
  <2>3. CASE ~Alive(file.token) /\ ~PointsToApp /\ (Alive(file.owner) => pc[file.owner] = "launch")
    <3>1. ~PointsToApp'
      <4>1. pc[file.owner] # "apply"
        BY <2>3 DEF Alive
      <4> QED
        BY <4>1, <1>4, <2>3, OwnerPointsToApp
    <3>2. pc[file.owner] # "unborn"
      BY <1>4, <2>1, ConstAssumption DEF RInv, FileIsKnown, Whose, LaunchersWereBorn, Actor
    <3>3. Alive(file.token)' \/ pc'[file.owner] \in {"launch", "dead"}
      <4>1. pc[file.owner] = "launch" \/ pc[file.owner] = "dead"
        BY <2>3, <3>2 DEF Alive
      <4> QED
        BY <4>1, <1>4, <2>1, LaunchFirst, DeadStaysDead
    <3> QED
      BY <3>1, <3>3, <1>4 DEF WatchdogIsThere, Alive
  <2> QED
    BY <1>4, <2>2, <2>3 DEF WatchdogIsThere
<1> QED
  BY <1>1, <1>2, <1>3, <1>4

(***************************************************************************)
(* Where nothing fails, browsers are never sent to the application's port  *)
(* without someone to restore the proxy: the snapshot has its watchdog     *)
(* from before the first write of the application's values until it is     *)
(* removed, whoever else starts, crashes or recovers (_enable_locked,      *)
(* run_watchdog).                                                          *)
(***************************************************************************)
THEOREM WatchdogOutlivesItsProcess == ASSUME Undisturbed
                                      PROVE  Spec => []SomeoneWillRestore
<1>1. Init => WatchdogIsThere
  BY DEF Init, WatchdogIsThere
<1>2. IInv /\ IInv' /\ RInv /\ WatchdogIsThere /\ [Next]_vars => WatchdogIsThere'
  BY NextKeepsWatchdog
<1>3. WatchdogIsThere => SomeoneWillRestore
  BY DEF WatchdogIsThere, SomeoneWillRestore
<1>4. Readable
  BY DEF Undisturbed, Readable
<1>5. Spec => []RInv
  BY <1>4, Known
<1> QED
  BY <1>1, <1>2, <1>3, <1>5, Invariant, PTL DEF Spec

-----------------------------------------------------------------------------
(* The user's setting.  The promise is kept where the user starts the          *)
(* application only when neither it nor a watchdog of it runs: with a second   *)
(* process it does not hold (the run restart shows how).                       *)

\* The process that runs is alone but for its own watchdogs.
AloneWithWatchdogs ==
  /\ \A p, q \in Proc : Alive(p) /\ Alive(q) => p = q
  /\ \A p \in Proc, t \in Token : Alive(p) /\ Alive(t) => launcher[t] = p

\* A process whose object cannot remember a snapshot.
Forgetful(p) ==
  \/ pc[p] \in {"unborn", "mutex"}
  \/ caller[p] \in {"main1", "main2"}
  \/ caller[p] = "enable" /\ pc[p] \in Recovering \cup {"snapshot"}

\* What a recovery has read, decided to restore, or remembers is what the file holds.
FileIsMine(a) ==
  /\ pc[a] = "read" => file # NoFile
  /\ pc[a] = "lock" => file = loaded[a]
  /\ pc[a] \in {"restore", "unlink"} => file = restoring[a]
  /\ a \in Token /\ pc[a] \in Recovering => file # NoFile /\ file.token = a
  /\ a \in Proc /\ Alive(a) => previous[a] \in {NoFile, file}
  /\ a \in Proc /\ Forgetful(a) => previous[a] = NoFile
  /\ pc[a] \in Recovering => caller[a] # "resume"

\* How much of the user's setting a restore has brought back.
BackSoFar(a) ==
  /\ pc[a] = "restore" /\ step[a] > 2 => registry["ProxyServer"] = user["ProxyServer"]
  /\ pc[a] = "restore" /\ step[a] > 3 => registry["ProxyOverride"] = user["ProxyOverride"]
  /\ pc[a] = "unlink" => registry = user

QInv ==
  /\ AloneWithWatchdogs
  /\ \A a \in Actor : FileIsMine(a) /\ BackSoFar(a)
  /\ UserSettingKept

\* A step that a runs, and what it leaves alone.
StepsBy(a) ==
  \/ Recover(a) \/ Restore(a)
  \/ a \in Proc /\ (Enable(a) \/ Main(a) \/ Request(a))
  \/ a \in Token /\ Watchdog(a)

Same(b) ==
  /\ caller'[b] = caller[b] /\ step'[b] = step[b]
  /\ loaded'[b] = loaded[b] /\ restoring'[b] = restoring[b]
  /\ b \in Proc => previous'[b] = previous[b]

LEMMA OthersAreTheSame ==
  ASSUME IInv, NEW a \in Actor, StepsBy(a), NEW b \in Actor \ {a}
  PROVE  /\ Same(b)
         /\ \/ pc'[b] = pc[b]
            \/ b \in Token /\ pc[b] = "unborn" /\ pc'[b] = "poll" /\ launcher[b] = a /\ launcher' = launcher
<1>1. TypeOK /\ FreshTokens
  BY DEF IInv
<1>2. CASE Recover(a)
  BY <1>1, <1>2 DEF Recover, RecoverExists, RecoverRead, RecoverLocked, RecoverTimeout,
     BeginRestore, Leave, TypeOK, Same
<1>3. CASE RestoreWrite(a) \/ RestoreFails(a)
  BY <1>1, <1>3 DEF RestoreWrite, RestoreFails, Leave, TypeOK, Same
<1>4. CASE Unlink(a)
  <2>1. b \in Proc => previous'[b] = previous[b]
    BY <1>1, <1>4 DEF Unlink, TypeOK
  <2> QED
    BY <2>1, <1>1, <1>4 DEF Unlink, Leave, TypeOK, Same
<1>5. ASSUME a \in Proc, Enable(a) \/ Main(a) \/ Request(a)
      PROVE  /\ Same(b)
             /\ \/ pc'[b] = pc[b]
                \/ b \in Token /\ pc[b] = "unborn" /\ pc'[b] = "poll" /\ launcher[b] = a
                   /\ launcher' = launcher
  <2>1. CASE LaunchWatchdog(a)
    <3>1. token[a] \in Token /\ launcher[token[a]] = a /\ pc[token[a]] = "unborn"
      BY <1>1, <1>5, <2>1 DEF FreshTokens, LaunchWatchdog
    <3>2. pc'[b] = IF b = token[a] THEN "poll" ELSE pc[b]
      BY <1>1, <2>1 DEF LaunchWatchdog, WatchdogStart, TypeOK
    <3> QED
      BY <3>1, <3>2, <2>1 DEF LaunchWatchdog, Same, work, objects
  <2>2. CASE TakeSnapshot(a)
    <3>1. b \in Proc => previous'[b] = previous[b]
      BY <1>1, <2>2 DEF TakeSnapshot, TypeOK
    <3> QED
      BY <3>1, <1>1, <2>2 DEF TakeSnapshot, TypeOK, Same
  <2>3. CASE SnapshotFails(a) \/ ApplyWrite(a)
    BY <1>1, <2>3 DEF SnapshotFails, ApplyWrite, TypeOK, Same
  <2>4. CASE ApplyFails(a)
    BY <1>1, <2>4 DEF ApplyFails, BeginRestore, Leave, TypeOK, Same
  <2>5. CASE Main(a)
    BY <1>1, <2>5 DEF Main, AcquireSingleInstance, QuitDisable, BeginRestore, Leave, TypeOK, Same,
       objects
  <2>6. CASE Disable(a)
    BY <1>1, <2>6 DEF Disable, BeginRestore, Leave, TypeOK, Same
  <2>7. ASSUME NEW on \in BOOLEAN, Resume(a, on)
        PROVE  Same(b) /\ pc'[b] = pc[b]
    <3>1. b \in Proc => previous'[b] = previous[b]
      BY <1>1, <2>7 DEF Resume, TypeOK
    <3> QED
      BY <3>1, <1>1, <2>7 DEF Resume, TypeOK, Same
  <2>8. TRUE \in BOOLEAN /\ FALSE \in BOOLEAN
    OBVIOUS
  <2>9. CASE Suspend(a)
    <3>1. b \in Proc => previous'[b] = previous[b]
      BY <1>1, <2>9 DEF Suspend, TypeOK
    <3> QED
      BY <3>1, <2>9 DEF Suspend, Same
  <2>10. CASE Start(a) \/ Quit(a)
    BY <1>1, <2>10 DEF Start, Quit, TypeOK, Same, objects
  <2> QED
    BY <1>5, <2>1, <2>2, <2>3, <2>4, <2>5, <2>6, <2>7, <2>8, <2>9, <2>10 DEF Enable, Request
<1>6. CASE Watchdog(a)
  BY <1>1, <1>6 DEF Watchdog, WatchdogPoll, WatchdogTry, TypeOK, Same, work, objects
<1> QED
  BY <1>2, <1>3, <1>4, <1>5, <1>6 DEF StepsBy, Restore

\* One actor at most is awake: a process that runs, or a watchdog that restores.
Awake(a) == Alive(a) /\ (a \in Token => pc[a] \in Recovering)

LEMMA OneIsAwake ==
  ASSUME RInv, QInv, NEW a \in Actor, NEW b \in Actor, Awake(a), Awake(b)
  PROVE  a = b
<1>1. CASE a \in Proc /\ b \in Proc
  BY <1>1 DEF QInv, AloneWithWatchdogs, Awake
<1>2. ASSUME NEW p \in Proc, NEW t \in Token, Awake(p), Awake(t)
      PROVE  FALSE
  <2>1. launcher[t] = p /\ Alive(p)
    BY <1>2 DEF QInv, AloneWithWatchdogs, Awake
  <2> QED
    BY <2>1, <1>2 DEF RInv, WatchdogAt, Awake
<1>3. CASE a \in Token /\ b \in Token
  BY <1>3 DEF QInv, FileIsMine, Awake
<1> QED
  BY <1>1, <1>2, <1>3 DEF Actor

\* The file is changed by one who is awake, the registry in a transaction or outside any.
LEMMA WhoWritesFiles ==
  ASSUME IInv, RInv, NEW a \in Actor, StepsBy(a)
  PROVE  /\ user' = user
         /\ file' # file => Awake(a)
         /\ registry' # registry => InTransaction(a) \/ guard = Free
<1>1. Recover(a) => UNCHANGED <<file, registry, user>>
  BY DEF Recover, RecoverExists, RecoverRead, RecoverLocked, RecoverTimeout
<1>2. Restore(a) => InTransaction(a) /\ Awake(a) /\ user' = user
  BY DEF Restore, RestoreWrite, Unlink, RestoreFails, InTransaction, Awake, Alive, Recovering
<1>3. a \in Proc /\ Enable(a) => InTransaction(a) /\ Awake(a) /\ user' = user
  <2>1. a \in Proc => a \notin Token
    BY ConstAssumption
  <2> QED
    BY <2>1 DEF Enable, TakeSnapshot, SnapshotFails, LaunchWatchdog, ApplyWrite, ApplyFails,
       InTransaction, Awake, Alive
<1>4. Main(a) => UNCHANGED <<file, registry, user>>
  BY DEF Main, AcquireSingleInstance, QuitDisable
<1>5. Request(a) => UNCHANGED <<file, user>> /\ (registry' # registry => guard = Free)
  BY DEF Request, Start, Resume, Suspend, Disable, Quit
<1>6. Watchdog(a) => UNCHANGED <<file, registry, user>>
  BY DEF Watchdog, WatchdogPoll, WatchdogTry
<1> QED
  BY <1>1, <1>2, <1>3, <1>4, <1>5, <1>6 DEF StepsBy

LEMMA OthersKeepTheirs ==
  ASSUME IInv, RInv, QInv, NEW a \in Actor, StepsBy(a), NEW b \in Actor \ {a}
  PROVE  FileIsMine(b)' /\ BackSoFar(b)'
<1>1. /\ Same(b) /\ FileIsMine(b) /\ BackSoFar(b) /\ Serialized
      /\ pc'[b] = pc[b] \/ (b \in Token /\ pc[b] = "unborn" /\ pc'[b] = "poll")
  BY OthersAreTheSame DEF QInv, IInv
<1>2. Awake(b) => file' = file
  BY WhoWritesFiles, OneIsAwake
<1>3. InTransaction(b) => registry' = registry /\ user' = user
  BY <1>1, WhoWritesFiles, ConstAssumption DEF Serialized
<1>4. CASE pc'[b] = pc[b]
  <2>1. pc[b] \in Recovering \/ (b \in Proc /\ Alive(b)) => file' = file
    <3>1. pc[b] \in Recovering => Awake(b)
      BY DEF Recovering, Awake, Alive
    <3>2. b \in Proc /\ Alive(b) => Awake(b)
      BY ConstAssumption DEF Awake
    <3> QED
      BY <3>1, <3>2, <1>2
  <2>2. FileIsMine(b)'
    BY <2>1, <1>1, <1>4 DEF FileIsMine, Same, Recovering, Forgetful, Alive
  <2>3. BackSoFar(b)'
    BY <1>1, <1>3, <1>4 DEF BackSoFar, Same, InTransaction
  <2> QED
    BY <2>2, <2>3
<1>5. CASE b \in Token /\ pc'[b] = "poll"
  <2>1. b \notin Proc
    BY <1>5, ConstAssumption
  <2> QED
    BY <2>1, <1>5 DEF FileIsMine, BackSoFar, Recovering
<1> QED
  BY <1>1, <1>4, <1>5

LEMMA StillAlone ==
  ASSUME QuietStart, IInv, RInv, QInv, NEW a \in Actor, StepsBy(a)
  PROVE  AloneWithWatchdogs'
<1>1. TypeOK /\ FreshTokens /\ AloneWithWatchdogs
  BY DEF IInv, QInv
<1>2. Alive(a) \/ Start(a)
  BY DEF StepsBy, Recover, RecoverExists, RecoverRead, RecoverLocked, RecoverTimeout, Restore,
     RestoreWrite, Unlink, RestoreFails, Enable, TakeSnapshot, SnapshotFails, LaunchWatchdog,
     ApplyWrite, ApplyFails, Main, AcquireSingleInstance, QuitDisable, Request, Resume, Suspend,
     Disable, Quit, Watchdog, WatchdogPoll, WatchdogTry, Alive
<1>3. ASSUME NEW b \in Actor \ {a}, Alive(b)'
      PROVE  \/ Alive(b)
             \/ b \in Token /\ launcher[b] = a /\ launcher' = launcher /\ Alive(a)
  <2>1. \/ pc'[b] = pc[b]
        \/ b \in Token /\ pc[b] = "unborn" /\ pc'[b] = "poll" /\ launcher[b] = a /\ launcher' = launcher
    BY OthersAreTheSame
  <2>2. Start(a) => pc'[b] = pc[b]
    BY <1>1 DEF Start, TypeOK
  <2> QED
    BY <2>1, <2>2, <1>2, <1>3 DEF Alive
<1>4. ASSUME Start(a), NEW b \in Actor \ {a}
      PROVE  ~Alive(b)'
  <2>1. ~Alive(b) /\ pc'[b] = pc[b]
    BY <1>1, <1>4 DEF Start, TypeOK
  <2> QED
    BY <2>1 DEF Alive
<1>5. ASSUME NEW t \in Token, Alive(t)'
      PROVE  launcher'[t] = launcher[t]
  <2>1. CASE \E p \in Proc : TakeSnapshot(p) /\ p = a
    <3>1. PICK r \in Token : launcher[r] = Nobody /\ launcher' = [launcher EXCEPT ![r] = a]
      BY <2>1 DEF TakeSnapshot
    <3>2. CASE r = t
      <4>1. pc[t] = "unborn" /\ t # a
        BY <3>1, <3>2, <2>1, <1>1, ConstAssumption DEF FreshTokens
      <4>2. pc'[t] = pc[t]
        BY <4>1, <2>1, <1>1 DEF TakeSnapshot, TypeOK
      <4> QED
        BY <4>1, <4>2, <1>5 DEF Alive
    <3> QED
      BY <3>1, <3>2, <1>1 DEF TypeOK
  <2>2. CASE ~\E p \in Proc : TakeSnapshot(p) /\ p = a
    <3>1. launcher' = launcher
      BY <2>2 DEF StepsBy, Recover, RecoverExists, RecoverRead, RecoverLocked, RecoverTimeout, Restore,
         RestoreWrite, Unlink, RestoreFails, Enable, SnapshotFails, LaunchWatchdog, ApplyWrite,
         ApplyFails, Main, AcquireSingleInstance, QuitDisable, Request, Start, Resume, Suspend,
         Disable, Quit, Watchdog, WatchdogPoll, WatchdogTry
    <3> QED
      BY <3>1
  <2> QED
    BY <2>1, <2>2
<1>6. CASE Start(a)
  <2>1. a \in Proc \/ a \notin Proc
    OBVIOUS
  <2> QED
    BY <1>6, <1>4, ConstAssumption DEF AloneWithWatchdogs, Actor, Start, StepsBy
<1>7. CASE Alive(a)
  <2>1. \A p \in Proc : Alive(p)' => Alive(p)
    BY <1>3, <1>7, ConstAssumption DEF Actor
  <2>2. \A t \in Token : Alive(t)' => Alive(t) \/ launcher[t] = a
    BY <1>3, <1>7 DEF Actor
  <2>3. ASSUME NEW p \in Proc, NEW t \in Token, Alive(p)', Alive(t)'
        PROVE  launcher'[t] = p
    <3>1. Alive(p) /\ launcher'[t] = launcher[t]
      BY <2>1, <2>3, <1>5
    <3>2. CASE Alive(t)
      BY <3>1, <3>2, <1>1 DEF AloneWithWatchdogs
    <3>3. CASE ~Alive(t)
      <4>1. launcher[t] = a /\ t # a
        BY <2>2, <2>3, <3>3, <1>7
      <4>2. a \in Proc
        BY <4>1, <1>1, <1>7, ConstAssumption DEF TypeOK, Actor
      <4> QED
        BY <3>1, <4>1, <4>2, <1>1, <1>7 DEF AloneWithWatchdogs
    <3> QED
      BY <3>2, <3>3
  <2>4. \A p, q \in Proc : Alive(p)' /\ Alive(q)' => p = q
    BY <2>1, <1>1 DEF AloneWithWatchdogs
  <2> QED
    BY <2>3, <2>4 DEF AloneWithWatchdogs
<1> QED
  BY <1>2, <1>6, <1>7

LEMMA LeaveIsMine ==
  ASSUME IInv, RInv, QInv, NEW a \in Actor, NEW ok \in BOOLEAN, NEW raised \in BOOLEAN,
         Leave(a, ok, raised), pc[a] \in Recovering \cup {"gui", "stop", "launch", "apply"},
         ok => pc[a] = "unlink",
         \/ file' = file /\ previous' = previous
         \/ file' = NoFile /\ (a \in Proc => previous'[a] = NoFile \/ caller[a] = "exit")
  PROVE  FileIsMine(a)' /\ BackSoFar(a)'
<1> DEFINE n == AfterReturn(a, ok, raised)
<1>1. /\ n \in NextPC
      /\ n = "snapshot" => ok
  BY AfterReturnIn
<1>2. /\ n = "snapshot" => caller[a] = "enable"
      /\ n = "mutex" => caller[a] = "main1"
      /\ n = "exists" => caller[a] = "quit"
      /\ caller[a] = "watchdog" => n \in {"dead", "try"}
      /\ caller[a] = "exit" => n = "dead"
  BY DEF AfterReturn, NextAttempt
<1> HIDE DEF n
<1>3. TypeOK /\ FileIsMine(a)
  BY DEF IInv, QInv
<1>4. /\ pc'[a] = n
      /\ caller'[a] = IF caller[a] = "quit" THEN "exit" ELSE IF n = "snapshot" THEN "enable" ELSE "none"
  BY <1>3 DEF Leave, n, TypeOK
<1>5. BackSoFar(a)'
  BY <1>1, <1>4 DEF BackSoFar, NextPC
<1>6. a \in Token => caller[a] = "watchdog"
  BY DEF RInv, WatchdogAt, Recovering
<1>7. a \in Proc => Alive(a) /\ (Alive(a)' => n # "dead")
  BY <1>4 DEF Alive, Recovering
<1>8. Forgetful(a)' => Forgetful(a)
  BY <1>1, <1>2, <1>4 DEF Forgetful, NextPC, Recovering
<1>9. Forgetful(a)' => n # "dead"
  BY <1>1, <1>2, <1>4 DEF Forgetful, NextPC, Recovering
<1>10. a \in Proc /\ Alive(a)' => previous'[a] \in {NoFile, file'}
  BY <1>2, <1>3, <1>7 DEF FileIsMine
<1>11. a \in Proc /\ Forgetful(a)' => previous'[a] = NoFile
  BY <1>2, <1>3, <1>8, <1>9 DEF FileIsMine
<1>12. pc'[a] \in Recovering => caller'[a] = "exit" /\ a \notin Token /\ pc'[a] = "exists"
  BY <1>1, <1>2, <1>4, <1>6 DEF NextPC, Recovering
<1> QED
  BY <1>5, <1>10, <1>11, <1>12 DEF FileIsMine, Recovering

LEMMA BeginRestoreIsMine ==
  ASSUME Readable, IInv, RInv, QInv, NEW a \in Actor, NEW prev \in Snapshot \cup {NoFile},
         prev = NoFile \/ file # NoFile,
         NEW tok, NEW c \in Caller \ {"resume"}, BeginRestore(a, prev, tok, c),
         pc[a] \in {"lock", "gui", "stop", "launch", "apply"},
         a \in Proc /\ c \in {"main1", "main2", "enable"} => previous[a] = NoFile,
         UNCHANGED <<file, previous>>
  PROVE  FileIsMine(a)' /\ BackSoFar(a)'
<1>1. CASE Leave(a, FALSE, FALSE)
  BY <1>1, LeaveIsMine DEF Recovering
<1>2. CASE ~Leave(a, FALSE, FALSE)
  <2>1. TypeOK /\ FileIsKnown /\ FileIsMine(a)
    BY DEF IInv, RInv, QInv
  <2>2. PICK disk \in LoadState :
          LET exact     == prev # NoFile /\ ~prev.corrupt
              useMemory == disk # NoFile /\ disk.corrupt /\ exact
              state     == IF useMemory \/ disk = NoFile THEN prev ELSE disk
          IN /\ state # NoFile
             /\ restoring' = [restoring EXCEPT ![a] = state]
             /\ pc' = [pc EXCEPT ![a] = "restore"]
             /\ caller' = [caller EXCEPT ![a] = c]
             /\ step' = [step EXCEPT ![a] = 1]
    BY <1>2 DEF BeginRestore
  <2>3. disk = file
    BY ReadIsFile
  <2>4. ~(file # NoFile /\ file.corrupt)
    BY <2>1 DEF FileIsKnown
  <2>5. file # NoFile /\ restoring' = [restoring EXCEPT ![a] = file]
    BY <2>2, <2>3, <2>4
  <2>6. pc'[a] = "restore" /\ restoring'[a] = file /\ caller'[a] = c /\ step'[a] = 1
    BY <2>1, <2>2, <2>5 DEF TypeOK
  <2>7. a \in Token => file.token = a
    <3>1. a \in Token => pc[a] \in Recovering
      BY DEF RInv, WatchdogAt, Recovering
    <3> QED
      BY <3>1, <2>1 DEF FileIsMine
  <2>8. a \in Proc => previous[a] \in {NoFile, file}
    BY <2>1 DEF FileIsMine, Alive
  <2>9. a \in Proc /\ Forgetful(a)' => previous[a] = NoFile
    BY <2>6 DEF Forgetful
  <2> QED
    BY <2>5, <2>6, <2>7, <2>8, <2>9 DEF FileIsMine, BackSoFar
<1> QED
  BY <1>1, <1>2

LEMMA RecoverIsMine ==
  ASSUME Readable, IInv, RInv, QInv, NEW a \in Actor, Recover(a)
  PROVE  FileIsMine(a)' /\ BackSoFar(a)'
<1>1. TypeOK /\ FileIsMine(a) /\ RecoveryAt(a)
  BY DEF IInv, RInv, QInv
<1>2. ASSUME NEW r \in BOOLEAN, Leave(a, FALSE, r), pc[a] \in {"exists", "read", "lock"},
             UNCHANGED <<file, previous>>
      PROVE  FileIsMine(a)' /\ BackSoFar(a)'
  BY <1>2, LeaveIsMine DEF Recovering
<1>3. CASE RecoverExists(a) /\ ~Leave(a, FALSE, FALSE)
  <2>1. /\ pc[a] = "exists" /\ pc'[a] = "read" /\ file # NoFile
        /\ UNCHANGED <<caller, file, previous>>
    BY <1>1, <1>3 DEF RecoverExists, TypeOK
  <2> QED
    BY <2>1, <1>1 DEF FileIsMine, BackSoFar, Forgetful, Recovering, Alive
<1>4. CASE RecoverRead(a) /\ ~Leave(a, FALSE, FALSE)
  <2>1. /\ pc[a] = "read" /\ UNCHANGED <<caller, file, previous>>
        /\ file # NoFile
    BY <1>1, <1>4 DEF RecoverRead, FileIsMine
  <2>2. pc'[a] = "lock" /\ loaded'[a] = file
    BY <1>1, <1>4, <2>1, ReadIsFile DEF RecoverRead, TypeOK
  <2> QED
    BY <2>1, <2>2, <1>1 DEF FileIsMine, BackSoFar, Forgetful, Recovering, Alive
<1>5. CASE RecoverLocked(a)
  <2>1. /\ pc[a] = "lock" /\ BeginRestore(a, loaded[a], loaded[a].token, caller[a])
        /\ UNCHANGED <<file, previous>>
    BY <1>5 DEF RecoverLocked
  <2>2. file = loaded[a] /\ loaded[a] # NoFile /\ loaded[a] \in Snapshot \cup {NoFile}
    BY <2>1, <1>1 DEF FileIsMine, RecoveryAt, TypeOK
  <2>3. caller[a] \in Caller \ {"resume"}
    BY <2>1, <1>1 DEF FileIsMine, Recovering, TypeOK
  <2>4. a \in Proc /\ caller[a] \in {"main1", "main2", "enable"} => previous[a] = NoFile
    BY <2>1, <1>1 DEF FileIsMine, Forgetful, Recovering
  <2> QED
    BY <2>1, <2>2, <2>3, <2>4, BeginRestoreIsMine
<1> QED
  BY <1>2, <1>3, <1>4, <1>5 DEF Recover, RecoverExists, RecoverRead, RecoverTimeout

-----------------------------------------------------------------------------
(* What each step does to the setting and to what is saved of it.             *)

PromiseStep == [Promise!Next]_(Promise!absVars)

\* Over a saved setting anything may be written.
LEMMA WriteOverSaved ==
  ASSUME TypeOK, UserSettingKept, file # NoFile, registry' \in Setting, UNCHANGED <<file, user>>
  PROVE  UserSettingKept' /\ PromiseStep
<1>1. file.values # NoFile
  BY NoFileAssumption DEF UserSettingKept, TypeOK
<1> QED
  BY <1>1 DEF UserSettingKept, PromiseStep, Promise!Next, Promise!Override

LEMMA NothingWritten ==
  ASSUME UserSettingKept, UNCHANGED <<registry, file, user>>
  PROVE  UserSettingKept' /\ PromiseStep
BY DEF UserSettingKept, PromiseStep, Promise!absVars

LEMMA RestoreWriteIsMine ==
  ASSUME IInv, IInv', RInv, QInv, NEW a \in Actor, RestoreWrite(a)
  PROVE  FileIsMine(a)' /\ BackSoFar(a)' /\ UserSettingKept' /\ PromiseStep
<1>1. /\ TypeOK /\ FileIsMine(a) /\ BackSoFar(a) /\ RestoreProgress /\ UserSettingKept
      /\ registry' \in Setting
  BY DEF IInv, TypeOK, QInv
<1>2. /\ pc[a] = "restore"
      /\ UNCHANGED <<file, caller, previous, loaded, restoring, user>>
      /\ registry' = Restored(restoring[a], step[a])
      /\ step[a] \in 1..4 /\ registry \in [Name -> Value]
  BY <1>1 DEF RestoreWrite, TypeOK, Setting
<1>3. file = restoring[a] /\ file # NoFile /\ file.values = user
  BY <1>1, <1>2 DEF FileIsMine, RestoreProgress, UserSettingKept
<1>4. user \in UserSettings /\ \A n \in Name : user[n] # Keep
  BY <1>1, ConstAssumption DEF TypeOK
<1>5. /\ step[a] = 1 => registry' = [registry EXCEPT !["ProxyEnable"] = "off"]
      /\ step[a] = 2 => registry' = [registry EXCEPT !["ProxyServer"] = user["ProxyServer"]]
      /\ step[a] = 3 => registry' = [registry EXCEPT !["ProxyOverride"] = user["ProxyOverride"]]
      /\ step[a] = 4 => registry' = [registry EXCEPT !["ProxyEnable"] = user["ProxyEnable"]]
  <2>1. /\ WriteOrder[2] = "ProxyServer"
        /\ WriteOrder[3] = "ProxyOverride"
        /\ WriteOrder[4] = "ProxyEnable"
    BY DEF WriteOrder
  <2>2. \A n \in Name : WithEntry(restoring[a], n) = [registry EXCEPT ![n] = user[n]]
    BY <1>3, <1>4 DEF WithEntry
  <2>3. step[a] # 1 => Restored(restoring[a], step[a]) = WithEntry(restoring[a], WriteOrder[step[a]])
    BY DEF Restored
  <2>4. step[a] = 1 => Restored(restoring[a], step[a]) = [registry EXCEPT !["ProxyEnable"] = "off"]
    BY DEF Restored
  <2> QED
    BY <1>2, <2>1, <2>2, <2>3, <2>4 DEF Name
<1>6. /\ step[a] # 4 => pc'[a] = "restore" /\ step'[a] = step[a] + 1
      /\ step[a] = 4 => pc'[a] = "unlink"
  BY <1>1, <1>2 DEF RestoreWrite, LastRestoreWrite, TypeOK
<1>7. FileIsMine(a)'
  BY <1>1, <1>2, <1>3, <1>6 DEF FileIsMine, Forgetful, Recovering, Alive
<1>8. BackSoFar(a)'
  <2>1. CASE step[a] = 4
    <3>1. registry["ProxyServer"] = user["ProxyServer"] /\ registry["ProxyOverride"] = user["ProxyOverride"]
      BY <1>1, <1>2, <2>1 DEF BackSoFar
    <3>2. registry' = user
      <4>1. user \in [Name -> Value] /\ registry' \in [Name -> Value]
        BY <1>1, <1>4, UserSettingsAreSettings DEF Setting
      <4>2. registry' = [registry EXCEPT !["ProxyEnable"] = user["ProxyEnable"]]
        BY <1>5, <2>1
      <4>3. \A n \in Name : registry'[n] = user[n]
        BY <3>1, <4>2, <1>2 DEF Name
      <4> QED
        BY <4>1, <4>3
    <3> QED
      BY <3>2, <1>2, <1>6, <2>1 DEF BackSoFar
  <2>2. CASE step[a] = 3
    <3>1. registry["ProxyServer"] = user["ProxyServer"]
      BY <1>1, <1>2, <2>2 DEF BackSoFar
    <3>2. registry' = [registry EXCEPT !["ProxyOverride"] = user["ProxyOverride"]]
      BY <1>5, <2>2
    <3>3. /\ registry'["ProxyServer"] = user["ProxyServer"]
          /\ registry'["ProxyOverride"] = user["ProxyOverride"]
      BY <3>1, <3>2, <1>2 DEF Name
    <3> QED
      BY <3>3, <1>2, <1>6, <2>2 DEF BackSoFar
  <2>3. CASE step[a] = 2
    <3>1. registry' = [registry EXCEPT !["ProxyServer"] = user["ProxyServer"]]
      BY <1>5, <2>3
    <3>2. registry'["ProxyServer"] = user["ProxyServer"]
      BY <3>1, <1>2 DEF Name
    <3> QED
      BY <3>2, <1>2, <1>6, <2>3 DEF BackSoFar
  <2>4. CASE step[a] = 1
    BY <2>4, <1>2, <1>6 DEF BackSoFar
  <2> QED
    BY <2>1, <2>2, <2>3, <2>4, <1>2
<1>9. UserSettingKept' /\ PromiseStep
  BY <1>1, <1>2, <1>3, WriteOverSaved
<1> QED
  BY <1>7, <1>8, <1>9

LEMMA UnlinkIsMine ==
  ASSUME Readable, IInv, RInv, QInv, NEW a \in Actor, Unlink(a)
  PROVE  FileIsMine(a)' /\ BackSoFar(a)' /\ UserSettingKept' /\ PromiseStep
<1>1. /\ TypeOK /\ FileIsMine(a) /\ BackSoFar(a) /\ RestoreProgress /\ UserSettingKept
      /\ a \in Proc => ProcessAt(a)
  BY DEF IInv, RInv, QInv
<1>2. /\ pc[a] = "unlink" /\ Leave(a, TRUE, FALSE) /\ UNCHANGED <<registry, user>>
      /\ previous' = IF UsesOwnObject(a) THEN [previous EXCEPT ![a] = NoFile] ELSE previous
  BY DEF Unlink
<1>3. file = restoring[a] /\ file # NoFile /\ registry = user /\ file.values = user
  BY <1>1, <1>2 DEF FileIsMine, BackSoFar, RestoreProgress, UserSettingKept
<1>4. file' = NoFile
  BY <1>3, ReadIsFile DEF Unlink
<1>5. a \in Proc => previous'[a] = NoFile \/ caller[a] = "exit"
  <2>1. a \in Proc /\ UsesOwnObject(a) => previous'[a] = NoFile
    BY <1>1, <1>2 DEF TypeOK
  <2>2. a \in Proc => caller[a] # "none" /\ caller[a] # "resume" /\ caller[a] # "watchdog"
    BY <1>1, <1>2, ConstAssumption DEF ProcessAt, FileIsMine, Recovering, IInv, AttemptsLeft
  <2>3. a \in Proc /\ ~UsesOwnObject(a) => Forgetful(a) \/ caller[a] = "exit"
    BY <2>2, <1>1, <1>2 DEF Forgetful, Recovering, UsesOwnObject, TypeOK, Caller, Actor
  <2> QED
    BY <2>1, <2>3, <1>1, <1>2 DEF FileIsMine
<1>6. FileIsMine(a)' /\ BackSoFar(a)'
  BY <1>2, <1>4, <1>5, LeaveIsMine DEF Recovering
<1>7. UserSettingKept'
  BY <1>2, <1>3, <1>4 DEF UserSettingKept
<1>8. PromiseStep
  <2>1. file.values # NoFile
    BY <1>1, <1>3, NoFileAssumption DEF TypeOK
  <2> QED
    BY <2>1, <1>2, <1>3, <1>4 DEF PromiseStep, Promise!Next, Promise!GiveBack
<1> QED
  BY <1>6, <1>7, <1>8

LEMMA RestoreIsMine ==
  ASSUME Readable, IInv, IInv', RInv, QInv, NEW a \in Actor, Restore(a)
  PROVE  FileIsMine(a)' /\ BackSoFar(a)' /\ UserSettingKept' /\ PromiseStep
<1>1. CASE RestoreFails(a)
  <2>1. /\ pc[a] \in {"restore", "unlink"} /\ Leave(a, FALSE, TRUE)
        /\ UNCHANGED <<registry, file, previous, user>>
    BY <1>1 DEF RestoreFails
  <2> QED
    BY <2>1, LeaveIsMine, NothingWritten DEF Recovering, QInv
<1> QED
  BY <1>1, RestoreWriteIsMine, UnlinkIsMine DEF Restore

LEMMA EnableIsMine ==
  ASSUME Readable, IInv, IInv', RInv, QInv, NEW p \in Proc, Enable(p)
  PROVE  FileIsMine(p)' /\ BackSoFar(p)' /\ UserSettingKept' /\ PromiseStep
<1>1. /\ TypeOK /\ FileIsMine(p) /\ UserSettingKept /\ ProcessAt(p) /\ p \in Actor /\ p \notin Token
      /\ FreshTokens /\ registry' \in Setting
  BY ConstAssumption DEF IInv, TypeOK, RInv, QInv, Actor
<1>2. CASE TakeSnapshot(p)
  <2>1. /\ pc'[p] = "launch" /\ previous'[p] = file' /\ file' # file /\ file = NoFile
        /\ file'.values = registry /\ file' # NoFile
        /\ UNCHANGED <<registry, user, caller>> /\ caller[p] \notin {"main1", "main2"}
    <3>1. pc[p] = "snapshot" /\ file = NoFile /\ pc'[p] = "launch" /\ UNCHANGED <<registry, user>>
          /\ previous'[p] = file' /\ file'.values = registry /\ caller' = caller
      BY <1>1, <1>2 DEF TakeSnapshot, ProcessAt, TypeOK
    <3>2. file' # NoFile
      BY <1>2, <3>1, <1>1 DEF IInv, AppliedOverFile
    <3>3. caller[p] \notin {"main1", "main2"}
      BY <3>1, <1>1 DEF ProcessAt, Recovering
    <3> QED
      BY <3>1, <3>2, <3>3
  <2>2. FileIsMine(p)' /\ BackSoFar(p)'
    BY <2>1, <1>1 DEF FileIsMine, BackSoFar, Forgetful, Recovering
  <2>3. UserSettingKept'
    BY <2>1, <1>1 DEF UserSettingKept
  <2>4. PromiseStep
    BY <2>1 DEF PromiseStep, Promise!Next, Promise!Save
  <2> QED
    BY <2>2, <2>3, <2>4
<1>3. CASE SnapshotFails(p) \/ LaunchWatchdog(p)
  <2>1. /\ pc'[p] \in {"gui", "apply"} /\ caller'[p] \in {caller[p], "none"} /\ Alive(p)
        /\ UNCHANGED <<registry, file, previous, user>>
    <3>1. CASE SnapshotFails(p)
      BY <3>1, <1>1 DEF SnapshotFails, TypeOK, Alive
    <3>2. CASE LaunchWatchdog(p)
      BY <3>2, <1>1 DEF LaunchWatchdog, TypeOK, Alive, work, objects, FreshTokens
    <3> QED
      BY <1>3, <3>1, <3>2
  <2>2. caller'[p] \notin {"main1", "main2"}
    BY <2>1, <1>1, <1>3 DEF ProcessAt, SnapshotFails, LaunchWatchdog, Recovering
  <2>3. FileIsMine(p)' /\ BackSoFar(p)'
    BY <2>1, <2>2, <1>1 DEF FileIsMine, BackSoFar, Forgetful, Recovering
  <2> QED
    BY <2>1, <2>3, <1>1, NothingWritten
<1>4. CASE ApplyWrite(p)
  <2>1. /\ pc'[p] \in {"gui", "apply"} /\ caller'[p] \in {caller[p], "none"} /\ Alive(p)
        /\ pc[p] = "apply" /\ UNCHANGED <<file, previous, user>>
    BY <1>1, <1>4 DEF ApplyWrite, TypeOK, Alive
  <2>2. caller'[p] \notin {"main1", "main2"}
    BY <2>1, <1>1 DEF ProcessAt, Recovering
  <2>3. FileIsMine(p)' /\ BackSoFar(p)'
    BY <2>1, <2>2, <1>1 DEF FileIsMine, BackSoFar, Forgetful, Recovering
  <2>4. file # NoFile
    BY <2>1, <1>1 DEF ProcessAt
  <2> QED
    BY <2>1, <2>3, <2>4, <1>1, WriteOverSaved
<1>5. CASE ApplyFails(p)
  <2>1. /\ pc[p] \in {"launch", "apply"} /\ UNCHANGED <<registry, file, previous, user>>
        /\ Leave(p, FALSE, TRUE) \/ BeginRestore(p, previous[p], token[p], "rollback")
    BY <1>5 DEF ApplyFails
  <2>2. file # NoFile /\ previous[p] \in Snapshot \cup {NoFile}
    BY <2>1, <1>1 DEF ProcessAt, TypeOK
  <2>3. CASE Leave(p, FALSE, TRUE)
    BY <2>1, <2>3, <1>1, LeaveIsMine, NothingWritten
  <2>4. CASE BeginRestore(p, previous[p], token[p], "rollback")
    <3>1. "rollback" \in Caller \ {"resume"}
      BY DEF Caller
    <3> QED
      BY <2>1, <2>2, <2>4, <3>1, <1>1, BeginRestoreIsMine, NothingWritten
  <2> QED
    BY <2>1, <2>3, <2>4
<1> QED
  BY <1>2, <1>3, <1>4, <1>5 DEF Enable

LEMMA MainIsMine ==
  ASSUME Readable, IInv, RInv, QInv, NEW p \in Proc, Main(p)
  PROVE  FileIsMine(p)' /\ BackSoFar(p)' /\ UserSettingKept' /\ PromiseStep
<1>1. /\ TypeOK /\ FileIsMine(p) /\ UserSettingKept /\ p \in Actor /\ p \notin Token
      /\ UNCHANGED <<registry, file, previous, user>>
  BY ConstAssumption DEF IInv, QInv, Actor, Main, AcquireSingleInstance, QuitDisable, objects
<1>2. CASE AcquireSingleInstance(p)
  <2>1. /\ pc[p] = "mutex"
        /\ \/ pc'[p] = "exists" /\ caller'[p] = "main2"
           \/ pc'[p] = "dead" /\ caller'[p] = caller[p]
    BY <1>1, <1>2 DEF AcquireSingleInstance, TypeOK
  <2>2. previous[p] = NoFile
    BY <2>1, <1>1 DEF FileIsMine, Forgetful
  <2>3. FileIsMine(p)' /\ BackSoFar(p)'
    BY <2>1, <2>2, <1>1 DEF FileIsMine, BackSoFar, Recovering
  <2> QED
    BY <2>3, <1>1, NothingWritten
<1>3. CASE QuitDisable(p)
  <2>1. pc[p] = "stop"
        /\ (Leave(p, FALSE, TRUE) \/ BeginRestore(p, previous[p], token[p], "quit"))
    BY <1>3 DEF QuitDisable
  <2>2. /\ previous[p] \in Snapshot \cup {NoFile} /\ previous[p] \in {NoFile, file}
        /\ "quit" \in Caller \ {"resume"}
    BY <2>1, <1>1 DEF FileIsMine, Alive, TypeOK, Caller
  <2>3. FileIsMine(p)' /\ BackSoFar(p)'
    BY <2>1, <2>2, <1>1, LeaveIsMine, BeginRestoreIsMine
  <2> QED
    BY <2>3, <1>1, NothingWritten
<1> QED
  BY <1>2, <1>3 DEF Main

LEMMA ResumeIsMine ==
  ASSUME Readable, IInv, RInv, QInv, NEW p \in Proc, NEW on \in BOOLEAN, Resume(p, on)
  PROVE  FileIsMine(p)' /\ BackSoFar(p)'
<1>1. TypeOK /\ FileIsMine(p) /\ ProcessAt(p) /\ p \in Actor /\ p \notin Token
  BY ConstAssumption DEF IInv, RInv, QInv, Actor
<1>2. pc[p] = "gui" /\ file' = file /\ previous[p] \in {NoFile, file}
  BY <1>1 DEF Resume, FileIsMine, Alive
<1>3. PICK disk \in LoadState :
       LET state == OwnedPending(p, disk) IN
       \/ /\ state # NoFile
          /\ previous' = [previous EXCEPT ![p] = state]
          /\ pc' = [pc EXCEPT ![p] = "apply"]
          /\ caller' = [caller EXCEPT ![p] = "resume"]
       \/ /\ state = NoFile
          /\ previous' = previous
          /\ \/ UNCHANGED <<pc, caller>>
             \/ /\ caller' = [caller EXCEPT ![p] = "enable"]
                /\ \/ pc' = [pc EXCEPT ![p] = "exists"] /\ NoFile \notin LoadState
                   \/ pc' = [pc EXCEPT ![p] = "snapshot"] /\ NoFile \in LoadState
  <2>1. \A x \in LoadState : x = file
    BY ReadIsFile
  <2> QED
    BY <2>1 DEF Resume
<1>4. disk = file
  BY ReadIsFile
<1>5. CASE OwnedPending(p, disk) # NoFile
  <2>1. previous'[p] = file /\ pc'[p] = "apply" /\ caller'[p] = "resume"
    BY <1>1, <1>3, <1>5, OwnPendingIsFile DEF TypeOK
  <2> QED
    BY <2>1, <1>1, <1>2 DEF FileIsMine, BackSoFar, Forgetful, Recovering
<1>6. CASE OwnedPending(p, disk) = NoFile
  <2>1. previous[p] = NoFile
    <3>1. SUFFICES ASSUME previous[p] # NoFile
                   PROVE  FALSE
      OBVIOUS
    <3>2. file = previous[p] /\ file.owner = p /\ file.token = token[p]
      BY <3>1, <1>1, <1>2 DEF ProcessAt
    <3> QED
      BY <3>1, <3>2, <1>4, <1>6 DEF OwnedPending
  <2>2. /\ previous'[p] = NoFile
        /\ \/ pc'[p] = "gui" /\ caller'[p] = caller[p]
           \/ pc'[p] \in {"exists", "snapshot"} /\ caller'[p] = "enable"
    BY <2>1, <1>1, <1>2, <1>3, <1>6 DEF TypeOK
  <2> QED
    BY <2>2, <1>1, <1>2 DEF FileIsMine, BackSoFar, Recovering
<1> QED
  BY <1>5, <1>6

LEMMA RequestIsMine ==
  ASSUME Readable, IInv, IInv', RInv, QInv, NEW p \in Proc, Request(p)
  PROVE  FileIsMine(p)' /\ BackSoFar(p)' /\ UserSettingKept' /\ PromiseStep
<1>1. /\ TypeOK /\ FileIsMine(p) /\ UserSettingKept /\ ProcessAt(p) /\ p \in Actor /\ p \notin Token
      /\ registry' \in Setting
  BY ConstAssumption DEF IInv, TypeOK, RInv, QInv, Actor
<1>2. ASSUME NEW on \in BOOLEAN, Resume(p, on)
      PROVE  FileIsMine(p)' /\ BackSoFar(p)' /\ UserSettingKept' /\ PromiseStep
  <2>1. UNCHANGED <<registry, file, user>>
    BY <1>2 DEF Resume
  <2> QED
    BY <2>1, <1>1, <1>2, ResumeIsMine, NothingWritten
<1>3. TRUE \in BOOLEAN /\ FALSE \in BOOLEAN
  OBVIOUS
<1>4. CASE Suspend(p)
  <2>1. PICK disk \in LoadState : /\ OwnedPending(p, disk) # NoFile
                                  /\ previous' = [previous EXCEPT ![p] = OwnedPending(p, disk)]
    BY <1>4 DEF Suspend
  <2>2. file # NoFile /\ previous'[p] = file
    BY <2>1, <1>1, OwnPendingIsFile DEF TypeOK
  <2>3. pc[p] = "gui" /\ UNCHANGED <<file, pc, caller, user>>
    BY <1>4 DEF Suspend
  <2>4. caller[p] \notin {"main1", "main2"}
    BY <2>3, <1>1 DEF ProcessAt, Recovering
  <2>5. FileIsMine(p)' /\ BackSoFar(p)'
    BY <2>2, <2>3, <2>4, <1>1 DEF FileIsMine, BackSoFar, Forgetful, Recovering
  <2> QED
    BY <2>2, <2>3, <2>5, <1>1, WriteOverSaved
<1>5. CASE Disable(p)
  <2>1. /\ pc[p] = "gui" /\ UNCHANGED <<registry, file, previous, user>>
        /\ BeginRestore(p, previous[p], token[p], "disable")
    BY <1>5 DEF Disable
  <2>2. /\ previous[p] \in Snapshot \cup {NoFile} /\ previous[p] \in {NoFile, file}
        /\ "disable" \in Caller \ {"resume"}
    BY <2>1, <1>1 DEF FileIsMine, Alive, TypeOK, Caller
  <2>3. FileIsMine(p)' /\ BackSoFar(p)'
    BY <2>1, <2>2, <1>1, BeginRestoreIsMine
  <2> QED
    BY <2>1, <2>3, <1>1, NothingWritten
<1>6. CASE Start(p) \/ Quit(p)
  <2>1. /\ \/ pc[p] = "unborn" /\ pc'[p] = "exists" /\ caller'[p] = "main1"
           \/ pc[p] = "gui" /\ pc'[p] = "stop" /\ caller'[p] = "quit"
        /\ UNCHANGED <<registry, file, previous, user>>
    BY <1>1, <1>6 DEF Start, Quit, TypeOK, objects
  <2>2. FileIsMine(p)' /\ BackSoFar(p)'
    BY <2>1, <1>1 DEF FileIsMine, BackSoFar, Forgetful, Recovering, Alive
  <2> QED
    BY <2>1, <2>2, <1>1, NothingWritten
<1> QED
  BY <1>2, <1>3, <1>4, <1>5, <1>6 DEF Request

LEMMA WatchdogIsMine ==
  ASSUME Readable, IInv, RInv, QInv, NEW t \in Token, Watchdog(t)
  PROVE  FileIsMine(t)' /\ BackSoFar(t)' /\ UserSettingKept' /\ PromiseStep
<1>1. TypeOK /\ UserSettingKept /\ t \in Actor /\ t \notin Proc
  BY ConstAssumption DEF IInv, QInv, Actor
<1>2. UNCHANGED <<registry, file, user>>
  BY DEF Watchdog, WatchdogPoll, WatchdogTry
<1>3. \/ pc'[t] \in {"dead", "try"}
      \/ pc'[t] = "exists" /\ caller'[t] = "watchdog" /\ file # NoFile /\ file.token = t
  <2>1. CASE WatchdogPoll(t)
    BY <2>1, <1>1 DEF WatchdogPoll, TypeOK
  <2>2. CASE WatchdogTry(t)
    <3>1. \A s \in LoadState : s = file
      BY ReadIsFile
    <3> QED
      BY <2>2, <3>1, <1>1 DEF WatchdogTry, OwnerMatches, TypeOK
  <2> QED
    BY <2>1, <2>2 DEF Watchdog
<1>4. FileIsMine(t)' /\ BackSoFar(t)'
  BY <1>1, <1>2, <1>3 DEF FileIsMine, BackSoFar, Recovering
<1> QED
  BY <1>1, <1>2, <1>4, NothingWritten

LEMMA StepIsMine ==
  ASSUME Readable, QuietStart, IInv, IInv', RInv, QInv, NEW a \in Actor, StepsBy(a)
  PROVE  QInv' /\ PromiseStep
<1>1. CASE Recover(a)
  <2>1. UNCHANGED <<registry, file, user>>
    BY <1>1 DEF Recover, RecoverExists, RecoverRead, RecoverLocked, RecoverTimeout
  <2> QED
    BY <1>1, <2>1, RecoverIsMine, NothingWritten, StillAlone, OthersKeepTheirs DEF QInv
<1>2. CASE Restore(a)
  BY <1>2, RestoreIsMine, StillAlone, OthersKeepTheirs DEF QInv
<1>3. CASE a \in Proc /\ (Enable(a) \/ Main(a) \/ Request(a))
  BY <1>3, EnableIsMine, MainIsMine, RequestIsMine, StillAlone, OthersKeepTheirs DEF QInv
<1>4. CASE a \in Token /\ Watchdog(a)
  BY <1>4, WatchdogIsMine, StillAlone, OthersKeepTheirs DEF QInv
<1> QED
  BY <1>1, <1>2, <1>3, <1>4 DEF StepsBy

LEMMA DieIsMine ==
  ASSUME IInv, RInv, QInv, NEW D \in SUBSET Actor, Die(D)
  PROVE  QInv' /\ PromiseStep
<1>1. TypeOK /\ UserSettingKept /\ UNCHANGED <<registry, file, launcher, user>>
  BY DEF IInv, QInv, Die
<1>2. \A b \in Actor : Alive(b)' => Alive(b)
  BY DEF Die, Alive
<1>3. AloneWithWatchdogs'
  BY <1>1, <1>2 DEF QInv, AloneWithWatchdogs, Actor
<1>4. ASSUME NEW b \in Actor
      PROVE  FileIsMine(b)' /\ BackSoFar(b)'
  <2>1. FileIsMine(b) /\ BackSoFar(b)
    BY DEF QInv
  <2>2. CASE b \in D
    <3>1. pc'[b] \in {"dead", "unborn"} /\ caller'[b] = "none" /\ (b \in Proc => previous'[b] = NoFile)
      BY <2>2 DEF Die, Alive
    <3> QED
      BY <3>1 DEF FileIsMine, BackSoFar, Recovering
  <2>3. CASE b \notin D
    <3>1. /\ pc'[b] = pc[b] /\ caller'[b] = caller[b] /\ step'[b] = step[b]
          /\ loaded'[b] = loaded[b] /\ restoring'[b] = restoring[b]
          /\ b \in Proc => previous'[b] = previous[b]
      BY <2>3 DEF Die
    <3> QED
      BY <3>1, <2>1, <1>1 DEF FileIsMine, BackSoFar, Forgetful, Alive
  <2> QED
    BY <2>2, <2>3
<1> QED
  BY <1>1, <1>3, <1>4, NothingWritten DEF QInv

LEMMA NextIsMine ==
  ASSUME Readable, QuietStart, IInv, IInv', RInv, QInv, [Next]_vars
  PROVE  QInv' /\ PromiseStep
<1>1. ASSUME NEW a \in Actor, Recover(a) \/ Restore(a)
      PROVE  QInv' /\ PromiseStep
  BY <1>1, StepIsMine DEF StepsBy
<1>2. ASSUME NEW p \in Proc, Enable(p) \/ Main(p) \/ Request(p)
      PROVE  QInv' /\ PromiseStep
  BY <1>2, StepIsMine DEF StepsBy, Actor
<1>3. ASSUME NEW t \in Token, Watchdog(t)
      PROVE  QInv' /\ PromiseStep
  BY <1>3, StepIsMine DEF StepsBy, Actor
<1>4. ASSUME NEW p \in Proc, Crash(p)
      PROVE  QInv' /\ PromiseStep
  <2>1. {p} \in SUBSET Actor /\ Die({p})
    BY <1>4 DEF Crash, Actor
  <2> QED
    BY <2>1, DieIsMine
<1>5. CASE Reboot
  BY <1>5, DieIsMine DEF Reboot
<1>6. CASE OldInstanceDies \/ UNCHANGED vars
  <2>1. UNCHANGED <<registry, file, pc, caller, step, loaded, restoring, previous, launcher, user>>
    BY <1>6 DEF OldInstanceDies, vars, work, objects
  <2> QED
    BY <2>1, NothingWritten DEF QInv, AloneWithWatchdogs, FileIsMine, BackSoFar, Forgetful, Alive
<1>7. ASSUME NEW u \in UserSettings, UserEdit(u)
      PROVE  QInv' /\ PromiseStep
  <2>1. /\ file = NoFile /\ guard = Free /\ registry' = u /\ user' = u
        /\ UNCHANGED <<file, pc, caller, step, loaded, restoring, previous, launcher>>
    BY <1>7 DEF UserEdit, work, objects
  <2>2. \A b \in Actor : ~InTransaction(b)
    BY <2>1, ConstAssumption DEF IInv, Serialized
  <2>3. \A b \in Actor : BackSoFar(b)'
    BY <2>1, <2>2 DEF BackSoFar, InTransaction
  <2>4. AloneWithWatchdogs' /\ \A b \in Actor : FileIsMine(b)'
    BY <2>1 DEF QInv, AloneWithWatchdogs, FileIsMine, Forgetful, Alive
  <2>5. UserSettingKept'
    BY <2>1 DEF UserSettingKept
  <2>6. PromiseStep
    BY <2>1 DEF PromiseStep, Promise!Next, Promise!Choose
  <2> QED
    BY <2>3, <2>4, <2>5, <2>6 DEF QInv
<1>8. ~DamageFile
  BY DEF Readable, DamageFile
<1> QED
  BY <1>1, <1>2, <1>3, <1>4, <1>5, <1>6, <1>7, <1>8 DEF Next, Environment

LEMMA InitIsMine == Init => QInv /\ Promise!Init
<1> SUFFICES ASSUME Init
             PROVE  QInv /\ Promise!Init
  OBVIOUS
<1>1. \A a \in Actor : pc[a] = "unborn" /\ caller[a] = "none" /\ \A p \in Proc : previous[p] = NoFile
  BY DEF Init
<1>2. AloneWithWatchdogs
  BY <1>1 DEF AloneWithWatchdogs, Alive, Actor
<1>3. \A a \in Actor : FileIsMine(a) /\ BackSoFar(a)
  BY <1>1 DEF FileIsMine, BackSoFar, Recovering, Alive
<1>4. UserSettingKept
  <2>1. NoOrphanedProxy
    BY InitIInv DEF IInv
  <2>2. CASE file = NoFile
    <3>1. registry = user \/ registry = AppSetting
      BY DEF Init
    <3>2. registry # AppSetting
      BY <2>1, <2>2 DEF NoOrphanedProxy, PointsToApp, AppSetting, Name
    <3> QED
      BY <2>2, <3>1, <3>2 DEF UserSettingKept
  <2>3. CASE file # NoFile
    BY <2>3 DEF Init, UserSettingKept
  <2> QED
    BY <2>2, <2>3
<1>5. Promise!Init
  <2>1. registry \in Setting /\ user \in UserSettings
    BY InitIInv DEF IInv, TypeOK
  <2>2. file = NoFile \/ file.values = user
    BY <1>4 DEF UserSettingKept
  <2> QED
    BY <2>1, <2>2 DEF Promise!Init
<1> QED
  BY <1>2, <1>3, <1>4, <1>5 DEF QInv

(***************************************************************************)
(* Where the application is started only when it is not running at all,    *)
(* the user's setting is in the registry or in the restore file, always:   *)
(* failing writes, timeouts, reboots and crashes between any two steps of  *)
(* enabling, restoring and recovering lose nothing of it, and no snapshot  *)
(* is taken of the application's own values.                               *)
(***************************************************************************)
THEOREM SettingIsKept == ASSUME Readable, QuietStart
                         PROVE  Spec => []UserSettingKept
<1>1. Init => QInv
  BY InitIsMine
<1>2. IInv /\ IInv' /\ RInv /\ QInv /\ [Next]_vars => QInv'
  BY NextIsMine
<1>3. QInv => UserSettingKept
  BY DEF QInv
<1> QED
  BY <1>1, <1>2, <1>3, Known, Invariant, PTL DEF Spec

(***************************************************************************)
(* Under the same hypotheses the proxy transactions implement              *)
(* ProxyRestore: a snapshot is saved before the setting is touched, never  *)
(* replaced by another, and given up only once the setting has its value.  *)
(***************************************************************************)
THEOREM PromiseKept == ASSUME Readable, QuietStart
                       PROVE  Spec => ImplementsPromise
<1>1. Init => QInv /\ Promise!Init
  BY InitIsMine
<1>2. IInv /\ IInv' /\ RInv /\ QInv /\ [Next]_vars => QInv' /\ [Promise!Next]_(Promise!absVars)
  BY NextIsMine DEF PromiseStep
<1> QED
  BY <1>1, <1>2, Known, Invariant, PTL DEF Spec, ImplementsPromise, Promise!Spec

=============================================================================
