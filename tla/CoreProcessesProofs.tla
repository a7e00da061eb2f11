-------------------------- MODULE CoreProcessesProofs --------------------------
(***************************************************************************)
(* Theorems about CoreProcesses for every finite set of process ids and    *)
(* any number of crashes, strangers, failures and starts.                  *)
(***************************************************************************)
EXTENDS CoreProcesses, TLAPS

Process == [kind : {"none", "xray", "sing", "other"}, home : BOOLEAN,
            orphan : BOOLEAN, listens : BOOLEAN]
Owner == [pid : Pid \cup {0}, same : BOOLEAN]
Program == [pc : Places, xray : Pid \cup {0}, tun : Pid \cup {0}, active : BOOLEAN,
            todo : SUBSET Pid, target : Pid \cup {0}, refused : BOOLEAN, killed : BOOLEAN,
            quit : BOOLEAN]

TypesOK ==
  proc \in [Pid -> Process] /\ xrec \in Owner /\ srec \in Owner /\ app \in Program

Before == {"down", "boot", "idle", "reclaim", "kill", "ports"}
Clear == {"recover", "spawn"}
During == {"record", "settle", "up", "tun", "tun record", "stop tun", "stop xray", "unrecord"}

Xray(p) == proc[p].kind = "xray"

\* sing-box never outlives the program or its stop: its job sees to it.
SingIsTun == \A p \in Pid : proc[p].kind = "sing" => p = app.tun
TunWhile == app.tun # 0 => app.pc \in {"up", "tun", "tun record", "stop tun"}
ActiveWhile == app.active => app.pc \in During \ {"unrecord"}

\* Nothing but an xray or a stranger listens.
ListenerKinds == \A p \in Pid : proc[p].listens => proc[p].kind \in {"xray", "other"}

\* Which xrays there are, if none outlived its kill.
XraysKnown ==
  "stuck" \notin accident =>
    \A p \in Pid : Xray(p) =>
      /\ app.pc \notin Clear \cup {"unrecord"}
      /\ app.pc \in During => p = app.xray
      /\ app.pc \in Before => proc[p].listens \/ app.pc = "down"

\* Before the next start, an xray that an earlier run left can be told: the record,
\* when there is one, names it, and without one the executable or the parent does.
Telling(p) ==
  /\ "unrecorded" \notin accident => xrec = NoRecord \/ (xrec.pid = p /\ xrec.same)
  /\ proc[p].orphan \/ "parent" \in accident
XraysTold ==
  "stuck" \notin accident /\ app.pc \in Before =>
    \A p \in Pid : Xray(p) => Telling(p)
XraysHome == \A p \in Pid : Xray(p) => proc[p].home \/ "moved" \in accident

\* The accidents after which an xray left behind may hold the ports for good.
Untold == "unrecorded" \in accident \/ {"moved", "parent"} \subseteq accident
          \/ "stuck" \in accident
\* While its ports are reclaimed, every xray is still to be looked at.
XraysDue ==
  ~Untold => \A p \in Pid : Xray(p) =>
    /\ app.pc = "reclaim" => p \in app.todo
    /\ app.pc = "kill" => p \in app.todo \cup {app.target}
    /\ app.pc # "ports"
Aimed ==
  app.pc = "kill" =>
    /\ app.target \in Pid
    /\ proc[app.target].kind = "other" => "reuse" \in accident

\* Without a crash nothing is left from one run to the next.
NothingLeft ==
  accident = {} /\ app.pc \in Before \cup Clear \cup {"unrecord"} =>
    \A p \in Pid : ~Xray(p)
QuitWhile == app.quit => app.pc = "down"

IInv ==
  /\ TypesOK
  /\ SingIsTun /\ TunWhile /\ ActiveWhile
  /\ ListenerKinds
  /\ XraysKnown
  /\ XraysTold /\ XraysHome
  /\ XraysDue /\ Aimed
  /\ NothingLeft /\ QuitWhile
  /\ app.refused => Untold
  /\ app.killed => "reuse" \in accident

-----------------------------------------------------------------------------
(* Steps that start no process of the program. *)

\* Processes only end or learn something, and strangers come.
Fewer ==
  /\ accident \subseteq accident'
  /\ \A q \in Pid :
       /\ Xray(q)' =>
            /\ Xray(q) /\ (proc[q].listens => proc'[q].listens)
            /\ proc[q].home => proc'[q].home \/ "moved" \in accident'
            /\ proc[q].orphan => proc'[q].orphan \/ "parent" \in accident'
       /\ proc'[q].kind = "sing" => proc[q].kind = "sing"
       /\ proc'[q].listens => proc'[q].kind \in {"xray", "other"}

\* What the record says of a living xray stays.
RecordKept ==
  \A q \in Pid :
    Xray(q)' /\ (xrec = NoRecord \/ (xrec.pid = q /\ xrec.same))
      => (xrec = NoRecord \/ (xrec.pid = q /\ xrec.same))'

LEMMA FewerKeeps ==
  ASSUME ListenerKinds, XraysHome, Fewer
  PROVE  ListenerKinds' /\ XraysHome'
BY DEF ListenerKinds, XraysHome, Fewer

LEMMA NothingIsFewer ==
  ASSUME ListenerKinds, UNCHANGED proc, accident \subseteq accident'
  PROVE  Fewer
BY DEF ListenerKinds, Fewer, Xray

LEMMA EndingIsFewer ==
  ASSUME TypesOK, ListenerKinds, NEW P, proc' = Without(P), accident \subseteq accident'
  PROVE  Fewer /\ proc' \in [Pid -> Process]
<1>1. NoProcess \in Process /\ NoProcess.kind = "none" /\ ~NoProcess.listens
  BY DEF NoProcess, Process
<1>2. \A q \in Pid : proc'[q] = proc[q] \/ proc'[q] = NoProcess
  BY DEF Without
<1>3. proc' \in [Pid -> Process]
  BY <1>1 DEF Without, TypesOK
<1> QED
  BY <1>1, <1>2, <1>3 DEF Fewer, ListenerKinds, Xray

LEMMA ForgetKeeps ==
  ASSUME NEW r \in Owner, NEW P
  PROVE  /\ Forget(r, P) \in Owner /\ Forget(r, P).pid = r.pid
         /\ Forget(r, P).same <=> r.same /\ r.pid \notin P
         /\ r = NoRecord => Forget(r, P) = NoRecord
<1>1. /\ Forget(r, P) \in Owner /\ Forget(r, P).pid = r.pid
      /\ Forget(r, P).same <=> r.same /\ r.pid \notin P
  BY DEF Forget, Owner
<1>2. ASSUME r = NoRecord
      PROVE  Forget(r, P) = NoRecord
  <2>1. Forget(r, P) = [pid |-> 0, same |-> Forget(r, P).same]
    BY <1>1, <1>2 DEF Owner, NoRecord
  <2>2. Forget(r, P).same = FALSE
    BY <1>1, <1>2 DEF Owner, NoRecord
  <2> QED
    BY <2>1, <2>2 DEF NoRecord
<1> QED
  BY <1>1, <1>2

LEMMA ForgottenRecord ==
  ASSUME TypesOK, NEW P, proc' = Without(P), xrec' = Forget(xrec, P)
  PROVE  RecordKept
<1>1. \A q \in Pid : Xray(q)' => q \notin P
  BY DEF Without, Xray, NoProcess
<1>2. /\ xrec'.pid = xrec.pid /\ (xrec'.same <=> xrec.same /\ xrec.pid \notin P)
      /\ xrec = NoRecord => xrec' = NoRecord
  BY ForgetKeeps DEF TypesOK
<1> QED
  BY <1>1, <1>2 DEF RecordKept

LEMMA NoRecordIsOwner == NoRecord \in Owner
BY DEF NoRecord, Owner

\* The rest of the program goes on as it was.
AppRest ==
  /\ app'.xray = app.xray /\ app'.tun = app.tun /\ app'.active = app.active
  /\ app'.todo = app.todo /\ app'.target = app.target
  /\ app'.refused = app.refused /\ app'.killed = app.killed /\ app'.quit = app.quit

LEMMA GoesTo ==
  ASSUME TypesOK, NEW pc \in Places, Goes(pc)
  PROVE  app' \in Program /\ app'.pc = pc /\ AppRest
BY DEF TypesOK, Program, Goes, AppRest

\* Steps of Windows alone.
LEMMA QuietKeeps ==
  ASSUME IInv, TypesOK', UNCHANGED app, Fewer, RecordKept,
         app.pc = "kill" /\ proc'[app.target].kind = "other" =>
           proc[app.target].kind = "other" \/ "reuse" \in accident'
  PROVE  IInv'
<1>1. ListenerKinds' /\ XraysHome'
  BY FewerKeeps DEF IInv
<1>2. (SingIsTun /\ TunWhile /\ ActiveWhile /\ QuitWhile)'
  BY DEF IInv, SingIsTun, TunWhile, ActiveWhile, QuitWhile, Fewer
<1>3. XraysKnown' /\ NothingLeft'
  BY DEF IInv, XraysKnown, NothingLeft, Fewer
<1>4. XraysTold'
  BY DEF IInv, XraysTold, Telling, Fewer, RecordKept
<1>5. Untold => Untold'
  BY DEF Untold, Fewer
<1>6. XraysDue' /\ Aimed' /\ (app.refused => Untold)' /\ (app.killed => "reuse" \in accident)'
  BY <1>5 DEF IInv, XraysDue, Aimed, Fewer
<1> QED
  BY <1>1, <1>2, <1>3, <1>4, <1>6 DEF IInv

\* A step of the program: what it has to show besides, of the place it goes to.
LEMMA StepKeeps ==
  ASSUME IInv, TypesOK', Fewer, (SingIsTun /\ TunWhile /\ ActiveWhile /\ QuitWhile)',
         XraysKnown', NothingLeft', XraysTold', XraysDue', Aimed',
         (app.refused => Untold)', (app.killed => "reuse" \in accident)'
  PROVE  IInv'
BY FewerKeeps DEF IInv

\* A step from one place to another, within a phase or into During.
LEMMA GoesKeeps ==
  ASSUME IInv, TypesOK', Fewer, AppRest, app'.pc \in Before => RecordKept,
         app'.pc \in Places \ {"kill", "reclaim", "ports"},
         app.pc \in Before => app'.pc \in Before,
         app.pc \in Before => app.pc # "down" /\ app'.pc # "down",
         app.pc \in During => app'.pc \in During \ {"unrecord"},
         app.pc \in Clear => app'.pc \in Clear \cup {"idle"},
         app.tun # 0 => app'.pc \in {"up", "tun", "tun record", "stop tun"}
  PROVE  IInv'
<1>1. (SingIsTun /\ TunWhile /\ ActiveWhile /\ QuitWhile)'
  BY DEF IInv, AppRest, SingIsTun, TunWhile, ActiveWhile, QuitWhile, Fewer, Before, Clear, During, Places
<1>0. app.pc \in Before \cup Clear \cup During /\ app'.pc \in Before \cup Clear \cup During
  BY DEF IInv, TypesOK, Program, Places, Before, Clear, During
<1>2. XraysKnown' /\ NothingLeft'
  BY <1>0 DEF IInv, AppRest, XraysKnown, NothingLeft, Fewer, Before, Clear, During, Places
<1>3. XraysTold'
  BY <1>0 DEF IInv, AppRest, XraysTold, XraysKnown, Telling, Fewer, RecordKept, Before, Clear, During, Places
<1>4. Untold => Untold'
  BY DEF Untold, Fewer
<1>5. XraysDue' /\ Aimed' /\ (app.refused => Untold)' /\ (app.killed => "reuse" \in accident)'
  BY <1>4 DEF IInv, AppRest, XraysDue, Aimed, Fewer
<1> QED
  BY <1>1, <1>2, <1>3, <1>5, StepKeeps

-----------------------------------------------------------------------------
(* Windows. *)

LEMMA StrangerKeeps ==
  ASSUME IInv, NEW p \in Pid, Stranger(p)
  PROVE  IInv'
<1>1. PICK l \in BOOLEAN : proc' = [proc EXCEPT ![p] = [NoProcess EXCEPT !.kind = "other", !.listens = l]]
  BY DEF Stranger
<1>2. /\ proc' \in [Pid -> Process] /\ proc'[p].kind = "other"
      /\ \A q \in Pid \ {p} : proc'[q] = proc[q]
  BY <1>1 DEF IInv, TypesOK, Process, NoProcess
<1>3. UNCHANGED <<xrec, srec, app>> /\ accident \subseteq accident'
  BY DEF Stranger
<1>4. TypesOK' /\ RecordKept
  BY <1>2, <1>3 DEF IInv, TypesOK, RecordKept, Xray
<1>5. Fewer
  BY <1>2, <1>3 DEF IInv, ListenerKinds, Fewer, Xray
<1>6. app.pc = "kill" => p # app.target \/ "reuse" \in accident'
  BY DEF Stranger, InPlace
<1> QED
  BY <1>2, <1>3, <1>4, <1>5, <1>6, QuietKeeps DEF IInv, Aimed

LEMMA ParentReusedKeeps ==
  ASSUME IInv, NEW p \in Pid, ParentReused(p)
  PROVE  IInv'
<1>1. /\ proc' \in [Pid -> Process]
      /\ \A q \in Pid : /\ proc'[q].kind = proc[q].kind /\ proc'[q].home = proc[q].home
                        /\ proc'[q].listens = proc[q].listens
  BY DEF ParentReused, IInv, TypesOK, Process
<1>2. UNCHANGED <<xrec, srec, app>> /\ accident \subseteq accident' /\ "parent" \in accident'
  BY DEF ParentReused
<1>3. TypesOK' /\ RecordKept
  BY <1>1, <1>2 DEF IInv, TypesOK, RecordKept, Xray
<1>4. Fewer
  BY <1>1, <1>2 DEF IInv, ListenerKinds, Fewer, Xray
<1> QED
  BY <1>1, <1>2, <1>3, <1>4, QuietKeeps DEF IInv, Aimed

LEMMA EndedKeeps ==
  ASSUME IInv, NEW P, Ended(P, app), accident \subseteq accident'
  PROVE  IInv'
<1>1. proc' = Without(P) /\ xrec' = Forget(xrec, P) /\ srec' = Forget(srec, P) /\ app' = app
  BY DEF Ended
<1>2. Fewer /\ proc' \in [Pid -> Process]
  BY <1>1, EndingIsFewer DEF IInv
<1>3. RecordKept
  BY <1>1, ForgottenRecord DEF IInv
<1>4. TypesOK'
  BY <1>1, <1>2, ForgetKeeps DEF IInv, TypesOK
<1>5. \A q \in Pid : proc'[q].kind = "other" => proc[q].kind = "other"
  BY <1>1 DEF Without, NoProcess
<1> QED
  BY <1>1, <1>2, <1>3, <1>4, <1>5, QuietKeeps DEF IInv, Aimed

LEMMA ListensKeeps ==
  ASSUME IInv, NEW p \in Pid, Listens(p)
  PROVE  IInv'
<1>1. CASE Ended({p}, app)
  BY <1>1, EndedKeeps DEF Listens
<1>2. CASE proc' = [proc EXCEPT ![p].listens = TRUE] /\ UNCHANGED <<xrec, srec, app>>
  <2>1. /\ proc' \in [Pid -> Process]
        /\ \A q \in Pid : /\ proc'[q].kind = proc[q].kind /\ proc'[q].home = proc[q].home
                          /\ proc'[q].orphan = proc[q].orphan
        /\ \A q \in Pid \ {p} : proc'[q].listens = proc[q].listens
        /\ proc'[p].listens
    BY <1>2 DEF IInv, TypesOK, Process
  <2>2. proc[p].kind = "xray" /\ accident' = accident
    BY DEF Listens
  <2>3. TypesOK' /\ RecordKept
    BY <1>2, <2>1 DEF IInv, TypesOK, RecordKept, Xray
  <2>4. Fewer
    BY <2>1, <2>2 DEF IInv, ListenerKinds, Fewer, Xray
  <2> QED
    BY <1>2, <2>1, <2>2, <2>3, <2>4, QuietKeeps DEF IInv, Aimed
<1> QED
  BY <1>1, <1>2 DEF Listens

LEMMA CrashKeeps == ASSUME IInv, Crash PROVE IInv'
<1> DEFINE sings == {p \in Pid : p = app.tun /\ Of(p, "sing")}
<1>1. /\ proc' = [p \in Pid |-> IF p \in sings THEN NoProcess
                                ELSE [proc[p] EXCEPT !.orphan = proc[p].kind = "xray"]]
      /\ xrec' = Forget(xrec, sings) /\ srec' = Forget(srec, sings)
  BY DEF Crash
<1>2. /\ app' \in Program /\ app'.pc = "down" /\ app'.tun = 0 /\ ~app'.active /\ ~app'.quit
      /\ app'.refused = app.refused /\ app'.killed = app.killed
  BY DEF Crash, IInv, TypesOK, Program, Places
<1>3. /\ accident \subseteq accident' /\ "crash" \in accident'
      /\ "unrecorded" \in accident'
           \/ ~Of(app.xray, "xray") \/ xrec = NoRecord \/ (xrec.pid = app.xray /\ xrec.same)
  BY DEF Crash
<1>4. \A q \in Pid : /\ proc'[q] \in Process
                     /\ proc'[q].kind # "none" =>
                          /\ q \notin sings
                          /\ proc'[q].kind = proc[q].kind /\ proc'[q].home = proc[q].home
                          /\ proc'[q].listens = proc[q].listens
                          /\ proc'[q].orphan <=> proc[q].kind = "xray"
                     /\ proc'[q].listens => proc'[q].kind # "none" \/ proc[q].listens
  BY <1>1 DEF IInv, TypesOK, Process, NoProcess
<1>5. TypesOK'
  BY <1>1, <1>2, <1>4, ForgetKeeps DEF IInv, TypesOK
<1>6. \A q \in Pid : proc'[q].kind # "sing"
  BY <1>4, ProcessAssumption DEF IInv, SingIsTun, Of
<1>7. \A q \in Pid : Xray(q)' => Xray(q) /\ proc'[q].orphan
  BY <1>4 DEF Xray
<1>8. Fewer
  <2>1. \A q \in Pid : proc'[q].listens => proc'[q].kind \in {"xray", "other"}
    BY <1>1, <1>4 DEF IInv, ListenerKinds, NoProcess
  <2> QED
    BY <1>3, <1>4, <1>6, <1>7, <2>1 DEF Fewer, Xray
<1>9. RecordKept
  <2>1. \A q \in Pid : Xray(q)' => q \notin sings
    BY <1>4 DEF Xray
  <2>2. /\ xrec'.pid = xrec.pid /\ (xrec'.same <=> xrec.same /\ xrec.pid \notin sings)
        /\ xrec = NoRecord => xrec' = NoRecord
    BY <1>1, ForgetKeeps DEF IInv, TypesOK
  <2> QED
    BY <2>1, <2>2 DEF RecordKept
<1>10. (SingIsTun /\ TunWhile /\ ActiveWhile /\ QuitWhile)'
  BY <1>2, <1>6 DEF SingIsTun, TunWhile, ActiveWhile, QuitWhile
<1>11. XraysKnown' /\ NothingLeft'
  BY <1>2, <1>3 DEF XraysKnown, NothingLeft, Clear, During
<1>12. XraysTold'
  <2> SUFFICES ASSUME "stuck" \notin accident', "unrecorded" \notin accident',
                      NEW q \in Pid, Xray(q)'
               PROVE  (xrec = NoRecord \/ (xrec.pid = q /\ xrec.same))'
    BY <1>7 DEF XraysTold, Telling
  <2>1. "stuck" \notin accident /\ "unrecorded" \notin accident /\ Xray(q)
    BY <1>3, <1>7
  <2>2. app.pc \in Before \cup During
    BY <2>1 DEF IInv, TypesOK, Program, Places, Before, Clear, During, XraysKnown
  <2>3. xrec = NoRecord \/ (xrec.pid = q /\ xrec.same)
    <3>1. CASE app.pc \in Before
      BY <2>1, <3>1 DEF IInv, XraysTold, Telling
    <3>2. CASE app.pc \in During
      <4>1. q = app.xray /\ q # 0
        BY <2>1, <3>2, ProcessAssumption DEF IInv, XraysKnown
      <4> QED
        BY <1>3, <2>1, <4>1 DEF Of, Xray
    <3> QED
      BY <2>2, <3>1, <3>2
  <2> QED
    BY <1>9, <2>3 DEF RecordKept
<1>13. Untold => Untold'
  BY <1>3 DEF Untold
<1>14. XraysDue' /\ Aimed' /\ (app.refused => Untold)' /\ (app.killed => "reuse" \in accident)'
  BY <1>2, <1>3, <1>13 DEF IInv, XraysDue, Aimed
<1> QED
  BY <1>5, <1>8, <1>10, <1>11, <1>12, <1>14, StepKeeps

-----------------------------------------------------------------------------
(* Launch, and what an earlier run left. *)

LEMMA LaunchAppKeeps == ASSUME IInv, LaunchApp PROVE IInv'
<1>1. PICK moved \in BOOLEAN :
        /\ proc' = [p \in Pid |-> [proc[p] EXCEPT !.home = @ /\ ~moved]]
        /\ accident' = accident \cup IF moved /\ \E p \in Pid : proc[p].home THEN {"moved"} ELSE {}
  BY DEF LaunchApp
<1>2. /\ app' \in Program /\ app'.pc = "boot" /\ app'.tun = app.tun /\ app'.active = app.active
      /\ ~app'.quit /\ app'.refused = app.refused /\ app'.killed = app.killed
      /\ app.pc = "down"
  BY DEF LaunchApp, InPlace, IInv, TypesOK, Program, Places
<1>3. /\ proc' \in [Pid -> Process]
      /\ \A q \in Pid : /\ proc'[q].kind = proc[q].kind /\ proc'[q].orphan = proc[q].orphan
                        /\ proc'[q].listens = proc[q].listens
                        /\ proc[q].home => proc'[q].home \/ "moved" \in accident'
  BY <1>1 DEF IInv, TypesOK, Process
<1>4. /\ UNCHANGED <<xrec, srec>> /\ accident \subseteq accident'
      /\ "stuck" \in accident' => "stuck" \in accident
      /\ "unrecorded" \in accident' => "unrecorded" \in accident
      /\ "parent" \in accident' => "parent" \in accident
  BY <1>1 DEF LaunchApp
<1>5. TypesOK'
  BY <1>2, <1>3, <1>4 DEF IInv, TypesOK
<1>6. Fewer /\ RecordKept
  BY <1>3, <1>4 DEF IInv, ListenerKinds, Fewer, RecordKept, Xray
<1>7. \A q \in Pid : proc[q].kind = "xray" => proc[q].listens
  BY DEF LaunchApp
<1>8. (SingIsTun /\ TunWhile /\ ActiveWhile /\ QuitWhile)'
  BY <1>2, <1>3 DEF IInv, SingIsTun, TunWhile, ActiveWhile, QuitWhile, During
<1>9. XraysKnown' /\ NothingLeft'
  BY <1>2, <1>3, <1>4, <1>7 DEF IInv, XraysKnown, NothingLeft, Before, Clear, During, Xray
<1>10. XraysTold'
  BY <1>2, <1>6 DEF IInv, XraysTold, Telling, Fewer, RecordKept, Before
<1>11. Untold => Untold'
  BY <1>4 DEF Untold
<1>12. XraysDue' /\ Aimed' /\ (app.refused => Untold)' /\ (app.killed => "reuse" \in accident)'
  BY <1>2, <1>4, <1>11 DEF IInv, XraysDue, Aimed
<1> QED
  BY <1>5, <1>6, <1>8, <1>9, <1>10, <1>12, StepKeeps

LEMMA RecoverTunKeeps ==
  ASSUME IInv, NEW next \in Places, RecoverTun(next)
  PROVE  TypesOK' /\ Fewer /\ RecordKept /\ AppRest /\ app'.pc = next
<1>1. app' \in Program /\ app'.pc = next /\ AppRest /\ xrec' = xrec /\ accident' = accident
  BY GoesTo DEF RecoverTun, IInv
<1>2. srec' \in Owner
  BY NoRecordIsOwner DEF RecoverTun, IInv, TypesOK
<1>3. (UNCHANGED proc \/ \E P \in SUBSET Pid : proc' = Without(P))
  BY DEF RecoverTun, Of, IInv, TypesOK, Owner
<1>4. Fewer /\ proc' \in [Pid -> Process]
  BY <1>1, <1>3, NothingIsFewer, EndingIsFewer DEF IInv, TypesOK
<1>5. RecordKept
  BY <1>1 DEF RecordKept
<1> QED
  BY <1>1, <1>2, <1>4, <1>5 DEF IInv, TypesOK

LEMMA BootKeeps == ASSUME IInv, Boot PROVE IInv'
<1>1. app.pc = "boot" /\ RecoverTun("idle")
  BY DEF Boot, InPlace
<1> QED
  BY <1>1, RecoverTunKeeps, GoesKeeps DEF IInv, TunWhile, Places, Before, Clear, During

LEMMA RecoverKeeps == ASSUME IInv, Recover PROVE IInv'
<1>1. app.pc = "recover" /\ RecoverTun("spawn")
  BY DEF Recover, InPlace
<1> QED
  BY <1>1, RecoverTunKeeps, GoesKeeps DEF IInv, TunWhile, Places, Before, Clear, During

\* Steps that change the program alone.
LEMMA AloneKeeps ==
  ASSUME IInv, app' \in Program, UNCHANGED <<proc, xrec, srec, accident>>
  PROVE  TypesOK' /\ Fewer /\ RecordKept /\ (Untold <=> Untold')
BY NothingIsFewer DEF IInv, TypesOK, RecordKept, Untold, Xray

LEMMA StartXrayKeeps == ASSUME IInv, StartXray PROVE IInv'
<1>1. /\ app' = [app EXCEPT !.pc = "reclaim", !.todo = Listeners(proc)]
      /\ app.pc = "idle" /\ UNCHANGED <<proc, xrec, srec, accident>>
  BY DEF StartXray, InPlace
<1>2. /\ app' \in Program /\ app'.pc = "reclaim" /\ app'.todo = Listeners(proc)
      /\ app'.tun = app.tun /\ app'.active = app.active /\ app'.quit = app.quit
      /\ app'.refused = app.refused /\ app'.killed = app.killed
  BY <1>1 DEF IInv, TypesOK, Program, Places, Listeners
<1>3. TypesOK' /\ Fewer /\ RecordKept /\ (Untold <=> Untold')
  BY <1>1, <1>2, AloneKeeps
<1>4. (SingIsTun /\ TunWhile /\ ActiveWhile /\ QuitWhile)'
  BY <1>1, <1>2 DEF IInv, SingIsTun, TunWhile, ActiveWhile, QuitWhile, During
<1>5. XraysKnown' /\ NothingLeft' /\ XraysTold'
  BY <1>1, <1>2 DEF IInv, XraysKnown, NothingLeft, XraysTold, Telling, Before, Clear, During, Xray
<1>6. XraysDue'
  BY <1>1, <1>2 DEF IInv, XraysDue, XraysKnown, Before, Untold, Listeners, Xray
<1>7. Aimed' /\ (app.refused => Untold)' /\ (app.killed => "reuse" \in accident)'
  BY <1>1, <1>2, <1>3 DEF IInv, Aimed
<1> QED
  BY <1>3, <1>4, <1>5, <1>6, <1>7, StepKeeps

\* An xray that is not taken for the program's own: only after an accident.
LEMMA TellingIsOwned ==
  ASSUME ~Untold, NEW p \in Pid, Xray(p), Telling(p), XraysHome
  PROVE  IsOwnedXray(p)
BY DEF Untold, Telling, XraysHome, IsOwnedXray, Xray

LEMMA ReclaimKeeps == ASSUME IInv, Reclaim PROVE IInv'
<1>1. app.pc = "reclaim" /\ UNCHANGED <<proc, xrec, srec, accident>>
  BY DEF Reclaim, InPlace
<1> DEFINE Next(pc, todo, target) ==
             /\ app' \in Program /\ app'.pc = pc /\ app'.todo = todo /\ app'.target = target
             /\ app'.tun = app.tun /\ app'.active = app.active /\ app'.quit = app.quit
             /\ app'.refused = app.refused /\ app'.killed = app.killed
<1>2. \/ app.todo = {} /\ Next("ports", {}, app.target)
      \/ \E p \in app.todo :
           \/ IsOwnedXray(p) /\ Next("kill", app.todo \ {p}, p)
           \/ ~IsOwnedXray(p) /\ Next("reclaim", app.todo \ {p}, p)
  <2>1. CASE app.todo = {} /\ Goes("ports")
    BY <2>1, GoesTo DEF IInv, AppRest, Places
  <2>2. ASSUME NEW p \in app.todo,
               app' = [app EXCEPT !.todo = @ \ {p}, !.target = p,
                                  !.pc = IF IsOwnedXray(p) THEN "kill" ELSE "reclaim"]
        PROVE  \/ IsOwnedXray(p) /\ Next("kill", app.todo \ {p}, p)
               \/ ~IsOwnedXray(p) /\ Next("reclaim", app.todo \ {p}, p)
    BY <2>2 DEF IInv, TypesOK, Program, Places
  <2> QED
    BY <2>1, <2>2 DEF Reclaim
<1>3. /\ app' \in Program /\ app'.pc \in {"ports", "kill", "reclaim"}
      /\ app'.tun = app.tun /\ app'.active = app.active /\ app'.quit = app.quit
      /\ app'.refused = app.refused /\ app'.killed = app.killed
  BY <1>2
<1>4. TypesOK' /\ Fewer /\ RecordKept /\ (Untold <=> Untold')
  BY <1>1, <1>3, AloneKeeps
<1>5. (SingIsTun /\ TunWhile /\ ActiveWhile /\ QuitWhile)'
  BY <1>1, <1>3 DEF IInv, SingIsTun, TunWhile, ActiveWhile, QuitWhile, During
<1>6. XraysKnown' /\ NothingLeft' /\ XraysTold'
  BY <1>1, <1>3 DEF IInv, XraysKnown, NothingLeft, XraysTold, Telling, Before, Clear, During, Xray
<1>7. XraysDue'
  <2> SUFFICES ASSUME ~Untold, NEW q \in Pid, Xray(q)
               PROVE  /\ app'.pc = "reclaim" => q \in app'.todo
                      /\ app'.pc = "kill" => q \in app'.todo \cup {app'.target}
                      /\ app'.pc # "ports"
    BY <1>1, <1>4 DEF XraysDue, Xray
  <2>1. q \in app.todo /\ Telling(q) /\ IsOwnedXray(q)
    BY <1>1, TellingIsOwned DEF IInv, XraysDue, XraysTold, Before, Untold
  <2> QED
    BY <1>2, <2>1
<1>8. Aimed'
  BY <1>1, <1>2 DEF Aimed, IsOwnedXray, IInv, TypesOK, Program
<1>9. (app.refused => Untold)' /\ (app.killed => "reuse" \in accident)'
  BY <1>1, <1>3, <1>4 DEF IInv
<1> QED
  BY <1>4, <1>5, <1>6, <1>7, <1>8, <1>9, StepKeeps

LEMMA PortsKeeps == ASSUME IInv, Ports PROVE IInv'
<1>1. app.pc = "ports" /\ UNCHANGED <<proc, xrec, srec, accident>>
  BY DEF Ports, InPlace
<1>2. \A q \in Pid : Xray(q) => Untold /\ ("stuck" \notin accident => proc[q].listens)
  BY <1>1 DEF IInv, XraysDue, XraysKnown, Before
<1>3. CASE Listeners(proc) = {} /\ Goes("recover")
  <2>1. app' \in Program /\ app'.pc = "recover" /\ AppRest
    BY <1>3, GoesTo DEF IInv, Places
  <2>2. TypesOK' /\ Fewer /\ RecordKept /\ (Untold <=> Untold')
    BY <1>1, <2>1, AloneKeeps
  <2>3. (SingIsTun /\ TunWhile /\ ActiveWhile /\ QuitWhile)'
    BY <1>1, <2>1 DEF IInv, AppRest, SingIsTun, TunWhile, ActiveWhile, QuitWhile, During
  <2>4. "stuck" \notin accident => \A q \in Pid : ~Xray(q)
    BY <1>2, <1>3 DEF Listeners
  <2>5. XraysKnown' /\ NothingLeft' /\ XraysTold' /\ XraysDue'
    BY <1>1, <2>1, <2>4 DEF XraysKnown, NothingLeft, XraysTold, XraysDue, Before, Xray
  <2>6. Aimed' /\ (app.refused => Untold)' /\ (app.killed => "reuse" \in accident)'
    BY <1>1, <2>1, <2>2 DEF IInv, AppRest, Aimed
  <2> QED
    BY <2>2, <2>3, <2>5, <2>6, StepKeeps
<1>4. CASE /\ Listeners(proc) # {}
           /\ app' = [app EXCEPT !.pc = "idle",
                                 !.refused = \A p \in Listeners(proc) : proc[p].kind # "other"]
  <2>1. /\ app' \in Program /\ app'.pc = "idle"
        /\ app'.tun = app.tun /\ app'.active = app.active /\ app'.quit = app.quit
        /\ app'.killed = app.killed
        /\ app'.refused => \A p \in Listeners(proc) : proc[p].kind # "other"
    BY <1>4 DEF IInv, TypesOK, Program, Places
  <2>2. TypesOK' /\ Fewer /\ RecordKept /\ (Untold <=> Untold')
    BY <1>1, <2>1, AloneKeeps
  <2>3. (SingIsTun /\ TunWhile /\ ActiveWhile /\ QuitWhile)'
    BY <1>1, <2>1 DEF IInv, SingIsTun, TunWhile, ActiveWhile, QuitWhile, During
  <2>4. XraysKnown' /\ NothingLeft' /\ XraysTold' /\ XraysDue' /\ Aimed'
    BY <1>1, <2>1 DEF IInv, XraysKnown, NothingLeft, XraysTold, XraysDue, Aimed, Telling,
                      Before, Clear, During, Xray
  <2>5. app'.refused => Untold
    BY <1>2, <1>4, <2>1 DEF IInv, ListenerKinds, Listeners, Xray
  <2> QED
    BY <1>1, <2>1, <2>2, <2>3, <2>4, <2>5, StepKeeps DEF IInv
<1> QED
  BY <1>3, <1>4 DEF Ports

\* What is killed is the target; the record of a living xray is left alone.
LEMMA KillKeeps == ASSUME IInv, Kill PROVE IInv'
<1>1. app.pc = "kill" /\ app.target \in Pid
  BY DEF Kill, InPlace, IInv, Aimed
<1>2. /\ app' \in Program /\ app'.pc = "reclaim" /\ app'.todo = app.todo
      /\ app'.tun = app.tun /\ app'.active = app.active /\ app'.quit = app.quit
      /\ app'.refused = app.refused
      /\ app'.killed => app.killed \/ proc[app.target].kind = "other"
  <2>1. CASE Goes("reclaim")
    BY <2>1, GoesTo DEF IInv, AppRest, Places
  <2>2. CASE app' = [app EXCEPT !.pc = "reclaim", !.killed = @ \/ proc[app.target].kind = "other"]
    BY <2>2 DEF IInv, TypesOK, Program, Places
  <2> QED
    BY <2>1, <2>2 DEF Kill
<1>3. /\ accident \subseteq accident'
      /\ "stuck" \in accident' \/ accident' = accident
      /\ proc' = proc \/ proc' = Without({app.target})
      /\ "stuck" \in accident' \/ proc'[app.target].kind # "xray"
      /\ xrec' = xrec \/ (xrec' = NoRecord /\ xrec.pid = app.target /\ proc'[app.target].kind # "xray")
      /\ srec' = srec \/ srec' = Forget(srec, {app.target})
  <2>1. CASE Free(app.target) /\ UNCHANGED <<proc, xrec, srec, accident>>
    BY <2>1 DEF Free, Xray
  <2>2. CASE proc' = Without({app.target})
    <3>1. proc'[app.target].kind # "xray"
      BY <1>1, <2>2 DEF Without, NoProcess, Xray
    <3> QED
      BY <2>2, <3>1 DEF Kill
  <2>3. CASE UNCHANGED <<proc, xrec, srec>> /\ accident' = accident \cup {"stuck"}
    BY <2>3
  <2> QED
    BY <2>1, <2>2, <2>3 DEF Kill
<1>4. Fewer /\ proc' \in [Pid -> Process]
  BY <1>3, NothingIsFewer, EndingIsFewer DEF IInv, TypesOK
<1>5. TypesOK'
  BY <1>2, <1>3, <1>4, ForgetKeeps, NoRecordIsOwner DEF IInv, TypesOK
<1>6. RecordKept
  BY <1>3 DEF RecordKept, Xray
<1>7. (SingIsTun /\ TunWhile /\ ActiveWhile /\ QuitWhile)'
  BY <1>1, <1>2, <1>4 DEF IInv, SingIsTun, TunWhile, ActiveWhile, QuitWhile, During, Fewer
<1>8. XraysKnown' /\ NothingLeft'
  BY <1>1, <1>2, <1>4 DEF IInv, XraysKnown, NothingLeft, Before, Clear, During, Fewer
<1>9. XraysTold'
  BY <1>1, <1>2, <1>4, <1>6 DEF IInv, XraysTold, Telling, Fewer, RecordKept, Before
<1>10. Untold => Untold'
  BY <1>4 DEF Untold, Fewer
<1>11. XraysDue'
  BY <1>1, <1>2, <1>3, <1>4, <1>10 DEF IInv, XraysDue, Untold, Fewer, Xray
<1>12. (app.refused => Untold)' /\ (app.killed => "reuse" \in accident)' /\ Aimed'
  BY <1>1, <1>2, <1>3, <1>10 DEF IInv, Aimed
<1> QED
  BY <1>4, <1>5, <1>7, <1>8, <1>9, <1>11, <1>12, StepKeeps

-----------------------------------------------------------------------------
(* Start and stop. *)

LEMMA SpawnKeeps == ASSUME IInv, Spawn PROVE IInv'
<1>1. app.pc = "spawn" /\ UNCHANGED <<xrec, srec, accident>>
  BY DEF Spawn, InPlace
<1>2. CASE Goes("idle") /\ UNCHANGED proc
  <2>1. app' \in Program /\ app'.pc = "idle" /\ AppRest
    BY <1>2, GoesTo DEF IInv, Places
  <2> QED
    BY <1>1, <1>2, <2>1, AloneKeeps, GoesKeeps DEF IInv, TunWhile, Places, Before, Clear, During
<1>3. ASSUME NEW p \in Pid, Free(p),
             proc' = [proc EXCEPT ![p] = [NoProcess EXCEPT !.kind = "xray", !.home = TRUE]],
             app' = [app EXCEPT !.pc = "record", !.xray = p]
      PROVE  IInv'
  <2>1. /\ proc' \in [Pid -> Process] /\ \A q \in Pid \ {p} : proc'[q] = proc[q]
        /\ proc'[p].kind = "xray" /\ proc'[p].home /\ ~proc'[p].listens
    BY <1>3 DEF IInv, TypesOK, Process, NoProcess
  <2>2. /\ app' \in Program /\ app'.pc = "record" /\ app'.xray = p
        /\ app'.tun = app.tun /\ app'.active = app.active /\ app'.quit = app.quit
        /\ app'.refused = app.refused /\ app'.killed = app.killed
    BY <1>3 DEF IInv, TypesOK, Program, Places
  <2>3. TypesOK' /\ (Untold <=> Untold')
    BY <1>1, <2>1, <2>2 DEF IInv, TypesOK, Untold
  <2>4. ListenerKinds' /\ XraysHome'
    BY <1>1, <2>1 DEF IInv, ListenerKinds, XraysHome, Xray
  <2>5. (SingIsTun /\ TunWhile /\ ActiveWhile /\ QuitWhile)'
    BY <1>1, <2>1, <2>2 DEF IInv, SingIsTun, TunWhile, ActiveWhile, QuitWhile, During
  <2>6. XraysKnown'
    BY <1>1, <2>1, <2>2 DEF IInv, XraysKnown, Before, Clear, During, Xray
  <2>7. NothingLeft' /\ XraysTold' /\ XraysDue' /\ Aimed'
    BY <2>2 DEF NothingLeft, XraysTold, XraysDue, Aimed, Before, Clear
  <2> QED
    BY <1>1, <2>2, <2>3, <2>4, <2>5, <2>6, <2>7 DEF IInv
<1> QED
  BY <1>2, <1>3 DEF Spawn

LEMMA NamedIsOwner ==
  ASSUME NEW p \in Pid \cup {0}, NEW kind
  PROVE  Named(p, kind) \in Owner
<1>1. Of(p, kind) \in BOOLEAN
  BY DEF Of
<1> QED
  BY <1>1 DEF Named, Owner

LEMMA RecordKeeps == ASSUME IInv, Record PROVE IInv'
<1>1. /\ app.pc = "record" /\ UNCHANGED <<proc, srec, accident>>
      /\ xrec' = xrec \/ xrec' = Named(app.xray, "xray")
  BY DEF Record, InPlace
<1>2. app' \in Program /\ app'.pc = "settle" /\ AppRest
  BY GoesTo DEF Record, IInv, Places
<1>3. TypesOK' /\ Fewer
  BY <1>1, <1>2, NothingIsFewer, NamedIsOwner DEF IInv, TypesOK, Program
<1> QED
  BY <1>1, <1>2, <1>3, GoesKeeps DEF IInv, TunWhile, Places, Before, Clear, During

LEMMA SettleKeeps == ASSUME IInv, Settle PROVE IInv'
<1>1. app.pc = "settle" /\ UNCHANGED <<proc, xrec, srec, accident>>
  BY DEF Settle, InPlace
<1>2. CASE Goes("stop tun")
  <2>1. app' \in Program /\ app'.pc = "stop tun" /\ AppRest
    BY <1>2, GoesTo DEF IInv, Places
  <2> QED
    BY <1>1, <2>1, AloneKeeps, GoesKeeps DEF Places, Before, Clear, During
<1>3. CASE app' = [app EXCEPT !.pc = "up", !.active = TRUE]
  <2>1. /\ app' \in Program /\ app'.pc = "up" /\ app'.xray = app.xray /\ app'.tun = app.tun
        /\ app'.quit = app.quit /\ app'.refused = app.refused /\ app'.killed = app.killed
    BY <1>3 DEF IInv, TypesOK, Program, Places
  <2>2. TypesOK' /\ Fewer /\ (Untold <=> Untold')
    BY <1>1, <2>1, AloneKeeps
  <2>3. (SingIsTun /\ TunWhile /\ ActiveWhile /\ QuitWhile)'
    BY <1>1, <2>1 DEF IInv, SingIsTun, TunWhile, ActiveWhile, QuitWhile, During
  <2>4. XraysKnown'
    BY <1>1, <2>1 DEF IInv, XraysKnown, Before, Clear, During, Xray
  <2>5. NothingLeft' /\ XraysTold' /\ XraysDue' /\ Aimed'
    BY <2>1 DEF NothingLeft, XraysTold, XraysDue, Aimed, Before, Clear
  <2> QED
    BY <1>1, <2>1, <2>2, <2>3, <2>4, <2>5, StepKeeps DEF IInv
<1> QED
  BY <1>2, <1>3 DEF Settle

LEMMA TunSpawnKeeps == ASSUME IInv, TunSpawn PROVE IInv'
<1>1. app.pc = "up" /\ app.tun = 0 /\ UNCHANGED <<xrec, srec, accident>>
  BY DEF TunSpawn, InPlace
<1>2. PICK p \in Pid : /\ Free(p) /\ proc' = [proc EXCEPT ![p] = [NoProcess EXCEPT !.kind = "sing"]]
                       /\ app' = [app EXCEPT !.pc = "tun record", !.tun = p]
  BY DEF TunSpawn
<1>3. /\ proc' \in [Pid -> Process] /\ \A q \in Pid \ {p} : proc'[q] = proc[q]
      /\ proc'[p].kind = "sing" /\ ~proc'[p].listens
  BY <1>2 DEF IInv, TypesOK, Process, NoProcess
<1>4. /\ app' \in Program /\ app'.pc = "tun record" /\ app'.tun = p /\ app'.xray = app.xray
      /\ app'.active = app.active /\ app'.quit = app.quit
      /\ app'.refused = app.refused /\ app'.killed = app.killed
  BY <1>2 DEF IInv, TypesOK, Program, Places
<1>5. TypesOK' /\ (Untold <=> Untold')
  BY <1>1, <1>3, <1>4 DEF IInv, TypesOK, Untold
<1>6. ListenerKinds' /\ XraysHome'
  BY <1>1, <1>3 DEF IInv, ListenerKinds, XraysHome, Xray
<1>7. (SingIsTun /\ TunWhile /\ ActiveWhile /\ QuitWhile)'
  BY <1>1, <1>3, <1>4, ProcessAssumption
  DEF IInv, SingIsTun, TunWhile, ActiveWhile, QuitWhile, During
<1>8. XraysKnown'
  BY <1>1, <1>3, <1>4 DEF IInv, XraysKnown, Before, Clear, During, Xray
<1>9. NothingLeft' /\ XraysTold' /\ XraysDue' /\ Aimed'
  BY <1>4 DEF NothingLeft, XraysTold, XraysDue, Aimed, Before, Clear
<1> QED
  BY <1>1, <1>4, <1>5, <1>6, <1>7, <1>8, <1>9 DEF IInv

LEMMA TunRecordKeeps == ASSUME IInv, TunRecord PROVE IInv'
<1>1. /\ app.pc = "tun record" /\ UNCHANGED <<proc, xrec, accident>>
      /\ srec' = srec \/ srec' = Named(app.tun, "sing")
  BY DEF TunRecord, InPlace
<1>2. app' \in Program /\ app'.pc = "tun" /\ AppRest
  BY GoesTo DEF TunRecord, IInv, Places
<1>3. TypesOK' /\ Fewer
  BY <1>1, <1>2, NothingIsFewer, NamedIsOwner DEF IInv, TypesOK, Program
<1> QED
  BY <1>1, <1>2, <1>3, GoesKeeps DEF Places, Before, Clear, During

LEMMA UpKeeps == ASSUME IInv, TunSettles \/ Stop PROVE IInv'
<1>1. app.pc \in {"tun", "up"} /\ UNCHANGED <<proc, xrec, srec, accident>>
  BY DEF TunSettles, Stop, InPlace
<1>2. app' \in Program /\ app'.pc \in {"up", "stop tun"} /\ AppRest
  BY GoesTo DEF TunSettles, Stop, IInv, Places
<1> QED
  BY <1>1, <1>2, AloneKeeps, GoesKeeps DEF Places, Before, Clear, During

LEMMA StopTunKeeps == ASSUME IInv, StopTun PROVE IInv'
<1>1. /\ app.pc = "stop tun" /\ UNCHANGED <<xrec, accident>>
      /\ proc' = IF Of(app.tun, "sing") THEN Without({app.tun}) ELSE proc
      /\ srec' = IF app.tun # 0 /\ srec.pid = app.tun THEN NoRecord ELSE srec
  BY DEF StopTun, InPlace
<1>2. /\ app' \in Program /\ app'.pc = "stop xray" /\ app'.tun = 0 /\ app'.xray = app.xray
      /\ app'.active = app.active /\ app'.quit = app.quit
      /\ app'.refused = app.refused /\ app'.killed = app.killed
  BY DEF StopTun, IInv, TypesOK, Program, Places
<1>3. Fewer /\ proc' \in [Pid -> Process]
  BY <1>1, NothingIsFewer, EndingIsFewer DEF IInv, TypesOK
<1>4. TypesOK' /\ (Untold <=> Untold')
  BY <1>1, <1>2, <1>3, NoRecordIsOwner DEF IInv, TypesOK, Untold
<1>5. \A q \in Pid : proc'[q].kind # "sing"
  BY <1>1, ProcessAssumption DEF IInv, SingIsTun, Of, Without, NoProcess
<1>6. (SingIsTun /\ TunWhile /\ ActiveWhile /\ QuitWhile)'
  BY <1>1, <1>2, <1>5 DEF IInv, SingIsTun, TunWhile, ActiveWhile, QuitWhile, During
<1>7. XraysKnown'
  BY <1>1, <1>2, <1>3 DEF IInv, XraysKnown, Before, Clear, During, Fewer
<1>8. NothingLeft' /\ XraysTold' /\ XraysDue' /\ Aimed'
  BY <1>2 DEF NothingLeft, XraysTold, XraysDue, Aimed, Before, Clear
<1> QED
  BY <1>1, <1>2, <1>3, <1>4, <1>6, <1>7, <1>8, StepKeeps DEF IInv

LEMMA StopXrayKeeps == ASSUME IInv, StopXray PROVE IInv'
<1> DEFINE gone == {app.xray} \cap {p \in Pid : Of(p, "xray")}
           on == [app EXCEPT !.pc = "unrecord", !.active = FALSE]
<1> HIDE DEF gone
<1>1. /\ app.pc = "stop xray" /\ app' = on /\ accident \subseteq accident'
      /\ \/ /\ accident' = accident /\ proc' = Without(gone)
            /\ xrec' = Forget(xrec, gone) /\ srec' = Forget(srec, gone)
         \/ "stuck" \in accident' /\ UNCHANGED <<proc, xrec, srec>>
  BY DEF StopXray, InPlace, Ended, gone
<1>2. /\ app' \in Program /\ app'.pc = "unrecord" /\ ~app'.active
      /\ app'.tun = app.tun /\ app'.quit = app.quit
      /\ app'.refused = app.refused /\ app'.killed = app.killed
  BY <1>1 DEF IInv, TypesOK, Program, Places
<1> HIDE DEF on
<1>3. Fewer /\ proc' \in [Pid -> Process]
  BY <1>1, NothingIsFewer, EndingIsFewer DEF IInv, TypesOK
<1>4. TypesOK'
  <2>1. CASE xrec' = Forget(xrec, gone) /\ srec' = Forget(srec, gone)
    <3>1. xrec \in Owner /\ srec \in Owner
      BY DEF IInv, TypesOK
    <3>2. Forget(xrec, gone) \in Owner /\ Forget(srec, gone) \in Owner
      BY <3>1, ForgetKeeps
    <3> QED
      BY <1>2, <1>3, <2>1, <3>2 DEF TypesOK
  <2>2. CASE UNCHANGED <<xrec, srec>>
    BY <1>2, <1>3, <2>2 DEF IInv, TypesOK
  <2> QED
    BY <1>1, <2>1, <2>2
<1>5. Untold => Untold'
  BY <1>1 DEF Untold
<1>6. (SingIsTun /\ TunWhile /\ ActiveWhile /\ QuitWhile)'
  BY <1>1, <1>2, <1>3 DEF IInv, SingIsTun, TunWhile, ActiveWhile, QuitWhile, Fewer
<1>7. "stuck" \notin accident' => \A q \in Pid : ~Xray(q)'
  <2> SUFFICES ASSUME "stuck" \notin accident', NEW q \in Pid, Xray(q)'
               PROVE  FALSE
    OBVIOUS
  <2>1. Xray(q) /\ q = app.xray
    BY <1>1, <1>3 DEF IInv, XraysKnown, During, Fewer
  <2>2. q \in gone
    BY <2>1, ProcessAssumption DEF Of, Xray, gone
  <2>3. proc' = Without(gone)
    BY <1>1
  <2>4. proc'[q] = NoProcess
    BY <2>2, <2>3 DEF Without
  <2> QED
    BY <2>4 DEF NoProcess, Xray
<1>8. XraysKnown' /\ NothingLeft'
  BY <1>7 DEF XraysKnown, NothingLeft
<1>9. XraysTold' /\ XraysDue' /\ Aimed'
  BY <1>2, <1>7 DEF XraysTold, XraysDue, Aimed, Untold, Before
<1> QED
  BY <1>1, <1>2, <1>3, <1>4, <1>5, <1>6, <1>8, <1>9, StepKeeps DEF IInv

LEMMA UnrecordKeeps == ASSUME IInv, Unrecord PROVE IInv'
<1>1. /\ app.pc = "unrecord" /\ UNCHANGED <<proc, srec, accident>>
      /\ xrec' = xrec \/ xrec' = NoRecord
  BY DEF Unrecord, InPlace
<1>2. /\ app' \in Program /\ app'.pc = "idle" /\ app'.active = app.active
      /\ app'.tun = app.tun /\ app'.quit = app.quit
      /\ app'.refused = app.refused /\ app'.killed = app.killed
  BY DEF Unrecord, IInv, TypesOK, Program, Places
<1>3. TypesOK' /\ Fewer /\ (Untold <=> Untold')
  BY <1>1, <1>2, NothingIsFewer, NoRecordIsOwner DEF IInv, TypesOK, Untold
<1>4. (SingIsTun /\ TunWhile /\ ActiveWhile /\ QuitWhile)'
  BY <1>1, <1>2 DEF IInv, SingIsTun, TunWhile, ActiveWhile, QuitWhile
<1>5. "stuck" \notin accident => \A q \in Pid : ~Xray(q)
  BY <1>1 DEF IInv, XraysKnown
<1>6. (XraysKnown /\ NothingLeft /\ XraysTold /\ XraysDue /\ Aimed)'
  BY <1>1, <1>2, <1>3, <1>5 DEF XraysKnown, NothingLeft, XraysTold, XraysDue, Aimed, Untold, Xray
<1> QED
  BY <1>1, <1>2, <1>3, <1>4, <1>6, StepKeeps DEF IInv

LEMMA LeaveAppKeeps == ASSUME IInv, LeaveApp PROVE IInv'
<1>1. /\ app.pc = "idle" /\ UNCHANGED <<xrec, srec, accident>>
      /\ proc' = [p \in Pid |-> [proc[p] EXCEPT !.orphan = proc[p].kind = "xray"]]
  BY DEF LeaveApp, InPlace
<1>2. /\ app' \in Program /\ app'.pc = "down" /\ app'.active = app.active /\ app'.tun = app.tun
      /\ app'.refused = app.refused /\ app'.killed = app.killed
  BY DEF LeaveApp, IInv, TypesOK, Program, Places
<1>3. /\ proc' \in [Pid -> Process]
      /\ \A q \in Pid : /\ proc'[q].kind = proc[q].kind /\ proc'[q].home = proc[q].home
                        /\ proc'[q].listens = proc[q].listens
                        /\ proc'[q].orphan <=> proc[q].kind = "xray"
  BY <1>1 DEF IInv, TypesOK, Process
<1>4. TypesOK' /\ (Untold <=> Untold')
  BY <1>1, <1>2, <1>3 DEF IInv, TypesOK, Untold
<1>5. Fewer /\ RecordKept
  BY <1>1, <1>3 DEF IInv, ListenerKinds, Fewer, RecordKept, Xray
<1>6. (SingIsTun /\ TunWhile /\ ActiveWhile /\ QuitWhile)'
  BY <1>1, <1>2, <1>3 DEF IInv, SingIsTun, TunWhile, ActiveWhile, QuitWhile, During
<1>7. XraysKnown' /\ NothingLeft' /\ XraysTold'
  BY <1>1, <1>2, <1>5 DEF IInv, XraysKnown, NothingLeft, XraysTold, Telling, Fewer, RecordKept,
                          Before, Clear, During
<1>8. XraysDue' /\ Aimed'
  BY <1>2 DEF XraysDue, Aimed
<1> QED
  BY <1>1, <1>2, <1>4, <1>5, <1>6, <1>7, <1>8, StepKeeps DEF IInv

-----------------------------------------------------------------------------
(* The theorem. *)

LEMMA InitInv == OInit => IInv
<1> SUFFICES ASSUME OInit
             PROVE  IInv
  OBVIOUS
<1>1. /\ app = [pc |-> "down", xray |-> 0, tun |-> 0, active |-> FALSE, todo |-> {}, target |-> 0,
                refused |-> FALSE, killed |-> FALSE, quit |-> FALSE]
      /\ \A p \in Pid : proc[p].kind = "none" /\ ~proc[p].listens
  BY DEF OInit, NoProcess
<1>2. TypesOK
  BY NoRecordIsOwner DEF OInit, TypesOK, Program, Places, Process, NoProcess
<1>3. SingIsTun /\ TunWhile /\ ActiveWhile /\ ListenerKinds /\ QuitWhile /\ Aimed
  BY <1>1 DEF SingIsTun, TunWhile, ActiveWhile, ListenerKinds, QuitWhile, Aimed
<1>4. XraysKnown /\ XraysTold /\ XraysHome /\ XraysDue /\ NothingLeft
  BY <1>1 DEF XraysKnown, XraysTold, XraysHome, XraysDue, NothingLeft, Xray
<1> QED
  BY <1>1, <1>2, <1>3, <1>4 DEF IInv

LEMMA NextInv == ASSUME IInv, [ONext]_ovars PROVE IInv'
<1>1. ASSUME NEW p \in Pid, Stranger(p) \/ ParentReused(p) \/ EndsByItself(p) \/ Listens(p)
      PROVE  IInv'
  BY <1>1, StrangerKeeps, ParentReusedKeeps, EndedKeeps, ListensKeeps DEF EndsByItself
<1>2. CASE Crash \/ LaunchApp \/ Boot \/ StartXray \/ Reclaim \/ Kill \/ Ports \/ Recover
  BY <1>2, CrashKeeps, LaunchAppKeeps, BootKeeps, StartXrayKeeps, ReclaimKeeps, KillKeeps,
     PortsKeeps, RecoverKeeps
<1>3. CASE Spawn \/ Record \/ Settle \/ TunSpawn \/ TunRecord \/ TunSettles
  BY <1>3, SpawnKeeps, RecordKeeps, SettleKeeps, TunSpawnKeeps, TunRecordKeeps, UpKeeps
<1>4. CASE Stop \/ StopTun \/ StopXray \/ Unrecord \/ LeaveApp
  BY <1>4, UpKeeps, StopTunKeeps, StopXrayKeeps, UnrecordKeeps, LeaveAppKeeps
<1>5. CASE UNCHANGED ovars
  <2>1. UNCHANGED <<proc, xrec, srec, app, accident>>
    BY <1>5 DEF ovars
  <2>2. TypesOK' /\ Fewer /\ RecordKept
    BY <2>1, NothingIsFewer DEF IInv, TypesOK, RecordKept, Xray
  <2> QED
    BY <2>1, <2>2, QuietKeeps
<1> QED
  BY <1>1, <1>2, <1>3, <1>4, <1>5 DEF ONext

LEMMA InvIsOurs == IInv => ProcessesAreOurs
<1> SUFFICES ASSUME IInv
             PROVE  ProcessesAreOurs
  OBVIOUS
<1>1. app.active /\ "stuck" \notin accident =>
        \A p \in Listeners(proc) : proc[p].kind = "xray" => p = app.xray
  BY DEF IInv, ActiveWhile, XraysKnown, Listeners, Xray
<1>2. app.quit /\ accident = {} => \A p \in Pid : proc[p].kind \in {"none", "other"}
  <2> SUFFICES ASSUME app.quit, accident = {}, NEW p \in Pid
               PROVE  proc[p].kind \in {"none", "other"}
    OBVIOUS
  <2>1. app.pc = "down"
    BY DEF IInv, QuitWhile
  <2>2. ~Xray(p)
    BY <2>1 DEF IInv, NothingLeft, Before
  <2>3. proc[p].kind # "sing"
    BY <2>1, ProcessAssumption DEF IInv, SingIsTun, TunWhile
  <2> QED
    BY <2>2, <2>3 DEF IInv, TypesOK, Process, Xray
<1> QED
  BY <1>1, <1>2 DEF IInv, Untold, ProcessesAreOurs

\* Engine.start, its recovery and Engine.stop (engine.py 1603-1790, 2535-2601): whatever
\* crashes, whoever gets which pid and however often, the ports are served by the own
\* xray, a start is refused only for a stranger, no stranger is killed and nothing is left
\* behind, but for the accidents that ProcessesAreOurs names.
THEOREM OnlyOwnProcesses == OSpec => []ProcessesAreOurs
<1>1. OInit => IInv
  BY InitInv
<1>2. IInv /\ [ONext]_ovars => IInv'
  BY NextInv
<1> QED
  BY <1>1, <1>2, InvIsOurs, PTL DEF OSpec

-----------------------------------------------------------------------------
(* Types *)

CountsOK == budget \in (0..MaxEvents) \X (0..MaxRuns) /\ accident \subseteq Accidents

LEMMA ChanceCounts ==
  ASSUME CountsOK, Chance
  PROVE  budget' \in (0..MaxEvents) \X (0..MaxRuns)
<1>1. /\ budget = <<budget[1], budget[2]>> /\ budget[1] \in 0..MaxEvents /\ budget[2] \in 0..MaxRuns
  BY DEF CountsOK
<1>2. budget' = <<budget[1] - 1, budget[2]>>
  BY <1>1 DEF Chance
<1>3. budget[1] - 1 \in 0..MaxEvents
  BY <1>1, ProcessAssumption DEF Chance
<1> QED
  BY <1>1, <1>2, <1>3

LEMMA NextCounts == ASSUME CountsOK, [ONext]_ovars PROVE CountsOK'
<1> USE DEF Accidents
<1>1. ASSUME NEW p \in Pid, Stranger(p) \/ ParentReused(p) \/ EndsByItself(p) \/ Listens(p)
      PROVE  CountsOK'
  <2>1. CASE Stranger(p)
    BY <2>1, ChanceCounts DEF Stranger, CountsOK
  <2>2. CASE ParentReused(p)
    BY <2>2, ChanceCounts DEF ParentReused, CountsOK
  <2>3. CASE EndsByItself(p)
    BY <2>3, ChanceCounts DEF EndsByItself, CountsOK
  <2>4. CASE Listens(p)
    BY <2>4 DEF Listens, CountsOK
  <2> QED
    BY <1>1, <2>1, <2>2, <2>3, <2>4
<1>2. CASE Crash
  <2>1. \E C : accident' = accident \cup {"crash"} \cup C /\ (C = {} \/ C = {"unrecorded"})
    BY <1>2 DEF Crash
  <2> QED
    BY <1>2, <2>1, ChanceCounts DEF Crash, CountsOK
<1>3. CASE LaunchApp
  <2>1. \E C : accident' = accident \cup C /\ (C = {} \/ C = {"moved"})
    BY <1>3 DEF LaunchApp
  <2> QED
    BY <1>3, <2>1 DEF LaunchApp, CountsOK
<1>4. CASE StartXray
  <2>1. budget = <<budget[1], budget[2]>> /\ budget[1] \in 0..MaxEvents /\ budget[2] \in 0..MaxRuns
    BY DEF CountsOK
  <2>2. budget' = <<budget[1], budget[2] - 1>>
    BY <1>4, <2>1 DEF StartXray
  <2>3. budget[2] - 1 \in 0..MaxRuns
    BY <1>4, <2>1, ProcessAssumption DEF StartXray
  <2> QED
    BY <1>4, <2>1, <2>2, <2>3 DEF StartXray, CountsOK
<1>5. CASE Kill
  BY <1>5, ChanceCounts DEF Kill, CountsOK
<1>6. CASE Record \/ TunRecord
  BY <1>6, ChanceCounts DEF Record, TunRecord, CountsOK
<1>7. CASE StopXray
  BY <1>7, ChanceCounts DEF StopXray, CountsOK
<1>8. CASE Boot \/ Recover
  BY <1>8 DEF Boot, Recover, RecoverTun, CountsOK
<1>9. CASE Reclaim \/ Ports \/ Spawn \/ Settle
  BY <1>9 DEF Reclaim, Ports, Spawn, Settle, CountsOK
<1>10. CASE TunSpawn \/ TunSettles \/ Stop \/ StopTun \/ Unrecord \/ LeaveApp
  BY <1>10 DEF TunSpawn, TunSettles, Stop, StopTun, Unrecord, LeaveApp, CountsOK
<1>11. CASE UNCHANGED ovars
  BY <1>11 DEF ovars, CountsOK
<1> QED
  BY <1>1, <1>2, <1>3, <1>4, <1>5, <1>6, <1>7, <1>8, <1>9, <1>10, <1>11 DEF ONext

LEMMA InvIsTyped == IInv /\ CountsOK => OTypeOK
BY DEF IInv, TypesOK, Process, Owner, Program, CountsOK, OTypeOK

\* Every variable of the process model keeps its range.
THEOREM ProcessTypes == OSpec => []OTypeOK
<1>1. OInit => IInv /\ CountsOK
  BY InitInv, ProcessAssumption DEF OInit, CountsOK
<1>2. IInv /\ CountsOK /\ [ONext]_ovars => (IInv /\ CountsOK)'
  BY NextInv, NextCounts
<1> QED
  BY <1>1, <1>2, InvIsTyped, PTL DEF OSpec

=============================================================================
