-------------------------- MODULE ConnectUiProofs --------------------------
(***************************************************************************)
(* Theorems about ConnectUi, for any number of attempts, tries, switches,  *)
(* clicks and faults: the window's threads, jobs and signals stay in their *)
(* ranges, and once nothing is under way the window shows what is so.      *)
(***************************************************************************)
EXTENDS ConnectUi, TLAPS

-----------------------------------------------------------------------------
(* Connecting: types *)

EngineState == [active : BOOLEAN, xray : {"none", "up", "dead"}, tun : {"off", "up", "dead"},
                proxy : BOOLEAN, windows : BOOLEAN, by : {0} \cup Attempt]
Window == [shown : BOOLEAN, connecting : BOOLEAN, closing : BOOLEAN, worker : {0} \cup Attempt,
           current : {0} \cup Attempt, job : {0} \cup Job, tunMode : BOOLEAN, proxyMode : BOOLEAN]
Thread == [pc : Busy \cup {"idle", "done"}, tries : 0..MaxTries, retry : BOOLEAN, tun : BOOLEAN]
ModeJob == [kind : {"none", "proxy", "tun"}, pc : JobPC, on : BOOLEAN, want : BOOLEAN, ok : BOOLEAN]
Signal == [kind : {"state"}, on : BOOLEAN] \cup [kind : {"mode"}, job : Job]

CoreOK ==
  /\ eng \in EngineState /\ fresh \subseteq Attempt \cup Job
  /\ readers \subseteq {"xray", "tun"} \X {"ended", "stops"}
CountOK == chances \in (0..MaxChances) \X (0..MaxFaults) /\ mishap \subseteq Mishaps
WindowOK ==
  /\ ui \in Window /\ timers \subseteq {"proxy", "switch", "reconnect"}
  /\ gui \in {"idle", "disconnect", "switch", "reconnect", "quit", "quit stop", "quit again", "gone"}
\* A thread that still tries has something left to try.
Trying == Busy \ {"failed", "exit"}
ThreadsOK ==
  /\ attempt \in [Attempt -> Thread]
  /\ \A a \in Attempt : attempt[a].pc \in Trying => attempt[a].tries > 0
JobsOK == job \in [Job -> ModeJob]
LockOK == applyLock \in {0} \cup Attempt \cup Job
EventsOK == events \in Seq(Signal)

CInv == CoreOK /\ CountOK /\ WindowOK /\ ThreadsOK /\ JobsOK /\ LockOK /\ EventsOK

LEMMA AttemptsAndJobs ==
  /\ Attempt \subseteq Nat \ {0} /\ Job \subseteq Nat \ {0}
  /\ MaxTries \in Nat \ {0} /\ MaxChances \in Nat /\ MaxFaults \in Nat
  /\ {0} \cup Attempt \cup Job \subseteq 0..MaxAttempt + MaxJob
BY ConnectAssumption DEF Attempt, Job

LEMMA CInvIsTyped == CInv => CTypeOK
<1> SUFFICES ASSUME CInv PROVE CTypeOK
  OBVIOUS
<1>1. /\ eng \in EngineState /\ fresh \subseteq Attempt \cup Job
      /\ readers \subseteq {"xray", "tun"} \X {"ended", "stops"}
      /\ chances \in (0..MaxChances) \X (0..MaxFaults) /\ mishap \subseteq Mishaps
  BY DEF CInv, CoreOK, CountOK
<1>2. attempt \in [Attempt -> Thread]
  BY DEF CInv, ThreadsOK
<1>3. \A i \in 1..Len(events) : IF events[i].kind = "state" THEN events[i].on \in BOOLEAN
                                                           ELSE events[i].job \in Job
  <2> SUFFICES ASSUME NEW i \in 1..Len(events)
               PROVE  IF events[i].kind = "state" THEN events[i].on \in BOOLEAN
                                                  ELSE events[i].job \in Job
    OBVIOUS
  <2>1. events[i] \in Signal
    BY DEF CInv, EventsOK
  <2> QED
    BY <2>1 DEF Signal
<1>4. applyLock \in 0..MaxAttempt + MaxJob
  BY AttemptsAndJobs DEF CInv, LockOK
<1> QED
  BY <1>1, <1>2, <1>3, <1>4 DEF CInv, WindowOK, JobsOK, CTypeOK, EngineState, Window, Thread, ModeJob

LEMMA CInitInv == CInit => CInv
<1> SUFFICES ASSUME CInit PROVE CInv
  OBVIOUS
<1>1. CoreOK
  BY DEF CInit, CoreOK, EngineState
<1>2. CountOK
  BY AttemptsAndJobs DEF CInit, CountOK
<1>3. WindowOK
  BY DEF CInit, WindowOK, Window
<1>4. ThreadsOK
  <2>1. Unused \in Thread /\ Unused.pc \notin Trying
    BY AttemptsAndJobs DEF Unused, Thread, Trying, Busy
  <2> QED
    BY <2>1 DEF CInit, ThreadsOK
<1>5. JobsOK
  BY DEF CInit, JobsOK, ModeJob, NoJob, JobPC
<1> QED
  BY <1>1, <1>2, <1>3, <1>4, <1>5 DEF CInit, CInv, LockOK, EventsOK

-----------------------------------------------------------------------------
(* Connecting: the engine *)

LEMMA EngineStates ==
  ASSUME NEW e \in EngineState
  PROVE  /\ Stopped(e) \in EngineState
         /\ \A a \in Attempt : Started(e, a) \in EngineState
         /\ \A b \in BOOLEAN : [e EXCEPT !.proxy = b] \in EngineState
         /\ \A b \in BOOLEAN : [e EXCEPT !.windows = b] \in EngineState
         /\ \A t \in {"off", "up", "dead"} : [e EXCEPT !.tun = t] \in EngineState
         /\ \A x \in {"none", "up", "dead"} : [e EXCEPT !.xray = x] \in EngineState
<1>1. Stopped(e) \in EngineState
  BY DEF Stopped, EngineState
<1> QED
  BY <1>1 DEF Started, EngineState

LEMMA Variants ==
  ASSUME CoreOK
  PROVE  /\ WithProxy \in EngineState /\ WithoutProxy \in EngineState
         /\ TunUp \in EngineState /\ TunDown \in EngineState
         /\ [WithProxy EXCEPT !.tun = "off"] \in EngineState
         /\ [eng EXCEPT !.proxy = FALSE] \in EngineState
         /\ Stopped(eng) \in EngineState
         /\ \A a \in Attempt : Started(eng, a) \in EngineState
<1>1. WithProxy \in EngineState /\ WithoutProxy \in EngineState
  BY DEF CoreOK, WithProxy, WithoutProxy, EngineState
<1>2. TunUp \in EngineState /\ TunDown \in EngineState
  BY EngineStates DEF CoreOK, TunUp, TunDown
<1> QED
  BY <1>1, <1>2, EngineStates DEF CoreOK

LEMMA NewRunKeeps ==
  ASSUME CoreOK, NEW e \in EngineState, NewRun(e)
  PROVE  CoreOK'
BY DEF CoreOK, NewRun

LEMMA SameRunKeeps ==
  ASSUME CoreOK, NEW e \in EngineState, SameRun(e)
  PROVE  CoreOK'
BY DEF CoreOK, SameRun

LEMMA CoreStays == ASSUME CoreOK, UNCHANGED core PROVE CoreOK'
BY DEF CoreOK, core

LEMMA HappensCounts ==
  ASSUME CountOK, Happens \/ Fault \/ UNCHANGED chances
  PROVE  chances' \in (0..MaxChances) \X (0..MaxFaults)
<1>1. /\ chances = <<chances[1], chances[2]>>
      /\ chances[1] \in 0..MaxChances /\ chances[2] \in 0..MaxFaults
  BY DEF CountOK
<1>2. CASE Happens
  <2>1. chances' = <<chances[1] - 1, chances[2]>> /\ chances[1] - 1 \in 0..MaxChances
    BY <1>1, <1>2, AttemptsAndJobs DEF Happens
  <2> QED
    BY <1>1, <2>1
<1>3. CASE Fault
  BY <1>1, <1>3, AttemptsAndJobs DEF Fault
<1>4. CASE UNCHANGED chances
  BY <1>4 DEF CountOK
<1> QED
  BY <1>2, <1>3, <1>4

LEMMA CallKeeps ==
  ASSUME CoreOK, CountOK, NEW e \in EngineState, NEW f \in EngineState, UNCHANGED mishap,
         (SameRun(e) /\ UNCHANGED chances) \/ (Fault /\ SameRun(f))
  PROVE  CoreOK' /\ CountOK'
BY SameRunKeeps, HappensCounts DEF CountOK

LEMMA SetProxyKeeps ==
  ASSUME CoreOK, CountOK, UNCHANGED mishap, NEW on \in BOOLEAN,
         \/ UNCHANGED <<core, chances>>
         \/ SameRun(IF on THEN WithProxy ELSE WithoutProxy) /\ UNCHANGED chances
         \/ Fault /\ SameRun([eng EXCEPT !.proxy = FALSE])
  PROVE  CoreOK' /\ CountOK'
BY CallKeeps, CoreStays, Variants DEF CountOK

LEMMA StopAsKeeps ==
  ASSUME CoreOK, CountOK, NEW a \in Attempt, StopAs(a), UNCHANGED chances
  PROVE  CoreOK' /\ CountOK'
<1>1. CoreOK'
  BY NewRunKeeps, Variants DEF StopAs
<1>2. \E C : mishap' = mishap \cup C /\ C \subseteq {"late"}
  BY DEF StopAs
<1> QED
  BY <1>1, <1>2 DEF CountOK, Mishaps

-----------------------------------------------------------------------------
(* Connecting: an attempt *)

LEMMA GoKeeps ==
  ASSUME ThreadsOK, NEW a \in Attempt, NEW p \in Busy, Go(a, p),
         p \in Trying => attempt[a].tries > 0
  PROVE  ThreadsOK'
<1>1. attempt[a] \in Thread /\ [attempt[a] EXCEPT !.pc = p] \in Thread
  BY DEF ThreadsOK, Thread
<1>2. attempt' = [attempt EXCEPT ![a] = [attempt[a] EXCEPT !.pc = p]]
  BY DEF Go
<1>3. attempt' \in [Attempt -> Thread]
  BY <1>1, <1>2 DEF ThreadsOK
<1>4. ASSUME NEW b \in Attempt, attempt'[b].pc \in Trying
      PROVE  attempt'[b].tries > 0
  <2>1. CASE b = a
    BY <1>1, <1>2, <1>4, <2>1 DEF ThreadsOK, Thread
  <2>2. CASE b # a
    BY <1>2, <1>4, <2>2 DEF ThreadsOK
  <2> QED
    BY <2>1, <2>2
<1> QED
  BY <1>3, <1>4 DEF ThreadsOK

LEMMA DoneKeeps ==
  ASSUME ThreadsOK, NEW a \in Attempt, Done(a)
  PROVE  ThreadsOK'
<1>1. [Unused EXCEPT !.pc = "done"] \in Thread /\ [Unused EXCEPT !.pc = "done"].pc = "done"
  <2>1. 0 \in 0..MaxTries
    BY AttemptsAndJobs
  <2>2. Unused \in Thread
    BY <2>1 DEF Unused, Thread
  <2> QED
    BY <2>2 DEF Thread
<1>2. "done" \notin Trying
  BY DEF Trying, Busy
<1> QED
  BY <1>1, <1>2 DEF Done, ThreadsOK

LEMMA TriesLeft ==
  ASSUME ThreadsOK, NEW a \in Attempt, NEW p \in Trying, At(a, p)
  PROVE  attempt[a].tries > 0
BY DEF ThreadsOK, At

LEMMA StartEngineKeeps ==
  ASSUME CoreOK, ThreadsOK, NEW a \in Attempt, StartEngine(a), attempt[a].tries > 0
  PROVE  CoreOK' /\ ThreadsOK'
<1> USE DEF Busy
<1>1. CASE UNCHANGED core /\ Go(a, "exit")
  BY <1>1, CoreStays, GoKeeps
<1>2. CASE NewRun(Started(eng, a)) /\ Go(a, "probe")
  BY <1>2, NewRunKeeps, Variants, GoKeeps
<1>3. CASE NewRun(Stopped(eng)) /\ Go(a, "next")
  BY <1>3, NewRunKeeps, Variants, GoKeeps
<1> QED
  BY <1>1, <1>2, <1>3 DEF StartEngine

\* Each step of an attempt.
LEMMA StepsOfWork ==
  ASSUME CoreOK, CountOK, ThreadsOK, LockOK, EventsOK, NEW a \in Attempt, Work(a)
  PROVE  CoreOK' /\ CountOK' /\ ThreadsOK'
<1> USE DEF Busy, Trying
<1>1. CASE OrderProfiles(a) \/ Probe(a) \/ Locate(a) \/ ProbeTun(a) \/ ModeSet(a) \/ SaveRoute(a)
  <2>1. /\ UNCHANGED <<core, chances, mishap>>
        /\ attempt[a].tries > 0
        /\ \E p \in Busy : Go(a, p)
    BY <1>1, TriesLeft DEF OrderProfiles, Probe, Locate, ProbeTun, ModeSet, SaveRoute, Leave, Stay
  <2> QED
    BY <2>1, CoreStays, GoKeeps DEF CountOK
<1>2. CASE TryProfile(a) \/ StartAgain(a)
  <2>1. /\ UNCHANGED <<chances, mishap>> /\ attempt[a].tries > 0
        /\ StartEngine(a) \/ (Go(a, "exit") /\ UNCHANGED core)
    BY <1>2, TriesLeft DEF TryProfile, StartAgain
  <2> QED
    BY <2>1, CoreStays, GoKeeps, StartEngineKeeps DEF CountOK
<1>3. CASE Fallback(a)
  <2>1. attempt[a] \in Thread /\ attempt[a].tries > 0
    BY <1>3, TriesLeft DEF Fallback, ThreadsOK
  <2>2. [attempt[a] EXCEPT !.pc = "again", !.retry = FALSE] \in Thread
    BY <2>1 DEF Thread
  <2>3. attempt' = [attempt EXCEPT ![a] = [attempt[a] EXCEPT !.pc = "again", !.retry = FALSE]]
    BY <1>3 DEF Fallback
  <2>4. attempt' \in [Attempt -> Thread]
    BY <2>2, <2>3 DEF ThreadsOK
  <2>5. \A b \in Attempt : attempt'[b].pc \in Trying => attempt'[b].tries > 0
    BY <2>1, <2>3 DEF ThreadsOK, Thread
  <2>6. ThreadsOK'
    BY <2>4, <2>5 DEF ThreadsOK
  <2> QED
    BY <1>3, <2>6, StopAsKeeps DEF Fallback
<1>4. CASE TryFails(a)
  <2> DEFINE t == [attempt[a] EXCEPT !.tries = @ - 1, !.retry = TRUE,
                                     !.pc = IF attempt[a].tries = 1 THEN "failed" ELSE "try"]
  <2>1. attempt[a] \in Thread /\ attempt[a].tries > 0
    BY <1>4, TriesLeft DEF TryFails, ThreadsOK
  <2>2. attempt[a].tries \in 0..MaxTries /\ attempt[a].tries - 1 \in 0..MaxTries
    <3>1. attempt[a].tries \in 0..MaxTries
      BY <2>1 DEF Thread
    <3> QED
      BY <2>1, <3>1, AttemptsAndJobs
  <2>3. t \in Thread
    BY <2>1, <2>2 DEF Thread
  <2>4. t.pc \in Trying => t.tries > 0
    <3>1. /\ t.tries = attempt[a].tries - 1
          /\ t.pc = IF attempt[a].tries = 1 THEN "failed" ELSE "try"
      BY <2>1 DEF Thread
    <3> QED
      BY <2>1, <2>2, <3>1, AttemptsAndJobs
  <2>5. attempt' = [attempt EXCEPT ![a] = t]
    BY <1>4 DEF TryFails
  <2> HIDE DEF t
  <2>6. attempt' \in [Attempt -> Thread]
    BY <2>3, <2>5 DEF ThreadsOK
  <2>7. \A b \in Attempt : attempt'[b].pc \in Trying => attempt'[b].tries > 0
    BY <2>4, <2>5 DEF ThreadsOK
  <2>8. ThreadsOK'
    BY <2>6, <2>7 DEF ThreadsOK
  <2> QED
    BY <1>4, <2>8, StopAsKeeps DEF TryFails
<1>5. CASE EnterMode(a)
  <2>1. CoreOK' /\ CountOK'
    BY <1>5 DEF EnterMode, CoreOK, CountOK
  <2> QED
    BY <1>5, <2>1, TriesLeft, GoKeeps DEF EnterMode
<1>6. CASE ChooseMode(a) \/ DropTun(a)
  <2>1. UNCHANGED mishap /\ attempt[a].tries > 0 /\ \E p \in Busy : Go(a, p)
    BY <1>6, TriesLeft DEF ChooseMode, DropTun, Call, Leave, Stay
  <2>2. \/ UNCHANGED <<core, chances>>
        \/ SameRun(TunUp) /\ UNCHANGED chances
        \/ Fault /\ SameRun(TunDown)
        \/ SameRun(TunDown) /\ UNCHANGED chances
        \/ SameRun([WithProxy EXCEPT !.tun = "off"]) /\ UNCHANGED chances
        \/ Fault /\ SameRun(eng)
    BY <1>6 DEF ChooseMode, DropTun, Call
  <2>3. CoreOK' /\ CountOK'
    BY <2>1, <2>2, CallKeeps, CoreStays, Variants DEF CountOK, CoreOK
  <2> QED
    BY <2>1, <2>3, GoKeeps
<1>7. CASE UseTun(a)
  <2>1. CASE \E p \in Busy : Go(a, p)
    <3>1. UNCHANGED <<chances, mishap>> /\ (UNCHANGED core \/ SameRun(WithoutProxy)) /\ attempt[a].tries > 0
      BY <1>7, TriesLeft DEF UseTun
    <3> QED
      BY <2>1, <3>1, CoreStays, SameRunKeeps, Variants, GoKeeps DEF CountOK
  <2>2. CASE SameRun(WithoutProxy) /\ attempt' = [attempt EXCEPT ![a].pc = "save", ![a].tun = TRUE]
    <3>1. attempt[a] \in Thread /\ attempt[a].tries > 0
      BY <1>7, TriesLeft DEF UseTun, ThreadsOK
    <3>2. [attempt[a] EXCEPT !.pc = "save", !.tun = TRUE] \in Thread
      BY <3>1 DEF Thread
    <3>3. attempt' = [attempt EXCEPT ![a] = [attempt[a] EXCEPT !.pc = "save", !.tun = TRUE]]
      BY <2>2
    <3>4. attempt' \in [Attempt -> Thread]
      BY <3>2, <3>3 DEF ThreadsOK
    <3>5. \A b \in Attempt : attempt'[b].pc \in Trying => attempt'[b].tries > 0
      BY <3>1, <3>3 DEF ThreadsOK, Thread
    <3>6. UNCHANGED <<chances, mishap>>
      BY <1>7 DEF UseTun
    <3> QED
      BY <2>2, <3>4, <3>5, <3>6, SameRunKeeps, Variants DEF CountOK, ThreadsOK
  <2> QED
    BY <1>7, <2>1, <2>2 DEF UseTun, Leave, Stay
<1>8. CASE UseProxy(a) \/ ProxySet(a)
  <2>1. UNCHANGED mishap /\ attempt[a].tries > 0 /\ \E p \in Busy : Go(a, p)
    BY <1>8, TriesLeft DEF UseProxy, ProxySet, SetProxy, Call, Leave, Stay
  <2>2. \E on \in BOOLEAN :
          \/ UNCHANGED <<core, chances>>
          \/ SameRun(IF on THEN WithProxy ELSE WithoutProxy) /\ UNCHANGED chances
          \/ Fault /\ SameRun([eng EXCEPT !.proxy = FALSE])
    BY <1>8 DEF UseProxy, ProxySet, SetProxy, Call
  <2> QED
    BY <2>1, <2>2, SetProxyKeeps, GoKeeps
<1>9. CASE Succeed(a)
  BY <1>9, CoreStays, DoneKeeps DEF Succeed, CountOK
<1>10. CASE Fail(a)
  BY <1>10, CoreStays, GoKeeps DEF Fail, CountOK
<1>11. CASE Finally(a)
  BY <1>11, StopAsKeeps, DoneKeeps DEF Finally
<1> QED
  BY <1>1, <1>2, <1>3, <1>4, <1>5, <1>6, <1>7, <1>8, <1>9, <1>10, <1>11 DEF Work

LEMMA PostKeeps ==
  ASSUME EventsOK, NEW e \in Signal, Post(e) \/ UNCHANGED events
  PROVE  EventsOK'
BY DEF EventsOK, Post

LEMMA WorkKeeps == ASSUME CInv, NEW a \in Attempt, Work(a) PROVE CInv'
<1>1. CoreOK' /\ CountOK' /\ ThreadsOK'
  BY StepsOfWork DEF CInv
<1>2. WindowOK' /\ JobsOK'
  BY DEF Work, CInv, WindowOK, JobsOK
<1>3. LockOK'
  <2>1. applyLock' \in {applyLock, 0, a}
    <3>1. CASE OrderProfiles(a) \/ TryProfile(a) \/ Probe(a) \/ Fallback(a) \/ StartAgain(a) \/ Locate(a)
               \/ TryFails(a) \/ EnterMode(a)
      BY <3>1 DEF OrderProfiles, TryProfile, Probe, Fallback, StartAgain, Locate, TryFails, EnterMode
    <3>2. CASE ChooseMode(a) \/ ProbeTun(a) \/ UseTun(a) \/ DropTun(a)
      BY <3>2 DEF ChooseMode, ProbeTun, UseTun, DropTun, Leave, Stay, Call
    <3>3. CASE UseProxy(a) \/ ProxySet(a) \/ ModeSet(a)
      BY <3>3 DEF UseProxy, ProxySet, ModeSet, Leave, Stay, SetProxy, Call
    <3>4. CASE SaveRoute(a) \/ Succeed(a) \/ Fail(a) \/ Finally(a)
      BY <3>4 DEF SaveRoute, Succeed, Fail, Finally
    <3> QED
      BY <3>1, <3>2, <3>3, <3>4 DEF Work
  <2> QED
    BY <2>1 DEF CInv, LockOK
<1>4. EventsOK'
  <2> DEFINE s(on) == [kind |-> "state", on |-> on]
  <2>1. s(TRUE) \in Signal /\ s(FALSE) \in Signal
    BY DEF Signal
  <2>2. Post(s(TRUE)) \/ Post(s(FALSE)) \/ UNCHANGED events
    BY DEF Work, OrderProfiles, TryProfile, Probe, Fallback, StartAgain, Locate, TryFails, EnterMode,
           ChooseMode, ProbeTun, UseTun, DropTun, UseProxy, ProxySet, ModeSet, SaveRoute, Succeed, Fail,
           Finally
  <2> QED
    BY <2>1, <2>2, PostKeeps DEF CInv
<1> QED
  BY <1>1, <1>2, <1>3, <1>4 DEF CInv

-----------------------------------------------------------------------------
(* Connecting: a job *)

LEMMA JobGoes ==
  ASSUME JobsOK, NEW j \in Job,
         \/ UNCHANGED job
         \/ JobEnds(j)
         \/ \E p \in JobPC : JobGo(j, p)
         \/ \E on, ok \in BOOLEAN : Result(j, on, ok)
  PROVE  JobsOK'
<1>1. NoJob \in ModeJob
  BY DEF NoJob, ModeJob, JobPC
<1>2. CASE JobEnds(j)
  BY <1>1, <1>2 DEF JobsOK, JobEnds
<1>3. ASSUME NEW p \in JobPC, JobGo(j, p)
      PROVE  JobsOK'
  <2>1. job[j] \in ModeJob /\ [job[j] EXCEPT !.pc = p] \in ModeJob
    BY DEF JobsOK, ModeJob
  <2> QED
    BY <1>3, <2>1 DEF JobsOK, JobGo
<1>4. ASSUME NEW on \in BOOLEAN, NEW ok \in BOOLEAN, Result(j, on, ok)
      PROVE  JobsOK'
  <2>1. job[j] \in ModeJob /\ [job[j] EXCEPT !.pc = "report", !.on = on, !.ok = ok] \in ModeJob
    BY DEF JobsOK, ModeJob, JobPC
  <2>2. job' = [job EXCEPT ![j] = [job[j] EXCEPT !.pc = "report", !.on = on, !.ok = ok]]
    BY <1>4 DEF Result
  <2> QED
    BY <2>1, <2>2 DEF JobsOK
<1>5. CASE UNCHANGED job
  BY <1>5 DEF JobsOK
<1> QED
  BY <1>2, <1>3, <1>4, <1>5

LEMMA JobFields ==
  ASSUME JobsOK, WindowOK, NEW j \in Job
  PROVE  /\ job[j].on \in BOOLEAN /\ job[j].want \in BOOLEAN /\ job[j].ok \in BOOLEAN
         /\ ui.proxyMode \in BOOLEAN /\ ui.tunMode \in BOOLEAN
BY DEF JobsOK, ModeJob, WindowOK, Window

\* What a step of a job may do to the engine.
JobCore ==
  \/ UNCHANGED <<core, chances>>
  \/ \E e \in EngineState, f \in EngineState :
       (SameRun(e) /\ UNCHANGED chances) \/ (Fault /\ SameRun(f))

LEMMA JobCoreKeeps ==
  ASSUME CoreOK, CountOK, JobCore, mishap' \subseteq Mishaps
  PROVE  CoreOK' /\ CountOK'
BY SameRunKeeps, HappensCounts, CoreStays DEF JobCore, CountOK

LEMMA SetProxyJobs ==
  ASSUME CoreOK, NEW on \in BOOLEAN,
         \/ UNCHANGED <<core, chances>>
         \/ SameRun(IF on THEN WithProxy ELSE WithoutProxy) /\ UNCHANGED chances
         \/ Fault /\ SameRun([eng EXCEPT !.proxy = FALSE])
  PROVE  JobCore
<1>1. CASE UNCHANGED <<core, chances>>
  BY <1>1 DEF JobCore
<1>2. CASE SameRun(IF on THEN WithProxy ELSE WithoutProxy) /\ UNCHANGED chances
  <2>1. (IF on THEN WithProxy ELSE WithoutProxy) \in EngineState
    BY Variants
  <2> QED
    BY <1>2, <2>1 DEF JobCore
<1>3. CASE Fault /\ SameRun([eng EXCEPT !.proxy = FALSE])
  <2>1. [eng EXCEPT !.proxy = FALSE] \in EngineState
    BY Variants
  <2> QED
    BY <1>3, <2>1 DEF JobCore
<1> QED
  BY <1>1, <1>2, <1>3

LEMMA StepsOfSwitch ==
  ASSUME CInv, NEW j \in Job, Switch(j)
  PROVE  CoreOK' /\ CountOK' /\ JobsOK'
<1> USE DEF JobPC
<1>1. CoreOK /\ CountOK /\ JobsOK /\ WindowOK
  BY DEF CInv
<1>2. CASE TunUndo(j)
  <2>1. CASE Quits(j) /\ UNCHANGED mishap
    BY <1>1, <2>1, JobGoes, CoreStays DEF Quits, CountOK
  <2>2. CASE ~(Quits(j) /\ UNCHANGED mishap)
    <3>1. JobsOK'
      BY <1>1, <1>2, <2>2, JobGoes DEF TunUndo
    <3>2. mishap' = mishap \/ mishap' = mishap \cup {"unrestored"} \/ mishap' = mishap \cup {}
      BY <1>2, <2>2 DEF TunUndo, Call, Left
    <3>3. \/ SameRun([WithProxy EXCEPT !.tun = "off"]) /\ UNCHANGED chances
          \/ Fault /\ SameRun(TunDown)
          \/ SameRun(TunDown) /\ UNCHANGED chances
      BY <1>2, <2>2 DEF TunUndo, Call
    <3>4. CoreOK' /\ chances' \in (0..MaxChances) \X (0..MaxFaults)
      BY <1>1, <3>3, Variants, SameRunKeeps, HappensCounts
    <3> QED
      BY <1>1, <3>1, <3>2, <3>4 DEF CountOK, Mishaps
  <2> QED
    BY <1>2, <2>1, <2>2 DEF TunUndo
<1>3. CASE ProxyBegin(j) \/ ProxyRead(j) \/ TunBegin(j) \/ TunProbe(j) \/ Report(j)
  <2>1. UNCHANGED <<core, chances, mishap>>
    BY <1>3 DEF Switch, ProxyBegin, ProxyRead, TunBegin, TunProbe, Report, ProxyApply, TunUndo, TunProxy,
                  JobAt
  <2>2. CASE ProxyRead(j) /\ Current(j)
    <3>1. /\ job[j] \in ModeJob /\ ui.proxyMode \in BOOLEAN /\ ui.tunMode \in BOOLEAN
          /\ job' = [job EXCEPT ![j] = [job[j] EXCEPT !.pc = "apply",
                                                      !.want = ui.proxyMode /\ ~ui.tunMode]]
      BY <1>1, <2>2, JobFields DEF ProxyRead, JobsOK
    <3>2. [job[j] EXCEPT !.pc = "apply", !.want = ui.proxyMode /\ ~ui.tunMode] \in ModeJob
      BY <3>1 DEF ModeJob
    <3>3. JobsOK'
      BY <1>1, <3>1, <3>2 DEF JobsOK
    <3> QED
      BY <1>1, <2>1, <3>3, CoreStays DEF CountOK
  <2>3. CASE ~(ProxyRead(j) /\ Current(j))
    <3>1. JobEnds(j) \/ \E p \in JobPC : JobGo(j, p)
      BY <1>3, <2>3 DEF ProxyBegin, ProxyRead, TunBegin, TunProbe, Report
    <3> QED
      BY <1>1, <2>1, <3>1, JobGoes, CoreStays DEF CountOK
  <2> QED
    BY <2>2, <2>3
<1>4. CASE ProxyApply(j) \/ TunStart(j) \/ TunSuspend(j) \/ TunProxy(j) \/ TunStop(j)
  <2>1. \/ JobEnds(j)
        \/ \E p \in JobPC : JobGo(j, p)
        \/ \E on, ok \in BOOLEAN : Result(j, on, ok)
    BY <1>1, <1>4, JobFields DEF ProxyApply, TunStart, TunSuspend, TunProxy, TunStop, SetProxy, Call, Quits
  <2>2. mishap' \subseteq Mishaps
    <3>1. mishap \subseteq Mishaps
      BY <1>1 DEF CountOK
    <3>2. \/ UNCHANGED mishap \/ mishap' = mishap \cup {}
          \/ mishap' = mishap \cup {"deferred"} \/ mishap' = mishap \cup {"unrestored"}
      <4>1. CASE ProxyApply(j)
        BY <4>1 DEF ProxyApply, SetProxy, Call, Left
      <4>2. CASE TunProxy(j)
        BY <4>2 DEF TunProxy, SetProxy, Call, Left
      <4>3. CASE ~ProxyApply(j) /\ ~TunProxy(j)
        BY <1>4, <4>3 DEF Switch, TunUndo, TunStart, TunSuspend, TunStop, JobAt
      <4> QED
        BY <4>1, <4>2, <4>3
    <3> QED
      BY <3>1, <3>2 DEF Mishaps
  <2>3. JobCore
    <3>1. CASE ProxyApply(j) \/ TunSuspend(j) \/ TunProxy(j)
      <4>1. \E on \in BOOLEAN :
              \/ UNCHANGED <<core, chances>>
              \/ SameRun(IF on THEN WithProxy ELSE WithoutProxy) /\ UNCHANGED chances
              \/ Fault /\ SameRun([eng EXCEPT !.proxy = FALSE])
        BY <1>1, <3>1, JobFields DEF ProxyApply, TunSuspend, TunProxy, SetProxy, Call, Quits
      <4> QED
        BY <1>1, <4>1, SetProxyJobs
    <3>2. CASE TunStart(j)
      <4>1. \/ UNCHANGED <<core, chances>>
            \/ SameRun(TunUp) /\ UNCHANGED chances
            \/ Fault /\ SameRun(TunDown)
        BY <3>2 DEF TunStart, Call, Quits
      <4> QED
        BY <1>1, <4>1, Variants DEF JobCore
    <3>3. CASE TunStop(j)
      <4>1. \/ UNCHANGED <<core, chances>>
            \/ SameRun(TunDown) /\ UNCHANGED chances
        BY <3>3 DEF TunStop, Quits
      <4> QED
        BY <1>1, <4>1, Variants DEF JobCore
    <3> QED
      BY <1>4, <3>1, <3>2, <3>3
  <2> QED
    BY <1>1, <2>1, <2>2, <2>3, JobGoes, JobCoreKeeps
<1> QED
  BY <1>2, <1>3, <1>4 DEF Switch

LEMMA SwitchKeeps == ASSUME CInv, NEW j \in Job, Switch(j) PROVE CInv'
<1>1. WindowOK' /\ ThreadsOK'
  BY DEF Switch, CInv, WindowOK, ThreadsOK
<1>2. LockOK'
  <2>1. applyLock' \in {applyLock, 0, j}
    BY DEF Switch, TunUndo, ProxyBegin, ProxyRead, ProxyApply, TunBegin, TunStart, TunProbe, TunSuspend,
           TunProxy, TunStop, Report, SetProxy, Call
  <2> QED
    BY <2>1 DEF CInv, LockOK
<1>3. EventsOK'
  <2> DEFINE m == [kind |-> "mode", job |-> j]
  <2>1. m \in Signal
    BY DEF Signal
  <2>2. Post(m) \/ UNCHANGED events
    BY DEF Switch, TunUndo, ProxyBegin, ProxyRead, ProxyApply, TunBegin, TunStart, TunProbe, TunSuspend,
           TunProxy, TunStop, Report
  <2> QED
    BY <2>1, <2>2, PostKeeps DEF CInv
<1>4. CoreOK' /\ CountOK' /\ JobsOK'
  BY StepsOfSwitch
<1> QED
  BY <1>1, <1>2, <1>3, <1>4 DEF CInv

-----------------------------------------------------------------------------
(* Connecting: the window *)

LEMMA Windows ==
  ASSUME NEW u \in Window
  PROVE  /\ \A b \in BOOLEAN :
              /\ [u EXCEPT !.shown = b] \in Window /\ [u EXCEPT !.connecting = b] \in Window
              /\ [u EXCEPT !.closing = b] \in Window
              /\ [u EXCEPT !.shown = b, !.connecting = FALSE] \in Window
              /\ [u EXCEPT !.tunMode = b] \in Window /\ [u EXCEPT !.proxyMode = b] \in Window
              /\ [u EXCEPT !.proxyMode = b, !.connecting = FALSE] \in Window
              /\ [u EXCEPT !.tunMode = b, !.connecting = FALSE] \in Window
         /\ \A j \in Job : [u EXCEPT !.job = j] \in Window
         /\ [u EXCEPT !.connecting = FALSE, !.current = 0, !.job = 0] \in Window
         /\ \A a \in Attempt :
              [u EXCEPT !.connecting = TRUE, !.worker = a, !.current = a, !.job = 0] \in Window
BY DEF Window

LEMMA SetStateKeeps ==
  ASSUME WindowOK, CountOK, NEW on \in BOOLEAN, SetState(on), UNCHANGED gui
  PROVE  WindowOK' /\ mishap' \subseteq Mishaps
<1> DEFINE r == on /\ Running /\ (ui.tunMode => TunRunning)
<1>1. ui' = [ui EXCEPT !.shown = r, !.connecting = FALSE] /\ r \in BOOLEAN
  BY DEF SetState, Running, TunRunning, WindowOK, Window
<1>2. ui' \in Window
  <2> HIDE DEF r
  <2> QED
    BY <1>1, Windows DEF WindowOK
<1>3. \E T : timers' = timers \cup T /\ T \subseteq {"proxy"}
  BY DEF SetState
<1>4. \E C : mishap' = mishap \cup C /\ C \subseteq {"deferred"}
  BY DEF SetState
<1>5. mishap' \subseteq Mishaps
  BY <1>4 DEF CountOK, Mishaps
<1> QED
  BY <1>2, <1>3, <1>5 DEF WindowOK

LEMMA QueueApplyKeeps ==
  ASSUME CoreOK, JobsOK, CountOK, NEW u \in Window, NEW k \in {"proxy", "tun"}, QueueApply(u, k)
  PROVE  ui' \in Window /\ JobsOK' /\ fresh' \subseteq Attempt \cup Job /\ mishap' \subseteq Mishaps
<1>1. CASE ~Running
  BY <1>1 DEF QueueApply, CoreOK, JobsOK, CountOK
<1>2. CASE Running
  <2>1. PICK j \in Job :
          /\ job' = [job EXCEPT ![j] = [NoJob EXCEPT !.kind = k, !.pc = "begin", !.on = u.proxyMode]]
          /\ ui' = [u EXCEPT !.job = j]
          /\ fresh' = fresh \cup {j}
          /\ mishap' = mishap \cup IF k = "proxy" /\ ui.job # 0 /\ job[ui.job].kind = "tun"
                                     /\ Current(ui.job) THEN {"overtaken"} ELSE {}
    BY <1>2 DEF QueueApply
  <2>2. NoJob \in ModeJob /\ u.proxyMode \in BOOLEAN
    BY DEF NoJob, ModeJob, JobPC, Window
  <2>3. [NoJob EXCEPT !.kind = k, !.pc = "begin", !.on = u.proxyMode] \in ModeJob
    BY <2>2 DEF ModeJob, JobPC
  <2>4. JobsOK'
    BY <2>1, <2>3 DEF JobsOK
  <2>5. mishap' = mishap \cup {"overtaken"} \/ mishap' = mishap \cup {}
    BY <2>1
  <2> QED
    BY <2>1, <2>4, <2>5, Windows DEF CoreOK, CountOK, Mishaps
<1> QED
  BY <1>1, <1>2

LEMMA ToggleKeeps ==
  ASSUME WindowOK, ThreadsOK, Toggle, timers' \subseteq timers
  PROVE  WindowOK' /\ ThreadsOK'
<1>1. CASE CancelAttempt /\ gui' = "disconnect" /\ UNCHANGED attempt
  BY <1>1, Windows DEF CancelAttempt, WindowOK, ThreadsOK
<1>2. CASE ~(CancelAttempt /\ gui' = "disconnect" /\ UNCHANGED attempt)
  <2> DEFINE a == ui.worker + 1
             t == [pc |-> "order", tries |-> MaxTries, retry |-> TRUE, tun |-> FALSE]
  <2>1. /\ a \in Attempt /\ attempt' = [attempt EXCEPT ![a] = t] /\ UNCHANGED gui
        /\ ui' = [ui EXCEPT !.connecting = TRUE, !.worker = a, !.current = a, !.job = 0]
    BY <1>2 DEF Toggle
  <2>2. t \in Thread /\ t.tries > 0
    BY AttemptsAndJobs DEF Thread, Busy
  <2> HIDE DEF a, t
  <2>3. ui' \in Window
    BY <2>1, Windows DEF WindowOK
  <2>4. attempt' \in [Attempt -> Thread]
    BY <2>1, <2>2 DEF ThreadsOK
  <2>5. \A b \in Attempt : attempt'[b].pc \in Trying => attempt'[b].tries > 0
    BY <2>1, <2>2 DEF ThreadsOK
  <2> QED
    BY <2>1, <2>3, <2>4, <2>5 DEF WindowOK, ThreadsOK
<1> QED
  BY <1>1, <1>2

LEMMA ClicksKeep ==
  ASSUME CInv, ClickConnect \/ Restart \/ StopForUser \/ ResumeSwitch \/ Reconnect \/ Relabel
  PROVE  CInv'
<1> USE DEF CInv
<1>1. CASE ClickConnect
  <2>1. WindowOK' /\ ThreadsOK'
    BY <1>1, ToggleKeeps DEF ClickConnect
  <2>2. CoreOK' /\ CountOK'
    BY <1>1, CoreStays, HappensCounts DEF ClickConnect, Click, CountOK
  <2> QED
    BY <1>1, <2>1, <2>2 DEF ClickConnect, JobsOK, LockOK, EventsOK
<1>2. CASE Restart
  <2>1. WindowOK'
    BY <1>2, Windows DEF Restart, CancelAttempt, WindowOK
  <2>2. CoreOK' /\ CountOK'
    BY <1>2, CoreStays, HappensCounts DEF Restart, Click, CountOK
  <2> QED
    BY <1>2, <2>1, <2>2 DEF Restart, ThreadsOK, JobsOK, LockOK, EventsOK
<1>3. CASE StopForUser
  <2>1. WindowOK'
    BY <1>3, Windows DEF StopForUser, WindowOK
  <2>2. CoreOK'
    BY <1>3, NewRunKeeps, Variants DEF StopForUser
  <2> QED
    BY <1>3, <2>1, <2>2 DEF StopForUser, CountOK, ThreadsOK, JobsOK, LockOK, EventsOK
<1>4. CASE ResumeSwitch
  <2>1. WindowOK' /\ ThreadsOK'
    BY <1>4, ToggleKeeps DEF ResumeSwitch
  <2> QED
    BY <1>4, <2>1, CoreStays DEF ResumeSwitch, CountOK, JobsOK, LockOK, EventsOK
<1>5. CASE Reconnect
  <2>1. WindowOK' /\ ThreadsOK'
    BY <1>5, ToggleKeeps DEF Reconnect, WindowOK, ThreadsOK
  <2> QED
    BY <1>5, <2>1, CoreStays DEF Reconnect, CountOK, JobsOK, LockOK, EventsOK
<1>6. CASE Relabel
  <2>1. Running \in BOOLEAN
    BY DEF Running, CoreOK, EngineState
  <2>2. WindowOK' /\ mishap' \subseteq Mishaps
    <3>1. CASE SetState(Running)
      BY <1>6, <2>1, <3>1, SetStateKeeps DEF Relabel
    <3>2. CASE UNCHANGED <<ui, timers, mishap>>
      BY <1>6, <3>2 DEF Relabel, WindowOK, CountOK
    <3> QED
      BY <1>6, <3>1, <3>2 DEF Relabel
  <2> QED
    BY <1>6, <2>2, CoreStays, HappensCounts DEF Relabel, Click, CountOK, ThreadsOK, JobsOK, LockOK, EventsOK
<1> QED
  BY <1>1, <1>2, <1>3, <1>4, <1>5, <1>6

LEMMA ModesKeep ==
  ASSUME CInv, ChangeTun \/ ChangeProxy \/ ApplyProxyTimer
  PROVE  CInv'
<1> USE DEF CInv
<1>1. ui \in Window /\ [ui EXCEPT !.tunMode = ~@] \in Window /\ [ui EXCEPT !.proxyMode = ~@] \in Window
  <2>1. ui \in Window /\ (~ui.tunMode) \in BOOLEAN /\ (~ui.proxyMode) \in BOOLEAN
    BY DEF WindowOK, Window
  <2> QED
    BY <2>1, Windows
<1>2. PICK u \in Window, k \in {"proxy", "tun"} :
        QueueApply(u, k) \/ (ui' = u /\ UNCHANGED <<job, fresh, mishap>>)
  BY <1>1 DEF ChangeTun, ChangeProxy, ApplyProxyTimer
<1>3. ui' \in Window /\ JobsOK' /\ fresh' \subseteq Attempt \cup Job /\ mishap' \subseteq Mishaps
  BY <1>2, QueueApplyKeeps DEF JobsOK, CoreOK, CountOK
<1>4. UNCHANGED <<eng, readers, gui, events, attempt, applyLock>> /\ timers' \subseteq timers
  BY DEF ChangeTun, ChangeProxy, ApplyProxyTimer
<1>5. CountOK'
  BY <1>3, HappensCounts DEF ChangeTun, ChangeProxy, ApplyProxyTimer, Click, CountOK
<1> QED
  BY <1>3, <1>4, <1>5 DEF CoreOK, WindowOK, ThreadsOK, LockOK, EventsOK

LEMMA HandleSignalKeeps == ASSUME CInv, HandleSignal PROVE CInv'
<1> USE DEF CInv
<1> DEFINE e == Head(events)
<1>1. e \in Signal /\ EventsOK'
  BY DEF HandleSignal, EventsOK
<1>2. WindowOK' /\ mishap' \subseteq Mishaps /\ JobsOK'
  <2>1. CASE e.kind = "state"
    <3>1. e.on \in BOOLEAN
      BY <1>1, <2>1 DEF Signal
    <3>2. SetState(e.on) /\ UNCHANGED <<job, gui>>
      BY <2>1 DEF HandleSignal
    <3> HIDE DEF e
    <3> QED
      BY <3>1, <3>2, SetStateKeeps DEF JobsOK
  <2>2. CASE e.kind # "state"
    <3>1. e.job \in Job
      BY <1>1, <2>2 DEF Signal
    <3>2. ModeApplied(e.job) /\ UNCHANGED gui
      BY <2>2 DEF HandleSignal
    <3> HIDE DEF e
    <3>3. (~ui.proxyMode) \in BOOLEAN /\ TunRunning \in BOOLEAN /\ ui \in Window
      BY DEF WindowOK, Window, TunRunning
    <3>4. ui' \in Window
      BY <3>2, <3>3, Windows DEF ModeApplied
    <3>5. JobsOK'
      BY <3>1, <3>2, JobGoes DEF ModeApplied
    <3> QED
      BY <3>2, <3>4, <3>5 DEF ModeApplied, WindowOK, CountOK
  <2> QED
    BY <2>1, <2>2
<1> QED
  BY <1>1, <1>2, CoreStays DEF HandleSignal, CountOK, ThreadsOK, LockOK

LEMMA OutsideKeeps == ASSUME CInv, Quit \/ Dies \/ ReaderStops PROVE CInv'
<1> USE DEF CInv
<1>1. CASE Quit
  <2>1. WindowOK'
    BY <1>1, Windows DEF Quit, CancelAttempt, WindowOK
  <2>2. CoreOK'
    BY <1>1, CoreStays, NewRunKeeps, Variants DEF Quit
  <2> QED
    BY <1>1, <2>1, <2>2 DEF Quit, CountOK, ThreadsOK, JobsOK, LockOK, EventsOK
<1>2. CASE Dies
  <2>1. eng' \in EngineState
    BY <1>2, EngineStates DEF Dies, CoreOK
  <2>2. readers' \subseteq {"xray", "tun"} \X {"ended", "stops"}
    BY <1>2 DEF Dies, CoreOK
  <2>3. CountOK'
    BY <1>2, HappensCounts DEF Dies, CountOK
  <2> QED
    BY <1>2, <2>1, <2>2, <2>3 DEF Dies, CoreOK, WindowOK, ThreadsOK, JobsOK, LockOK, EventsOK
<1>3. CASE ReaderStops
  <2> DEFINE s == [kind |-> "state", on |-> FALSE]
  <2>1. s \in Signal
    BY DEF Signal
  <2>2. EventsOK'
    BY <1>3, <2>1, PostKeeps DEF ReaderStops
  <2>3. readers' \subseteq {"xray", "tun"} \X {"ended", "stops"}
    BY <1>3 DEF ReaderStops, CoreOK
  <2>4. eng' \in EngineState /\ fresh' \subseteq Attempt \cup Job
    BY <1>3, Variants DEF ReaderStops, CoreOK
  <2> QED
    BY <1>3, <2>2, <2>3, <2>4 DEF ReaderStops, CoreOK, CountOK, WindowOK, ThreadsOK, JobsOK, LockOK
<1> QED
  BY <1>1, <1>2, <1>3

LEMMA CNextInv == ASSUME CInv, [CNext]_cvars PROVE CInv'
<1>1. CASE UNCHANGED cvars
  BY <1>1 DEF cvars, core, CInv, CoreOK, CountOK, WindowOK, ThreadsOK, JobsOK, LockOK, EventsOK
<1> QED
  BY <1>1, ClicksKeep, ModesKeep, HandleSignalKeeps, OutsideKeeps, WorkKeeps, SwitchKeeps DEF CNext

-----------------------------------------------------------------------------
(* What a queue holds *)

In(q, x) == \E i \in 1..Len(q) : q[i] = x
\* No y comes after an x.
NoneAfter(q, x, y) == \A i, k \in 1..Len(q) : i < k /\ q[i] = x => q[k] # y
\* There is an x with no y after it.
LastIs(q, x, y) == \E i \in 1..Len(q) : q[i] = x /\ \A k \in 1..Len(q) : i < k => q[k] # y

LEMMA Appending ==
  ASSUME NEW S, NEW q \in Seq(S), NEW e \in S
  PROVE  /\ \A x : In(Append(q, e), x) <=> In(q, x) \/ x = e
         /\ \A x, y : NoneAfter(Append(q, e), x, y) <=> NoneAfter(q, x, y) /\ ~(e = y /\ In(q, x))
         /\ \A x, y : e # y /\ LastIs(q, x, y) => LastIs(Append(q, e), x, y)
         /\ \A y : LastIs(Append(q, e), e, y)
<1> DEFINE r == Append(q, e)
           n == Len(q)
<1>1. /\ n \in Nat /\ Len(r) = n + 1 /\ r[n + 1] = e
      /\ \A i \in 1..n : r[i] = q[i]
  OBVIOUS
<1> HIDE DEF r, n
<1>2. 1..Len(r) = 1..n \cup {n + 1} /\ \A i \in 1..n : i < n + 1
  BY <1>1
<1>3. ASSUME NEW x
      PROVE  In(r, x) <=> In(q, x) \/ x = e
  BY <1>1, <1>2 DEF In, n
<1>4. ASSUME NEW x, NEW y
      PROVE  NoneAfter(r, x, y) <=> NoneAfter(q, x, y) /\ ~(e = y /\ In(q, x))
  BY <1>1, <1>2 DEF In, NoneAfter, n
<1>5. ASSUME NEW x, NEW y, e # y, LastIs(q, x, y)
      PROVE  LastIs(r, x, y)
  BY <1>1, <1>2, <1>5 DEF LastIs, n
<1>6. ASSUME NEW y
      PROVE  LastIs(r, e, y)
  BY <1>1, <1>2 DEF LastIs
<1> QED
  BY <1>3, <1>4, <1>5, <1>6 DEF r

LEMMA Taking ==
  ASSUME NEW S, NEW q \in Seq(S), q # <<>>
  PROVE  /\ \A x : In(q, x) <=> In(Tail(q), x) \/ x = Head(q)
         /\ \A x, y : NoneAfter(q, x, y) => NoneAfter(Tail(q), x, y)
         /\ \A y : NoneAfter(q, Head(q), y) => ~In(Tail(q), y)
         /\ \A x, y : LastIs(q, x, y) =>
              LastIs(Tail(q), x, y) \/ (Head(q) = x /\ ~In(Tail(q), y))
<1> DEFINE r == Tail(q)
           n == Len(q)
<1>1. /\ n \in Nat \ {0} /\ Len(r) = n - 1 /\ Head(q) = q[1]
      /\ \A i \in 1..n - 1 : r[i] = q[i + 1]
  OBVIOUS
<1> HIDE DEF r, n
<1>2. /\ \A i \in 1..n - 1 : i + 1 \in 1..n /\ 1 < i + 1
      /\ \A i, k \in 1..n - 1 : i < k => i + 1 < k + 1
      /\ \A i \in 1..n : i = 1 \/ (i - 1 \in 1..n - 1 /\ i - 1 + 1 = i)
      /\ 1 \in 1..n
  BY <1>1
<1>3. \A i \in 1..n : i = 1 \/ (i - 1 \in 1..n - 1 /\ q[i] = r[i - 1])
  BY <1>1, <1>2
<1>4. ASSUME NEW x
      PROVE  In(q, x) <=> In(r, x) \/ x = Head(q)
  BY <1>1, <1>2, <1>3 DEF In, n
<1>5. ASSUME NEW x, NEW y, NoneAfter(q, x, y)
      PROVE  NoneAfter(r, x, y)
  BY <1>1, <1>2, <1>5 DEF NoneAfter, n
<1>6. ASSUME NEW y, NoneAfter(q, Head(q), y)
      PROVE  ~In(r, y)
  BY <1>1, <1>2, <1>6 DEF NoneAfter, In, n
<1>7. ASSUME NEW x, NEW y, LastIs(q, x, y)
      PROVE  LastIs(r, x, y) \/ (Head(q) = x /\ ~In(r, y))
  <2>1. PICK i \in 1..n : q[i] = x /\ \A k \in 1..n : i < k => q[k] # y
    BY <1>7 DEF LastIs, n
  <2>2. CASE i = 1
    BY <1>1, <1>2, <2>1, <2>2 DEF In
  <2>3. CASE i # 1
    <3>1. i - 1 \in 1..n - 1 /\ r[i - 1] = x
      BY <1>3, <2>1, <2>3
    <3>2. ASSUME NEW k \in 1..n - 1, i - 1 < k
          PROVE  r[k] # y
      BY <1>1, <1>2, <2>1, <3>2
    <3> QED
      BY <1>1, <3>1, <3>2 DEF LastIs
  <2> QED
    BY <2>2, <2>3
<1> QED
  BY <1>4, <1>5, <1>6, <1>7 DEF r

-----------------------------------------------------------------------------
(* What is always so *)

\* Where a thread holds the lock of the modes.
Mode == {"choose", "tun up", "tun ok", "drop", "proxy", "proxy set", "mode set"}
\* Where the attempt that still counts is.
CurAt(S) == ui.current # 0 /\ attempt[ui.current].pc \in S

Workers ==
  /\ \A a \in Attempt : a > ui.worker => attempt[a] = Unused
  /\ ui.current # 0 => ui.current = ui.worker /\ attempt[ui.current].pc # "idle"
  /\ ui.closing => gui \in {"quit", "quit stop", "quit again", "gone"}

EngineShape ==
  /\ eng.active <=> eng.xray # "none"
  /\ eng.proxy => eng.windows
  /\ eng.by = 0 \/ eng.by \in 1..ui.worker
  /\ ~eng.active => eng.tun = "off"
  /\ gui = "gone" => ~eng.active /\ ~eng.windows

\* The end of a process is still to be dealt with by its log reader.
Dying(c) == <<c, "ended">> \in readers \/ \E d \in {"xray", "tun"} : <<d, "stops">> \in readers
Pending == (eng.xray = "dead" => Dying("xray")) /\ (eng.tun = "dead" => Dying("tun"))

\* The engine runs for the attempt that counts, or for an older one that this
\* attempt is about to stop.
RunOfCurrent ==
  gui = "idle" =>
    /\ eng.active => ui.current # 0 /\ (eng.by = ui.current \/ CurAt({"order", "try", "failed", "exit"}))
    /\ CurAt({"order", "try", "again", "failed", "exit"}) => ~Running
    /\ eng.active /\ CurAt(Mode) => ui.current \in fresh
    /\ Running => \A a \in Attempt : a \in fresh /\ a # ui.current =>
                                       attempt[a].pc \in {"choose", "exit", "done"}

JobHolds(j) == (job[j].kind = "proxy" /\ job[j].pc \in {"read", "apply"}) \/ job[j].pc = "untun"
LockHeld ==
  /\ \A a \in Attempt : attempt[a].pc \in Mode => applyLock = a
  /\ \A j \in Job : JobHolds(j) => applyLock = j

ProxySteps == {"begin", "read", "apply", "report", "reported"}
TunSteps == {"begin", "up", "probe", "suspend", "undo", "down", "untun", "report", "reported"}
Kinds ==
  \A j \in Job :
    /\ job[j].kind = "none" => job[j] = NoJob
    /\ job[j].kind = "proxy" => job[j].pc \in ProxySteps
    /\ job[j].kind = "tun" => job[j].pc \in TunSteps

Tells(b) == [kind |-> "state", on |-> b]
Switched(j) == [kind |-> "mode", job |-> j]
NoState == ~In(events, Tells(TRUE)) /\ ~In(events, Tells(FALSE))
TellsTrue == LastIs(events, Tells(TRUE), Tells(FALSE))
ModeEvents ==
  \A j \in Job : /\ In(events, Switched(j)) => job[j].pc = "reported"
                 /\ NoneAfter(events, Switched(j), Switched(j))

Steady == Workers /\ EngineShape /\ Pending /\ RunOfCurrent /\ LockHeld /\ Kinds /\ ModeEvents

-----------------------------------------------------------------------------
(* What is so unless something in Mishaps happened.  Where the window, TUN or  *)
(* the proxy does not say what it should, something is still under way that    *)
(* makes it so.                                                                *)

\* The window shows a connection: the engine runs, an attempt goes on, or the
\* window is about to be told.
ShownDown ==
  gui = "idle" /\ ui.shown =>
    /\ ~eng.active => ~NoState \/ CurAt({"order", "try", "again", "failed", "next", "fallback"})
    /\ CurAt({"exit"}) => ~NoState
\* The engine runs: the window shows a connection, the attempt goes on, or the
\* last news under way is that it is connected.
ShownUp == gui = "idle" /\ Running /\ CurAt({"done"}) => (NoState /\ ui.shown) \/ TellsTrue

Up == gui = "idle" /\ Running
\* The last switch, if this run of the engine is its run.
Last(kind, S) == ui.job # 0 /\ ui.job \in fresh /\ job[ui.job].kind = kind /\ job[ui.job].pc \in S
Reporting == {"report", "reported"}
\* The window shows the run, and the switches are in force.
InForce == Up /\ ui.shown /\ CurAt({"done"}) /\ NoState
Settling == InForce /\ "proxy" \notin timers /\ ~ui.tunMode

LastFresh == Up => \A j \in Job : j \in fresh => ui.job # 0 /\ ui.job \in fresh
LastTun ==
  Up => /\ Last("tun", TunSteps) /\ ui.connecting => ui.shown
        /\ Last("tun", {"up", "probe", "suspend", "undo"}) => ui.tunMode
        /\ Last("tun", {"down", "untun"}) => ~ui.tunMode
        /\ Last("tun", Reporting) => job[ui.job].on = ui.tunMode
\* A superseded switch of the proxy that still holds the lock keeps the last one waiting.
LockKept ==
  Up => \A j \in Job : j \in fresh /\ job[j].kind = "proxy" /\ job[j].pc \in {"read", "apply"}
                         /\ j # ui.job => Last("proxy", {"begin"}) \/ Last("tun", {"begin", "up", "down"})
ProxyWithoutTun == Up /\ CurAt({"proxy", "proxy set", "mode set"}) => ~TunRunning
UnderTun ==
  Up /\ TunRunning /\ eng.windows =>
    \/ CurAt({"tun up", "tun ok", "drop", "next"})
    \/ Last("proxy", {"begin", "read", "apply"})
    \/ Last("tun", {"begin", "up", "probe", "suspend", "undo", "down", "untun"})
TunAgrees ==
  InForce => \/ TunRunning <=> ui.tunMode
             \/ eng.tun = "dead"
             \/ Last("tun", {"begin", "up", "undo", "down", "untun"})
             \/ Last("tun", Reporting) /\ ~job[ui.job].ok
ProxyAgrees ==
  Settling =>
    /\ eng.tun # "dead" =>
         \/ eng.windows = ui.proxyMode
         \/ Last("proxy", {"begin", "read", "apply"}) \/ Last("tun", {"begin", "down"})
         \/ Last("proxy", Reporting) /\ ~job[ui.job].ok
         \/ Last("tun", Reporting) /\ ~job[ui.job].ok /\ TunRunning
    /\ Last("proxy", {"begin", "read", "apply"}) => job[ui.job].on = ui.proxyMode
    /\ Last("proxy", {"apply"}) => job[ui.job].want = ui.proxyMode
    /\ Last("proxy", Reporting) /\ ~job[ui.job].ok =>
         job[ui.job].on = ui.proxyMode /\ eng.windows # ui.proxyMode
    /\ Last("tun", {"untun"}) => eng.windows = ui.proxyMode
\* A switch to TUN that failed and took TUN down has put the proxy back.
ProxyPutBack ==
  InForce /\ Last("tun", Reporting) /\ ~job[ui.job].ok /\ job[ui.job].on /\ eng.tun = "off"
    => eng.windows = ui.proxyMode

Agreed == LastFresh /\ LastTun /\ LockKept /\ ProxyWithoutTun /\ UnderTun /\ TunAgrees
          /\ ProxyAgrees /\ ProxyPutBack
Excused == mishap = {} => ShownDown /\ ShownUp /\ Agreed

-----------------------------------------------------------------------------
(* What a step does *)

LEMMA EngineFields ==
  ASSUME CoreOK
  PROVE  /\ LET e == Stopped(eng)
            IN  e.active = FALSE /\ e.xray = "none" /\ e.tun = "off" /\ e.proxy = FALSE /\ e.windows = FALSE /\ e.by = 0
         /\ \A a \in Attempt : LET e == Started(eng, a)
            IN  e.active = TRUE /\ e.xray = "up" /\ e.tun = "off" /\ e.proxy = FALSE /\ e.windows = FALSE /\ e.by = a
         /\ LET e == TunUp
            IN  /\ e.active = eng.active /\ e.xray = eng.xray /\ e.by = eng.by
                /\ e.tun = "up" /\ e.proxy = eng.proxy /\ e.windows = eng.windows
         /\ LET e == TunDown
            IN  /\ e.active = eng.active /\ e.xray = eng.xray /\ e.by = eng.by
                /\ e.tun = "off" /\ e.proxy = eng.proxy /\ e.windows = eng.windows
         /\ LET e == WithProxy
            IN  /\ e.active = eng.active /\ e.xray = eng.xray /\ e.by = eng.by
                /\ e.tun = eng.tun /\ e.proxy = TRUE /\ e.windows = TRUE
         /\ LET e == WithoutProxy
            IN  /\ e.active = eng.active /\ e.xray = eng.xray /\ e.by = eng.by
                /\ e.tun = eng.tun /\ e.proxy = FALSE /\ e.windows = FALSE
         /\ LET e == [WithProxy EXCEPT !.tun = "off"]
            IN  /\ e.active = eng.active /\ e.xray = eng.xray /\ e.by = eng.by
                /\ e.tun = "off" /\ e.proxy = TRUE /\ e.windows = TRUE
         /\ LET e == [eng EXCEPT !.proxy = FALSE]
            IN  /\ e.active = eng.active /\ e.xray = eng.xray /\ e.by = eng.by
                /\ e.tun = eng.tun /\ e.proxy = FALSE /\ e.windows = eng.windows
<1>1. eng \in EngineState
  BY DEF CoreOK
<1>2. LET e == Stopped(eng)
      IN  e.active = FALSE /\ e.xray = "none" /\ e.tun = "off" /\ e.proxy = FALSE /\ e.windows = FALSE /\ e.by = 0
  BY <1>1 DEF Stopped, EngineState
<1>3. ASSUME NEW a \in Attempt
      PROVE  LET e == Started(eng, a)
             IN  e.active = TRUE /\ e.xray = "up" /\ e.tun = "off" /\ e.proxy = FALSE /\ e.windows = FALSE /\ e.by = a
  BY <1>1 DEF Started, Stopped, EngineState
<1> QED
  BY <1>1, <1>2, <1>3 DEF TunUp, TunDown, WithProxy, WithoutProxy, EngineState

LEMMA GoIs ==
  ASSUME ThreadsOK, NEW a \in Attempt, NEW p, Go(a, p)
  PROVE  attempt'[a].pc = p /\ \A b \in Attempt : b # a => attempt'[b] = attempt[b]
BY DEF ThreadsOK, Go, Thread

LEMMA Dones ==
  ASSUME ThreadsOK, NEW a \in Attempt, Done(a)
  PROVE  attempt'[a].pc = "done" /\ \A b \in Attempt : b # a => attempt'[b] = attempt[b]
BY DEF ThreadsOK, Done, Unused

\* A call of the engine that leaves its run as it is.
Kept(e) == e.active = eng.active /\ e.xray = eng.xray /\ e.by = eng.by
SameShape(e) == /\ Kept(e)
                /\ e.tun = "off" \/ e.tun = eng.tun \/ (e.tun = "up" /\ Running)
                /\ e.proxy => e.windows \/ (eng.proxy /\ e.windows = eng.windows)

\* A step of attempt a from p to q, by what it does to the engine and to the queue.
Hop(a, p, q) == /\ attempt[a].pc = p /\ attempt'[a].pc = q
                /\ \A b \in Attempt : b # a => attempt'[b] = attempt[b]
Moves(a, p, q) ==
  /\ UNCHANGED <<core, events, applyLock>>
  /\ \/ p = "order" /\ q \in {"exit", "try", "failed"}
     \/ p \in {"try", "again"} /\ q = "exit"
     \/ p = "probe" /\ q \in {"exit", "fallback", "locate", "next"}
     \/ p = "locate" /\ q \in {"mode", "next"}
     \/ p = "save" /\ q \in {"exit", "emit", "next"}
  /\ q = "exit" => Cancelled(a)
Stops(a, p, q) ==
  /\ NewRun(Stopped(eng)) /\ UNCHANGED <<events, applyLock>>
  /\ \/ p \in {"try", "again"} /\ q = "next" /\ ui.current = a
     \/ /\ <<p, q>> \in {<<"fallback", "again">>, <<"next", "try">>, <<"next", "failed">>, <<"exit", "done">>}
        /\ eng.active /\ eng.by > a => "late" \in mishap'
Starts(a, p, q) ==
  /\ NewRun(Started(eng, a)) /\ UNCHANGED <<events, applyLock>>
  /\ p \in {"try", "again"} /\ q = "probe" /\ ui.current = a
Enters(a, p, q) ==
  /\ p = "mode" /\ q = "choose" /\ applyLock = 0 /\ applyLock' = a
  /\ fresh' = fresh \cup {a} /\ UNCHANGED <<eng, readers, events>>
Applies(a, p, q) ==
  /\ p \in Mode /\ UNCHANGED events
  /\ (q \in Mode /\ UNCHANGED applyLock) \/ (q \in {"exit", "next", "save"} /\ applyLock' = 0)
  /\ SameRun(eng') /\ SameShape(eng')
  /\ ui.current = a \/ (p = "proxy set" /\ a \in fresh) \/ UNCHANGED eng
  /\ q = "exit" => ui.current # a \/ a \notin fresh
  /\ p = "choose" /\ ui.current # a => q = "exit"
Tellings(a, p, q) ==
  /\ UNCHANGED <<core, applyLock>>
  /\ \/ p = "emit" /\ q = "done" /\ Post(Tells(TRUE))
     \/ p = "failed" /\ q = "exit" /\ IF Cancelled(a) THEN UNCHANGED events ELSE Post(Tells(FALSE))

WorkIs(a) ==
  LET p == attempt[a].pc
      q == attempt'[a].pc
  IN  /\ Hop(a, p, q) /\ Alive /\ UNCHANGED <<ui, gui, timers, job>> /\ q # "idle"
      /\ Moves(a, p, q) \/ Stops(a, p, q) \/ Starts(a, p, q) \/ Enters(a, p, q) \/ Applies(a, p, q)
         \/ Tellings(a, p, q)

LEMMA StaysAsItIs == ASSUME CoreOK, UNCHANGED core PROVE SameRun(eng') /\ SameShape(eng')
BY DEF CoreOK, EngineState, core, SameRun, SameShape, Kept

LEMMA EngineCalls ==
  ASSUME CoreOK
  PROVE  /\ SameShape(TunDown) /\ SameShape(WithProxy) /\ SameShape(WithoutProxy) /\ SameShape(eng)
         /\ SameShape([WithProxy EXCEPT !.tun = "off"]) /\ SameShape([eng EXCEPT !.proxy = FALSE])
         /\ Running => SameShape(TunUp)
BY EngineFields DEF SameShape, Kept

LEMMA ShapeStays ==
  ASSUME NEW e, SameRun(e), SameShape(e)
  PROVE  SameRun(eng') /\ SameShape(eng')
BY DEF SameRun

\* SetProxy(on, done, failed) does one of these and done, or the other and failed.
ProxyIs(on) == \/ UNCHANGED core /\ eng.proxy = on /\ eng.windows = on
               \/ SameRun(IF on THEN WithProxy ELSE WithoutProxy)
ProxyFails == SameRun([eng EXCEPT !.proxy = FALSE])

LEMMA SetProxyIs ==
  ASSUME CoreOK, NEW on \in BOOLEAN, ProxyIs(on)
  PROVE  SameRun(eng') /\ SameShape(eng') /\ eng'.tun = eng.tun /\ eng'.windows = on
<1>1. CASE UNCHANGED core /\ eng.proxy = on /\ eng.windows = on
  BY <1>1, StaysAsItIs DEF core
<1>2. CASE SameRun(IF on THEN WithProxy ELSE WithoutProxy)
  <2> DEFINE e == IF on THEN WithProxy ELSE WithoutProxy
  <2>1. SameShape(e) /\ e.tun = eng.tun /\ e.windows = on
    BY EngineCalls, EngineFields
  <2>2. SameRun(e)
    BY <1>2
  <2> HIDE DEF e
  <2> QED
    BY <2>1, <2>2, ShapeStays DEF SameRun
<1> QED
  BY <1>1, <1>2 DEF ProxyIs

LEMMA SetProxyFails ==
  ASSUME CoreOK, ProxyFails
  PROVE  SameRun(eng') /\ SameShape(eng') /\ eng'.tun = eng.tun /\ eng'.windows = eng.windows
<1> DEFINE e == [eng EXCEPT !.proxy = FALSE]
<1>1. SameShape(e) /\ e.tun = eng.tun /\ e.windows = eng.windows
  BY EngineCalls, EngineFields
<1>2. SameRun(e)
  BY DEF ProxyFails
<1> HIDE DEF e
<1> QED
  BY <1>1, <1>2, ShapeStays DEF SameRun

LEMMA ByGo ==
  ASSUME ThreadsOK, NEW a \in Attempt, NEW q, Go(a, q)
  PROVE  Hop(a, attempt[a].pc, attempt'[a].pc) /\ attempt'[a].pc = q
BY GoIs DEF Hop

LEMMA Moving ==
  ASSUME ThreadsOK, NEW a \in Attempt, Work(a),
         OrderProfiles(a) \/ Probe(a) \/ Locate(a) \/ SaveRoute(a) \/ (TryProfile(a) /\ Cancelled(a))
         \/ (StartAgain(a) /\ EventSet(a))
  PROVE  WorkIs(a)
<1>1. PICK q : /\ Go(a, q) /\ Alive /\ q # "idle"
               /\ UNCHANGED <<core, events, applyLock>>
               /\ \/ At(a, "order") /\ q \in {"exit", "try", "failed"}
                  \/ (At(a, "try") \/ At(a, "again")) /\ q = "exit"
                  \/ At(a, "probe") /\ q \in {"exit", "fallback", "locate", "next"}
                  \/ At(a, "locate") /\ q \in {"mode", "next"}
                  \/ At(a, "save") /\ q \in {"exit", "emit", "next"}
               /\ q = "exit" => Cancelled(a)
  BY DEF OrderProfiles, Probe, Locate, SaveRoute, TryProfile, StartAgain, StartEngine, Cancelled, At
<1>2. Moves(a, attempt[a].pc, attempt'[a].pc)
  BY <1>1, ByGo DEF Moves, At
<1> QED
  BY <1>1, <1>2, ByGo DEF WorkIs, Work

LEMMA Starting ==
  ASSUME ThreadsOK, NEW a \in Attempt, Work(a),
         (TryProfile(a) /\ ~Cancelled(a)) \/ (StartAgain(a) /\ ~EventSet(a))
  PROVE  WorkIs(a)
<1>1. /\ Alive /\ ui.current = a /\ UNCHANGED <<events, applyLock>>
      /\ attempt[a].pc \in {"try", "again"}
      /\ (NewRun(Started(eng, a)) /\ Go(a, "probe")) \/ (NewRun(Stopped(eng)) /\ Go(a, "next"))
  BY DEF TryProfile, StartAgain, StartEngine, Cancelled, EventSet, At
<1>2. Starts(a, attempt[a].pc, attempt'[a].pc) \/ Stops(a, attempt[a].pc, attempt'[a].pc)
  BY <1>1, ByGo DEF Starts, Stops
<1>3. Hop(a, attempt[a].pc, attempt'[a].pc) /\ attempt'[a].pc # "idle"
  BY <1>1, ByGo
<1> QED
  BY <1>1, <1>2, <1>3 DEF WorkIs, Work

LEMMA Stopping ==
  ASSUME ThreadsOK, NEW a \in Attempt, Work(a), Fallback(a) \/ TryFails(a) \/ Finally(a)
  PROVE  WorkIs(a)
<1>1. /\ Alive /\ StopAs(a) /\ UNCHANGED <<events, applyLock>>
      /\ <<attempt[a].pc, attempt'[a].pc>> \in
           {<<"fallback", "again">>, <<"next", "try">>, <<"next", "failed">>, <<"exit", "done">>}
      /\ \A b \in Attempt : b # a => attempt'[b] = attempt[b]
  <2>1. CASE Fallback(a)
    BY <2>1 DEF Fallback, At, ThreadsOK, Thread
  <2>2. CASE TryFails(a)
    BY <2>2 DEF TryFails, At, ThreadsOK, Thread
  <2>3. CASE Finally(a)
    BY <2>3, Dones DEF Finally, At
  <2> QED
    BY <2>1, <2>2, <2>3
<1>2. NewRun(Stopped(eng)) /\ (eng.active /\ eng.by > a => "late" \in mishap')
  BY <1>1 DEF StopAs
<1>3. attempt'[a].pc # "idle"
  BY <1>1
<1>4. Stops(a, attempt[a].pc, attempt'[a].pc) /\ Hop(a, attempt[a].pc, attempt'[a].pc)
  BY <1>1, <1>2 DEF Stops, Hop
<1> QED
  BY <1>1, <1>3, <1>4 DEF WorkIs, Work

LEMMA TellingOrEntering ==
  ASSUME ThreadsOK, NEW a \in Attempt, Work(a), EnterMode(a) \/ Succeed(a) \/ Fail(a)
  PROVE  WorkIs(a)
<1>1. CASE EnterMode(a)
  BY <1>1, ByGo DEF EnterMode, At, Enters, WorkIs, Work
<1>2. CASE Succeed(a)
  BY <1>2, Dones DEF Succeed, At, Tellings, Tells, Hop, WorkIs, Work
<1>3. CASE Fail(a)
  BY <1>3, ByGo DEF Fail, At, Tellings, Tells, WorkIs, Work
<1> QED
  BY <1>1, <1>2, <1>3

\* A step under the lock, with the call of the engine it makes.
Under(a, q) ==
  /\ attempt[a].pc \in Mode /\ Alive /\ UNCHANGED events
  /\ q \in Mode \cup {"exit", "next", "save"}
  /\ IF q \in Mode THEN UNCHANGED applyLock ELSE applyLock' = 0
  /\ SameRun(eng') /\ SameShape(eng')
  /\ ui.current = a \/ (attempt[a].pc = "proxy set" /\ a \in fresh) \/ UNCHANGED eng
  /\ q = "exit" => Superseded(a)
  /\ attempt[a].pc = "choose" /\ EventSet(a) => q = "exit"

LEMMA UnderIs ==
  ASSUME ThreadsOK, NEW a \in Attempt, Work(a), NEW q, Go(a, q), Under(a, q)
  PROVE  WorkIs(a)
<1>1. Hop(a, attempt[a].pc, attempt'[a].pc) /\ attempt'[a].pc = q
  BY ByGo
<1>2. Applies(a, attempt[a].pc, q) /\ q # "idle"
  BY DEF Under, Applies, Superseded, EventSet, Mode
<1> QED
  BY <1>1, <1>2 DEF WorkIs, Work, Under

LEMMA Applying ==
  ASSUME CInv, NEW a \in Attempt, Work(a),
         ChooseMode(a) \/ ProbeTun(a) \/ UseTun(a) \/ DropTun(a) \/ UseProxy(a) \/ ProxySet(a) \/ ModeSet(a)
  PROVE  WorkIs(a)
<1>1. CoreOK /\ ThreadsOK
  BY DEF CInv
<1>2. ASSUME UNCHANGED core
      PROVE  SameRun(eng') /\ SameShape(eng') /\ UNCHANGED eng
  BY <1>1, <1>2, StaysAsItIs DEF core
<1>4. CASE ChooseMode(a)
  <2>1. CASE Superseded(a) \/ ~ui.tunMode \/ ~Running
    BY <1>1, <1>2, <1>4, <2>1, UnderIs DEF ChooseMode, At, Mode, Superseded, EventSet, Under, Stay, Leave
  <2>2. CASE ~(Superseded(a) \/ ~ui.tunMode \/ ~Running)
    <3>1. /\ (SameRun(TunUp) /\ Stay(a, "tun up")) \/ (SameRun(TunDown) /\ Leave(a, "next"))
          /\ Running /\ ~Superseded(a) /\ At(a, "choose") /\ UNCHANGED events
      BY <1>4, <2>2 DEF ChooseMode, Call
    <3>2. /\ SameRun(eng') /\ SameShape(eng')
          /\ Stay(a, "tun up") \/ Leave(a, "next")
      BY <1>1, <3>1, ShapeStays, EngineCalls
    <3> QED
      BY <1>1, <3>1, <3>2, UnderIs DEF At, Mode, Superseded, EventSet, Under, Stay, Leave
  <2> QED
    BY <2>1, <2>2
<1>5. CASE ProbeTun(a) \/ ModeSet(a)
  BY <1>1, <1>2, <1>5, UnderIs DEF ProbeTun, ModeSet, At, Mode, Superseded, EventSet, Under, Stay, Leave
<1>6. CASE UseTun(a)
  <2>1. CASE Superseded(a) \/ ~ui.tunMode \/ ~(Running /\ TunRunning)
    BY <1>1, <1>2, <1>6, <2>1, UnderIs DEF UseTun, At, Mode, Superseded, EventSet, Under, Stay, Leave
  <2>2. CASE ~(Superseded(a) \/ ~ui.tunMode \/ ~(Running /\ TunRunning))
    <3>1. /\ SameRun(WithoutProxy) /\ applyLock' = 0 /\ ~Superseded(a) /\ At(a, "tun ok") /\ UNCHANGED events
          /\ attempt' = [attempt EXCEPT ![a].pc = "save", ![a].tun = TRUE]
      BY <1>6, <2>2 DEF UseTun
    <3>2. attempt'[a].pc = "save" /\ \A b \in Attempt : b # a => attempt'[b] = attempt[b]
      BY <1>1, <3>1 DEF ThreadsOK, Thread
    <3>3. SameRun(eng') /\ SameShape(eng') /\ Alive /\ attempt[a].pc = "tun ok"
      BY <1>1, <3>1, EngineCalls DEF SameRun, SameShape, Kept, At
    <3>4. Applies(a, attempt[a].pc, attempt'[a].pc) /\ Hop(a, attempt[a].pc, attempt'[a].pc)
      BY <3>1, <3>2, <3>3 DEF Applies, Hop, Mode, Superseded, EventSet
    <3> QED
      BY <3>2, <3>3, <3>4 DEF WorkIs, Work
  <2> QED
    BY <2>1, <2>2
<1>7. CASE DropTun(a)
  <2>1. CASE Superseded(a) \/ (ui.proxyMode /\ ~Running)
    BY <1>1, <1>2, <1>7, <2>1, UnderIs DEF DropTun, At, Mode, Superseded, EventSet, Under, Stay, Leave
  <2>2. CASE ~(Superseded(a) \/ (ui.proxyMode /\ ~Running))
    <3>1. /\ ~Superseded(a) /\ At(a, "drop") /\ UNCHANGED events
          /\ \/ SameRun(TunDown) /\ Stay(a, "choose")
             \/ SameRun([WithProxy EXCEPT !.tun = "off"]) /\ Stay(a, "choose")
             \/ SameRun(eng) /\ Leave(a, "next")
      BY <1>7, <2>2 DEF DropTun, Call
    <3>2. /\ SameRun(eng') /\ SameShape(eng')
          /\ Stay(a, "choose") \/ Leave(a, "next")
      BY <1>1, <3>1, ShapeStays, EngineCalls
    <3> QED
      BY <1>1, <3>1, <3>2, UnderIs DEF At, Mode, Superseded, EventSet, Under, Stay, Leave
  <2> QED
    BY <2>1, <2>2
<1>8. CASE UseProxy(a) \/ ProxySet(a)
  <2>1. /\ attempt[a].pc \in {"proxy", "proxy set"} /\ Alive /\ UNCHANGED events
        /\ ui.current = a \/ (At(a, "proxy set") /\ a \in fresh) \/ UNCHANGED eng
        /\ \/ /\ UNCHANGED core
              /\ Stay(a, "mode set") \/ (Leave(a, "exit") /\ Superseded(a)) \/ Leave(a, "next")
           \/ ProxyIs(TRUE) /\ Stay(a, "proxy set")
           \/ ProxyIs(FALSE) /\ Stay(a, "mode set")
           \/ ProxyFails /\ Leave(a, "next")
    BY <1>8 DEF UseProxy, ProxySet, SetProxy, Call, ProxyIs, ProxyFails, At, Superseded, EventSet, core
  <2>2. SameRun(eng') /\ SameShape(eng')
    BY <1>1, <1>2, <2>1, SetProxyIs, SetProxyFails
  <2>3. ~At(a, "choose")
    BY <2>1 DEF At
  <2> QED
    BY <1>1, <2>1, <2>2, <2>3, UnderIs DEF Mode, At, Under, Stay, Leave
<1> QED
  BY <1>4, <1>5, <1>6, <1>7, <1>8

LEMMA WorkTable == ASSUME CInv, NEW a \in Attempt, Work(a) PROVE WorkIs(a)
BY Moving, Starting, Stopping, TellingOrEntering, Applying DEF Work, CInv

-----------------------------------------------------------------------------
(* An attempt keeps what is always so *)

LEMMA Fields ==
  ASSUME CInv
  PROVE  /\ ui.shown \in BOOLEAN /\ ui.connecting \in BOOLEAN /\ ui.closing \in BOOLEAN
         /\ ui.tunMode \in BOOLEAN /\ ui.proxyMode \in BOOLEAN
         /\ ui.worker \in {0} \cup Attempt /\ ui.current \in {0} \cup Attempt /\ ui.job \in {0} \cup Job
         /\ eng.active \in BOOLEAN /\ eng.proxy \in BOOLEAN /\ eng.windows \in BOOLEAN
         /\ eng.xray \in {"none", "up", "dead"} /\ eng.tun \in {"off", "up", "dead"}
         /\ eng.by \in {0} \cup Attempt
BY DEF CInv, CoreOK, WindowOK, EngineState, Window

LEMMA Numbers ==
  /\ Attempt = 1..MaxAttempt /\ MaxAttempt \in Nat
  /\ \A a \in Attempt : a \in Nat /\ a # 0
  /\ \A j \in Job : j \in Nat /\ j # 0 /\ j \notin Attempt
BY ConnectAssumption DEF Attempt, Job

LEMMA WorkAt ==
  ASSUME CInv, Workers, NEW a \in Attempt, Work(a)
  PROVE  /\ attempt[a].pc \notin {"idle", "done"} /\ a <= ui.worker /\ attempt'[a].pc # "idle"
         /\ gui # "gone"
         /\ gui = "idle" => ~ui.closing /\ (Cancelled(a) <=> ui.current # a)
<1>1. attempt[a].pc \notin {"idle", "done"} /\ attempt'[a].pc # "idle" /\ gui # "gone"
  BY WorkTable DEF WorkIs, Hop, Moves, Stops, Starts, Enters, Applies, Tellings, Mode, Alive
<1>2. a <= ui.worker
  <2>1. a \in Nat /\ ui.worker \in Nat
    BY Fields, Numbers
  <2>2. attempt[a] # Unused
    BY <1>1 DEF Unused
  <2>3. ~(a > ui.worker)
    BY <2>1, <2>2 DEF Workers
  <2> QED
    BY <2>1, <2>3
<1> QED
  BY <1>1, <1>2 DEF Workers, Cancelled, EventSet

LEMMA WorkersWork ==
  ASSUME CInv, Workers, NEW a \in Attempt, Work(a)
  PROVE  Workers'
<1>1. UNCHANGED <<ui, gui>> /\ a <= ui.worker /\ attempt'[a].pc # "idle"
  BY WorkAt DEF Work
<1>2. \A b \in Attempt : b # a => attempt'[b] = attempt[b]
  BY WorkTable DEF WorkIs, Hop
<1>3. ASSUME NEW b \in Attempt, b > ui.worker
      PROVE  attempt'[b] = Unused
  <2>1. a \in Nat /\ b \in Nat /\ ui.worker \in Nat
    BY Fields, Numbers
  <2>2. b # a
    BY <1>1, <1>3, <2>1
  <2> QED
    BY <1>2, <1>3, <2>2 DEF Workers
<1>4. ui.current # 0 => ui.current = ui.worker /\ attempt'[ui.current].pc # "idle"
  BY <1>1, <1>2, Fields DEF Workers
<1> QED
  BY <1>1, <1>3, <1>4 DEF Workers

LEMMA ShapeWork ==
  ASSUME CInv, Workers, EngineShape, NEW a \in Attempt, Work(a)
  PROVE  EngineShape'
<1>1. CoreOK /\ UNCHANGED <<ui, gui>> /\ a <= ui.worker /\ gui # "gone"
  BY WorkTable, WorkAt DEF CInv, WorkIs
<1>2. CASE NewRun(Stopped(eng))
  BY <1>1, <1>2, EngineFields DEF NewRun, EngineShape
<1>3. CASE NewRun(Started(eng, a))
  <2>1. a \in 1..ui.worker
    BY <1>1, Fields, Numbers
  <2> QED
    BY <1>1, <1>3, <2>1, EngineFields DEF NewRun, EngineShape
<1>4. CASE UNCHANGED eng
  BY <1>1, <1>4 DEF EngineShape
<1>5. CASE SameShape(eng')
  BY <1>1, <1>5 DEF SameShape, Kept, EngineShape, Running
<1> QED
  BY <1>2, <1>3, <1>4, <1>5, WorkTable DEF WorkIs, Moves, Stops, Starts, Enters, Applies, Tellings, core

LEMMA PendingWork ==
  ASSUME CInv, Pending, NEW a \in Attempt, Work(a)
  PROVE  Pending'
<1>1. CoreOK
  BY DEF CInv
<1>2. CASE NewRun(Stopped(eng)) \/ NewRun(Started(eng, a))
  BY <1>1, <1>2, EngineFields DEF NewRun, Pending
<1>3. CASE UNCHANGED <<eng, readers>>
  BY <1>3 DEF Pending, Dying
<1>4. CASE SameRun(eng') /\ SameShape(eng')
  BY <1>4 DEF SameRun, SameShape, Kept, Pending, Dying
<1> QED
  BY <1>2, <1>3, <1>4, WorkTable DEF WorkIs, Moves, Stops, Starts, Enters, Applies, Tellings, core

LEMMA LockWork ==
  ASSUME CInv, LockHeld, NEW a \in Attempt, Work(a)
  PROVE  LockHeld'
<1>1. UNCHANGED job /\ Hop(a, attempt[a].pc, attempt'[a].pc)
  BY WorkTable DEF WorkIs
<1>2. CASE attempt'[a].pc \notin Mode /\ UNCHANGED applyLock
  BY <1>1, <1>2 DEF LockHeld, JobHolds, Hop
<1>3. CASE Enters(a, attempt[a].pc, attempt'[a].pc)
  BY <1>1, <1>3, Numbers DEF LockHeld, JobHolds, Hop, Enters
<1>4. CASE Applies(a, attempt[a].pc, attempt'[a].pc)
  BY <1>1, <1>4, Numbers DEF LockHeld, JobHolds, Hop, Applies, Mode
<1> QED
  BY <1>2, <1>3, <1>4, WorkTable DEF WorkIs, Moves, Stops, Starts, Tellings, Mode

LEMMA PostedIs ==
  ASSUME EventsOK, NEW e \in Signal, Post(e)
  PROVE  /\ \A x : In(events', x) <=> In(events, x) \/ x = e
         /\ \A x, y : NoneAfter(events', x, y) <=> NoneAfter(events, x, y) /\ ~(e = y /\ In(events, x))
         /\ \A x, y : e # y /\ LastIs(events, x, y) => LastIs(events', x, y)
         /\ \A y : LastIs(events', e, y)
BY Appending DEF EventsOK, Post

LEMMA Signals ==
  /\ \A b \in BOOLEAN : Tells(b) \in Signal /\ Tells(b).kind = "state" /\ Tells(b).on = b
  /\ \A j \in Job : Switched(j) \in Signal /\ Switched(j).kind = "mode" /\ Switched(j).job = j
  /\ Tells(TRUE) # Tells(FALSE)
  /\ \A b \in BOOLEAN, j \in Job : Tells(b) # Switched(j)
  /\ \A i, j \in Job : Switched(i) = Switched(j) => i = j
<1>1. /\ \A b \in BOOLEAN : Tells(b) \in Signal /\ Tells(b).kind = "state" /\ Tells(b).on = b
      /\ \A j \in Job : Switched(j) \in Signal /\ Switched(j).kind = "mode" /\ Switched(j).job = j
  BY DEF Tells, Switched, Signal
<1> QED
  BY <1>1

LEMMA NewsWork ==
  ASSUME CInv, NEW a \in Attempt, Work(a)
  PROVE  UNCHANGED events \/ Post(Tells(TRUE)) \/ Post(Tells(FALSE))
BY WorkTable DEF WorkIs, Moves, Stops, Starts, Enters, Applies, Tellings

LEMMA EventsWork ==
  ASSUME CInv, ModeEvents, NEW a \in Attempt, Work(a)
  PROVE  ModeEvents'
<1>1. UNCHANGED job
  BY DEF Work
<1>2. CASE UNCHANGED events
  BY <1>1, <1>2 DEF ModeEvents
<1>3. ASSUME NEW b \in BOOLEAN, Post(Tells(b))
      PROVE  ModeEvents'
  BY <1>1, <1>3, PostedIs, Signals DEF ModeEvents, CInv
<1> QED
  BY <1>2, <1>3, NewsWork

LEMMA RunWork ==
  ASSUME CInv, Workers, RunOfCurrent, NEW a \in Attempt, Work(a)
  PROVE  RunOfCurrent'
<1> SUFFICES ASSUME gui = "idle", UNCHANGED gui PROVE RunOfCurrent'
  BY DEF RunOfCurrent, Work
<1> DEFINE p == attempt[a].pc
           q == attempt'[a].pc
<1>1. /\ CoreOK /\ UNCHANGED ui /\ ui.current \in {0} \cup Attempt /\ 0 \notin Attempt
      /\ Cancelled(a) <=> ui.current # a
  BY WorkTable, WorkAt, Fields, Numbers DEF CInv, WorkIs
<1>2. attempt[a].pc = p /\ attempt'[a].pc = q /\ \A b \in Attempt : b # a => attempt'[b] = attempt[b]
  BY WorkTable DEF WorkIs, Hop
<1> HIDE DEF p, q
<1>3. CASE Moves(a, p, q)
  BY <1>1, <1>2, <1>3 DEF Moves, RunOfCurrent, CurAt, Running, core, Mode
<1>4. CASE Stops(a, p, q)
  <2>1. eng'.active = FALSE /\ fresh' = {}
    BY <1>1, <1>4, EngineFields DEF Stops, NewRun
  <2> QED
    BY <2>1 DEF RunOfCurrent, Running
<1>5. CASE Starts(a, p, q)
  <2>1. eng'.by = a /\ fresh' = {} /\ q = "probe" /\ ui.current = a
    BY <1>1, <1>5, EngineFields DEF Starts, NewRun
  <2> QED
    BY <1>1, <1>2, <2>1, Numbers DEF RunOfCurrent, CurAt, Mode
<1>6. CASE Enters(a, p, q)
  BY <1>1, <1>2, <1>6 DEF Enters, RunOfCurrent, CurAt, Running, Mode
<1>7. CASE Applies(a, p, q)
  BY <1>1, <1>2, <1>7 DEF Applies, RunOfCurrent, CurAt, Running, Mode, SameRun, SameShape, Kept
<1>8. CASE Tellings(a, p, q)
  BY <1>1, <1>2, <1>8 DEF Tellings, RunOfCurrent, CurAt, Running, core, Mode
<1> QED
  BY <1>3, <1>4, <1>5, <1>6, <1>7, <1>8, WorkTable DEF WorkIs, p, q

LEMMA SteadyWork == ASSUME CInv, Steady, NEW a \in Attempt, Work(a) PROVE Steady'
<1>1. Kinds'
  BY DEF Steady, Kinds, Work
<1> QED
  BY <1>1, WorkersWork, ShapeWork, PendingWork, LockWork, EventsWork, RunWork DEF Steady

-----------------------------------------------------------------------------
(* A switch keeps what is always so *)

\* Only job j changes, and becomes n.
Turns(j, n) == job'[j] = n /\ \A i \in Job : i # j => job'[i] = job[i]

LEMMA JobTurns ==
  ASSUME JobsOK, NEW j \in Job
  PROVE  /\ JobEnds(j) => Turns(j, NoJob)
         /\ \A p : JobGo(j, p) => Turns(j, [job[j] EXCEPT !.pc = p])
         /\ \A on, ok : Result(j, on, ok) => Turns(j, [job[j] EXCEPT !.pc = "report", !.on = on, !.ok = ok])
BY DEF JobsOK, ModeJob, JobEnds, JobGo, Result, Turns

\* What a job becomes when it goes on.
Onto(j, p) == /\ job'[j].kind = job[j].kind /\ job'[j].pc = p
              /\ job'[j].on = job[j].on /\ job'[j].ok = job[j].ok /\ job'[j].want = job[j].want
JobGone(j) == job'[j] = NoJob
Results(j, on, ok) == /\ job'[j].kind = job[j].kind /\ job'[j].pc = "report"
                      /\ job'[j].on = on /\ job'[j].ok = ok
Alone(j) == \A i \in Job : i # j => job'[i] = job[i]

LEMMA JobSteps ==
  ASSUME JobsOK, NEW j \in Job
  PROVE  /\ JobEnds(j) => JobGone(j) /\ Alone(j)
         /\ \A p : JobGo(j, p) => Onto(j, p) /\ Alone(j)
         /\ \A on, ok : Result(j, on, ok) => Results(j, on, ok) /\ Alone(j)
<1>1. job[j] \in ModeJob
  BY DEF JobsOK
<1>2. ASSUME NEW p
      PROVE  LET n == [job[j] EXCEPT !.pc = p]
             IN  /\ n.kind = job[j].kind /\ n.pc = p
                 /\ n.on = job[j].on /\ n.ok = job[j].ok /\ n.want = job[j].want
  BY <1>1 DEF ModeJob
<1>3. ASSUME NEW on, NEW ok
      PROVE  LET n == [job[j] EXCEPT !.pc = "report", !.on = on, !.ok = ok]
             IN  n.kind = job[j].kind /\ n.pc = "report" /\ n.on = on /\ n.ok = ok
  BY <1>1 DEF ModeJob
<1>4. ASSUME NEW p, JobGo(j, p)
      PROVE  Onto(j, p) /\ Alone(j)
  <2>1. Turns(j, [job[j] EXCEPT !.pc = p])
    BY <1>4, JobTurns
  <2> QED
    BY <1>2, <2>1 DEF Turns, Onto, Alone
<1>5. ASSUME NEW on, NEW ok, Result(j, on, ok)
      PROVE  Results(j, on, ok) /\ Alone(j)
  <2>1. Turns(j, [job[j] EXCEPT !.pc = "report", !.on = on, !.ok = ok])
    BY <1>5, JobTurns
  <2> QED
    BY <1>3, <2>1 DEF Turns, Results, Alone
<1>6. JobEnds(j) => JobGone(j) /\ Alone(j)
  BY JobTurns DEF Turns, JobGone, Alone
<1> QED
  BY <1>4, <1>5, <1>6

\* A step of job j: to p, or to the end.
JobGoesOn(j) ==
  LET k == job[j].kind
      p == job[j].pc
      q == job'[j].pc
  IN  \/ JobGone(j)
      \/ /\ job'[j].kind = k
         /\ k = "proxy" => <<p, q>> \in {<<"begin", "read">>, <<"read", "apply">>, <<"apply", "report">>,
                                         <<"report", "reported">>}
         /\ k = "tun" => <<p, q>> \in {<<"begin", "up">>, <<"begin", "down">>, <<"up", "probe">>, <<"up", "undo">>,
                                       <<"probe", "suspend">>, <<"probe", "undo">>, <<"suspend", "undo">>,
                                       <<"suspend", "report">>, <<"undo", "report">>, <<"down", "untun">>,
                                       <<"down", "report">>, <<"untun", "report">>, <<"report", "reported">>}
SwitchIs(j) ==
  /\ Alive /\ UNCHANGED <<ui, gui, timers, attempt, fresh, readers>> /\ Alone(j)
  /\ job[j].kind # "none" /\ job[j].pc \notin {"idle", "reported"} /\ JobGoesOn(j)
  /\ SameShape(eng') /\ (eng'.tun = "up" /\ eng.tun # "up" => applyLock = 0)
  /\ \/ UNCHANGED applyLock /\ (JobHolds(j)' => JobHolds(j))
     \/ applyLock = 0 /\ applyLock' = j
     \/ JobHolds(j) /\ ~JobHolds(j)' /\ applyLock' = 0
  /\ \/ UNCHANGED events /\ job'[j].pc # "reported"
     \/ Post(Switched(j)) /\ job'[j].pc = "reported" /\ job[j].pc = "report"

LEMMA NoJobIs == NoJob.kind = "none" /\ NoJob.pc = "idle"
BY DEF NoJob

LEMMA QuietSwitch ==
  ASSUME CInv, Kinds, NEW j \in Job, Switch(j),
         ProxyBegin(j) \/ ProxyRead(j) \/ TunBegin(j) \/ TunProbe(j) \/ Report(j)
  PROVE  SwitchIs(j) /\ UNCHANGED core
<1>1. UNCHANGED <<core, ui, gui, timers, attempt>> /\ SameShape(eng') /\ Alive /\ JobsOK
  BY StaysAsItIs DEF CInv, Switch, ProxyBegin, ProxyRead, TunBegin, TunProbe, Report, JobAt,
                     ProxyApply, TunUndo, TunProxy
<1>2. CASE ProxyBegin(j)
  BY <1>1, <1>2, JobSteps, NoJobIs DEF ProxyBegin, SwitchIs, JobGoesOn, JobHolds, Onto, JobGone, JobAt, core
<1>3. CASE ProxyRead(j)
  <2>1. CASE Current(j)
    <3>1. /\ job[j] \in ModeJob
          /\ job' = [job EXCEPT ![j] = [job[j] EXCEPT !.pc = "apply", !.want = ui.proxyMode /\ ~ui.tunMode]]
      BY <1>1, <1>3, <2>1 DEF ProxyRead, JobsOK
    <3>2. job'[j].kind = job[j].kind /\ job'[j].pc = "apply" /\ Alone(j)
      BY <1>1, <3>1 DEF ModeJob, JobsOK, Alone
    <3> QED
      BY <1>1, <1>3, <2>1, <3>2 DEF ProxyRead, SwitchIs, JobGoesOn, JobHolds, JobAt, core
  <2>2. CASE ~Current(j)
    BY <1>1, <1>3, <2>2, JobSteps, NoJobIs DEF ProxyRead, SwitchIs, JobGoesOn, JobHolds, JobGone, JobAt, core
  <2> QED
    BY <2>1, <2>2
<1>4. CASE TunBegin(j) \/ TunProbe(j)
  <2>1. /\ job[j].kind = "tun" /\ UNCHANGED <<events, applyLock>>
        /\ \/ JobEnds(j) /\ job[j].pc \in {"begin", "probe"}
           \/ job[j].pc = "begin" /\ \E p \in {"up", "down"} : JobGo(j, p)
           \/ job[j].pc = "probe" /\ \E p \in {"suspend", "undo"} : JobGo(j, p)
    BY <1>4 DEF TunBegin, TunProbe, JobAt
  <2>2. /\ Alone(j)
        /\ \/ JobGone(j) /\ job[j].pc \in {"begin", "probe"}
           \/ job[j].pc = "begin" /\ job'[j].kind = "tun" /\ job'[j].pc \in {"up", "down"}
           \/ job[j].pc = "probe" /\ job'[j].kind = "tun" /\ job'[j].pc \in {"suspend", "undo"}
    BY <1>1, <2>1, JobSteps DEF Onto
  <2> QED
    BY <1>1, <2>1, <2>2, NoJobIs DEF SwitchIs, JobGoesOn, JobHolds, JobGone, core
<1>5. CASE Report(j)
  <2>1. job[j].kind \in {"proxy", "tun"}
    BY <1>1, <1>5, NoJobIs DEF Report, Kinds, JobsOK, ModeJob
  <2> QED
    BY <1>1, <1>5, <2>1, JobSteps, NoJobIs DEF Report, SwitchIs, JobGoesOn, JobHolds, Onto, JobGone, Switched, core
<1> QED
  BY <1>2, <1>3, <1>4, <1>5

LEMMA BusySwitch ==
  ASSUME CInv, Kinds, NEW j \in Job, Switch(j),
         ProxyApply(j) \/ TunStart(j) \/ TunSuspend(j) \/ TunUndo(j) \/ TunProxy(j) \/ TunStop(j)
  PROVE  SwitchIs(j)
<1>1. /\ UNCHANGED <<ui, gui, timers, attempt>> /\ JobsOK /\ CoreOK
      /\ job[j].on \in BOOLEAN /\ job[j].want \in BOOLEAN /\ ui.proxyMode \in BOOLEAN
  BY JobFields DEF CInv, Switch
<1>2. UNCHANGED core => SameRun(eng') /\ SameShape(eng') /\ UNCHANGED eng
  BY <1>1, StaysAsItIs DEF core
<1>3. ASSUME SameRun(eng'), SameShape(eng') PROVE UNCHANGED <<fresh, readers>>
  BY <1>3 DEF SameRun
<1>4. CASE ProxyApply(j)
  <2>1. /\ JobAt(j, "proxy", "apply") /\ applyLock' = 0 /\ UNCHANGED events
        /\ JobEnds(j) \/ \E on, ok \in BOOLEAN : Result(j, on, ok)
        /\ UNCHANGED core \/ ProxyIs(job[j].want) \/ ProxyFails
    BY <1>1, <1>4 DEF ProxyApply, SetProxy, Call, Quits, ProxyIs, ProxyFails, core
  <2>2. SameRun(eng') /\ SameShape(eng') /\ eng'.tun = eng.tun
    BY <1>1, <1>2, <2>1, SetProxyIs, SetProxyFails
  <2>3. Alone(j) /\ (JobGone(j) \/ (job'[j].kind = job[j].kind /\ job'[j].pc = "report"))
    BY <1>1, <2>1, JobSteps DEF Results
  <2> QED
    BY <1>1, <1>3, <2>1, <2>2, <2>3, NoJobIs DEF SwitchIs, JobGoesOn, JobHolds, JobGone, JobAt
<1>5. CASE TunStart(j)
  <2>1. /\ JobAt(j, "tun", "up") /\ applyLock = 0 /\ UNCHANGED <<events, applyLock>>
        /\ JobEnds(j) \/ JobGo(j, "probe") \/ JobGo(j, "undo")
        /\ UNCHANGED core \/ (SameRun(TunUp) /\ Running) \/ SameRun(TunDown)
    BY <1>5 DEF TunStart, Call, Quits, Wants, Current
  <2>2. SameRun(eng') /\ SameShape(eng')
    BY <1>1, <1>2, <2>1, ShapeStays, EngineCalls
  <2>3. Alone(j) /\ (JobGone(j) \/ (job'[j].kind = job[j].kind /\ job'[j].pc \in {"probe", "undo"}))
    BY <1>1, <2>1, JobSteps DEF Onto
  <2> QED
    BY <1>1, <1>3, <2>1, <2>2, <2>3, NoJobIs DEF SwitchIs, JobGoesOn, JobHolds, JobGone, JobAt
<1>6. CASE TunSuspend(j)
  <2>1. /\ JobAt(j, "tun", "suspend") /\ applyLock = 0 /\ UNCHANGED <<events, applyLock>>
        /\ JobEnds(j) \/ JobGo(j, "undo") \/ Result(j, TRUE, TRUE)
        /\ UNCHANGED core \/ ProxyIs(FALSE) \/ ProxyFails
    BY <1>6 DEF TunSuspend, SetProxy, Call, Quits, ProxyIs, ProxyFails, core
  <2>2. SameRun(eng') /\ SameShape(eng') /\ eng'.tun = eng.tun
    BY <1>1, <1>2, <2>1, SetProxyIs, SetProxyFails
  <2>3. Alone(j) /\ (JobGone(j) \/ (job'[j].kind = job[j].kind /\ job'[j].pc \in {"undo", "report"}))
    BY <1>1, <2>1, JobSteps DEF Onto, Results
  <2> QED
    BY <1>1, <1>3, <2>1, <2>2, <2>3, NoJobIs DEF SwitchIs, JobGoesOn, JobHolds, JobGone, JobAt
<1>7. CASE TunUndo(j)
  <2>1. /\ JobAt(j, "tun", "undo") /\ applyLock = 0 /\ UNCHANGED <<events, applyLock>>
        /\ JobEnds(j) \/ Result(j, TRUE, FALSE)
        /\ UNCHANGED core \/ SameRun([WithProxy EXCEPT !.tun = "off"]) \/ SameRun(TunDown)
    BY <1>7 DEF TunUndo, Call, Quits
  <2>2. SameRun(eng') /\ SameShape(eng') /\ (eng'.tun = "up" => eng.tun = "up")
    BY <1>1, <1>2, <2>1, ShapeStays, EngineCalls, EngineFields DEF SameRun
  <2>3. Alone(j) /\ (JobGone(j) \/ (job'[j].kind = job[j].kind /\ job'[j].pc = "report"))
    BY <1>1, <2>1, JobSteps DEF Results
  <2> QED
    BY <1>1, <1>3, <2>1, <2>2, <2>3, NoJobIs DEF SwitchIs, JobGoesOn, JobHolds, JobGone, JobAt
<1>8. CASE TunProxy(j)
  <2>1. /\ JobAt(j, "tun", "down") /\ applyLock = 0 /\ UNCHANGED events
        /\ \/ UNCHANGED applyLock /\ (JobEnds(j) \/ Result(j, FALSE, FALSE))
           \/ applyLock' = j /\ JobGo(j, "untun")
        /\ UNCHANGED core \/ ProxyIs(ui.proxyMode) \/ ProxyFails
    BY <1>1, <1>8 DEF TunProxy, SetProxy, Call, Quits, ProxyIs, ProxyFails, core
  <2>2. SameRun(eng') /\ SameShape(eng') /\ eng'.tun = eng.tun
    BY <1>1, <1>2, <2>1, SetProxyIs, SetProxyFails
  <2>3. /\ Alone(j)
        /\ \/ JobGone(j) /\ UNCHANGED applyLock
           \/ job'[j].kind = job[j].kind /\ job'[j].pc = "report" /\ UNCHANGED applyLock
           \/ job'[j].kind = job[j].kind /\ job'[j].pc = "untun" /\ applyLock' = j
    BY <1>1, <2>1, JobSteps DEF Onto, Results
  <2> QED
    BY <1>1, <1>3, <2>1, <2>2, <2>3, NoJobIs DEF SwitchIs, JobGoesOn, JobHolds, JobGone, JobAt
<1>9. CASE TunStop(j)
  <2>1. /\ JobAt(j, "tun", "untun") /\ applyLock' = 0 /\ UNCHANGED events
        /\ JobEnds(j) \/ Result(j, FALSE, TRUE)
        /\ UNCHANGED core \/ SameRun(TunDown)
    BY <1>9 DEF TunStop, Quits
  <2>2. SameRun(eng') /\ SameShape(eng') /\ (eng'.tun = "up" => eng.tun = "up")
    BY <1>1, <1>2, <2>1, ShapeStays, EngineCalls, EngineFields DEF SameRun
  <2>3. Alone(j) /\ (JobGone(j) \/ (job'[j].kind = job[j].kind /\ job'[j].pc = "report"))
    BY <1>1, <2>1, JobSteps DEF Results
  <2> QED
    BY <1>1, <1>3, <2>1, <2>2, <2>3, NoJobIs DEF SwitchIs, JobGoesOn, JobHolds, JobGone, JobAt
<1> QED
  BY <1>4, <1>5, <1>6, <1>7, <1>8, <1>9

LEMMA SwitchTable == ASSUME CInv, Kinds, NEW j \in Job, Switch(j) PROVE SwitchIs(j)
BY QuietSwitch, BusySwitch DEF Switch

LEMMA LockSwitch ==
  ASSUME CInv, Kinds, LockHeld, NEW j \in Job, Switch(j)
  PROVE  LockHeld'
<1>1. SwitchIs(j)
  BY SwitchTable
<1>2. UNCHANGED attempt /\ \A i \in Job : i # j => JobHolds(i)' = JobHolds(i)
  BY <1>1 DEF SwitchIs, Alone, JobHolds
<1>3. \A a \in Attempt : attempt[a].pc \in Mode => applyLock = a
  BY DEF LockHeld
<1>4. \A i \in Job : JobHolds(i) => applyLock = i
  BY DEF LockHeld
<1>5. \/ UNCHANGED applyLock /\ (JobHolds(j)' => JobHolds(j))
      \/ applyLock = 0 /\ applyLock' = j
      \/ JobHolds(j) /\ ~JobHolds(j)' /\ applyLock' = 0
  BY <1>1 DEF SwitchIs
<1>6. ASSUME NEW a \in Attempt, attempt'[a].pc \in Mode
      PROVE  applyLock' = a
  BY <1>2, <1>3, <1>4, <1>5, <1>6, Numbers
<1>7. ASSUME NEW i \in Job, JobHolds(i)'
      PROVE  applyLock' = i
  BY <1>2, <1>4, <1>5, <1>7, Numbers
<1> QED
  BY <1>6, <1>7 DEF LockHeld, Mode

LEMMA KindsSwitch ==
  ASSUME CInv, Kinds, NEW j \in Job, Switch(j)
  PROVE  Kinds'
<1>1. Alone(j) /\ JobGoesOn(j) /\ job[j].kind # "none"
  BY SwitchTable DEF SwitchIs
<1>2. job[j].kind \in {"proxy", "tun"}
  BY <1>1 DEF CInv, JobsOK, ModeJob
<1>3. ASSUME NEW i \in Job, i # j
      PROVE  job'[i] = job[i]
  BY <1>1, <1>3 DEF Alone
<1>4. /\ job'[j].kind = "none" => job'[j] = NoJob
      /\ job'[j].kind = "proxy" => job'[j].pc \in ProxySteps
      /\ job'[j].kind = "tun" => job'[j].pc \in TunSteps
  BY <1>1, <1>2, NoJobIs DEF JobGoesOn, JobGone, ProxySteps, TunSteps
<1> QED
  BY <1>3, <1>4 DEF Kinds

LEMMA EventsSwitch ==
  ASSUME CInv, Kinds, ModeEvents, NEW j \in Job, Switch(j)
  PROVE  ModeEvents'
<1>1. /\ Alone(j) /\ job[j].pc # "reported"
      /\ \/ UNCHANGED events /\ job'[j].pc # "reported"
         \/ Post(Switched(j)) /\ job'[j].pc = "reported"
  BY SwitchTable DEF SwitchIs
<1>2. \A i \in Job : i # j => job'[i] = job[i]
  BY <1>1 DEF Alone
<1>3. ~In(events, Switched(j))
  BY <1>1 DEF ModeEvents
<1>4. CASE UNCHANGED events
  BY <1>1, <1>2, <1>3, <1>4 DEF ModeEvents
<1>5. CASE Post(Switched(j))
  <2>1. /\ \A x : In(events', x) <=> In(events, x) \/ x = Switched(j)
        /\ \A x, y : NoneAfter(events', x, y) <=> NoneAfter(events, x, y) /\ ~(Switched(j) = y /\ In(events, x))
    BY <1>5, PostedIs, Signals DEF CInv
  <2>2. ASSUME NEW i \in Job
        PROVE  /\ In(events', Switched(i)) => job'[i].pc = "reported"
               /\ NoneAfter(events', Switched(i), Switched(i))
    BY <1>1, <1>2, <1>3, <1>5, <2>1, Signals DEF ModeEvents
  <2> QED
    BY <2>2 DEF ModeEvents
<1> QED
  BY <1>1, <1>4, <1>5

LEMMA SteadySwitch == ASSUME CInv, Steady, NEW j \in Job, Switch(j) PROVE Steady'
<1>1. SwitchIs(j)
  BY SwitchTable DEF Steady
<1>2. UNCHANGED <<ui, gui, attempt, fresh, readers>> /\ SameShape(eng') /\ gui # "gone"
  BY <1>1 DEF SwitchIs, Alive
<1>3. Workers'
  BY <1>2 DEF Steady, Workers
<1>4. EngineShape'
  BY <1>2 DEF Steady, EngineShape, SameShape, Kept, Running
<1>5. Pending'
  BY <1>2 DEF Steady, Pending, Dying, SameShape, Kept
<1>6. RunOfCurrent'
  BY <1>2 DEF Steady, RunOfCurrent, SameShape, Kept, CurAt, Running
<1> QED
  BY <1>3, <1>4, <1>5, <1>6, LockSwitch, KindsSwitch, EventsSwitch DEF Steady

-----------------------------------------------------------------------------
(* The window and what happens outside keep what is always so *)

LEMMA SteadyQueue ==
  ASSUME CInv, Steady, NEW u \in Window, NEW k \in {"proxy", "tun"},
         QueueApply(u, k) \/ (ui' = u /\ UNCHANGED <<job, fresh>>),
         UNCHANGED <<eng, readers, gui, events, attempt, applyLock>>,
         u.worker = ui.worker, u.current = ui.current, u.closing = ui.closing
  PROVE  Steady'
<1>1. /\ ui'.worker = ui.worker /\ ui'.current = ui.current /\ ui'.closing = ui.closing
      /\ \/ UNCHANGED <<job, fresh>>
         \/ \E j \in Job : /\ job[j] = NoJob /\ fresh' = fresh \cup {j}
                           /\ job'[j].kind = k /\ job'[j].pc = "begin"
                           /\ \A i \in Job : i # j => job'[i] = job[i]
  <2>1. CASE ui' = u /\ UNCHANGED <<job, fresh>>
    BY <2>1
  <2>2. ASSUME NEW j \in Job, job[j] = NoJob, ui' = [u EXCEPT !.job = j], fresh' = fresh \cup {j},
               job' = [job EXCEPT ![j] = [NoJob EXCEPT !.kind = k, !.pc = "begin", !.on = u.proxyMode]]
        PROVE  /\ ui'.worker = ui.worker /\ ui'.current = ui.current /\ ui'.closing = ui.closing
               /\ job'[j].kind = k /\ job'[j].pc = "begin"
               /\ \A i \in Job : i # j => job'[i] = job[i]
    <3>1. job'[j].kind = k /\ job'[j].pc = "begin" /\ \A i \in Job : i # j => job'[i] = job[i]
      BY <2>2 DEF NoJob, CInv, JobsOK
    <3> QED
      BY <2>2, <3>1 DEF Window
  <2> QED
    BY <2>1, <2>2 DEF QueueApply
<1>2. Workers'
  BY <1>1 DEF Steady, Workers
<1>3. EngineShape' /\ Pending'
  BY <1>1 DEF Steady, EngineShape, Pending, Dying
<1>4. RunOfCurrent'
  <2>1. \A a \in Attempt : a \in fresh' <=> a \in fresh
    BY <1>1, Numbers
  <2> QED
    BY <1>1, <2>1, Fields DEF Steady, RunOfCurrent, CurAt, Running
<1>5. LockHeld'
  BY <1>1 DEF Steady, LockHeld, JobHolds
<1>6. Kinds'
  BY <1>1 DEF Steady, Kinds, ProxySteps, TunSteps
<1>7. ModeEvents'
  BY <1>1, NoJobIs DEF Steady, ModeEvents
<1> QED
  BY <1>2, <1>3, <1>4, <1>5, <1>6, <1>7 DEF Steady

LEMMA SteadyModes ==
  ASSUME CInv, Steady, ChangeTun \/ ChangeProxy \/ ApplyProxyTimer
  PROVE  Steady'
<1>1. ui \in Window /\ ui.tunMode \in BOOLEAN /\ ui.proxyMode \in BOOLEAN
  BY Fields DEF CInv, WindowOK
<1>2. CASE ChangeTun
  <2> DEFINE u == [ui EXCEPT !.tunMode = ~@]
  <2>1. u \in Window /\ u.worker = ui.worker /\ u.current = ui.current /\ u.closing = ui.closing
    BY <1>1 DEF Window
  <2>2. /\ QueueApply(u, "tun") \/ (ui' = u /\ UNCHANGED <<job, fresh>>)
        /\ UNCHANGED <<eng, readers, gui, events, attempt, applyLock>>
    BY <1>2 DEF ChangeTun
  <2> HIDE DEF u
  <2> QED
    BY <2>1, <2>2, SteadyQueue
<1>3. CASE ChangeProxy
  <2> DEFINE u == [ui EXCEPT !.proxyMode = ~@]
  <2>1. u \in Window /\ u.worker = ui.worker /\ u.current = ui.current /\ u.closing = ui.closing
    BY <1>1 DEF Window
  <2>2. /\ QueueApply(u, "proxy") \/ (ui' = u /\ UNCHANGED <<job, fresh>>)
        /\ UNCHANGED <<eng, readers, gui, events, attempt, applyLock>>
    BY <1>3 DEF ChangeProxy
  <2> HIDE DEF u
  <2> QED
    BY <2>1, <2>2, SteadyQueue
<1>4. CASE ApplyProxyTimer
  BY <1>1, <1>4, SteadyQueue DEF ApplyProxyTimer
<1> QED
  BY <1>2, <1>3, <1>4

\* The part of it that a step of the window leaves alone.
LEMMA Frame ==
  ASSUME Steady, UNCHANGED <<eng, readers, job, events, applyLock>>
  PROVE  Pending' /\ Kinds' /\ ModeEvents' /\ (UNCHANGED attempt => LockHeld')
BY DEF Steady, Pending, Dying, LockHeld, JobHolds, Kinds, ProxySteps, TunSteps, ModeEvents

LEMMA Cancels ==
  ASSUME CInv, CancelAttempt
  PROVE  /\ ui'.connecting = FALSE /\ ui'.current = 0 /\ ui'.job = 0 /\ ui'.worker = ui.worker
         /\ ui'.closing = ui.closing /\ ui'.shown = ui.shown
         /\ ui'.tunMode = ui.tunMode /\ ui'.proxyMode = ui.proxyMode
BY DEF CancelAttempt, CInv, WindowOK, Window

\* What toggle_connection does.
Begins ==
  /\ ~ui.connecting /\ ~Running /\ UNCHANGED gui
  /\ ui.worker + 1 \in Attempt /\ ui'.worker = ui.worker + 1 /\ ui'.current = ui.worker + 1
  /\ ui'.closing = ui.closing /\ ui'.shown = ui.shown /\ ui'.job = 0
  /\ attempt'[ui.worker + 1].pc = "order"
  /\ \A b \in Attempt : b # ui.worker + 1 => attempt'[b] = attempt[b]
LEMMA ToggleIs ==
  ASSUME CInv, Toggle
  PROVE  Begins \/ (CancelAttempt /\ gui' = "disconnect" /\ UNCHANGED attempt)
<1> SUFFICES ASSUME ~(ui.connecting \/ Running) PROVE Begins
  BY DEF Toggle
<1> DEFINE a == ui.worker + 1
<1>1. /\ a \in Attempt /\ UNCHANGED gui
      /\ ui' = [ui EXCEPT !.connecting = TRUE, !.worker = a, !.current = a, !.job = 0]
      /\ attempt' = [attempt EXCEPT ![a] = [pc |-> "order", tries |-> MaxTries, retry |-> TRUE, tun |-> FALSE]]
  BY DEF Toggle
<1> HIDE DEF a
<1>2. ui'.worker = a /\ ui'.current = a /\ ui'.closing = ui.closing /\ ui'.shown = ui.shown /\ ui'.job = 0
  BY <1>1 DEF CInv, WindowOK, Window
<1>3. attempt'[a].pc = "order" /\ \A b \in Attempt : b # a => attempt'[b] = attempt[b]
  BY <1>1 DEF CInv, ThreadsOK
<1> QED
  BY <1>1, <1>2, <1>3 DEF Begins, a

LEMMA SteadyToggle ==
  ASSUME CInv, Steady, gui = "idle", UNCHANGED <<core, job, events, applyLock>>,
         Begins \/ (CancelAttempt /\ gui' \in {"disconnect", "switch", "reconnect"} /\ UNCHANGED attempt)
  PROVE  Steady'
<1>1. /\ Pending' /\ Kinds' /\ ModeEvents' /\ (UNCHANGED attempt => LockHeld')
      /\ Workers /\ EngineShape /\ LockHeld
  BY Frame DEF core, Steady
<1>2. CASE CancelAttempt /\ gui' \in {"disconnect", "switch", "reconnect"} /\ UNCHANGED attempt
  <2>1. Workers' /\ EngineShape' /\ RunOfCurrent'
    BY <1>1, <1>2, Cancels DEF core, Workers, EngineShape, RunOfCurrent
  <2> QED
    BY <1>1, <1>2, <2>1 DEF Steady
<1>3. CASE Begins
  <2> DEFINE a == ui.worker + 1
  <2>1. /\ a \in Attempt /\ ui'.worker = a /\ ui'.current = a /\ ui'.closing = ui.closing
        /\ attempt'[a].pc = "order" /\ \A b \in Attempt : b # a => attempt'[b] = attempt[b]
        /\ ~Running /\ UNCHANGED gui
    BY <1>3 DEF Begins
  <2>2. ui.worker \in Nat /\ a > ui.worker /\ a # 0 /\ \A b \in Attempt : b \in Nat
    BY Fields, Numbers
  <2>3. Workers'
    <3>1. ASSUME NEW b \in Attempt, b > a
          PROVE  attempt'[b] = Unused
      <4>1. b > ui.worker /\ b # a
        BY <2>2, <3>1
      <4> QED
        BY <1>1, <2>1, <4>1 DEF Workers
    <3> HIDE DEF a
    <3> QED
      BY <1>1, <2>1, <3>1 DEF Workers
  <2>4. EngineShape'
    <3>1. eng.by = 0 \/ eng.by \in 1..a
      BY <1>1, <2>2 DEF EngineShape
    <3> HIDE DEF a
    <3> QED
      BY <1>1, <2>1, <3>1 DEF EngineShape, core
  <2>5. RunOfCurrent'
    <3> HIDE DEF a
    <3> QED
      BY <2>1, <2>2 DEF RunOfCurrent, CurAt, Running, core, Mode
  <2>6. LockHeld'
    <3> HIDE DEF a
    <3> QED
      BY <1>1, <2>1 DEF LockHeld, JobHolds, Mode
  <2> QED
    BY <1>1, <2>3, <2>4, <2>5, <2>6 DEF Steady
<1> QED
  BY <1>2, <1>3

\* Only what the window shows and wants changes.
LEMMA SteadyShown ==
  ASSUME CInv, Steady, UNCHANGED <<core, gui, attempt, applyLock>>,
         ui'.worker = ui.worker, ui'.current = ui.current, ui'.closing = ui.closing
  PROVE  Workers' /\ EngineShape' /\ Pending' /\ RunOfCurrent' /\ (UNCHANGED job => LockHeld')
BY DEF Steady, core, Workers, EngineShape, Pending, Dying, RunOfCurrent, CurAt, Running, LockHeld, JobHolds

LEMMA SetStateIs ==
  ASSUME CInv, NEW on \in BOOLEAN, SetState(on)
  PROVE  /\ ui'.connecting = FALSE /\ ui'.current = ui.current /\ ui'.job = ui.job
         /\ ui'.worker = ui.worker /\ ui'.closing = ui.closing
         /\ ui'.tunMode = ui.tunMode /\ ui'.proxyMode = ui.proxyMode
         /\ ui'.shown = (on /\ Running /\ (ui.tunMode => TunRunning))
         /\ ui'.shown /\ ~ui.tunMode => "proxy" \in timers'
         /\ on /\ Running /\ (TunRunning # ui.tunMode) => "deferred" \in mishap'
<1> DEFINE r == on /\ Running /\ (ui.tunMode => TunRunning)
<1>1. /\ ui' = [ui EXCEPT !.shown = r, !.connecting = FALSE]
      /\ timers' = timers \cup IF r /\ ~ui.tunMode THEN {"proxy"} ELSE {}
      /\ mishap' = mishap \cup IF on /\ Running /\ ui.tunMode # TunRunning THEN {"deferred"} ELSE {}
  BY DEF SetState
<1>2. /\ ui'.connecting = FALSE /\ ui'.current = ui.current /\ ui'.job = ui.job
      /\ ui'.worker = ui.worker /\ ui'.closing = ui.closing
      /\ ui'.tunMode = ui.tunMode /\ ui'.proxyMode = ui.proxyMode /\ ui'.shown = r
  <2> HIDE DEF r
  <2> QED
    BY <1>1 DEF CInv, WindowOK, Window
<1> QED
  BY <1>1, <1>2

LEMMA SteadyClicks ==
  ASSUME CInv, Steady, ClickConnect \/ Restart \/ StopForUser \/ ResumeSwitch \/ Reconnect \/ Relabel
  PROVE  Steady'
<1>1. CASE ClickConnect \/ ResumeSwitch
  BY <1>1, ToggleIs, SteadyToggle DEF ClickConnect, ResumeSwitch, Click
<1>2. CASE Restart
  BY <1>2, SteadyToggle DEF Restart, Click
<1>3. CASE Reconnect
  <2>1. CASE Running \/ ui.connecting
    <3>1. UNCHANGED <<core, ui, gui, attempt, job, events, applyLock>>
      BY <1>3, <2>1 DEF Reconnect
    <3> QED
      BY <3>1, SteadyShown, Frame DEF Steady, core
  <2>2. CASE ~(Running \/ ui.connecting)
    BY <1>3, <2>2, ToggleIs, SteadyToggle DEF Reconnect
  <2> QED
    BY <2>1, <2>2
<1>4. CASE Relabel
  <2>1. Running \in BOOLEAN
    BY Fields DEF Running
  <2>2. ui'.worker = ui.worker /\ ui'.current = ui.current /\ ui'.closing = ui.closing
    BY <1>4, <2>1, SetStateIs DEF Relabel
  <2> QED
    BY <1>4, <2>2, SteadyShown, Frame DEF Relabel, Steady, core
<1>5. CASE StopForUser
  <2>1. /\ eng' = Stopped(eng) /\ fresh' = {} /\ gui' = "idle" /\ ~ui.closing
        /\ UNCHANGED <<events, attempt, job, applyLock>> /\ CoreOK
        /\ ui' = [ui EXCEPT !.shown = FALSE, !.connecting = FALSE]
    BY <1>5 DEF StopForUser, NewRun, Steady, Workers, CInv
  <2>2. ui'.worker = ui.worker /\ ui'.current = ui.current /\ ui'.closing = ui.closing
    BY <2>1 DEF CInv, WindowOK, Window
  <2>3. Workers'
    BY <2>1, <2>2 DEF Steady, Workers
  <2>4. EngineShape' /\ Pending' /\ RunOfCurrent'
    BY <2>1, <2>2, EngineFields DEF EngineShape, Pending, RunOfCurrent, Running
  <2>5. LockHeld' /\ Kinds' /\ ModeEvents'
    BY <2>1 DEF Steady, LockHeld, JobHolds, Kinds, ProxySteps, TunSteps, ModeEvents
  <2> QED
    BY <2>3, <2>4, <2>5 DEF Steady
<1> QED
  BY <1>1, <1>2, <1>3, <1>4, <1>5

LEMMA Taken ==
  ASSUME CInv, events # <<>>, events' = Tail(events)
  PROVE  /\ \A x : In(events, x) <=> In(events', x) \/ x = Head(events)
         /\ \A x, y : NoneAfter(events, x, y) => NoneAfter(events', x, y)
         /\ \A y : NoneAfter(events, Head(events), y) => ~In(events', y)
         /\ \A x, y : LastIs(events, x, y) =>
              LastIs(events', x, y) \/ (Head(events) = x /\ ~In(events', y))
         /\ (\E b \in BOOLEAN : Head(events) = Tells(b)) \/ (\E j \in Job : Head(events) = Switched(j))
<1>1. events \in Seq(Signal)
  BY DEF CInv, EventsOK
<1>2. Head(events) \in Signal
  BY <1>1
<1>3. (\E b \in BOOLEAN : Head(events) = Tells(b)) \/ (\E j \in Job : Head(events) = Switched(j))
  BY <1>2 DEF Signal, Tells, Switched
<1> QED
  BY <1>1, <1>3, Taking

LEMMA AppliedIs ==
  ASSUME CInv, NEW j \in Job, ModeApplied(j)
  PROVE  LET failed == j = ui.job /\ j \in fresh /\ ~job[j].ok
         IN  /\ ui'.worker = ui.worker /\ ui'.current = ui.current /\ ui'.closing = ui.closing
             /\ ui'.job = ui.job /\ ui'.shown = ui.shown /\ (ui'.connecting => ui.connecting)
             /\ JobGone(j) /\ Alone(j) /\ UNCHANGED <<timers, mishap>>
             /\ ui'.proxyMode = IF failed /\ job[j].kind = "proxy" /\ job[j].on = ui.proxyMode
                                THEN ~ui.proxyMode ELSE ui.proxyMode
             /\ ui'.tunMode = IF failed /\ job[j].kind = "tun" /\ job[j].on = ui.tunMode
                              THEN TunRunning ELSE ui.tunMode
<1> DEFINE failed == j = ui.job /\ j \in fresh /\ ~job[j].ok
           proxy == failed /\ job[j].kind = "proxy" /\ job[j].on = ui.proxyMode
           tun == failed /\ job[j].kind = "tun" /\ job[j].on = ui.tunMode
<1>1. /\ ui' = CASE proxy -> [ui EXCEPT !.proxyMode = ~@, !.connecting = FALSE]
                 [] tun -> [ui EXCEPT !.tunMode = TunRunning, !.connecting = FALSE]
                 [] OTHER -> ui
      /\ JobEnds(j) /\ UNCHANGED <<timers, mishap>>
  BY DEF ModeApplied
<1>2. ui \in Window /\ ~(proxy /\ tun)
  BY DEF CInv, WindowOK
<1>3. JobGone(j) /\ Alone(j)
  BY <1>1, JobSteps DEF CInv
<1> HIDE DEF proxy, tun
<1>4. CASE proxy
  <2>1. ui' = [ui EXCEPT !.proxyMode = ~@, !.connecting = FALSE]
    BY <1>1, <1>2, <1>4
  <2> QED
    BY <1>1, <1>2, <1>3, <1>4, <2>1 DEF Window, proxy, tun
<1>5. CASE tun
  <2>1. ui' = [ui EXCEPT !.tunMode = TunRunning, !.connecting = FALSE]
    BY <1>1, <1>2, <1>5
  <2> QED
    BY <1>1, <1>2, <1>3, <1>5, <2>1 DEF Window, proxy, tun
<1>6. CASE ~proxy /\ ~tun
  BY <1>1, <1>3, <1>6 DEF proxy, tun
<1> QED
  BY <1>4, <1>5, <1>6

LEMMA SteadySignal == ASSUME CInv, Steady, HandleSignal PROVE Steady'
<1>1. UNCHANGED <<core, gui, attempt, applyLock>> /\ events # <<>> /\ events' = Tail(events)
  BY DEF HandleSignal
<1>2. ASSUME NEW b \in BOOLEAN, Head(events) = Tells(b)
      PROVE  Steady'
  <2>1. SetState(b) /\ UNCHANGED job
    BY <1>2, Signals DEF HandleSignal
  <2>2. Workers' /\ EngineShape' /\ Pending' /\ RunOfCurrent' /\ LockHeld'
    BY <1>1, <2>1, SetStateIs, SteadyShown
  <2>3. Kinds' /\ ModeEvents'
    BY <1>1, <2>1, Taken DEF Steady, Kinds, ProxySteps, TunSteps, ModeEvents
  <2> QED
    BY <2>2, <2>3 DEF Steady
<1>3. ASSUME NEW j \in Job, Head(events) = Switched(j)
      PROVE  Steady'
  <2>1. ModeApplied(j)
    BY <1>3, Signals DEF HandleSignal
  <2>2. /\ ui'.worker = ui.worker /\ ui'.current = ui.current /\ ui'.closing = ui.closing
        /\ job'[j] = NoJob /\ \A i \in Job : i # j => job'[i] = job[i]
    BY <2>1, AppliedIs DEF JobGone, Alone
  <2>3. Workers' /\ EngineShape' /\ Pending' /\ RunOfCurrent'
    BY <1>1, <2>2, SteadyShown
  <2>4. LockHeld'
    BY <1>1, <2>2, NoJobIs DEF Steady, LockHeld, JobHolds
  <2>5. Kinds'
    BY <1>1, <2>2, NoJobIs DEF Steady, Kinds, ProxySteps, TunSteps
  <2>6. ModeEvents'
    <3>1. In(events, Switched(j)) /\ ~In(events', Switched(j))
      BY <1>1, <1>3, Taken DEF Steady, ModeEvents
    <3>2. ASSUME NEW i \in Job, In(events', Switched(i))
          PROVE  job'[i].pc = "reported"
      BY <1>1, <2>2, <3>1, <3>2, Taken DEF Steady, ModeEvents
    <3> QED
      BY <1>1, <3>2, Taken DEF Steady, ModeEvents
  <2> QED
    BY <2>3, <2>4, <2>5, <2>6 DEF Steady
<1> QED
  BY <1>1, <1>2, <1>3, Taken

LEMMA SteadyOutside ==
  ASSUME CInv, Steady, Quit \/ Dies \/ ReaderStops
  PROVE  Steady'
<1>1. CoreOK
  BY DEF CInv
<1>2. CASE Quit
  <2>1. /\ UNCHANGED <<events, attempt, job, applyLock>> /\ gui' \in {"quit", "quit stop", "quit again", "gone"}
        /\ (UNCHANGED core /\ gui' # "gone") \/ (NewRun(Stopped(eng)) /\ UNCHANGED ui)
    BY <1>2 DEF Quit
  <2>2. ui'.worker = ui.worker /\ (ui'.current = ui.current \/ ui'.current = 0)
    <3>1. CASE UNCHANGED ui \/ CancelAttempt
      BY <3>1, Cancels
    <3>2. CASE ui' = [ui EXCEPT !.closing = TRUE]
      BY <3>2 DEF CInv, WindowOK, Window
    <3> QED
      BY <1>2, <3>1, <3>2 DEF Quit
  <2>3. Workers'
    BY <2>1, <2>2 DEF Steady, Workers
  <2>4. EngineShape' /\ Pending'
    <3>1. CASE UNCHANGED core /\ gui' # "gone"
      BY <2>2, <3>1 DEF core, Steady, EngineShape, Pending, Dying
    <3>2. CASE NewRun(Stopped(eng))
      BY <1>1, <3>2, EngineFields DEF NewRun, EngineShape, Pending
    <3> QED
      BY <2>1, <3>1, <3>2
  <2>5. RunOfCurrent'
    BY <2>1 DEF RunOfCurrent
  <2>6. LockHeld' /\ Kinds' /\ ModeEvents'
    BY <2>1 DEF Steady, LockHeld, JobHolds, Kinds, ProxySteps, TunSteps, ModeEvents
  <2> QED
    BY <2>3, <2>4, <2>5, <2>6 DEF Steady
<1>3. CASE Dies
  <2>1. /\ UNCHANGED <<fresh, ui, gui, events, attempt, job, applyLock>> /\ gui # "gone"
        /\ \/ /\ eng.xray = "up" /\ eng' = [eng EXCEPT !.xray = "dead"]
              /\ readers' = readers \cup {<<"xray", "ended">>}
           \/ /\ eng.tun = "up" /\ eng' = [eng EXCEPT !.tun = "dead"]
              /\ readers' = readers \cup {<<"tun", "ended">>}
    BY <1>3 DEF Dies, Alive
  <2>2. /\ eng'.active = eng.active /\ eng'.proxy = eng.proxy /\ eng'.windows = eng.windows /\ eng'.by = eng.by
        /\ \/ /\ eng.xray = "up" /\ eng'.xray = "dead" /\ eng'.tun = eng.tun
              /\ readers' = readers \cup {<<"xray", "ended">>}
           \/ /\ eng.tun = "up" /\ eng'.tun = "dead" /\ eng'.xray = eng.xray
              /\ readers' = readers \cup {<<"tun", "ended">>}
    BY <1>1, <2>1 DEF CoreOK, EngineState
  <2>3. EngineShape'
    BY <2>1, <2>2 DEF Steady, EngineShape
  <2>4. Pending'
    BY <2>2 DEF Steady, Pending, Dying
  <2>5. RunOfCurrent'
    BY <2>1, <2>2 DEF Steady, RunOfCurrent, CurAt, Running
  <2>6. Workers' /\ LockHeld' /\ Kinds' /\ ModeEvents'
    BY <2>1 DEF Steady, Workers, LockHeld, JobHolds, Kinds, ProxySteps, TunSteps, ModeEvents
  <2> QED
    BY <2>3, <2>4, <2>5, <2>6 DEF Steady
<1>4. CASE ReaderStops
  <2>1. /\ UNCHANGED <<ui, gui, attempt, job, applyLock>> /\ gui # "gone"
        /\ UNCHANGED events \/ Post(Tells(FALSE))
        /\ \/ \E c \in {"xray", "tun"} :
                /\ readers' = (readers \ {<<c, "ended">>}) \cup
                     IF c = "xray" \/ eng.tun = "dead" THEN {<<c, "stops">>} ELSE {}
                /\ UNCHANGED <<eng, fresh>>
           \/ eng' = Stopped(eng) /\ fresh' = {}
    BY <1>4 DEF ReaderStops, Alive, Tells
  <2>2. Workers' /\ LockHeld' /\ Kinds'
    BY <2>1 DEF Steady, Workers, LockHeld, JobHolds, Kinds, ProxySteps, TunSteps
  <2>3. ModeEvents'
    BY <2>1, PostedIs, Signals DEF Steady, ModeEvents, CInv
  <2>4. EngineShape' /\ Pending' /\ RunOfCurrent'
    <3>1. CASE eng' = Stopped(eng) /\ fresh' = {}
      BY <1>1, <3>1, EngineFields DEF EngineShape, Pending, RunOfCurrent, Running
    <3>2. ASSUME NEW c \in {"xray", "tun"}, UNCHANGED <<eng, fresh>>,
                 readers' = (readers \ {<<c, "ended">>}) \cup
                   IF c = "xray" \/ eng.tun = "dead" THEN {<<c, "stops">>} ELSE {}
          PROVE  EngineShape' /\ Pending' /\ RunOfCurrent'
      <4>1. EngineShape' /\ RunOfCurrent'
        BY <2>1, <3>2 DEF Steady, EngineShape, RunOfCurrent, CurAt, Running
      <4>2. Pending'
        <5>1. CASE c = "xray" \/ eng.tun = "dead"
          BY <3>2, <5>1 DEF Pending, Dying
        <5>2. CASE c = "tun" /\ eng.tun # "dead"
          BY <3>2, <5>2 DEF Steady, Pending, Dying
        <5> QED
          BY <5>1, <5>2
      <4> QED
        BY <4>1, <4>2
    <3> QED
      BY <2>1, <3>1, <3>2
  <2> QED
    BY <2>2, <2>3, <2>4 DEF Steady
<1> QED
  BY <1>2, <1>3, <1>4

LEMMA SteadyInit == CInit => Steady
<1> SUFFICES ASSUME CInit PROVE Steady
  OBVIOUS
<1>1. Workers /\ EngineShape /\ Pending /\ RunOfCurrent
  BY DEF CInit, Workers, EngineShape, Pending, RunOfCurrent, CurAt, Running
<1>2. LockHeld /\ Kinds
  BY NoJobIs DEF CInit, LockHeld, JobHolds, Kinds, Mode, Unused
<1>3. ModeEvents
  BY DEF CInit, ModeEvents, In, NoneAfter
<1> QED
  BY <1>1, <1>2, <1>3 DEF Steady

LEMMA SteadyNext == ASSUME CInv, Steady, [CNext]_cvars PROVE Steady'
<1>1. CASE UNCHANGED cvars
  BY <1>1 DEF cvars, core, Steady, Workers, EngineShape, Pending, Dying, RunOfCurrent, CurAt, Running, LockHeld,
              JobHolds, Kinds, ProxySteps, TunSteps, ModeEvents
<1> QED
  BY <1>1, SteadyClicks, SteadyModes, SteadySignal, SteadyOutside, SteadyWork, SteadySwitch DEF CNext

-----------------------------------------------------------------------------
(* What the window shows stays excused *)

LEMMA MishapsStay ==
  ASSUME CInv, [CNext]_cvars
  PROVE  mishap \subseteq mishap'
<1>1. CASE UNCHANGED cvars
  BY <1>1 DEF cvars
<1>2. ASSUME NEW a \in Attempt, Work(a)
      PROVE  mishap \subseteq mishap'
  <2>1. CASE OrderProfiles(a) \/ TryProfile(a) \/ Probe(a) \/ Fallback(a) \/ StartAgain(a) \/ Locate(a)
             \/ TryFails(a) \/ EnterMode(a) \/ ChooseMode(a) \/ ProbeTun(a)
    BY <2>1 DEF OrderProfiles, TryProfile, Probe, Fallback, StartAgain, Locate, TryFails, EnterMode, ChooseMode,
                ProbeTun, StopAs
  <2>2. CASE UseTun(a) \/ DropTun(a) \/ UseProxy(a) \/ ProxySet(a) \/ ModeSet(a) \/ SaveRoute(a) \/ Succeed(a)
             \/ Fail(a) \/ Finally(a)
    BY <2>2 DEF UseTun, DropTun, UseProxy, ProxySet, ModeSet, SaveRoute, Succeed, Fail, Finally, StopAs
  <2> QED
    BY <1>2, <2>1, <2>2 DEF Work
<1>3. ASSUME NEW j \in Job, Switch(j)
      PROVE  mishap \subseteq mishap'
  <2>1. CASE ProxyApply(j) \/ TunUndo(j) \/ TunProxy(j)
    BY <2>1 DEF ProxyApply, TunUndo, TunProxy, SetProxy, Call, Left
  <2> QED
    BY <1>3, <2>1 DEF Switch
<1>4. CASE ChangeTun \/ ChangeProxy \/ ApplyProxyTimer \/ HandleSignal \/ Relabel
  BY <1>4 DEF ChangeTun, ChangeProxy, ApplyProxyTimer, HandleSignal, Relabel, QueueApply, SetState, ModeApplied
<1>5. CASE ClickConnect \/ Restart \/ StopForUser \/ ResumeSwitch \/ Reconnect \/ Quit \/ Dies \/ ReaderStops
  BY <1>5 DEF ClickConnect, Restart, StopForUser, ResumeSwitch, Reconnect, Quit, Dies, ReaderStops
<1> QED
  BY <1>1, <1>2, <1>3, <1>4, <1>5 DEF CNext

Told == ShownDown /\ ShownUp

\* What a signal does to the news.
LEMMA News ==
  ASSUME CInv
  PROVE  /\ Post(Tells(TRUE)) => ~NoState' /\ TellsTrue'
         /\ Post(Tells(FALSE)) => ~NoState'
         /\ \A j \in Job : Post(Switched(j)) => NoState' = NoState /\ (TellsTrue => TellsTrue')
         /\ UNCHANGED events => NoState' = NoState /\ TellsTrue' = TellsTrue
         /\ TellsTrue => ~NoState
<1>1. ASSUME NEW j \in Job, Post(Switched(j))
      PROVE  NoState' = NoState /\ (TellsTrue => TellsTrue')
  <2>1. /\ \A x : In(events', x) <=> In(events, x) \/ x = Switched(j)
        /\ \A x, y : Switched(j) # y /\ LastIs(events, x, y) => LastIs(events', x, y)
    BY <1>1, PostedIs, Signals DEF CInv
  <2>2. Switched(j) # Tells(TRUE) /\ Switched(j) # Tells(FALSE)
    BY Signals
  <2> QED
    BY <2>1, <2>2 DEF NoState, TellsTrue, Tells
<1>2. ASSUME Post(Tells(TRUE))
      PROVE  ~NoState' /\ TellsTrue'
  BY <1>2, PostedIs, Signals DEF CInv, NoState, TellsTrue, Tells
<1>3. ASSUME Post(Tells(FALSE))
      PROVE  ~NoState'
  BY <1>3, PostedIs, Signals DEF CInv, NoState, Tells
<1>4. UNCHANGED events => NoState' = NoState /\ TellsTrue' = TellsTrue
  BY DEF NoState, TellsTrue, Tells
<1>5. TellsTrue => ~NoState
  BY DEF TellsTrue, NoState, LastIs, In
<1> QED
  BY <1>1, <1>2, <1>3, <1>4, <1>5

\* A superseded attempt stops nothing, unless the attempt that counts will stop it too.
LEMMA StopsOther ==
  ASSUME CInv, Steady, NEW a \in Attempt, Work(a), gui = "idle", ui.current # a, eng.active,
         Stops(a, attempt[a].pc, attempt'[a].pc), mishap' = {}
  PROVE  CurAt({"order", "try", "failed", "exit"})
<1>1. eng.by = ui.current \/ CurAt({"order", "try", "failed", "exit"})
  BY DEF Steady, RunOfCurrent
<1>2. ui.current = ui.worker /\ a <= ui.worker /\ ui.current \in Nat /\ a \in Nat
  BY WorkAt, Fields, Numbers DEF Steady, RunOfCurrent, Workers
<1>3. ~(eng.by > a)
  BY DEF Stops
<1> QED
  BY <1>1, <1>2, <1>3

LEMMA ToldWork ==
  ASSUME CInv, Steady, Told, NEW a \in Attempt, Work(a), mishap' = {}
  PROVE  Told'
<1> DEFINE p == attempt[a].pc
           q == attempt'[a].pc
<1> SUFFICES ASSUME gui = "idle" PROVE Told'
  BY DEF Told, ShownDown, ShownUp, Work
<1>1. /\ CoreOK /\ UNCHANGED <<ui, gui>> /\ ui.current \in {0} \cup Attempt /\ 0 \notin Attempt
      /\ Cancelled(a) <=> ui.current # a
      /\ eng.active /\ CurAt(Mode) => ui.current \in fresh
  BY WorkTable, WorkAt, Fields, Numbers DEF CInv, WorkIs, Steady, RunOfCurrent
<1>2. attempt[a].pc = p /\ attempt'[a].pc = q /\ \A b \in Attempt : b # a => attempt'[b] = attempt[b]
  BY WorkTable DEF WorkIs, Hop
<1>3. /\ UNCHANGED events => NoState' = NoState /\ TellsTrue' = TellsTrue
      /\ Post(Tells(TRUE)) => ~NoState' /\ TellsTrue'
      /\ Post(Tells(FALSE)) => ~NoState'
  BY News
<1>4. Stops(a, p, q) /\ eng.active /\ ui.current # a => CurAt({"order", "try", "failed", "exit"})
  BY StopsOther
<1> HIDE DEF p, q
<1>5. CASE Moves(a, p, q)
  BY <1>1, <1>2, <1>3, <1>5 DEF Moves, Told, ShownDown, ShownUp, CurAt, Running, core
<1>6. CASE Stops(a, p, q)
  <2>1. eng'.active = FALSE
    BY <1>1, <1>6, EngineFields DEF Stops, NewRun
  <2> QED
    BY <1>1, <1>2, <1>3, <1>4, <1>6, <2>1 DEF Stops, Told, ShownDown, ShownUp, CurAt, Running
<1>7. CASE Starts(a, p, q)
  <2>1. eng'.active = TRUE /\ q = "probe" /\ ui.current = a
    BY <1>1, <1>7, EngineFields DEF Starts, NewRun
  <2> QED
    BY <1>1, <1>2, <2>1 DEF Told, ShownDown, ShownUp, CurAt, Running
<1>8. CASE Enters(a, p, q)
  BY <1>1, <1>2, <1>3, <1>8 DEF Enters, Told, ShownDown, ShownUp, CurAt, Running
<1>9. CASE Applies(a, p, q)
  <2>1. /\ eng'.active = eng.active /\ eng'.xray = eng.xray /\ NoState' = NoState /\ TellsTrue' = TellsTrue
        /\ p \in Mode /\ q \in Mode \cup {"exit", "next", "save"}
        /\ q = "exit" => ui.current # a \/ a \notin fresh
    BY <1>3, <1>9 DEF Applies, SameShape, Kept
  <2>2. CASE ui.current = a
    BY <1>1, <1>2, <2>1, <2>2 DEF Told, ShownDown, ShownUp, CurAt, Running, Mode
  <2>3. CASE ui.current # a
    BY <1>1, <1>2, <2>1, <2>3 DEF Told, ShownDown, ShownUp, CurAt, Running
  <2> QED
    BY <2>2, <2>3
<1>10. CASE Tellings(a, p, q)
  <2>1. /\ UNCHANGED eng
        /\ \/ p = "emit" /\ q = "done" /\ ~NoState' /\ TellsTrue'
           \/ p = "failed" /\ q = "exit" /\ ui.current = a /\ ~NoState'
           \/ p = "failed" /\ q = "exit" /\ ui.current # a /\ NoState' = NoState /\ TellsTrue' = TellsTrue
    BY <1>1, <1>3, <1>10 DEF Tellings, core
  <2>2. CASE ui.current = a
    BY <1>1, <1>2, <2>1, <2>2 DEF Told, ShownDown, ShownUp, CurAt, Running
  <2>3. CASE ui.current # a
    BY <1>1, <1>2, <2>1, <2>3 DEF Told, ShownDown, ShownUp, CurAt, Running
  <2> QED
    BY <2>2, <2>3
<1> QED
  BY <1>5, <1>6, <1>7, <1>8, <1>9, <1>10, WorkTable DEF WorkIs, p, q

LEMMA ToldSwitch ==
  ASSUME CInv, Steady, Told, NEW j \in Job, Switch(j)
  PROVE  Told'
<1>1. /\ UNCHANGED <<ui, gui, attempt>> /\ eng'.active = eng.active /\ eng'.xray = eng.xray
      /\ UNCHANGED events \/ Post(Switched(j))
  BY SwitchTable DEF Steady, SwitchIs, SameShape, Kept
<1>2. NoState' = NoState /\ (TellsTrue => TellsTrue')
  BY <1>1, News
<1> QED
  BY <1>1, <1>2 DEF Told, ShownDown, ShownUp, CurAt, Running

LEMMA ToldClicks ==
  ASSUME CInv, Steady, Told, mishap' = {},
         ClickConnect \/ Restart \/ StopForUser \/ ResumeSwitch \/ Reconnect \/ Relabel
  PROVE  Told'
<1>1. CASE gui' # "idle"
  BY <1>1 DEF Told, ShownDown, ShownUp
<1>2. CASE Begins /\ UNCHANGED core
  <2>1. /\ ui'.current \in Attempt /\ attempt'[ui'.current].pc = "order" /\ ~Running'
        /\ ui'.shown = ui.shown
    BY <1>2 DEF Begins, core, Running
  <2> QED
    BY <2>1, Numbers DEF Told, ShownDown, ShownUp, CurAt
<1>3. CASE StopForUser
  <2>1. ui'.shown = FALSE /\ eng'.active = FALSE
    BY <1>3, EngineFields DEF StopForUser, NewRun, CInv, WindowOK, Window
  <2> QED
    BY <2>1 DEF Told, ShownDown, ShownUp, Running
<1>4. CASE Reconnect /\ (Running \/ ui.connecting)
  BY <1>4 DEF Reconnect, Told, ShownDown, ShownUp, CurAt, Running, NoState, TellsTrue, core
<1>5. CASE Relabel /\ UNCHANGED ui
  BY <1>5 DEF Relabel, Told, ShownDown, ShownUp, CurAt, Running, NoState, TellsTrue, core
<1>6. CASE Relabel /\ SetState(Running)
  <2>1. /\ UNCHANGED <<core, gui, attempt, events>> /\ ui'.current = ui.current
        /\ ui'.shown = (Running /\ (ui.tunMode => TunRunning)) /\ (Running => (TunRunning <=> ui.tunMode))
        /\ gui = "idle"
    <3>1. Running \in BOOLEAN
      BY Fields DEF Running
    <3> QED
      BY <1>6, <3>1, SetStateIs, Fields DEF Relabel, Click, TunRunning
  <2>2. NoState' = NoState /\ TellsTrue' = TellsTrue
    BY <2>1, News
  <2>3. CurAt({"exit"}) => ~Running
    BY <2>1 DEF Steady, RunOfCurrent, CurAt
  <2> QED
    BY <2>1, <2>2, <2>3 DEF Told, ShownDown, ShownUp, CurAt, Running, core
<1>7. ClickConnect \/ ResumeSwitch => Begins \/ gui' = "disconnect"
  BY ToggleIs DEF ClickConnect, ResumeSwitch
<1>8. Reconnect => (Running \/ ui.connecting) \/ Begins \/ gui' = "disconnect"
  BY ToggleIs DEF Reconnect
<1>9. Restart => gui' # "idle"
  BY DEF Restart
<1>10. Relabel => SetState(Running) \/ UNCHANGED ui
  BY DEF Relabel
<1>11. ClickConnect \/ ResumeSwitch \/ Reconnect => UNCHANGED core
  BY DEF ClickConnect, ResumeSwitch, Reconnect
<1> QED
  BY <1>1, <1>2, <1>3, <1>4, <1>5, <1>6, <1>7, <1>8, <1>9, <1>10, <1>11

\* What a switch queued by the window is.
Queued(u, kind) ==
  \/ ui' = u /\ UNCHANGED <<job, fresh>> /\ ~Running
  \/ \E j \in Job : /\ job[j] = NoJob /\ fresh' = fresh \cup {j} /\ Running
                    /\ ui' = [u EXCEPT !.job = j] /\ Alone(j)
                    /\ job'[j].kind = kind /\ job'[j].pc = "begin" /\ job'[j].on = u.proxyMode
                    /\ kind = "proxy" /\ mishap' = {} => ~Last("tun", TunSteps)

LEMMA QueuedIs ==
  ASSUME CInv, Steady, gui = "idle", NEW u \in Window, NEW k \in {"proxy", "tun"}, QueueApply(u, k)
  PROVE  Queued(u, k)
<1>1. CASE ~Running
  BY <1>1 DEF QueueApply, Queued
<1>2. CASE Running
  <2>1. PICK j \in Job :
          /\ job[j] = NoJob /\ fresh' = fresh \cup {j} /\ ui' = [u EXCEPT !.job = j]
          /\ job' = [job EXCEPT ![j] = [NoJob EXCEPT !.kind = k, !.pc = "begin", !.on = u.proxyMode]]
          /\ mishap' = mishap \cup IF k = "proxy" /\ ui.job # 0 /\ job[ui.job].kind = "tun"
                                      /\ Current(ui.job) THEN {"overtaken"} ELSE {}
    BY <1>2 DEF QueueApply
  <2>2. /\ job'[j].kind = k /\ job'[j].pc = "begin" /\ job'[j].on = u.proxyMode
        /\ \A i \in Job : i # j => job'[i] = job[i]
    BY <2>1 DEF NoJob, CInv, JobsOK
  <2>3. Last("tun", TunSteps) => Current(ui.job) /\ job[ui.job].kind = "tun" /\ ui.job # 0
    BY <1>2 DEF Last, Current, Steady, Workers
  <2> QED
    BY <1>2, <2>1, <2>2, <2>3 DEF Queued, Alone
<1> QED
  BY <1>1, <1>2

\* What the window shows and tells is not touched by a change of the switches.
LEMMA ModesIs ==
  ASSUME CInv, Steady, ChangeTun \/ ChangeProxy \/ ApplyProxyTimer
  PROVE  /\ gui = "idle" /\ UNCHANGED <<eng, readers, gui, events, attempt, applyLock>>
         /\ ui'.shown = ui.shown /\ ui'.current = ui.current /\ ui'.connecting = ui.connecting
<1>1. gui = "idle" /\ UNCHANGED <<eng, readers, gui, events, attempt, applyLock>>
  BY DEF ChangeTun, ChangeProxy, ApplyProxyTimer, Click
<1>2. ASSUME NEW u \in Window, QueueApply(u, "proxy") \/ QueueApply(u, "tun") \/ ui' = u
      PROVE  ui'.shown = u.shown /\ ui'.current = u.current /\ ui'.connecting = u.connecting
  <2>1. ui' = u \/ \E j \in Job : ui' = [u EXCEPT !.job = j]
    BY <1>2 DEF QueueApply
  <2> QED
    BY <2>1 DEF Window
<1>3. \E u \in Window : /\ QueueApply(u, "proxy") \/ QueueApply(u, "tun") \/ ui' = u
                        /\ u.shown = ui.shown /\ u.current = ui.current /\ u.connecting = ui.connecting
  <2>1. ui \in Window
    BY DEF CInv, WindowOK
  <2>2. CASE ChangeTun
    <3>1. LET u == [ui EXCEPT !.tunMode = ~@]
          IN  /\ u \in Window /\ u.shown = ui.shown /\ u.current = ui.current /\ u.connecting = ui.connecting
              /\ QueueApply(u, "tun") \/ ui' = u
      BY <2>1, <2>2 DEF ChangeTun, Window
    <3> QED
      BY <3>1
  <2>3. CASE ChangeProxy
    <3>1. LET u == [ui EXCEPT !.proxyMode = ~@]
          IN  /\ u \in Window /\ u.shown = ui.shown /\ u.current = ui.current /\ u.connecting = ui.connecting
              /\ QueueApply(u, "proxy") \/ ui' = u
      BY <2>1, <2>3 DEF ChangeProxy, Window
    <3> QED
      BY <3>1
  <2>4. CASE ApplyProxyTimer
    BY <2>1, <2>4 DEF ApplyProxyTimer
  <2> QED
    BY <2>2, <2>3, <2>4
<1> QED
  BY <1>1, <1>2, <1>3

LEMMA ToldModes ==
  ASSUME CInv, Steady, Told, ChangeTun \/ ChangeProxy \/ ApplyProxyTimer
  PROVE  Told'
BY ModesIs DEF Told, ShownDown, ShownUp, CurAt, Running, NoState, TellsTrue

\* The window has drawn itself as a signal told it.
LEMMA ToldState ==
  ASSUME CInv, Steady, Told, mishap' = {}, NEW b \in BOOLEAN, gui = "idle", events # <<>>,
         events' = Tail(events), Head(events) = Tells(b), SetState(b), UNCHANGED <<core, gui, attempt>>
  PROVE  Told'
<1>1. /\ ui'.current = ui.current /\ ui'.shown = (b /\ Running /\ (ui.tunMode => TunRunning))
      /\ b /\ Running => (TunRunning <=> ui.tunMode)
  BY SetStateIs, Fields DEF TunRunning
<1>2. ShownDown'
  <2>1. CurAt({"exit"}) => ~Running
    BY DEF Steady, RunOfCurrent, CurAt
  <2> QED
    BY <1>1, <2>1 DEF ShownDown, CurAt, Running, core
<1>3. ASSUME Running, CurAt({"done"})
      PROVE  (NoState' /\ ui'.shown) \/ TellsTrue'
  <2>1. ~NoState
    BY Taken DEF NoState
  <2>2. LastIs(events, Tells(TRUE), Tells(FALSE))
    BY <1>3, <2>1 DEF Told, ShownUp, TellsTrue
  <2>3. CASE LastIs(events', Tells(TRUE), Tells(FALSE))
    BY <2>3 DEF TellsTrue, Tells
  <2>4. CASE Tells(b) = Tells(TRUE) /\ ~In(events', Tells(FALSE))
    <3>1. b = TRUE
      BY <2>4, Signals
    <3>2. ui'.shown
      BY <1>1, <1>3, <3>1
    <3>3. In(events', Tells(TRUE)) => TellsTrue'
      BY <2>4 DEF In, LastIs, TellsTrue, Tells
    <3>4. ~In(events', Tells(TRUE)) => NoState'
      BY <2>4 DEF NoState, Tells
    <3> QED
      BY <3>2, <3>3, <3>4
  <2> QED
    <3>1. \A x, y : LastIs(events, x, y) => LastIs(events', x, y) \/ (Head(events) = x /\ ~In(events', y))
      BY Taken
    <3>2. LastIs(events', Tells(TRUE), Tells(FALSE)) \/ (Head(events) = Tells(TRUE) /\ ~In(events', Tells(FALSE)))
      BY <2>2, <3>1
    <3> QED
      BY <2>3, <2>4, <3>2
<1>4. ShownUp'
  BY <1>1, <1>3 DEF ShownUp, CurAt, Running, core
<1> QED
  BY <1>2, <1>4 DEF Told

\* A signal of a switch leaves the news as they are.
LEMMA NewsApplied ==
  ASSUME CInv, events # <<>>, events' = Tail(events), NEW j \in Job, Head(events) = Switched(j)
  PROVE  NoState' = NoState /\ (TellsTrue => TellsTrue')
<1>1. Switched(j) # Tells(TRUE) /\ Switched(j) # Tells(FALSE)
  BY Signals
<1>2. \A b \in BOOLEAN : In(events', Tells(b)) <=> In(events, Tells(b))
  BY <1>1, Taken
<1>3. LastIs(events, Tells(TRUE), Tells(FALSE)) => LastIs(events', Tells(TRUE), Tells(FALSE))
  BY <1>1, Taken
<1> QED
  BY <1>2, <1>3 DEF NoState, TellsTrue, Tells

LEMMA ToldSignal ==
  ASSUME CInv, Steady, Told, mishap' = {}, HandleSignal
  PROVE  Told'
<1>1. UNCHANGED <<core, gui, attempt>> /\ gui = "idle" /\ events # <<>> /\ events' = Tail(events)
  BY DEF HandleSignal
<1>2. ASSUME NEW b \in BOOLEAN, Head(events) = Tells(b)
      PROVE  Told'
  <2>1. SetState(b)
    BY <1>2, Signals DEF HandleSignal
  <2> QED
    BY <1>1, <1>2, <2>1, ToldState
<1>3. ASSUME NEW j \in Job, Head(events) = Switched(j)
      PROVE  Told'
  <2>1. ModeApplied(j)
    BY <1>3, Signals DEF HandleSignal
  <2>2. ui'.current = ui.current /\ ui'.shown = ui.shown
    BY <2>1, AppliedIs
  <2>3. NoState' = NoState /\ (TellsTrue => TellsTrue')
    BY <1>1, <1>3, NewsApplied
  <2> QED
    BY <1>1, <2>2, <2>3 DEF Told, ShownDown, ShownUp, CurAt, Running, core
<1> QED
  BY <1>1, <1>2, <1>3, Taken

\* What dies, stops or quits, as far as the engine and the news go.
LEMMA OutsideIs ==
  ASSUME CInv, Steady, Quit \/ Dies \/ ReaderStops
  PROVE  \/ gui' # "idle"
         \/ /\ UNCHANGED <<fresh, ui, gui, timers, attempt, job, applyLock>>
            /\ eng'.active = eng.active /\ eng'.windows = eng.windows
            /\ UNCHANGED events
            /\ \/ eng'.xray = eng.xray /\ (eng'.tun = eng.tun \/ eng'.tun = "dead")
               \/ eng'.xray = "dead"
         \/ /\ UNCHANGED <<ui, gui, attempt>> /\ eng'.active = FALSE
            /\ IF eng.active THEN Post(Tells(FALSE)) ELSE UNCHANGED events
<1>1. CASE Quit
  BY <1>1 DEF Quit
<1>2. CASE Dies
  <2>1. /\ UNCHANGED <<fresh, ui, gui, timers, events, attempt, job, applyLock>>
        /\ eng' = [eng EXCEPT !.xray = "dead"] \/ eng' = [eng EXCEPT !.tun = "dead"]
    BY <1>2 DEF Dies
  <2> QED
    BY <2>1 DEF CInv, CoreOK, EngineState
<1>3. CASE ReaderStops
  BY <1>3, EngineFields DEF ReaderStops, Tells, CInv
<1> QED
  BY <1>1, <1>2, <1>3

LEMMA ToldOutside ==
  ASSUME CInv, Steady, Told, Quit \/ Dies \/ ReaderStops
  PROVE  Told'
<1>1. CASE gui' # "idle"
  BY <1>1 DEF Told, ShownDown, ShownUp
<1>2. CASE /\ UNCHANGED <<ui, gui, attempt, events>> /\ eng'.active = eng.active
           /\ eng'.xray = eng.xray \/ eng'.xray = "dead"
  BY <1>2 DEF Told, ShownDown, ShownUp, CurAt, Running, NoState, TellsTrue
<1>3. CASE /\ UNCHANGED <<ui, gui, attempt>> /\ eng'.active = FALSE
           /\ IF eng.active THEN Post(Tells(FALSE)) ELSE UNCHANGED events
  <2>1. IF eng.active THEN ~NoState' ELSE NoState' = NoState
    BY <1>3, News
  <2>2. ~Running'
    BY <1>3 DEF Running
  <2> QED
    BY <1>3, <2>1, <2>2 DEF Told, ShownDown, ShownUp, CurAt
<1> QED
  BY <1>1, <1>2, <1>3, OutsideIs

-----------------------------------------------------------------------------
(* The switches and what is in force stay agreed: attempts *)

\* Without a run there is nothing to agree on.
LEMMA AgreedDown == ASSUME ~Up' PROVE Agreed'
BY DEF Agreed, LastFresh, LastTun, LockKept, ProxyWithoutTun, UnderTun, TunAgrees, ProxyAgrees, ProxyPutBack,
       Settling, InForce

\* A step under the lock by the attempt that counts.
ModeStep(p, q) ==
  /\ p \in {"proxy", "proxy set", "mode set"} => eng'.tun = eng.tun
  /\ q \in {"proxy", "proxy set", "mode set"} => p \in {"proxy", "proxy set"} \/ eng'.tun # "up"
  /\ p \notin {"proxy", "proxy set", "mode set"} =>
       q \in {"tun up", "tun ok", "drop", "next"} \/ eng'.tun # "up" \/ ~eng'.windows

LEMMA ModeCall ==
  ASSUME CInv, NEW a \in Attempt, Work(a), ui.current = a, a \in fresh, Running, attempt[a].pc \in Mode
  PROVE  ModeStep(attempt[a].pc, attempt'[a].pc)
<1>1. CoreOK /\ ThreadsOK /\ ~Superseded(a)
  BY DEF CInv, Superseded, EventSet
<1>2. ASSUME NEW q, Go(a, q)
      PROVE  attempt'[a].pc = q
  BY <1>1, <1>2, GoIs
<1>3. CASE ChooseMode(a)
  <2>1. /\ attempt[a].pc = "choose"
        /\ \/ Go(a, "drop")
           \/ Go(a, "proxy") /\ UNCHANGED eng /\ ~TunRunning
           \/ Go(a, "tun up")
           \/ Go(a, "next")
    BY <1>1, <1>3 DEF ChooseMode, Call, Stay, Leave, core, At
  <2> QED
    BY <1>2, <2>1 DEF ModeStep, TunRunning
<1>4. CASE ProbeTun(a)
  <2>1. attempt[a].pc = "tun up" /\ \E q \in {"drop", "tun ok", "next"} : Go(a, q)
    BY <1>1, <1>4 DEF ProbeTun, Stay, Leave, At
  <2> QED
    BY <1>2, <2>1 DEF ModeStep
<1>5. CASE UseTun(a)
  <2>1. /\ attempt[a].pc = "tun ok"
        /\ \/ \E q \in {"drop", "next"} : Go(a, q)
           \/ /\ attempt' = [attempt EXCEPT ![a].pc = "save", ![a].tun = TRUE]
              /\ eng' = WithoutProxy
    BY <1>1, <1>5 DEF UseTun, Stay, Leave, At, SameRun
  <2>2. CASE \E q \in {"drop", "next"} : Go(a, q)
    BY <1>2, <2>1, <2>2 DEF ModeStep
  <2>3. CASE attempt' = [attempt EXCEPT ![a].pc = "save", ![a].tun = TRUE] /\ eng' = WithoutProxy
    <3>1. attempt'[a].pc = "save"
      BY <1>1, <2>3 DEF ThreadsOK, Thread
    <3>2. WithoutProxy.windows = FALSE
      BY <1>1, EngineFields
    <3> QED
      BY <2>1, <2>3, <3>1, <3>2 DEF ModeStep
  <2> QED
    BY <2>1, <2>2, <2>3
<1>6. CASE DropTun(a)
  <2>1. /\ attempt[a].pc = "drop"
        /\ \/ Go(a, "next")
           \/ Go(a, "choose") /\ (eng' = TunDown \/ eng' = [WithProxy EXCEPT !.tun = "off"])
    BY <1>1, <1>6 DEF DropTun, Call, Stay, Leave, At, SameRun
  <2>2. eng' = TunDown \/ eng' = [WithProxy EXCEPT !.tun = "off"] => eng'.tun = "off"
    BY <1>1, EngineFields
  <2> QED
    BY <1>2, <2>1, <2>2 DEF ModeStep
<1>7. CASE UseProxy(a) \/ ProxySet(a)
  <2>1. /\ attempt[a].pc \in {"proxy", "proxy set"} /\ \E q \in {"mode set", "proxy set", "next"} : Go(a, q)
        /\ UNCHANGED core \/ ProxyIs(TRUE) \/ ProxyIs(FALSE) \/ ProxyFails
    BY <1>1, <1>7 DEF UseProxy, ProxySet, SetProxy, Call, Stay, Leave, At, Superseded, ProxyIs, ProxyFails, core
  <2>2. eng'.tun = eng.tun
    BY <1>1, <2>1, SetProxyIs, SetProxyFails DEF core
  <2> QED
    BY <1>2, <2>1, <2>2 DEF ModeStep
<1>8. CASE ModeSet(a)
  <2>1. attempt[a].pc = "mode set" /\ UNCHANGED core /\ \E q \in {"choose", "save"} : Go(a, q)
    BY <1>1, <1>8 DEF ModeSet, Stay, Leave, At
  <2> QED
    BY <1>2, <2>1 DEF ModeStep, core
<1> QED
  BY <1>3, <1>4, <1>5, <1>6, <1>7, <1>8
  DEF Work, Mode, At, OrderProfiles, TryProfile, Probe, Fallback, StartAgain, Locate, TryFails, EnterMode,
      SaveRoute, Succeed, Fail, Finally

\* What an attempt leaves alone of what the switches rest on.
LEMMA LastWork ==
  ASSUME CInv, NEW a \in Attempt, Work(a), SameRun(eng') \/ Enters(a, attempt[a].pc, attempt'[a].pc)
  PROVE  /\ \A k, S : Last(k, S)' = Last(k, S)
         /\ \A j \in Job : j \in fresh' <=> j \in fresh
<1>1. UNCHANGED <<ui, job>> /\ \A j \in Job : j \in fresh' <=> j \in fresh
  BY Numbers DEF Work, SameRun, Enters
<1> QED
  BY <1>1, Fields DEF Last

\* The run of the engine goes on: what only switches touch stays as it is.
LEMMA SwitchesWork ==
  ASSUME CInv, Agreed, NEW a \in Attempt, Work(a), Up' => Up,
         SameRun(eng') \/ Enters(a, attempt[a].pc, attempt'[a].pc)
  PROVE  LastFresh' /\ LastTun' /\ LockKept'
<1>1. UNCHANGED <<ui, job>> /\ (\A k, S : Last(k, S)' = Last(k, S)) /\ \A j \in Job : j \in fresh' <=> j \in fresh
  BY LastWork DEF Work
<1>2. LastFresh'
  BY <1>1, Fields DEF Agreed, LastFresh
<1>3. LastTun'
  BY <1>1 DEF Agreed, LastTun, TunSteps, Reporting
<1>4. LockKept'
  BY <1>1 DEF Agreed, LockKept
<1> QED
  BY <1>2, <1>3, <1>4

LEMMA AgreedWork ==
  ASSUME CInv, Steady, Agreed, NEW a \in Attempt, Work(a)
  PROVE  Agreed'
<1> DEFINE p == attempt[a].pc
           q == attempt'[a].pc
<1> SUFFICES ASSUME Up' PROVE Agreed'
  BY AgreedDown
<1>1. /\ CoreOK /\ UNCHANGED <<ui, gui, timers, job>> /\ ui.current \in {0} \cup Attempt /\ 0 \notin Attempt
      /\ gui = "idle" /\ (Cancelled(a) <=> ui.current # a)
  BY WorkTable, WorkAt, Fields, Numbers DEF CInv, WorkIs, Steady, Up
<1>2. /\ attempt[a].pc = p /\ attempt'[a].pc = q /\ \A b \in Attempt : b # a => attempt'[b] = attempt[b]
      /\ Moves(a, p, q) \/ Stops(a, p, q) \/ Starts(a, p, q) \/ Enters(a, p, q) \/ Applies(a, p, q)
         \/ Tellings(a, p, q)
  BY WorkTable DEF WorkIs, Hop
<1>3. ~Stops(a, p, q)
  BY <1>1, EngineFields DEF Stops, NewRun, Up, Running
<1>4. CASE Starts(a, p, q)
  <2>1. eng'.tun = "off" /\ fresh' = {} /\ q = "probe" /\ ui.current = a
    BY <1>1, <1>4, EngineFields DEF Starts, NewRun
  <2>2. ~CurAt({"done"})' /\ ~CurAt({"proxy", "proxy set", "mode set"})'
    BY <1>1, <1>2, <2>1 DEF CurAt
  <2>3. \A k, S : ~Last(k, S)'
    BY <2>1 DEF Last
  <2> QED
    BY <2>1, <2>2, <2>3
    DEF Agreed, LastFresh, LastTun, LockKept, ProxyWithoutTun, UnderTun, TunAgrees, ProxyAgrees, ProxyPutBack,
        Settling, InForce, TunRunning
<1>5. CASE ~Starts(a, p, q)
  <2> HIDE DEF p, q
  <2>1. /\ SameRun(eng') \/ Enters(a, p, q)
        /\ eng'.active = eng.active /\ eng'.xray = eng.xray
        /\ UNCHANGED eng \/ Applies(a, p, q)
    BY <1>1, <1>2, <1>3, <1>5, StaysAsItIs DEF Moves, Enters, Applies, Tellings, SameShape, Kept, core
  <2>2. Up /\ Running
    BY <1>1, <2>1 DEF Up, Running
  <2>3. LastFresh' /\ LastTun' /\ LockKept'
    BY <2>1, <2>2, SwitchesWork DEF p, q
  <2>4. \A k, S : Last(k, S)' = Last(k, S)
    BY <2>1, LastWork DEF p, q
  <2>5. CASE ui.current # a
    <3>1. UNCHANGED eng
      BY <1>1, <1>2, <2>1, <2>2, <2>5 DEF Applies, Steady, RunOfCurrent
    <3>2. NoState' => NoState
      BY <1>1, <1>2, <1>3, <1>5, <2>5, News DEF Moves, Enters, Applies, Tellings
    <3>3. \A S : CurAt(S)' = CurAt(S)
      BY <1>1, <1>2, <2>5 DEF CurAt
    <3>4. InForce' => InForce
      BY <1>1, <2>2, <3>2, <3>3 DEF InForce
    <3>5. ProxyWithoutTun' /\ UnderTun'
      BY <2>2, <2>4, <3>1, <3>3 DEF Agreed, ProxyWithoutTun, UnderTun, TunRunning
    <3>6. TunAgrees' /\ ProxyPutBack'
      BY <1>1, <2>4, <3>1, <3>4 DEF Agreed, TunAgrees, ProxyPutBack, TunRunning, Reporting
    <3>7. ProxyAgrees'
      BY <1>1, <2>4, <3>1, <3>4 DEF Agreed, ProxyAgrees, Settling, TunRunning, Reporting
    <3> QED
      BY <2>3, <3>5, <3>6, <3>7 DEF Agreed
  <2>6. CASE ui.current = a
    <3>1. ~InForce'
      BY <1>1, <1>2, <1>3, <1>5, <2>6, News DEF Moves, Enters, Applies, Tellings, InForce, CurAt, Mode
    <3>2. \A S : (CurAt(S) <=> p \in S) /\ (CurAt(S)' <=> q \in S)
      BY <1>1, <1>2, <2>6 DEF CurAt
    <3>3. CASE Applies(a, p, q)
      <4>1. p \in Mode
        BY <3>3 DEF Applies
      <4>2. ModeStep(p, q)
        BY <1>1, <2>2, <2>6, <3>2, <4>1, ModeCall DEF Up, Running, Steady, RunOfCurrent, p, q
      <4>3. ProxyWithoutTun'
        BY <2>2, <3>2, <4>2 DEF ModeStep, Agreed, ProxyWithoutTun, TunRunning
      <4>4. UnderTun'
        BY <2>2, <2>4, <3>2, <4>2 DEF ModeStep, Agreed, ProxyWithoutTun, UnderTun, TunRunning
      <4> QED
        BY <2>3, <3>1, <4>3, <4>4 DEF Agreed, TunAgrees, ProxyAgrees, ProxyPutBack, Settling
    <3>4. CASE ~Applies(a, p, q)
      <4>1. /\ UNCHANGED eng /\ q \notin {"proxy", "proxy set", "mode set"}
            /\ p \notin {"tun up", "tun ok", "drop", "next"}
        BY <1>2, <1>3, <1>5, <2>1, <3>4 DEF Moves, Enters, Tellings
      <4>2. ProxyWithoutTun' /\ UnderTun'
        BY <2>2, <2>4, <3>2, <4>1 DEF Agreed, ProxyWithoutTun, UnderTun, TunRunning
      <4> QED
        BY <2>3, <3>1, <4>2 DEF Agreed, TunAgrees, ProxyAgrees, ProxyPutBack, Settling
    <3> QED
      BY <3>3, <3>4
  <2> QED
    BY <2>5, <2>6
<1> QED
  BY <1>4, <1>5

-----------------------------------------------------------------------------
(* The switches and what is in force stay agreed: jobs *)

SameModes == eng'.tun = eng.tun /\ eng'.windows = eng.windows
\* A step of the last switch, of the proxy or of TUN, while its run goes on.
ProxyTurn(j) ==
  \/ job[j].pc = "begin" /\ Onto(j, "read") /\ SameModes
  \/ /\ job[j].pc = "read" /\ job'[j].kind = job[j].kind /\ job'[j].pc = "apply" /\ job'[j].on = job[j].on
     /\ job'[j].want = (ui.proxyMode /\ ~ui.tunMode) /\ SameModes
  \/ /\ job[j].pc = "apply" /\ Results(j, job[j].want, TRUE)
     /\ eng'.windows = job[j].want /\ eng'.tun = eng.tun /\ ~(job[j].want /\ TunRunning)
  \/ /\ job[j].pc = "apply" /\ Results(j, job[j].on, FALSE)
     /\ SameModes /\ eng.windows = (~job[j].on /\ ~TunRunning)
  \/ job[j].pc = "report" /\ Onto(j, "reported") /\ SameModes
TunTurn(j) ==
  \/ job[j].pc = "begin" /\ Onto(j, IF ui.tunMode THEN "up" ELSE "down") /\ SameModes
  \/ /\ job[j].pc = "up" /\ applyLock = 0
     /\ (Onto(j, "probe") /\ eng'.tun = "up") \/ (Onto(j, "undo") /\ eng'.tun = "off")
  \/ job[j].pc = "probe" /\ (Onto(j, "suspend") \/ Onto(j, "undo")) /\ SameModes
  \/ /\ job[j].pc = "suspend" /\ eng'.tun = eng.tun
     /\ Onto(j, "undo") \/ (Results(j, TRUE, TRUE) /\ eng'.windows = FALSE)
  \/ job[j].pc = "undo" /\ Results(j, TRUE, FALSE) /\ eng'.tun = "off" /\ eng'.windows = ui.proxyMode
  \/ /\ job[j].pc = "down" /\ eng'.tun = eng.tun /\ applyLock = 0
     /\ \/ Onto(j, "untun") /\ eng'.windows = ui.proxyMode
        \/ Results(j, FALSE, FALSE) /\ SameModes /\ eng.windows = (ui.proxyMode /\ ~TunRunning)
  \/ job[j].pc = "untun" /\ Results(j, FALSE, TRUE) /\ eng'.tun = "off" /\ eng'.windows = eng.windows
  \/ job[j].pc = "report" /\ Onto(j, "reported") /\ SameModes

LEMMA StillWanted ==
  ASSUME CInv, Steady, Agreed, Up, NEW j \in Job, j = ui.job, j \in fresh
  PROVE  /\ Current(j)
         /\ job[j].kind = "tun" /\ job[j].pc \in {"up", "probe", "suspend", "undo"} => Wants(j, TRUE) /\ ui.tunMode
         /\ job[j].kind = "tun" /\ job[j].pc \in {"down", "untun"} => Wants(j, FALSE) /\ ~ui.tunMode
<1>1. Current(j) /\ j # 0
  BY Numbers DEF Current, Up, Steady, Workers
<1>2. \A S : Last("tun", S) <=> job[j].kind = "tun" /\ job[j].pc \in S
  BY <1>1 DEF Last
<1> QED
  BY <1>1, <1>2, Fields DEF Wants, Agreed, LastTun

LEMMA LastProxyTurn ==
  ASSUME CInv, Steady, Agreed, Up, NEW j \in Job, j = ui.job, j \in fresh, Switch(j), mishap' = {},
         job[j].kind = "proxy"
  PROVE  ProxyTurn(j)
<1>1. /\ Current(j) /\ Running /\ CoreOK /\ JobsOK /\ job[j].on \in BOOLEAN /\ job[j].want \in BOOLEAN
      /\ eng.windows \in BOOLEAN
  BY StillWanted, JobFields, Fields DEF CInv, Up
<1>2. \A p : JobGo(j, p) => Onto(j, p)
  BY <1>1, JobSteps
<1>3. \A on, ok : Result(j, on, ok) => Results(j, on, ok)
  BY <1>1, JobSteps
<1>4. UNCHANGED core => SameModes
  BY DEF core, SameModes
<1>5. CASE ProxyBegin(j) \/ Report(j)
  BY <1>1, <1>2, <1>4, <1>5 DEF ProxyBegin, Report, JobAt, ProxyTurn
<1>6. CASE ProxyRead(j)
  <2>1. /\ job[j] \in ModeJob /\ job[j].pc = "read" /\ UNCHANGED core
        /\ job' = [job EXCEPT ![j] = [job[j] EXCEPT !.pc = "apply", !.want = ui.proxyMode /\ ~ui.tunMode]]
    BY <1>1, <1>6 DEF ProxyRead, JobsOK, JobAt
  <2>2. /\ job'[j].kind = job[j].kind /\ job'[j].pc = "apply" /\ job'[j].on = job[j].on
        /\ job'[j].want = (ui.proxyMode /\ ~ui.tunMode)
    BY <1>1, <2>1 DEF ModeJob, JobsOK
  <2> QED
    BY <1>4, <2>1, <2>2 DEF ProxyTurn
<1>7. CASE ProxyApply(j)
  <2>1. /\ job[j].pc = "apply"
        /\ \/ /\ Result(j, job[j].want, TRUE) /\ ProxyIs(job[j].want)
              /\ ~(job[j].want /\ TunRunning)
           \/ /\ Result(j, job[j].on, FALSE) /\ ProxyFails /\ eng.windows = (~job[j].on /\ ~TunRunning)
    BY <1>1, <1>7 DEF ProxyApply, JobAt, SetProxy, Call, ProxyIs, ProxyFails, Left, core
  <2> QED
    BY <1>1, <1>3, <2>1, SetProxyIs, SetProxyFails DEF ProxyTurn, SameModes
<1> QED
  BY <1>5, <1>6, <1>7 DEF Switch, TunBegin, TunStart, TunProbe, TunSuspend, TunUndo, TunProxy, TunStop, JobAt

LEMMA LastTunTurn ==
  ASSUME CInv, Steady, Agreed, Up, NEW j \in Job, j = ui.job, j \in fresh, Switch(j), mishap' = {},
         job[j].kind = "tun"
  PROVE  TunTurn(j)
<1>1. /\ Current(j) /\ Running /\ CoreOK /\ JobsOK /\ ui.proxyMode \in BOOLEAN /\ eng.windows \in BOOLEAN
      /\ job[j].pc \in {"up", "probe", "suspend", "undo"} => Wants(j, TRUE) /\ ui.tunMode
      /\ job[j].pc \in {"down", "untun"} => Wants(j, FALSE) /\ ~ui.tunMode
  BY StillWanted, Fields DEF CInv, Up
<1>2. \A p : JobGo(j, p) => Onto(j, p)
  BY <1>1, JobSteps
<1>3. \A on, ok : Result(j, on, ok) => Results(j, on, ok)
  BY <1>1, JobSteps
<1>4. UNCHANGED core => SameModes
  BY DEF core, SameModes
<1>5. CASE TunBegin(j) \/ TunProbe(j) \/ Report(j)
  BY <1>1, <1>2, <1>4, <1>5 DEF TunBegin, TunProbe, Report, JobAt, TunTurn
<1>6. CASE TunStart(j)
  <2>1. /\ job[j].pc = "up" /\ applyLock = 0
        /\ \/ JobGo(j, "probe") /\ eng' = TunUp
           \/ JobGo(j, "undo") /\ eng' = TunDown
    BY <1>1, <1>6 DEF TunStart, JobAt, Call, SameRun
  <2>2. TunUp.tun = "up" /\ TunDown.tun = "off"
    BY <1>1, EngineFields
  <2> QED
    BY <1>2, <2>1, <2>2 DEF TunTurn
<1>7. CASE TunSuspend(j)
  <2>1. /\ job[j].pc = "suspend"
        /\ \/ JobGo(j, "undo") /\ (UNCHANGED core \/ ProxyFails)
           \/ Result(j, TRUE, TRUE) /\ ProxyIs(FALSE)
    BY <1>1, <1>7 DEF TunSuspend, JobAt, SetProxy, Call, ProxyIs, ProxyFails, core
  <2> QED
    BY <1>1, <1>2, <1>3, <1>4, <2>1, SetProxyIs, SetProxyFails DEF TunTurn, SameModes
<1>8. CASE TunUndo(j)
  <2>1. /\ job[j].pc = "undo" /\ Result(j, TRUE, FALSE)
        /\ \/ eng' = [WithProxy EXCEPT !.tun = "off"] /\ ui.proxyMode
           \/ eng' = TunDown /\ eng.windows = ui.proxyMode
    BY <1>1, <1>8 DEF TunUndo, JobAt, Call, SameRun, Left
  <2>2. /\ LET e == [WithProxy EXCEPT !.tun = "off"] IN e.tun = "off" /\ e.windows = TRUE
        /\ TunDown.tun = "off" /\ TunDown.windows = eng.windows
    BY <1>1, EngineFields
  <2>3. eng'.tun = "off" /\ eng'.windows = ui.proxyMode
    BY <1>1, <2>1, <2>2
  <2> QED
    BY <1>3, <2>1, <2>3 DEF TunTurn
<1>9. CASE TunProxy(j)
  <2>1. /\ job[j].pc = "down" /\ applyLock = 0
        /\ \/ JobGo(j, "untun") /\ ProxyIs(ui.proxyMode)
           \/ Result(j, FALSE, FALSE) /\ ProxyFails /\ eng.windows = (ui.proxyMode /\ ~TunRunning)
    BY <1>1, <1>9 DEF TunProxy, JobAt, SetProxy, Call, ProxyIs, ProxyFails, Left, core
  <2> QED
    BY <1>1, <1>2, <1>3, <2>1, SetProxyIs, SetProxyFails DEF TunTurn, SameModes
<1>10. CASE TunStop(j)
  <2>1. job[j].pc = "untun" /\ Result(j, FALSE, TRUE) /\ eng' = TunDown
    BY <1>1, <1>10 DEF TunStop, JobAt, SameRun
  <2>2. TunDown.tun = "off" /\ TunDown.windows = eng.windows
    BY <1>1, EngineFields
  <2> QED
    BY <1>3, <2>1, <2>2 DEF TunTurn
<1> QED
  BY <1>5, <1>6, <1>7, <1>8, <1>9, <1>10 DEF Switch, ProxyBegin, ProxyRead, ProxyApply, JobAt

\* A superseded switch: only one of the proxy that holds the lock still does something.
LEMMA OtherTurn ==
  ASSUME CInv, Steady, NEW j \in Job, Switch(j), ~(j = ui.job /\ j \in fresh)
  PROVE  /\ UNCHANGED events /\ eng'.tun = eng.tun
         /\ \/ JobGone(j)
            \/ job[j].kind # "none" /\ job'[j].kind = job[j].kind /\ job'[j].pc = "report"
         /\ \/ SameModes
            \/ j \in fresh /\ job[j].kind = "proxy" /\ job[j].pc = "apply"
<1>1. ~Current(j) /\ CoreOK /\ JobsOK /\ job[j].want \in BOOLEAN
  BY JobFields DEF Current, CInv
<1>2. JobEnds(j) => JobGone(j)
  BY <1>1, JobSteps
<1>3. UNCHANGED core => SameModes
  BY DEF core, SameModes
<1>4. CASE ProxyApply(j)
  <2>1. /\ JobAt(j, "proxy", "apply") /\ UNCHANGED events
        /\ JobEnds(j) \/ \E on, ok : Result(j, on, ok)
        /\ UNCHANGED core \/ (j \in fresh /\ (ProxyIs(job[j].want) \/ ProxyFails))
    BY <1>1, <1>4 DEF ProxyApply, SetProxy, Call, Quits, ProxyIs, ProxyFails, core
  <2>2. UNCHANGED core \/ j \in fresh
    BY <2>1
  <2>3. eng'.tun = eng.tun
    BY <1>1, <1>3, <2>1, SetProxyIs, SetProxyFails DEF SameModes
  <2>4. JobGone(j) \/ (job'[j].kind = job[j].kind /\ job'[j].pc = "report")
    BY <1>1, <2>1, JobSteps DEF Results
  <2> QED
    BY <1>3, <2>1, <2>2, <2>3, <2>4 DEF JobAt
<1>5. CASE ~ProxyApply(j)
  <2>1. JobEnds(j) /\ UNCHANGED <<core, events>>
    BY <1>1, <1>5 DEF Switch, ProxyBegin, ProxyRead, TunBegin, TunStart, TunProbe, TunSuspend, TunUndo, TunProxy,
                       TunStop, Report, Quits, Wants
  <2> QED
    BY <1>2, <1>3, <2>1 DEF SameModes
<1> QED
  BY <1>4, <1>5

LEMMA AgreedOther ==
  ASSUME CInv, Steady, Agreed, Up, NEW j \in Job, Switch(j), ~(j = ui.job /\ j \in fresh)
  PROVE  Agreed'
<1>1. /\ UNCHANGED <<ui, gui, timers, attempt, fresh>> /\ \A i \in Job : i # j => job'[i] = job[i]
      /\ eng'.active = eng.active /\ eng'.xray = eng.xray
  BY SwitchTable DEF Steady, SwitchIs, SameShape, Kept, Alone
<1>2. /\ UNCHANGED events /\ eng'.tun = eng.tun
      /\ \/ JobGone(j)
         \/ job[j].kind # "none" /\ job'[j].kind = job[j].kind /\ job'[j].pc = "report"
      /\ \/ SameModes
         \/ j \in fresh /\ job[j].kind = "proxy" /\ job[j].pc = "apply"
  BY OtherTurn
<1>3. ui.job # 0 /\ ui.job \in fresh => job'[ui.job] = job[ui.job]
  BY <1>1, Fields
<1>4. \A k, S : Last(k, S)' = Last(k, S)
  BY <1>1, <1>3 DEF Last
<1>5. \A k, S : Last(k, S) => job'[ui.job] = job[ui.job]
  BY <1>3 DEF Last
<1>6. /\ \A S : CurAt(S)' = CurAt(S)
      /\ InForce' = InForce /\ Up' /\ TunRunning' = TunRunning
  BY <1>1, <1>2, News DEF CurAt, InForce, Up, Running, TunRunning
<1>7. ~SameModes => Last("proxy", {"begin"}) \/ Last("tun", {"begin", "up", "down"})
  BY <1>2 DEF Agreed, LockKept
<1>8. LastFresh' /\ LastTun'
  BY <1>1, <1>4, <1>5 DEF Agreed, LastFresh, LastTun, TunSteps, Reporting
<1>9. LockKept'
  BY <1>1, <1>2, <1>4, NoJobIs DEF Agreed, LockKept, JobGone
<1>10. ProxyWithoutTun'
  BY <1>6 DEF Agreed, ProxyWithoutTun
<1>11. UnderTun'
  BY <1>4, <1>6, <1>7, Fields DEF Agreed, UnderTun, SameModes, Last
<1>12. TunAgrees'
  BY <1>1, <1>2, <1>4, <1>5, <1>6 DEF Agreed, TunAgrees, Reporting
<1>13. CASE SameModes
  <2>1. ProxyAgrees'
    BY <1>1, <1>2, <1>4, <1>5, <1>6, <1>13 DEF Agreed, ProxyAgrees, Settling, Reporting, SameModes
  <2>2. ProxyPutBack'
    BY <1>1, <1>2, <1>4, <1>5, <1>6, <1>13 DEF Agreed, ProxyPutBack, Reporting, SameModes
  <2> QED
    BY <1>8, <1>9, <1>10, <1>11, <1>12, <2>1, <2>2 DEF Agreed
<1>14. CASE ~SameModes
  <2>1. Last("proxy", {"begin"}) \/ Last("tun", {"begin", "up", "down"})
    BY <1>7, <1>14
  <2>2. /\ ~Last("proxy", Reporting) /\ ~Last("tun", Reporting) /\ ~Last("proxy", {"apply"}) /\ ~Last("tun", {"untun"})
        /\ ~ui.tunMode => Last("proxy", {"begin"}) \/ Last("tun", {"begin", "down"})
    BY <2>1 DEF Agreed, LastTun, Last, Reporting
  <2>3. ProxyAgrees'
    <3>1. /\ ~Last("proxy", Reporting)' /\ ~Last("tun", Reporting)' /\ ~Last("proxy", {"apply"})'
          /\ ~Last("tun", {"untun"})'
          /\ ~ui.tunMode => Last("proxy", {"begin", "read", "apply"})' \/ Last("tun", {"begin", "down"})'
      BY <1>4, <2>2 DEF Reporting, Last
    <3>2. Settling' => ~ui.tunMode /\ Settling
      BY <1>1, <1>6 DEF Settling
    <3>3. Last("proxy", {"begin", "read", "apply"})' => Last("proxy", {"begin", "read", "apply"})
      BY <1>4
    <3>4. Settling' /\ Last("proxy", {"begin", "read", "apply"})' => job'[ui'.job].on = ui'.proxyMode
      BY <1>1, <1>5, <3>2, <3>3 DEF Agreed, ProxyAgrees
    <3> QED
      BY <3>1, <3>2, <3>4 DEF ProxyAgrees
  <2>4. ProxyPutBack'
    BY <1>4, <2>2 DEF ProxyPutBack, Reporting
  <2> QED
    BY <1>8, <1>9, <1>10, <1>11, <1>12, <2>3, <2>4 DEF Agreed
<1> QED
  BY <1>13, <1>14

\* No attempt and no other switch holds the lock while the last one needs it.
LEMMA LockFree ==
  ASSUME CInv, Steady, applyLock = 0
  PROVE  ~CurAt(Mode) /\ \A i \in Job : ~JobHolds(i)
BY Fields, Numbers DEF Steady, LockHeld, CurAt

LEMMA AgreedProxy ==
  ASSUME CInv, Steady, Agreed, Up, NEW j \in Job, Switch(j), j = ui.job, j \in fresh, mishap' = {},
         job[j].kind = "proxy"
  PROVE  Agreed'
<1>1. /\ UNCHANGED <<ui, gui, timers, attempt, fresh>> /\ \A i \in Job : i # j => job'[i] = job[i]
      /\ eng'.active = eng.active /\ eng'.xray = eng.xray
      /\ UNCHANGED events \/ Post(Switched(j))
  BY SwitchTable DEF Steady, SwitchIs, SameShape, Kept, Alone
<1>2. ProxyTurn(j) /\ j # 0 /\ job'[j].kind = "proxy" /\ eng'.tun = eng.tun
  BY LastProxyTurn, Numbers DEF ProxyTurn, Onto, Results, SameModes
<1>3. /\ \A S : ~Last("tun", S) /\ ~Last("tun", S)'
      /\ \A S : (Last("proxy", S) <=> job[j].pc \in S) /\ (Last("proxy", S)' <=> job'[j].pc \in S)
  BY <1>1, <1>2 DEF Last
<1>4. /\ \A S : CurAt(S)' = CurAt(S)
      /\ InForce' = InForce /\ Settling' = Settling /\ Up' /\ TunRunning' = TunRunning
      /\ ui.tunMode \in BOOLEAN /\ ui.proxyMode \in BOOLEAN /\ eng.windows \in BOOLEAN
  BY <1>1, <1>2, News, Fields DEF CurAt, InForce, Settling, Up, Running, TunRunning
<1>5. LastFresh' /\ LastTun'
  BY <1>1, <1>2, <1>3 DEF LastFresh, LastTun
<1>6. LockKept'
  <2>1. ASSUME NEW i \in Job, i # j, i \in fresh, job[i].kind = "proxy", job[i].pc \in {"read", "apply"}
        PROVE  FALSE
    <3>1. job[j].pc = "begin"
      BY <1>3, <2>1 DEF Agreed, LockKept
    <3>2. ProxyBegin(j)
      BY <3>1 DEF Switch, ProxyBegin, ProxyRead, ProxyApply, TunBegin, TunStart, TunProbe, TunSuspend, TunUndo,
                  TunProxy, TunStop, Report, JobAt
    <3> QED
      BY <2>1, <3>2, LockFree DEF ProxyBegin, JobHolds
  <2> QED
    BY <1>1, <2>1 DEF LockKept
<1>7. ProxyWithoutTun'
  BY <1>4 DEF Agreed, ProxyWithoutTun
<1>8. UnderTun'
  BY <1>2, <1>3, <1>4 DEF ProxyTurn, Onto, Results, SameModes, Agreed, UnderTun
<1>9. TunAgrees' /\ ProxyPutBack'
  BY <1>1, <1>2, <1>3, <1>4 DEF Agreed, TunAgrees, ProxyPutBack
<1>10. ASSUME Settling
       PROVE  ProxyAgrees'
  <2>1. ~ui.tunMode /\ ~TunRunning
    BY <1>3, <1>4, <1>10, Fields DEF Agreed, TunAgrees, Settling, TunRunning
  <2> QED
    BY <1>1, <1>2, <1>3, <1>4, <1>10, <2>1
    DEF ProxyTurn, Onto, Results, SameModes, Agreed, ProxyAgrees, Reporting
<1>11. ProxyAgrees'
  BY <1>4, <1>10 DEF ProxyAgrees
<1> QED
  BY <1>5, <1>6, <1>7, <1>8, <1>9, <1>11 DEF Agreed

LEMMA AgreedTun ==
  ASSUME CInv, Steady, Agreed, Up, NEW j \in Job, Switch(j), j = ui.job, j \in fresh, mishap' = {},
         job[j].kind = "tun"
  PROVE  Agreed'
<1>1. /\ UNCHANGED <<ui, gui, timers, attempt, fresh>> /\ \A i \in Job : i # j => job'[i] = job[i]
      /\ eng'.active = eng.active /\ eng'.xray = eng.xray
      /\ UNCHANGED events \/ Post(Switched(j))
  BY SwitchTable DEF Steady, SwitchIs, SameShape, Kept, Alone
<1>2. TunTurn(j) /\ j # 0 /\ job'[j].kind = "tun" /\ job[j].pc \in TunSteps /\ job'[j].pc \in TunSteps
  BY LastTunTurn, Numbers DEF TunTurn, Onto, Results, TunSteps
<1>3. /\ \A S : ~Last("proxy", S) /\ ~Last("proxy", S)'
      /\ \A S : (Last("tun", S) <=> job[j].pc \in S) /\ (Last("tun", S)' <=> job'[j].pc \in S)
  BY <1>1, <1>2 DEF Last
<1>4. /\ \A S : CurAt(S)' = CurAt(S)
      /\ InForce' = InForce /\ Settling' = Settling /\ Up'
      /\ ui.tunMode \in BOOLEAN /\ ui.proxyMode \in BOOLEAN /\ eng.windows \in BOOLEAN
      /\ eng.tun \in {"off", "up", "dead"}
  BY <1>1, <1>2, News, Fields DEF CurAt, InForce, Settling, Up, Running
<1>5. /\ job[j].pc \in {"up", "probe", "suspend", "undo"} => ui.tunMode
      /\ job[j].pc \in {"down", "untun"} => ~ui.tunMode
      /\ job[j].pc \in Reporting => job[j].on = ui.tunMode
      /\ ui.connecting => ui.shown
  BY <1>2, <1>3 DEF Agreed, LastTun
<1>6. LastFresh' /\ LastTun'
  BY <1>1, <1>2, <1>3, <1>4, <1>5 DEF LastFresh, LastTun, TunTurn, Onto, Results, Reporting
<1>7. LockKept'
  <2>1. ASSUME NEW i \in Job, i # j, i \in fresh, job[i].kind = "proxy", job[i].pc \in {"read", "apply"}
        PROVE  job[j].pc = "begin" /\ job'[j].pc \in {"up", "down"}
    <3>1. job[j].pc \in {"begin", "up", "down"}
      BY <1>3, <2>1 DEF Agreed, LockKept
    <3>2. applyLock # 0
      BY <2>1, LockFree DEF JobHolds
    <3> QED
      BY <1>2, <3>1, <3>2 DEF TunTurn, Onto
  <2> QED
    BY <1>1, <1>3, <2>1 DEF LockKept
<1>8. ProxyWithoutTun'
  BY <1>1, <1>2, <1>4, LockFree, SwitchTable
  DEF Steady, SwitchIs, SameShape, Agreed, ProxyWithoutTun, TunRunning, CurAt, Mode
<1>9. UnderTun'
  BY <1>2, <1>3, <1>4 DEF TunTurn, Onto, Results, SameModes, Agreed, UnderTun, TunRunning
<1>10. TunAgrees'
  BY <1>1, <1>2, <1>3, <1>4, <1>5 DEF TunTurn, Onto, Results, SameModes, Agreed, TunAgrees, TunRunning, Reporting
<1>11. ProxyAgrees'
  BY <1>1, <1>2, <1>3, <1>4, <1>5
  DEF TunTurn, Onto, Results, SameModes, Agreed, ProxyAgrees, Settling, TunRunning, Reporting
<1>12. ProxyPutBack'
  BY <1>1, <1>2, <1>3, <1>4, <1>5 DEF TunTurn, Onto, Results, SameModes, Agreed, ProxyPutBack, Reporting
<1> QED
  BY <1>6, <1>7, <1>8, <1>9, <1>10, <1>11, <1>12 DEF Agreed

LEMMA AgreedSwitch ==
  ASSUME CInv, Steady, Agreed, NEW j \in Job, Switch(j), mishap' = {}
  PROVE  Agreed'
<1>1. UNCHANGED gui /\ eng'.active = eng.active /\ eng'.xray = eng.xray /\ job[j].kind \in {"proxy", "tun"}
  BY SwitchTable DEF Steady, SwitchIs, SameShape, Kept, CInv, JobsOK, ModeJob
<1>2. Up' => Up
  BY <1>1 DEF Up, Running
<1> QED
  BY <1>1, <1>2, AgreedDown, AgreedOther, AgreedProxy, AgreedTun

-----------------------------------------------------------------------------
(* The switches and what is in force stay agreed: the window *)

\* A switch that the window has just queued is the last one, and at its beginning.
LEMMA QueuedLast ==
  ASSUME CInv, NEW u \in Window, NEW k \in {"proxy", "tun"}, Queued(u, k), Running
  PROVE  /\ \A S : Last(k, S)' <=> "begin" \in S
         /\ \A l, S : l # k => ~Last(l, S)'
         /\ LastFresh' /\ job'[ui'.job].on = u.proxyMode
         /\ \A i \in Job : /\ job'[i].kind = "proxy" /\ job'[i].pc \in {"read", "apply"} => i # ui'.job
                           /\ i # ui'.job => job'[i] = job[i]
         /\ ui'.shown = u.shown /\ ui'.connecting = u.connecting /\ ui'.current = u.current
         /\ ui'.tunMode = u.tunMode /\ ui'.proxyMode = u.proxyMode
         /\ k = "proxy" /\ mishap' = {} => ~Last("tun", TunSteps)
<1>1. PICK j \in Job :
        /\ fresh' = fresh \cup {j} /\ ui' = [u EXCEPT !.job = j] /\ \A i \in Job : i # j => job'[i] = job[i]
        /\ job'[j].kind = k /\ job'[j].pc = "begin" /\ job'[j].on = u.proxyMode
        /\ k = "proxy" /\ mishap' = {} => ~Last("tun", TunSteps)
  BY DEF Queued, Alone
<1>2. /\ ui'.job = j /\ ui'.shown = u.shown /\ ui'.connecting = u.connecting /\ ui'.current = u.current
      /\ ui'.tunMode = u.tunMode /\ ui'.proxyMode = u.proxyMode
  BY <1>1 DEF Window
<1>3. j # 0 /\ j \in fresh'
  BY <1>1, Numbers
<1> QED
  BY <1>1, <1>2, <1>3 DEF Last, LastFresh

LEMMA AgreedTunQueued ==
  ASSUME CInv, Agreed, NEW u \in Window, Queued(u, "tun"), u.connecting => u.shown, u.current = ui.current,
         UNCHANGED <<eng, gui, attempt>>
  PROVE  Agreed'
<1> SUFFICES ASSUME Up', Up, Running PROVE Agreed'
  BY AgreedDown DEF Up, Running
<1>1. /\ \A S : Last("tun", S)' <=> "begin" \in S
      /\ \A S : ~Last("proxy", S)'
      /\ LastFresh' /\ ui'.shown = u.shown /\ ui'.connecting = u.connecting /\ ui'.current = ui.current
  BY QueuedLast
<1>2. LastTun' /\ LockKept' /\ UnderTun' /\ TunAgrees' /\ ProxyAgrees' /\ ProxyPutBack'
  BY <1>1 DEF LastTun, LockKept, UnderTun, TunAgrees, ProxyAgrees, ProxyPutBack, Reporting
<1>3. ProxyWithoutTun'
  BY <1>1 DEF Agreed, ProxyWithoutTun, CurAt, TunRunning
<1> QED
  BY <1>1, <1>2, <1>3 DEF Agreed

LEMMA AgreedProxyQueued ==
  ASSUME CInv, Agreed, NEW u \in Window, Queued(u, "proxy"), mishap' = {},
         u.current = ui.current, u.shown = ui.shown, u.tunMode = ui.tunMode,
         UNCHANGED <<eng, gui, attempt, events>>
  PROVE  Agreed'
<1> SUFFICES ASSUME Up', Up, Running PROVE Agreed'
  BY AgreedDown DEF Up, Running
<1>1. /\ \A S : Last("proxy", S)' <=> "begin" \in S
      /\ \A S : ~Last("tun", S)'
      /\ LastFresh' /\ job'[ui'.job].on = ui'.proxyMode /\ ui'.shown = ui.shown /\ ui'.current = ui.current
      /\ ui'.tunMode = ui.tunMode /\ ~Last("tun", TunSteps)
  BY QueuedLast
<1>2. LastTun' /\ LockKept' /\ UnderTun' /\ ProxyAgrees' /\ ProxyPutBack'
  BY <1>1 DEF LastTun, LockKept, UnderTun, ProxyAgrees, ProxyPutBack, Reporting
<1>3. ProxyWithoutTun'
  BY <1>1 DEF Agreed, ProxyWithoutTun, CurAt, TunRunning
<1>4. TunAgrees'
  <2>1. InForce' => InForce
    BY <1>1, News DEF InForce, CurAt
  <2>2. ~Last("tun", {"begin", "up", "undo", "down", "untun"}) /\ ~Last("tun", Reporting)
    BY <1>1 DEF Last, TunSteps, Reporting
  <2> QED
    BY <1>1, <2>1, <2>2 DEF Agreed, TunAgrees, TunRunning
<1> QED
  BY <1>1, <1>2, <1>3, <1>4 DEF Agreed

\* A preference that is only saved while an attempt goes on.
LEMMA AgreedSaved ==
  ASSUME CInv, Agreed, ui.connecting, ~ui.shown, UNCHANGED <<core, gui, attempt, job>>,
         ui'.shown = ui.shown, ui'.current = ui.current, ui'.job = ui.job
  PROVE  Agreed'
<1> SUFFICES ASSUME Up', Up PROVE Agreed'
  BY AgreedDown DEF Up, Running, core
<1>1. \A k, S : Last(k, S)' = Last(k, S)
  BY DEF Last, core
<1>2. ~InForce' /\ ~Last("tun", TunSteps)
  BY DEF InForce, Agreed, LastTun
<1>3. \A S : S \subseteq TunSteps => ~Last("tun", S)
  BY <1>2 DEF Last
<1>4. LastTun'
  BY <1>1, <1>3 DEF LastTun, TunSteps, Reporting
<1>5. LastFresh' /\ LockKept' /\ ProxyWithoutTun' /\ UnderTun'
  BY <1>1 DEF Agreed, LastFresh, LockKept, ProxyWithoutTun, UnderTun, CurAt, TunRunning, core
<1> QED
  BY <1>2, <1>4, <1>5 DEF Agreed, TunAgrees, ProxyAgrees, ProxyPutBack, Settling

LEMMA AgreedModes ==
  ASSUME CInv, Steady, Agreed, mishap' = {}, ChangeTun \/ ChangeProxy \/ ApplyProxyTimer
  PROVE  Agreed'
<1>1. /\ ui \in Window /\ ui.tunMode \in BOOLEAN /\ ui.proxyMode \in BOOLEAN
      /\ gui = "idle" /\ UNCHANGED <<eng, readers, gui, events, attempt, applyLock>>
  BY ModesIs, Fields DEF CInv, WindowOK
<1>2. CASE ChangeTun
  <2> DEFINE u == [ui EXCEPT !.tunMode = ~@]
  <2>1. /\ u \in Window /\ u.shown = ui.shown /\ u.current = ui.current /\ u.connecting = ui.connecting
        /\ u.job = ui.job
    BY <1>1 DEF Window
  <2>2. \/ Deferred /\ ui' = u /\ UNCHANGED <<job, fresh>>
        \/ ~Deferred /\ QueueApply(u, "tun")
    BY <1>2 DEF ChangeTun
  <2> HIDE DEF u
  <2>3. CASE Deferred /\ ui' = u /\ UNCHANGED <<job, fresh>>
    BY <1>1, <2>1, <2>3, AgreedSaved DEF Deferred, core
  <2>4. CASE ~Deferred /\ QueueApply(u, "tun")
    <3>1. Queued(u, "tun")
      BY <1>1, <2>1, <2>4, QueuedIs
    <3> QED
      BY <1>1, <2>1, <2>4, <3>1, AgreedTunQueued DEF Deferred
  <2> QED
    BY <2>2, <2>3, <2>4
<1>3. CASE ChangeProxy
  <2> DEFINE u == [ui EXCEPT !.proxyMode = ~@]
  <2>1. /\ u \in Window /\ u.shown = ui.shown /\ u.current = ui.current /\ u.connecting = ui.connecting
        /\ u.job = ui.job /\ u.tunMode = ui.tunMode
    BY <1>1 DEF Window
  <2>2. \/ Deferred /\ ui' = u /\ UNCHANGED <<job, fresh>>
        \/ ~Deferred /\ QueueApply(u, "proxy")
    BY <1>3 DEF ChangeProxy
  <2> HIDE DEF u
  <2>3. CASE Deferred /\ ui' = u /\ UNCHANGED <<job, fresh>>
    BY <1>1, <2>1, <2>3, AgreedSaved DEF Deferred, core
  <2>4. CASE ~Deferred /\ QueueApply(u, "proxy")
    <3>1. Queued(u, "proxy")
      BY <1>1, <2>1, <2>4, QueuedIs
    <3> QED
      BY <1>1, <2>1, <3>1, AgreedProxyQueued
  <2> QED
    BY <2>2, <2>3, <2>4
<1>4. CASE ApplyProxyTimer
  <2>1. Queued(ui, "proxy")
    BY <1>1, <1>4, QueuedIs DEF ApplyProxyTimer
  <2> QED
    BY <1>1, <2>1, AgreedProxyQueued
<1> QED
  BY <1>2, <1>3, <1>4

\* The window draws itself: only what agrees is shown, and the proxy is applied once more.
LEMMA AgreedDrawn ==
  ASSUME CInv, Agreed, mishap' = {}, NEW b \in BOOLEAN, SetState(b), UNCHANGED <<core, gui, attempt, job>>
  PROVE  Agreed'
<1> SUFFICES ASSUME Up', Up PROVE Agreed'
  BY AgreedDown DEF Up, Running, core
<1>1. /\ ui'.connecting = FALSE /\ ui'.current = ui.current /\ ui'.job = ui.job
      /\ ui'.tunMode = ui.tunMode /\ ui'.proxyMode = ui.proxyMode
      /\ ui'.shown => (TunRunning <=> ui.tunMode)
      /\ ui'.shown /\ ~ui.tunMode => "proxy" \in timers'
  BY SetStateIs, Fields DEF TunRunning
<1>2. \A k, S : Last(k, S)' = Last(k, S)
  BY <1>1 DEF Last, core
<1>3. LastFresh' /\ LastTun' /\ LockKept' /\ ProxyWithoutTun' /\ UnderTun'
  BY <1>1, <1>2
  DEF Agreed, LastFresh, LastTun, LockKept, ProxyWithoutTun, UnderTun, CurAt, TunRunning, core, TunSteps, Reporting
<1>4. TunAgrees'
  BY <1>1 DEF TunAgrees, InForce, TunRunning, core
<1>5. ProxyAgrees'
  BY <1>1 DEF ProxyAgrees, Settling, InForce
<1>6. ProxyPutBack'
  BY <1>1, <1>2 DEF Agreed, LastTun, ProxyPutBack, InForce, TunRunning, core, Reporting
<1> QED
  BY <1>3, <1>4, <1>5, <1>6 DEF Agreed

\* The window is told how a switch went that is not the last one.
LEMMA AppliedOther ==
  ASSUME CInv, Agreed, NEW j \in Job, ModeApplied(j), job[j].pc = "reported", ~(j = ui.job /\ j \in fresh),
         UNCHANGED <<core, gui, attempt>>, NoState' = NoState
  PROVE  Agreed'
<1> SUFFICES ASSUME Up', Up PROVE Agreed'
  BY AgreedDown DEF Up, Running, core
<1>1. /\ ui'.current = ui.current /\ ui'.job = ui.job /\ ui'.shown = ui.shown
      /\ ui'.connecting => ui.connecting
      /\ ui'.tunMode = ui.tunMode /\ ui'.proxyMode = ui.proxyMode
      /\ job'[j] = NoJob /\ (\A i \in Job : i # j => job'[i] = job[i]) /\ UNCHANGED timers
  BY AppliedIs DEF JobGone, Alone
<1>2. ui.job # 0 /\ ui.job \in fresh => job'[ui.job] = job[ui.job]
  BY <1>1, Fields
<1>3. (\A k, S : Last(k, S)' = Last(k, S)) /\ (\A k, S : Last(k, S) => job'[ui.job] = job[ui.job])
  BY <1>1, <1>2 DEF Last, core
<1>4. InForce' = InForce /\ TunRunning' = TunRunning /\ \A S : CurAt(S)' = CurAt(S)
  BY <1>1 DEF InForce, CurAt, TunRunning, core
<1>5. LastFresh' /\ LastTun'
  BY <1>1, <1>3 DEF Agreed, LastFresh, LastTun, core, TunSteps, Reporting
<1>6. LockKept' /\ ProxyWithoutTun' /\ UnderTun'
  BY <1>1, <1>3, <1>4, NoJobIs DEF Agreed, LockKept, ProxyWithoutTun, UnderTun, core
<1>7. TunAgrees' /\ ProxyPutBack'
  BY <1>1, <1>3, <1>4 DEF Agreed, TunAgrees, ProxyPutBack, core, Reporting
<1>8. ProxyAgrees'
  BY <1>1, <1>3, <1>4 DEF Agreed, ProxyAgrees, Settling, core, Reporting
<1> QED
  BY <1>5, <1>6, <1>7, <1>8 DEF Agreed

\* The window is told how the last switch went, and puts back what could not be switched.
LEMMA AppliedLast ==
  ASSUME CInv, Steady, Agreed, NEW j \in Job, ModeApplied(j), job[j].pc = "reported", j = ui.job, j \in fresh,
         UNCHANGED <<core, gui, attempt>>, NoState' = NoState
  PROVE  Agreed'
<1> SUFFICES ASSUME Up', Up PROVE Agreed'
  BY AgreedDown DEF Up, Running, core
<1>1. /\ ui'.current = ui.current /\ ui'.job = ui.job /\ ui'.shown = ui.shown
      /\ job'[j] = NoJob /\ (\A i \in Job : i # j => job'[i] = job[i]) /\ UNCHANGED timers
      /\ ui'.proxyMode = IF ~job[j].ok /\ job[j].kind = "proxy" /\ job[j].on = ui.proxyMode
                         THEN ~ui.proxyMode ELSE ui.proxyMode
      /\ ui'.tunMode = IF ~job[j].ok /\ job[j].kind = "tun" /\ job[j].on = ui.tunMode
                       THEN TunRunning ELSE ui.tunMode
  BY AppliedIs DEF JobGone, Alone
<1>2. j # 0 /\ job[j].kind \in {"proxy", "tun"} /\ job[j].ok \in BOOLEAN /\ job[j].on \in BOOLEAN
  BY Numbers, NoJobIs DEF Steady, Kinds, CInv, JobsOK, ModeJob
<1>3. /\ \A S : ~Last("proxy", S)' /\ ~Last("tun", S)'
      /\ \A k, S : Last(k, S) <=> job[j].kind = k /\ "reported" \in S
  BY <1>1, <1>2, NoJobIs DEF Last, core
<1>4. /\ InForce' = InForce /\ TunRunning' = TunRunning /\ \A S : CurAt(S)' = CurAt(S)
      /\ ui.tunMode \in BOOLEAN /\ ui.proxyMode \in BOOLEAN /\ eng.windows \in BOOLEAN
      /\ eng.tun \in {"off", "up", "dead"}
  BY <1>1, Fields DEF InForce, CurAt, TunRunning, core
<1>5. LastFresh' /\ LastTun' /\ ProxyPutBack'
  BY <1>1, <1>2, <1>3 DEF LastFresh, LastTun, ProxyPutBack, core
<1>6. LockKept'
  BY <1>1, <1>3, NoJobIs DEF Agreed, LockKept, core
<1>7. ProxyWithoutTun' /\ UnderTun'
  BY <1>3, <1>4 DEF Agreed, ProxyWithoutTun, UnderTun, core
<1>8. job[j].kind = "tun" => job[j].on = ui.tunMode
  BY <1>3 DEF Agreed, LastTun, Reporting
<1>9. TunAgrees'
  BY <1>1, <1>2, <1>3, <1>4, <1>8 DEF Agreed, TunAgrees, core, Reporting
<1>10. ASSUME Settling'
       PROVE  eng.tun # "dead" => eng.windows = ui'.proxyMode
  <2>1. InForce /\ "proxy" \notin timers /\ ~ui'.tunMode
    BY <1>1, <1>4, <1>10 DEF Settling
  <2>2. CASE ~ui.tunMode
    <3>1. Settling /\ ui'.tunMode = FALSE
      BY <1>4, <2>1, <2>2 DEF Settling
    <3>2. /\ eng.tun # "dead" => eng.windows = ui.proxyMode \/ (job[j].kind = "proxy" /\ ~job[j].ok)
                                   \/ (job[j].kind = "tun" /\ ~job[j].ok /\ TunRunning)
          /\ job[j].kind = "proxy" /\ ~job[j].ok => job[j].on = ui.proxyMode /\ eng.windows # ui.proxyMode
      BY <1>3, <3>1 DEF Agreed, ProxyAgrees, Reporting
    <3>3. ~(job[j].kind = "tun" /\ ~job[j].ok /\ TunRunning)
      BY <1>1, <1>8, <3>1
    <3> QED
      BY <1>1, <1>4, <3>2, <3>3
  <2>3. CASE ui.tunMode
    <3>1. job[j].kind = "tun" /\ ~job[j].ok /\ ~TunRunning /\ job[j].on
      BY <1>1, <1>8, <2>1, <2>3
    <3> QED
      BY <1>1, <1>3, <1>4, <2>1, <3>1 DEF Agreed, ProxyPutBack, Reporting, TunRunning
  <2> QED
    BY <2>2, <2>3
<1>11. ProxyAgrees'
  BY <1>3, <1>10 DEF ProxyAgrees, core
<1> QED
  BY <1>5, <1>6, <1>7, <1>9, <1>11 DEF Agreed

LEMMA AgreedSignal ==
  ASSUME CInv, Steady, Agreed, mishap' = {}, HandleSignal
  PROVE  Agreed'
<1>1. UNCHANGED <<core, gui, attempt>> /\ events # <<>> /\ events' = Tail(events)
  BY DEF HandleSignal
<1>2. ASSUME NEW b \in BOOLEAN, Head(events) = Tells(b)
      PROVE  Agreed'
  <2>1. SetState(b) /\ UNCHANGED job
    BY <1>2, Signals DEF HandleSignal
  <2> QED
    BY <1>1, <2>1, AgreedDrawn
<1>3. ASSUME NEW j \in Job, Head(events) = Switched(j)
      PROVE  Agreed'
  <2>1. ModeApplied(j)
    BY <1>3, Signals DEF HandleSignal
  <2>2. job[j].pc = "reported"
    BY <1>1, <1>3, Taken DEF Steady, ModeEvents
  <2>3. NoState' = NoState
    BY <1>1, <1>3, NewsApplied
  <2> QED
    BY <1>1, <2>1, <2>2, <2>3, AppliedOther, AppliedLast
<1> QED
  BY <1>1, <1>2, <1>3, Taken

\* Nothing that the switches rest on has changed, except that TUN may have died.
LEMMA AgreedStays ==
  ASSUME Agreed, UNCHANGED <<fresh, ui, gui, attempt, job, events>>, eng'.active = eng.active,
         eng'.xray = eng.xray, eng'.windows = eng.windows, eng'.tun = eng.tun \/ eng'.tun = "dead",
         "proxy" \in timers => "proxy" \in timers'
  PROVE  Agreed'
<1> SUFFICES ASSUME Up', Up PROVE Agreed'
  BY AgreedDown DEF Up, Running
<1>1. \A k, S : Last(k, S)' = Last(k, S)
  BY DEF Last
<1>2. (\A S : CurAt(S)' = CurAt(S)) /\ InForce' = InForce /\ (Settling' => Settling)
      /\ (TunRunning' => TunRunning) /\ (eng'.tun # "dead" => UNCHANGED eng.tun /\ TunRunning' = TunRunning)
  BY DEF CurAt, InForce, Settling, NoState, TunRunning, Tells
<1>3. LastFresh' /\ LastTun' /\ LockKept' /\ ProxyWithoutTun' /\ UnderTun'
  BY <1>1, <1>2 DEF Agreed, LastFresh, LastTun, LockKept, ProxyWithoutTun, UnderTun, TunSteps, Reporting
<1>4. TunAgrees' /\ ProxyPutBack'
  BY <1>1, <1>2 DEF Agreed, TunAgrees, ProxyPutBack, Reporting
<1>5. ProxyAgrees'
  BY <1>1, <1>2 DEF Agreed, ProxyAgrees, Reporting
<1> QED
  BY <1>3, <1>4, <1>5 DEF Agreed

LEMMA AgreedClicks ==
  ASSUME CInv, Steady, Agreed, mishap' = {},
         ClickConnect \/ Restart \/ StopForUser \/ ResumeSwitch \/ Reconnect \/ Relabel
  PROVE  Agreed'
<1>1. CASE ClickConnect \/ ResumeSwitch \/ (Reconnect /\ ~(Running \/ ui.connecting))
  <2>1. Begins \/ gui' = "disconnect"
    BY <1>1, ToggleIs DEF ClickConnect, ResumeSwitch, Reconnect
  <2>2. ~Up'
    BY <1>1, <2>1 DEF Begins, Up, Running, ClickConnect, ResumeSwitch, Reconnect, core
  <2> QED
    BY <2>2, AgreedDown
<1>2. CASE Restart \/ StopForUser
  <2>1. ~Up'
    BY <1>2, EngineFields DEF Restart, StopForUser, NewRun, Up, Running, CInv
  <2> QED
    BY <2>1, AgreedDown
<1>3. CASE Reconnect /\ (Running \/ ui.connecting)
  BY <1>3, AgreedStays DEF Reconnect, core
<1>4. CASE Relabel
  <2>1. Running \in BOOLEAN
    BY Fields DEF Running
  <2>2. CASE SetState(Running)
    BY <1>4, <2>1, <2>2, AgreedDrawn DEF Relabel
  <2>3. CASE UNCHANGED <<ui, timers>>
    BY <1>4, <2>3, AgreedStays DEF Relabel, core
  <2> QED
    BY <1>4, <2>2, <2>3 DEF Relabel
<1> QED
  BY <1>1, <1>2, <1>3, <1>4

LEMMA AgreedOutside ==
  ASSUME CInv, Steady, Agreed, Quit \/ Dies \/ ReaderStops
  PROVE  Agreed'
<1>1. CASE ~Up'
  BY <1>1, AgreedDown
<1>2. CASE Up'
  BY <1>2, OutsideIs, AgreedStays DEF Up, Running
<1> QED
  BY <1>1, <1>2

-----------------------------------------------------------------------------
(* What the window shows is so *)

LEMMA ExcusedInit == CInit => Excused
BY DEF CInit, Excused, ShownDown, ShownUp, Agreed, LastFresh, LastTun, LockKept, ProxyWithoutTun, UnderTun, TunAgrees,
       ProxyAgrees, ProxyPutBack, Settling, InForce, Up, Running

LEMMA ExcusedNext ==
  ASSUME CInv, Steady, Excused, [CNext]_cvars
  PROVE  Excused'
<1> SUFFICES ASSUME mishap' = {} PROVE Told' /\ Agreed'
  BY DEF Excused, Told
<1>1. Told /\ Agreed
  BY MishapsStay DEF Excused, Told
<1>2. CASE UNCHANGED cvars
  <2>1. Told'
    BY <1>1, <1>2 DEF cvars, core, Told, ShownDown, ShownUp, CurAt, Running, NoState, TellsTrue
  <2>2. Agreed'
    BY <1>1, <1>2, AgreedStays DEF cvars, core
  <2> QED
    BY <2>1, <2>2
<1>3. CASE CNext
  <2>1. Told'
    BY <1>1, <1>3, ToldWork, ToldSwitch, ToldClicks, ToldModes, ToldSignal, ToldOutside DEF CNext
  <2>2. Agreed'
    BY <1>1, <1>3, AgreedWork, AgreedSwitch, AgreedClicks, AgreedModes, AgreedSignal, AgreedOutside DEF CNext
  <2> QED
    BY <2>1, <2>2
<1> QED
  BY <1>2, <1>3

\* With nothing under way, no excuse is left.
LEMMA ShownIsSoFollows == ASSUME CInv, Steady, Excused PROVE ShownIsSo
<1>1. gui = "gone" => ~eng.active /\ eng.xray = "none" /\ eng.tun = "off" /\ ~eng.windows
  BY Fields DEF Steady, EngineShape
<1>2. ASSUME Quiet, mishap = {}
      PROVE  /\ ui.shown = Running
             /\ ui.shown => /\ TunRunning = ui.tunMode
                            /\ eng.windows = (ui.proxyMode /\ ~ui.tunMode)
  <2>1. /\ gui = "idle" /\ events = <<>> /\ timers = {} /\ readers = {}
        /\ \A S : CurAt(S) => "idle" \in S \/ "done" \in S
        /\ NoState /\ ~TellsTrue
        /\ \A S : ~Last("proxy", S) /\ ~Last("tun", S)
    BY <1>2, Fields, NoJobIs DEF Quiet, CurAt, NoState, TellsTrue, In, LastIs, Last
  <2>2. eng.xray # "dead" /\ eng.tun # "dead"
    BY <2>1 DEF Steady, Pending, Dying
  <2>3. /\ ui.shown \in BOOLEAN /\ ui.tunMode \in BOOLEAN /\ ui.proxyMode \in BOOLEAN
        /\ eng.active \in BOOLEAN /\ eng.windows \in BOOLEAN
        /\ Running \in BOOLEAN /\ (Running <=> eng.active)
    BY <2>2, Fields DEF Steady, EngineShape, Running
  <2>4. ui.shown => Running
    BY <1>2, <2>1, <2>3 DEF Excused, ShownDown
  <2>5. Running => ui.shown /\ CurAt({"done"})
    <3>1. ASSUME Running
          PROVE  CurAt({"done"})
      <4>1. ui.current # 0 /\ ui.current \in Attempt
        BY <2>1, <3>1, Fields DEF Steady, RunOfCurrent, Running
      <4> QED
        BY <1>2, <4>1 DEF Quiet, CurAt, Steady, Workers
    <3> QED
      BY <1>2, <2>1, <3>1 DEF Excused, ShownUp
  <2>6. ASSUME ui.shown
        PROVE  TunRunning = ui.tunMode /\ eng.windows = (ui.proxyMode /\ ~ui.tunMode)
    <3>1. InForce /\ Running
      BY <2>1, <2>4, <2>5, <2>6 DEF InForce, Up
    <3>2. TunRunning <=> ui.tunMode
      BY <1>2, <2>1, <2>2, <3>1 DEF Excused, Agreed, TunAgrees
    <3>3. ui.tunMode => ~eng.windows
      <4>1. ~CurAt({"tun up", "tun ok", "drop", "next"})
        BY <2>1
      <4> QED
        BY <1>2, <2>1, <3>1, <3>2, <4>1 DEF Excused, Agreed, UnderTun, InForce
    <3>4. ~ui.tunMode => eng.windows = ui.proxyMode
      BY <1>2, <2>1, <2>2, <3>1 DEF Excused, Agreed, ProxyAgrees, Settling
    <3> QED
      BY <2>3, <3>2, <3>3, <3>4 DEF TunRunning
  <2>7. ui.shown = Running
    BY <2>3, <2>4, <2>5
  <2> QED
    BY <2>6, <2>7
<1> QED
  BY <1>1, <1>2 DEF ShownIsSo

\* Connection control on its own: when nothing is under way any more and none of the
\* known mishaps happened, MainWindow shows a connection exactly when the engine runs,
\* and TUN and the proxy of Windows are what its two switches say; after shutdown
\* nothing runs.
THEOREM ConnectIsSo == CSpec => []ShownIsSo
<1>1. CInit => CInv /\ Steady /\ Excused
  BY CInitInv, SteadyInit, ExcusedInit
<1>2. CInv /\ Steady /\ Excused /\ [CNext]_cvars => (CInv /\ Steady /\ Excused)'
  BY CNextInv, SteadyNext, ExcusedNext
<1>3. CInv /\ Steady /\ Excused => ShownIsSo
  BY ShownIsSoFollows
<1> QED
  BY <1>1, <1>2, <1>3, PTL DEF CSpec

=============================================================================
