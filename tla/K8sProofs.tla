----------------------------- MODULE K8sProofs -----------------------------
(***************************************************************************)
(* Proofs about the Kubernetes manager, for every set of tasks, services   *)
(* and resources, and every order in which they are registered.  The       *)
(* manager of svcinit is taken over whole, with one step more: before Run  *)
(* is called a task may get its steps.  The answers to the probes are then *)
(* related to the tasks that set the two atomics, and those to the order   *)
(* of the stages on the way up (SetupBarrier) and down (StopOrder).        *)
(***************************************************************************)
EXTENDS K8s, ManagerProofs

USE WrapperAssumption, ManagerAssumption, K8sAssumption

-----------------------------------------------------------------------------
(* The manager, and what is registered before it runs.                     *)

\* A registration gives steps to tasks that have none; of those of the health
\* handler, one has a setup step, the other a stop step.
Registers ==
    /\ pc = "idle"
    /\ steps' \in [Task -> SUBSET Step]
    /\ steps'[startedProbe] \in {steps[startedProbe], {"setup"}}
    /\ steps'[terminatingProbe] \in {steps[terminatingProbe], {"stop"}}
    /\ UNCHANGED <<executeSteps, runs, failed, mainVars, ctxVars, errVars, outVars, probeVars>>

\* What is known of Run and the wrappers does not depend on the steps of tasks
\* that were asked for nothing yet.
LEMMA RegistrationKeeps ==
    ASSUME TypeOK, RunInv, Registers
    PROVE  TypeOK' /\ RunInv'
<1>1. pc = "idle" /\ "setup" \in Step
  BY DEF Registers, Step
<1>2. \A t \in Task : runs[t]["setup"] = "none" /\ ~TeardownAsked(t)
  BY <1>1 DEF RunInv, OrderInv, NothingAhead, MayHaveAsked, TeardownAsked, Doing
<1> QED BY <1>2, StepSetsMayChange DEF Registers

\* A registration does what it says, or is refused.
LEMMA RegisterKinds ==
    ASSUME TypeOK, Register
    PROVE  Registers \/ Refused
<1>1. ASSUME NEW added, DOMAIN added \subseteq Task, AddTasks(added),
             \A t \in DOMAIN added : added[t] \in SUBSET Step,
             startedProbe \in DOMAIN added => added[startedProbe] = {"setup"},
             terminatingProbe \in DOMAIN added => added[terminatingProbe] = {"stop"}
      PROVE  Registers
  <2>1. \A t \in Task : steps[t] \in SUBSET Step
    BY DEF TypeOK, WrapperTypeOK
  <2>2. /\ pc = "idle"
        /\ steps' = [t \in Task |-> IF t \in DOMAIN added THEN added[t] ELSE steps[t]]
        /\ UNCHANGED <<executeSteps, runs, failed, mainVars, ctxVars, errVars, outVars,
                       probeVars>>
    BY <1>1 DEF AddTasks
  <2>3. startedProbe \in Task /\ terminatingProbe \in Task
    BY DEF K8sAssumption
  <2> QED BY <1>1, <2>1, <2>2, <2>3 DEF Registers
<1>2. CASE AddTasks(HealthHandlerTasks)
  <2>1. startedProbe # terminatingProbe
    BY DEF K8sAssumption, ServiceStage
  <2> QED BY <1>1, <1>2, <2>1 DEF HealthHandlerTasks, Step, K8sAssumption
<1>3. CASE AddTasks([t \in {health} |-> Step])
  BY <1>1, <1>3 DEF K8sAssumption, ServiceStage
<1>4. CASE AddTasks([t \in {flush} |-> {"stop"}])
  BY <1>1, <1>4 DEF Step, K8sAssumption, ServiceStage
<1>5. ASSUME NEW t \in Services, AddService(t) PROVE Registers
  BY <1>1, <1>5 DEF AddService, ServiceSteps, Step, K8sAssumption, ServiceStage
<1>6. ASSUME NEW t \in Task, AddResource(t) PROVE Registers
  BY <1>1, <1>6 DEF AddResource, Initialize, Step, K8sAssumption, ServiceStage
<1>7. ASSUME NEW given \in StepSets \ {{}}, AddTasks([t \in {telemetry} |-> given])
      PROVE  Registers
  BY <1>1, <1>7 DEF K8sAssumption, ServiceStage
<1> QED BY <1>2, <1>3, <1>4, <1>5, <1>6, <1>7
        DEF Register, SetHealthHandler, SetHealthTask, SetTelemetryHandler, SetTelemetryTask

\* Every step registers a task, or is one of the manager, or leaves it alone.
LEMMA K8sStepKinds ==
    ASSUME TypeOK, [K8sNext]_k8sVars
    PROVE  Registers \/ [Next]_vars
<1>1. CASE Register
  BY <1>1, RegisterKinds DEF Refused, Next, Callers
<1>2. ASSUME NEW t \in Task, NEW s \in Step, NEW fails \in BOOLEAN, K8sEnd(t, s, fails)
      PROVE  Next
  BY <1>2 DEF K8sEnd, Next
<1>3. CASE (Enter \/ Callers \/ PropagateCtx \/ Expire \/ Terminated) \/ K8sMain
           \/ \E t \in Task, s \in Step : K8sGoroutine(t, s)
  BY <1>3 DEF K8sMain, K8sGoroutine, Next
<1>4. CASE Signal \/ HTTP \/ (\E p \in Probes : Accept(p)) \/ UNCHANGED k8sVars
  BY <1>4 DEF Signal, HTTP, Listen, Shutdown, LoadStarted, Answer, Accept, k8sVars
<1> QED BY <1>1, <1>2, <1>3, <1>4 DEF K8sNext

\* All that is proved about Run and the wrappers holds under the Kubernetes manager.
LEMMA K8sRunInv == K8sSpec => [](TypeOK /\ RunInv)
<1>1. K8sInit => TypeOK /\ RunInv
  BY RunInvAtFirst, InitTyped DEF K8sInit
<1>2. TypeOK /\ RunInv /\ [K8sNext]_k8sVars => (TypeOK /\ RunInv)'
  BY K8sStepKinds, RegistrationKeeps, RunInvStep, WrapperTypeKept, MainTypeKept DEF TypeOK
<1> QED BY <1>1, <1>2, PTL DEF K8sSpec

\* The four stages go up and down as those of any manager, and setup and teardown of
\* the services and resources are paired, though the tasks of the health handler,
\* the telemetry and the services are added, or not, in any order
\* (k8sinit/manager.go).
THEOREM ServicesAreManaged ==
    K8sSpec => [](/\ TypeOK /\ NoOrderError /\ SetupBarrier /\ StartBarrier
                  /\ StopOrder /\ TeardownLast /\ TeardownPaired /\ SkippedNeverRan
                  /\ AbandonedIsReported /\ StopErrorsKept)
<1>1. TypeOK /\ RunInv => /\ TypeOK /\ NoOrderError /\ SetupBarrier /\ StartBarrier
                         /\ StopOrder /\ TeardownLast /\ TeardownPaired /\ SkippedNeverRan
                         /\ AbandonedIsReported /\ StopErrorsKept
  BY PairTells, EndTells DEF RunInv, OrderInv, UpInv, DownInv
<1> QED BY <1>1, K8sRunInv, PTL

-----------------------------------------------------------------------------
(* The way up.                                                             *)

\* A request has five fields.
RequestOf(a, p, st, l, code) ==
    [at |-> a, probe |-> p, started |-> st, late |-> l, status |-> code]

IsRequest == \E a, p, st, l, code : request = RequestOf(a, p, st, l, code)

\* A step ends a user function, accepts or serves a probe, or leaves the two
\* atomics and the request as they are.
LEMMA ProbeSteps ==
    ASSUME [K8sNext]_k8sVars
    PROVE  \/ \E t \in Task, s \in Step, fails \in BOOLEAN : K8sEnd(t, s, fails)
           \/ UNCHANGED vars /\ (LoadStarted \/ Answer \/ \E p \in Probes : Accept(p))
           \/ UNCHANGED <<isStarted, isTerminating, request>>
BY DEF K8sNext, Register, SetHealthHandler, SetHealthTask, SetTelemetryHandler,
   SetTelemetryTask, AddService, AddResource, AddTasks, Refused, K8sMain, K8sGoroutine, Signal, HTTP, Listen, Shutdown,
   LoadStarted, Answer, Accept, probeVars, k8sVars

\* What becomes of a request.
LEMMA RequestMoves ==
    ASSUME IsRequest, LoadStarted \/ Answer \/ (\E p \in Probes : Accept(p))
    PROVE  /\ IsRequest'
           /\ LoadStarted =>
                 /\ request'.at = "loaded" /\ request'.started = isStarted
                 /\ request'.late = request.late
           /\ Answer =>
                 /\ request'.at = "answered" /\ request'.probe = request.probe
                 /\ request'.started = request.started /\ request'.late = request.late
                 /\ request'.status =
                       DefaultProbeHandler(request.probe, request.started, isTerminating)
           /\ (\E p \in Probes : Accept(p)) =>
                 /\ request'.at = "accepted" /\ request'.started = FALSE
                 /\ request'.late = StoppingBelow
<1>1. PICK a, p, st, l, code : request = RequestOf(a, p, st, l, code)
  BY DEF IsRequest
<1>2. CASE LoadStarted
  <2>1. request' = RequestOf("loaded", p, isStarted, l, code)
    BY <1>1, <1>2 DEF LoadStarted, RequestOf
  <2>2. request.at # "loaded" /\ request'.at = "loaded"
    BY <1>2, <2>1 DEF LoadStarted, RequestOf
  <2> QED BY <1>1, <1>2, <2>1, <2>2 DEF IsRequest, RequestOf, Answer, Accept, Answering
<1>3. CASE Answer
  <2> DEFINE result2 == DefaultProbeHandler(request.probe, request.started, isTerminating)
  <2>1. request' = RequestOf("answered", p, st, l, result2)
    BY <1>1, <1>3 DEF Answer, RequestOf
  <2> HIDE DEF result2
  <2> QED BY <1>1, <1>3, <2>1 DEF IsRequest, RequestOf, Answer, Accept, LoadStarted, result2
<1>4. ASSUME NEW q \in Probes, Accept(q)
      PROVE  /\ IsRequest' /\ request'.at = "accepted"
             /\ request'.started = FALSE /\ request'.late = StoppingBelow
  <2>1. request' = RequestOf("accepted", q, FALSE, StoppingBelow, 0)
    BY <1>4 DEF Accept, RequestOf, NoRequest
  <2> HIDE DEF StoppingBelow
  <2> QED BY <2>1 DEF IsRequest, RequestOf
<1>5. /\ LoadStarted => request.at = "accepted"
      /\ Answer => request.at = "loaded"
      /\ (\E q \in Probes : Accept(q)) => request.at \notin {"accepted", "loaded"}
  BY DEF LoadStarted, Answer, Accept, Answering
<1> QED BY <1>2, <1>3, <1>4, <1>5

LEMMA RequestTyped == IsRequest /\ [K8sNext]_k8sVars => IsRequest'
<1> SUFFICES ASSUME IsRequest, [K8sNext]_k8sVars PROVE IsRequest'
  OBVIOUS
<1>1. ASSUME NEW t \in Task, NEW s \in Step, NEW fails \in BOOLEAN, K8sEnd(t, s, fails)
      PROVE  request' = request
  BY <1>1 DEF K8sEnd
<1>2. request' = request => IsRequest'
  BY DEF IsRequest
<1>3. CASE LoadStarted \/ Answer \/ \E p \in Probes : Accept(p)
  BY <1>3, RequestMoves
<1>4. \/ request' = request
      \/ LoadStarted \/ Answer \/ \E p \in Probes : Accept(p)
  BY <1>1, ProbeSteps
<1> QED BY <1>2, <1>3, <1>4

\* The started probe is a setup step and nothing else; when it ran, the service
\* counts as started; and 200 is the answer only to who has seen that.
StartedInv ==
    /\ steps[startedProbe] \subseteq {"setup"}
    /\ \A s \in Step : runs[startedProbe][s] = "running" => s = "setup"
    /\ StartupProbe /\ isStarted => Touched(startedProbe, "setup")
    /\ request.started => isStarted
    /\ ReadyAnswered => request.started

LEMMA StartedStep ==
    ASSUME TypeOK, RunInv, IsRequest, StartedInv, [K8sNext]_k8sVars
    PROVE  StartedInv'
<1>1. startedProbe \in Task \ Provider /\ "setup" \in Step
  BY DEF K8sAssumption, Step
<1>2. /\ steps'[startedProbe] \subseteq {"setup"}
      /\ \A s \in Step : runs'[startedProbe][s] = "running" => s = "setup"
      /\ Touched(startedProbe, "setup") => Touched(startedProbe, "setup")'
  <2>1. CASE Registers
    BY <2>1 DEF Registers, StartedInv, Touched
  <2>2. CASE [Next]_vars
    <3>1. \A s \in Step : TaskMoved(startedProbe, s)
      BY <1>1, <2>2, TaskMoves DEF RunInv
    <3> QED BY <1>1, <3>1 DEF TaskMoved, StartedInv, HasStep
  <2> QED BY <2>1, <2>2, K8sStepKinds
<1>3. StartupProbe /\ isStarted' => Touched(startedProbe, "setup")'
  <2>1. CASE isStarted
    BY <1>2, <2>1 DEF StartedInv
  <2>2. CASE ~isStarted /\ isStarted'
    <3>1. PICK t \in Task, s \in Step, fails \in BOOLEAN : K8sEnd(t, s, fails)
      BY <2>2, ProbeSteps DEF LoadStarted, Answer, Accept
    <3>2. t = startedProbe /\ runs[t][s] = "running"
      BY <2>2, <3>1 DEF K8sEnd, Told, GoEnd, End
    <3>3. Touched(startedProbe, "setup")
      BY <3>2 DEF StartedInv, Touched
    <3> QED BY <1>2, <3>3
  <2> QED BY <2>1, <2>2
<1>4. /\ request'.started => isStarted'
      /\ ReadyAnswered' => request'.started
  <2>1. ASSUME NEW t \in Task, NEW s \in Step, NEW fails \in BOOLEAN, K8sEnd(t, s, fails)
        PROVE  <1>4
    BY <2>1 DEF K8sEnd, Told, StartedInv, ReadyAnswered
  <2>2. CASE LoadStarted
    BY <2>2, RequestMoves DEF LoadStarted, StartedInv, ReadyAnswered
  <2>3. CASE Answer
    BY <2>3, RequestMoves DEF Answer, DefaultProbeHandler, StartedInv, ReadyAnswered
  <2>4. ASSUME NEW p \in Probes, Accept(p) PROVE <1>4
    BY <2>4, RequestMoves DEF ReadyAnswered
  <2>5. CASE UNCHANGED <<isStarted, isTerminating, request>>
    BY <2>5 DEF StartedInv, ReadyAnswered
  <2> QED BY <2>1, <2>2, <2>3, <2>4, <2>5, ProbeSteps
<1> QED BY <1>2, <1>3, <1>4 DEF StartedInv

LEMMA StartedHolds == K8sSpec => [](IsRequest /\ StartedInv)
<1>1. K8sInit => IsRequest /\ StartedInv
  <2> SUFFICES ASSUME K8sInit PROVE IsRequest /\ StartedInv
    OBVIOUS
  <2>1. startedProbe \in Task /\ startedProbe # signals
    BY DEF K8sAssumption
  <2>2. /\ steps[startedProbe] = {}
        /\ \A s \in Step : runs[startedProbe][s] = "none"
    BY <2>1 DEF K8sInit, Init, WrapperInit
  <2>3. request = RequestOf("none", "none", FALSE, FALSE, 0)
    BY DEF K8sInit, NoRequest, RequestOf
  <2>4. request.at = "none" /\ request.started = FALSE
    BY <2>3 DEF RequestOf
  <2>5. IsRequest
    BY <2>3 DEF IsRequest
  <2>6. StartupProbe /\ isStarted => FALSE
    BY DEF K8sInit, InitStarted, K8sAssumption
  <2> QED BY <2>2, <2>4, <2>5, <2>6 DEF StartedInv, ReadyAnswered
<1>2. TypeOK /\ RunInv /\ IsRequest /\ StartedInv /\ [K8sNext]_k8sVars => StartedInv'
  BY StartedStep
<1> QED BY <1>1, <1>2, K8sRunInv, RequestTyped, PTL DEF K8sSpec

\* ReadyAfterInit for every choice of the constants: with a startup probe, a service
\* that says it is ready has set up its management and initialize stages without
\* an error, and their start steps are under way (k8sinit/health.go:24-32, handler.go:84-88).
THEOREM ReadyIsInitialized == K8sSpec => []ReadyAfterInit
<1>1. TypeOK /\ RunInv /\ StartedInv => ReadyAfterInit
  <2> SUFFICES ASSUME RunInv, StartedInv, StartupProbe, ReadyAnswered,
                      NEW t \in Task, StageOf[t] \in {1, Initialize}
               PROVE  /\ RunOver(t, "setup") /\ <<t, "setup">> \notin failed
                      /\ runs[t]["start"] # "spawned"
    BY DEF ReadyAfterInit
  <2>1. startedProbe \in Task /\ StageOf[t] < StageOf[startedProbe]
    BY DEF K8sAssumption, Initialize
  <2>2. Touched(startedProbe, "setup")
    BY DEF StartedInv
  <2> QED BY <2>1, <2>2 DEF RunInv, UpInv, SetupBarrier
<1> QED BY <1>1, K8sRunInv, StartedHolds, PTL

-----------------------------------------------------------------------------
(* The way down.                                                           *)

\* Run has visited the terminating probe for its start step, or has started every
\* stage, ...
StartAsked ==
    \/ Doing("start") /\ stage = ServiceStage /\ terminatingProbe \notin todo
    \/ PastStart /\ ServiceStarted

\* ... and has visited it for its stop step.
StopAsked ==
    \/ pc \in {"drain", "returned"}
    \/ Doing("teardown")
    \/ Doing("stop") /\ (stage < ServiceStage \/ terminatingProbe \notin todo)

\* Run has decided to stop and is past that.
GoingDown == pc \in {"drain", "returned"} \/ Doing("stop") \/ Doing("teardown")

\* The terminating probe is a stop step and nothing else.  Its start step is passed
\* over, so that its stop step is run, and what it tells is known once it is over.
TerminatingInv ==
    /\ steps[terminatingProbe] \in {{}, {"stop"}}
    /\ StartAsked => StepIsDone(terminatingProbe, "start")
    /\ StopAsked /\ ServiceStarted /\ Added(terminatingProbe) => Touched(terminatingProbe, "stop")
    /\ runs[terminatingProbe]["stop"] \in {"ended", "done"} /\ Added(terminatingProbe)
           => isTerminating

\* A request is late for good, and no late one gets the answer.
LateInv ==
    /\ request.late => StoppingBelow
    /\ NotReadyBelow

\* Setup errors are not forgotten.
LEMMA SetupErrKept ==
    ASSUME TypeOK, [Next]_vars, setupErr
    PROVE  setupErr'
<1>1. CASE WrapperUntouched
  BY <1>1 DEF WrapperUntouched, Enter, Prologue, ReadInitErrors, BeforeRunFails, ReturnEarly,
     CreateContexts, ApplyPending, SetupStageDone, StartStageReady, NotifyTasksSkipped, Finish,
     SelectCause, StopStageDone, Drained, TeardownStageDone, Callers, RequestStartupCancel,
     AddInitError, CancelCtx, CancelShutdownCtx, PropagateCtx, Expire, Terminated, vars, errVars
<1>2. ASSUME NEW t \in Task, NEW s \in Step, GoStep(t, s) PROVE setupErr'
  BY <1>2 DEF GoStep, Goroutine, GoReady, GoBegin, GoUnimplemented, GoReport, GoEnd, OnError,
     errVars
<1>3. ASSUME NEW t \in Task, CheckTask(t) PROVE setupErr'
  BY <1>3 DEF CheckTask, OnError, errVars
<1> QED BY <1>1, <1>2, <1>3, ThreeKinds

\* A step of Run comes to the position after a visit only by that visit.
LEMMA AskedMoves ==
    ASSUME TypeOK, RunInv, WrapperUntouched
    PROVE  /\ StartAsked' => StartAsked
           /\ StopAsked' /\ ServiceStarted' => StopAsked /\ ServiceStarted
           /\ GoingDown => GoingDown' /\ stagesRun' = stagesRun
<1> USE DEF StartAsked, StopAsked, GoingDown, ServiceStarted, Doing, PastStart
<1>1. terminatingProbe \in TasksOf(ServiceStage) /\ NStages = ServiceStage /\ stage \in Nat
  BY DEF K8sAssumption, TasksOf, TypeOK, MainTypeOK, ManagerAssumption
<1>2. CASE Enter \/ Prologue
  BY <1>2 DEF Enter, Prologue, ReadInitErrors, BeforeRunFails, ReturnEarly,
     CreateContexts, ApplyPending, EnterStage, RunInv, PairInv, NoStageYet, ServiceStage
<1>3. CASE SetupStageDone
  BY <1>1, <1>3 DEF SetupStageDone, Visited, StartReturns, EnterStage, errVars
<1>4. CASE StartStageReady
  BY <1>1, <1>4 DEF StartStageReady, Visited, MoreStages, StartReturns, EnterStage, errVars
<1>5. CASE NotifyTasksSkipped
  BY <1>5 DEF NotifyTasksSkipped, errVars
<1>6. CASE Finish
  BY <1>1, <1>6 DEF Finish, SelectCause, StopStageDone, EarlierStages, Drained,
     TeardownStageDone, Visited, EnterStage, errVars, ServiceStage
<1>7. CASE UNCHANGED <<pc, stage, step, todo, setupErr, stagesRun>>
  BY <1>7
<1>8. CASE Callers \/ PropagateCtx \/ Expire \/ Terminated \/ UNCHANGED vars
  BY <1>7, <1>8 DEF Callers, RequestStartupCancel, AddInitError, CancelCtx,
     CancelShutdownCtx, PropagateCtx, Expire, Terminated, vars, mainVars, errVars
<1> QED BY <1>2, <1>3, <1>4, <1>5, <1>6, <1>8 DEF WrapperUntouched

\* The setup step of the terminating probe is passed over when Run comes to it.
LEMMA SetupPassedOver ==
    ASSUME RunInv, TerminatingInv, SetupAsked(terminatingProbe)
    PROVE  StepIsDone(terminatingProbe, "setup")
<1>1. terminatingProbe \in Task
  BY DEF K8sAssumption
<1>2. ~HasStep(terminatingProbe, "setup")
  BY DEF TerminatingInv, HasStep
<1> QED BY <1>1, <1>2 DEF RunInv, PairInv, AskedIsSeen, SetupImplemented, Seen

\* A visit keeps the invariant: so is its start step, and its stop step is spawned.
LEMMA TerminatingVisit ==
    ASSUME TypeOK, RunInv, TerminatingInv, NEW u \in Task, CheckTask(u),
           UNCHANGED isTerminating
    PROVE  TerminatingInv'
<1> DEFINE tp == terminatingProbe
<1>1. /\ tp \in Task /\ StageOf[tp] = ServiceStage /\ NStages = ServiceStage
      /\ "start" \in Step /\ "stop" \in Step
  BY DEF K8sAssumption, Step
<1>2. /\ pc = "runStage" /\ u \in todo /\ step \in Step /\ StageOf[u] = stage
      /\ runs[u][step] = "none"
      /\ UNCHANGED <<steps, pc, stage, step, setupErr, stagesRun>>
      /\ todo' = todo \ {u}
      /\ \A x \in Step : ~(tp = u /\ x = step) => runs'[tp][x] = runs[tp][x]
  <2>1. todo' = todo \ {u}
    BY DEF CheckTask
  <2>2. UNCHANGED <<steps, pc, stage, step, errVars, stagesRun>>
    BY CheckKeeps, CheckLedger DEF RunInv
  <2>3. \A x \in Step : ~(tp = u /\ x = step) => runs'[tp][x] = runs[tp][x]
    BY <1>1, CheckKeeps DEF RunInv
  <2>4. pc = "runStage" /\ StageOf[u] = stage /\ u \in todo /\ step \in Step
        /\ runs[u][step] = "none"
    BY CheckKeeps DEF RunInv
  <2> QED BY <2>1, <2>2, <2>3, <2>4 DEF errVars
<1>3. StepIsDone(tp, "start") => StepIsDone(tp, "start")'
  BY <1>1, CheckLedger DEF RunInv
<1>4. StartAsked' => StepIsDone(tp, "start")'
  <2>1. CASE StartAsked
    BY <1>3, <2>1 DEF TerminatingInv
  <2>2. CASE StartAsked' /\ ~StartAsked
    <3>1. u = tp /\ step = "start"
      BY <1>2, <2>2 DEF StartAsked, Doing, PastStart, ServiceStarted
    <3>2. SetupAsked(tp)
      BY <1>1, <1>2, <3>1 DEF SetupAsked, Doing, ServiceStage
    <3>3. PrevStepIsDone(tp, "start") /\ ~CanStartStep(tp, "start")
      BY <3>2, SetupPassedOver DEF PrevStepIsDone, Required, CanStartStep, HasStep, TerminatingInv
    <3>4. PassedOver(u, step)
      BY <3>1, <3>3, CheckLedger DEF RunInv
    <3> QED BY <1>1, <3>1, <3>4, CheckLedger DEF RunInv
  <2> QED BY <2>1, <2>2
<1>5. StopAsked' /\ ServiceStarted' /\ Added(tp)' => Touched(tp, "stop")'
  <2> SUFFICES ASSUME StopAsked', ServiceStarted, Added(tp) PROVE Touched(tp, "stop")'
    BY <1>2 DEF ServiceStarted, Added
  <2>1. CASE StopAsked
    <3>1. Touched(tp, "stop")
      BY <2>1 DEF TerminatingInv
    <3> QED BY <1>1, <1>2, <3>1 DEF Touched
  <2>2. CASE ~StopAsked
    <3>1. u = tp /\ step = "stop"
      BY <1>2, <2>2 DEF StopAsked, Doing
    <3>2. StepIsDone(tp, "start")
      BY <1>2, <3>1 DEF TerminatingInv, StartAsked, PastStart, Doing
    <3>3. CanStartStep(tp, "stop") /\ PrevStepIsDone(tp, "stop")
      BY <3>2 DEF CanStartStep, HasStep, TerminatingInv, Added, PrevStepIsDone, Required
    <3> QED BY <3>1, <3>3, CheckLedger DEF RunInv, Touched
  <2> QED BY <2>1, <2>2
<1>6. runs'[tp]["stop"] \in {"ended", "done"} /\ Added(tp)' => isTerminating'
  <2>1. runs'[u][step] \in {"none", "spawned"}
    BY CheckLedger DEF RunInv
  <2>2. runs'[tp]["stop"] \in {"ended", "done"} => runs'[tp]["stop"] = runs[tp]["stop"]
    BY <1>1, <1>2, <2>1
  <2> QED BY <1>2, <2>2 DEF TerminatingInv, Added
<1> QED BY <1>2, <1>4, <1>5, <1>6 DEF TerminatingInv

\* So does a goroutine: when its stop step returns, the probe has been told.
LEMMA TerminatingGoroutine ==
    ASSUME TypeOK, RunInv, TerminatingInv, NEW t \in Task, NEW s \in Step,
           \/ Goroutine(t, s) /\ UNCHANGED isTerminating
           \/ \E fails \in BOOLEAN : K8sEnd(t, s, fails)
    PROVE  TerminatingInv'
<1> DEFINE tp == terminatingProbe
<1>1. tp \in Task \ Provider /\ "start" \in Step /\ "stop" \in Step
  BY DEF K8sAssumption, Step
<1>2. GoStep(t, s) /\ [Next]_vars
  BY DEF GoStep, K8sEnd, Next
<1>3. TaskMoved(tp, "start") /\ TaskMoved(tp, "stop")
  BY <1>1, <1>2, TaskMoves DEF RunInv
<1>4. steps'[tp] = steps[tp] /\ (StepIsDone(tp, "start") => StepIsDone(tp, "start")')
      /\ (Touched(tp, "stop") => Touched(tp, "stop")')
  BY <1>1, <1>3 DEF TaskMoved
<1>5. UNCHANGED <<pc, stage, step, todo, stagesRun>> /\ (setupErr => setupErr')
  BY <1>2, GoStepKeeps, GoStepLedger, SetupErrKept
<1>6. (StartAsked' => StartAsked) /\ (StopAsked' => StopAsked)
      /\ (ServiceStarted' => ServiceStarted)
  BY <1>5 DEF StartAsked, StopAsked, ServiceStarted, PastStart, Doing
<1>7. ASSUME runs'[tp]["stop"] \in {"ended", "done"}, Added(tp)' PROVE isTerminating'
  <2>1. Added(tp) /\ HasStep(tp, "stop")
    BY <1>4, <1>7 DEF TerminatingInv, Added, HasStep
  <2>2. isTerminating => isTerminating'
    BY DEF K8sEnd, Told
  <2>3. CASE runs[tp]["stop"] \in {"ended", "done"}
    BY <2>1, <2>2, <2>3 DEF TerminatingInv
  <2>4. CASE runs[tp]["stop"] \notin {"ended", "done"}
    <3>1. \A v : v \in RunState /\ runs' = [runs EXCEPT ![t][s] = v] =>
             t = tp /\ s = "stop" /\ v \in {"ended", "done"}
      BY <1>1, <1>7, <2>4, MoveGoroutine DEF TypeOK, WrapperTypeOK
    <3>2. ~Goroutine(t, s)
      BY <2>1, <2>4, <3>1 DEF Goroutine, GoReady, GoBegin, GoUnimplemented, GoReport,
         Ready, Begin, Unimplemented, Report, RunState
    <3>3. PICK fails \in BOOLEAN : K8sEnd(t, s, fails)
      BY <3>2
    <3>4. t = tp
      BY <3>1, <3>3 DEF K8sEnd, GoEnd, End, RunState
    <3> QED BY <3>3, <3>4 DEF K8sEnd, Told
  <2> QED BY <2>3, <2>4
<1> QED BY <1>4, <1>6, <1>7 DEF TerminatingInv, Added

LEMMA TerminatingStep ==
    ASSUME TypeOK, RunInv, TerminatingInv, [K8sNext]_k8sVars
    PROVE  TerminatingInv'
<1>1. CASE Registers
  <2>1. terminatingProbe \in Task /\ "stop" \in Step
    BY DEF K8sAssumption, Step
  <2>2. runs[terminatingProbe]["stop"] = "none"
    BY <1>1, <2>1 DEF Registers, RunInv, OrderInv, NothingAhead, MayHaveAsked
  <2>3. UNCHANGED <<runs, executeSteps, pc, stage, step, todo, stagesRun, setupErr>>
        /\ pc = "idle"
    BY <1>1 DEF Registers, mainVars, errVars
  <2>4. steps'[terminatingProbe] \in {{}, {"stop"}}
    BY <1>1 DEF Registers, TerminatingInv
  <2> QED BY <2>2, <2>3, <2>4
          DEF TerminatingInv, StartAsked, StopAsked, PastStart, Doing, StepIsDone
<1>2. ASSUME NEW u \in Task, CheckTask(u), UNCHANGED probeVars PROVE TerminatingInv'
  BY <1>2, TerminatingVisit DEF probeVars
<1>3. ASSUME NEW t \in Task, NEW s \in Step, K8sGoroutine(t, s) PROVE TerminatingInv'
  BY <1>3, TerminatingGoroutine DEF K8sGoroutine, probeVars
<1>4. ASSUME NEW t \in Task, NEW s \in Step, NEW fails \in BOOLEAN, K8sEnd(t, s, fails)
      PROVE  TerminatingInv'
  BY <1>4, TerminatingGoroutine
<1>5. CASE WrapperUntouched /\ UNCHANGED isTerminating
  <2>1. UNCHANGED <<steps, runs, executeSteps>>
    BY <1>5, WrapperUnchanged
  <2>2. /\ StartAsked' => StartAsked
        /\ StopAsked' /\ ServiceStarted' => StopAsked /\ ServiceStarted
    BY <1>5, AskedMoves
  <2> QED BY <1>5, <2>1, <2>2 DEF TerminatingInv, StepIsDone, Touched, Added
<1>6. CASE (Enter \/ Callers \/ PropagateCtx \/ Expire \/ Terminated) /\ UNCHANGED probeVars
  BY <1>5, <1>6 DEF WrapperUntouched, probeVars
<1>7. CASE K8sMain
  BY <1>2, <1>5, <1>7 DEF K8sMain, Main, RunStages, WrapperUntouched, probeVars
<1>8. CASE Signal \/ HTTP \/ (\E p \in Probes : Accept(p)) \/ UNCHANGED k8sVars
  <2>1. UNCHANGED vars /\ UNCHANGED isTerminating
    BY <1>8 DEF Signal, HTTP, Listen, Shutdown, LoadStarted, Answer, Accept, k8sVars, probeVars
  <2> QED BY <1>5, <2>1 DEF WrapperUntouched
<1>9. CASE Register
  BY <1>1, <1>6, <1>9, RegisterKinds DEF Refused, Callers
<1> QED BY <1>3, <1>4, <1>6, <1>7, <1>8, <1>9 DEF K8sNext

LEMMA LateStep ==
    ASSUME TypeOK, RunInv, IsRequest, StartedInv, TerminatingInv, LateInv, [K8sNext]_k8sVars
    PROVE  LateInv'
<1>1. terminatingProbe \in Task /\ StageOf[terminatingProbe] = ServiceStage /\ "stop" \in Step
  BY DEF K8sAssumption, Step
<1>2. ASSUME StoppingBelow PROVE StoppingBelow' /\ GoingDown /\ StopAsked
  <2>1. PICK t \in Task : StageOf[t] < ServiceStage /\ Touched(t, "stop")
    BY <1>2 DEF StoppingBelow
  <2>2. MayHaveAsked(t, "stop")
    BY <1>1, <2>1 DEF RunInv, OrderInv, NothingAhead, Touched
  <2>3. GoingDown /\ StopAsked
    BY <2>1, <2>2 DEF MayHaveAsked, GoingDown, StopAsked, Doing, TypeOK, MainTypeOK,
       ManagerAssumption, Step, ServiceStage
  <2>4. CASE Registers
    BY <2>3, <2>4 DEF Registers, GoingDown, Doing
  <2>5. CASE [Next]_vars
    <3>1. TaskMoved(t, "stop")
      BY <1>1, <2>5, TaskMoves DEF RunInv
    <3>2. Touched(t, "stop")'
      BY <2>1, <3>1 DEF TaskMoved
    <3> QED BY <2>1, <2>3, <3>2 DEF StoppingBelow
  <2> QED BY <2>3, <2>4, <2>5, K8sStepKinds
<1>3. request'.late => StoppingBelow'
  <2>1. CASE request' = request
    BY <1>2, <2>1 DEF LateInv
  <2>2. CASE LoadStarted \/ Answer
    BY <1>2, <2>2, RequestMoves DEF LateInv
  <2>3. ASSUME NEW p \in Probes, Accept(p) PROVE <1>3
    BY <1>2, <2>3, RequestMoves
  <2> QED BY <2>1, <2>2, <2>3, ProbeSteps DEF K8sEnd
<1>4. NotReadyBelow'
  <2> SUFFICES ASSUME ServiceStarted', Added(terminatingProbe)', request'.late, ReadyAnswered'
               PROVE  Overdue'
    BY DEF NotReadyBelow
  <2>1. CASE request' = request
    <3>1. GoingDown /\ StoppingBelow /\ ReadyAnswered
      BY <1>2, <2>1 DEF LateInv, ReadyAnswered
    <3>2. ~Registers /\ [Next]_vars
      BY <3>1, K8sStepKinds DEF Registers, GoingDown, Doing
    <3>3. ServiceStarted /\ Added(terminatingProbe)
      <4>1. steps'[terminatingProbe] = steps[terminatingProbe]
        BY <1>1, <3>2, TaskMoves DEF RunInv, TaskMoved, K8sAssumption
      <4>2. stagesRun' = stagesRun
        <5>1. CASE WrapperUntouched
          BY <3>1, <5>1, AskedMoves
        <5> QED BY <3>2, <5>1, ThreeKinds, GoStepLedger, CheckLedger DEF RunInv
      <4>3. setupErr => setupErr'
        BY <3>2, SetupErrKept
      <4> QED BY <4>1, <4>2, <4>3 DEF ServiceStarted, Added
    <3>4. Overdue
      BY <2>1, <3>1, <3>3 DEF LateInv, NotReadyBelow
    <3>5. CASE WrapperUntouched
      BY <3>1, <3>4, <3>5, LateForGood DEF GoingDown, Doing
    <3>6. CASE ~WrapperUntouched
      <4>1. UNCHANGED <<shutdownCtx, ctxErrs>>
        BY <3>2, <3>6, ThreeKinds, GoStepKeeps, CheckKeeps DEF RunInv, ctxVars, errVars
      <4> QED BY <3>4, <4>1 DEF Overdue
    <3> QED BY <3>5, <3>6
  <2>2. CASE LoadStarted \/ \E p \in Probes : Accept(p)
    BY <2>2, RequestMoves DEF ReadyAnswered
  <2>3. CASE Answer
    <3>1. request.late /\ ~isTerminating
      <4>1. /\ request'.late = request.late /\ request'.probe = request.probe
            /\ request'.status =
                  DefaultProbeHandler(request.probe, request.started, isTerminating)
        BY <2>3, RequestMoves
      <4>2. DefaultProbeHandler(request.probe, request.started, isTerminating) = 200
            /\ request.probe = "readiness"
        BY <4>1 DEF ReadyAnswered
      <4>3. ~isTerminating
        BY <4>2 DEF DefaultProbeHandler
      <4>4. request.late
        BY <4>1
      <4> QED BY <4>3, <4>4
    <3>2. UNCHANGED vars
      BY <2>3 DEF Answer
    <3>3. ServiceStarted /\ Added(terminatingProbe) /\ StoppingBelow
      BY <3>1, <3>2 DEF LateInv, ServiceStarted, Added, vars, wrapperVars, mainVars, errVars
    <3>4. Touched(terminatingProbe, "stop") /\ runs[terminatingProbe]["stop"] # "done"
      BY <1>2, <3>1, <3>3 DEF TerminatingInv
    <3>5. Overdue
      BY <1>1, <3>3, <3>4 DEF RunInv, DownInv, StopOrder, StoppingBelow, Touched, RunOver
    <3> QED BY <3>2, <3>5 DEF Overdue, vars, ctxVars, errVars
  <2> QED BY <2>1, <2>2, <2>3, ProbeSteps DEF K8sEnd
<1> QED BY <1>3, <1>4 DEF LateInv

\* NotReadyBelow for every choice of the constants: once a stage below the services
\* is being stopped, a readiness probe accepted since is not answered with 200,
\* unless the shutdown is overdue (k8sinit/health.go:50-59, handler.go:84-88).
THEOREM TerminatingIsNotReady == K8sSpec => []NotReadyBelow
<1>1. K8sInit => TerminatingInv /\ LateInv
  <2> SUFFICES ASSUME K8sInit PROVE TerminatingInv /\ LateInv
    OBVIOUS
  <2>1. terminatingProbe \in Task /\ terminatingProbe # signals /\ "stop" \in Step
    BY DEF K8sAssumption, ServiceStage, Step
  <2>2. steps[terminatingProbe] = {} /\ runs[terminatingProbe]["stop"] = "none" /\ pc = "idle"
    BY <2>1 DEF K8sInit, Init, WrapperInit
  <2>3. TerminatingInv
    BY <2>2 DEF TerminatingInv, StartAsked, StopAsked, PastStart, Doing
  <2>4. request = RequestOf("none", "none", FALSE, FALSE, 0)
    BY DEF K8sInit, NoRequest, RequestOf
  <2>5. request.late = FALSE
    BY <2>4 DEF RequestOf
  <2> QED BY <2>3, <2>5 DEF LateInv, NotReadyBelow
<1>2. TypeOK /\ RunInv /\ TerminatingInv /\ [K8sNext]_k8sVars => TerminatingInv'
  BY TerminatingStep
<1>3. TypeOK /\ RunInv /\ IsRequest /\ StartedInv /\ TerminatingInv /\ LateInv
        /\ [K8sNext]_k8sVars => LateInv'
  BY LateStep
<1>4. LateInv => NotReadyBelow
  BY DEF LateInv
<1> QED BY <1>1, <1>2, <1>3, <1>4, K8sRunInv, StartedHolds, PTL DEF K8sSpec
=============================================================================
