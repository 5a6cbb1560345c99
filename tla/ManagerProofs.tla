--------------------------- MODULE ManagerProofs ---------------------------
(***************************************************************************)
(* Proofs about Manager, for every set of tasks, every number of stages    *)
(* and every value of the options.                                         *)
(***************************************************************************)
EXTENDS Manager, WrapperProofs

USE WrapperAssumption, ManagerAssumption

-----------------------------------------------------------------------------
(* Type correctness.                                                       *)

\* The result of a step leaves the contexts and the errors well typed.
LEMMA OnErrorType ==
    ASSUME MainTypeOK, NEW t \in Task, NEW s \in Step, NEW fails, OnError(t, s, fails)
    PROVE  /\ startup' \in Cause \cup {"unset", "live"}
           /\ setupErr' \in BOOLEAN
           /\ stopErrs' \subseteq Task \X Step
           /\ UNCHANGED <<pending, taskDone, ctxDone, baseDone, shutdownCtx,
                          initErrors, ctxErrs>>
<1>1. startup' \in {startup, "setup", "exit", t}
  BY DEF OnError, FirstCause
<1>2. stopErrs' = stopErrs \/ stopErrs' = stopErrs \cup {<<t, s>>}
  BY DEF OnError
<1> QED BY <1>1, <1>2 DEF OnError, MainTypeOK, Cause, SetupFailed

\* The steps of Main that touch no wrapper, and those of the callers and timers.
WrapperUntouched ==
    \/ Enter \/ Prologue \/ SetupStageDone \/ StartStageReady \/ NotifyTasksSkipped
    \/ Finish \/ Callers \/ PropagateCtx \/ Expire \/ Terminated \/ UNCHANGED vars

\* Those steps leave the ledgers, the step sets and the goroutines as they are.
LEMMA WrapperUnchanged == WrapperUntouched => UNCHANGED <<steps, executeSteps, runs, failed>>
<1>1. CASE Enter \/ Prologue
  BY <1>1 DEF Enter, Prologue, ReadInitErrors, BeforeRunFails, ReturnEarly,
     CreateContexts, ApplyPending, wrapperVars
<1>2. CASE SetupStageDone \/ StartStageReady \/ NotifyTasksSkipped
  BY <1>2 DEF SetupStageDone, StartStageReady, NotifyTasksSkipped, wrapperVars
<1>3. CASE Finish
  BY <1>3 DEF Finish, SelectCause, StopStageDone, Drained, TeardownStageDone, wrapperVars
<1>4. CASE Callers \/ PropagateCtx \/ Expire
  BY <1>4 DEF Callers, RequestStartupCancel, AddInitError, CancelCtx,
     CancelShutdownCtx, PropagateCtx, Expire, wrapperVars
<1>5. CASE Terminated \/ UNCHANGED vars
  BY <1>5 DEF Terminated, vars, wrapperVars
<1> QED BY <1>1, <1>2, <1>3, <1>4, <1>5 DEF WrapperUntouched

\* Every step of the manager keeps the type of the wrappers' state ...
LEMMA WrapperTypeKept == WrapperTypeOK /\ MainTypeOK /\ [Next]_vars => WrapperTypeOK'
<1> SUFFICES ASSUME WrapperTypeOK, MainTypeOK, [Next]_vars PROVE WrapperTypeOK'
  OBVIOUS
<1>1. CASE WrapperUntouched
  BY <1>1, WrapperUnchanged DEF WrapperTypeOK
<1>2. ASSUME NEW t \in Task, CheckTask(t) PROVE WrapperTypeOK'
  <2>1. step \in Step /\ CheckStartStep(t, step) /\ UNCHANGED <<steps, failed>>
    BY <1>2 DEF CheckTask, MainTypeOK
  <2> QED BY <2>1, WrapperTypeCheck
<1>3. ASSUME NEW t \in Task, NEW s \in Step,
             \/ Goroutine(t, s)
             \/ \E fails \in BOOLEAN : GoEnd(t, s, fails)
      PROVE  WrapperTypeOK'
  <2>1. \/ Ready(t, s) \/ Begin(t, s) \/ Unimplemented(t, s) \/ Report(t, s)
        \/ \E fails \in BOOLEAN : End(t, s, fails)
    BY <1>3 DEF Goroutine, GoReady, GoBegin, GoUnimplemented, GoReport, GoEnd
  <2> QED BY <2>1, WrapperTypeStep
<1> QED BY <1>1, <1>2, <1>3 DEF Next, Main, RunStages, WrapperUntouched

\* ... and that of Run's own state, of the contexts and of the errors.
LEMMA MainTypeKept == MainTypeOK /\ [Next]_vars => MainTypeOK'
<1> SUFFICES ASSUME MainTypeOK, [Next]_vars PROVE MainTypeOK'
  OBVIOUS
<1> USE DEF MainTypeOK
<1>1. CASE Enter
  BY <1>1 DEF Enter, ctxVars, errVars, outVars
<1>2. CASE Prologue
  <2>1. ASSUME NEW r \in EarlyResult, ReturnEarly(r) PROVE MainTypeOK'
    BY <2>1 DEF ReturnEarly, ctxVars, errVars
  <2>2. CASE ReadInitErrors
    <3>1. CASE ReturnEarly("initErrors") \/ ReturnEarly("noStartTask")
      BY <2>1, <3>1 DEF EarlyResult
    <3>2. CASE ~(ReturnEarly("initErrors") \/ ReturnEarly("noStartTask"))
      BY <2>2, <3>2 DEF ReadInitErrors, ctxVars, errVars, outVars
    <3> QED BY <3>1, <3>2
  <2>3. CASE BeforeRunFails
    BY <2>1, <2>3 DEF BeforeRunFails, EarlyResult
  <2>4. CASE CreateContexts
    BY <2>4 DEF CreateContexts, Cause, errVars, outVars
  <2>5. CASE ApplyPending
    BY <2>5 DEF ApplyPending, EnterStage, TasksOf, FirstCause, Cause, Step,
       errVars, outVars, ManagerAssumption
  <2> QED BY <1>2, <2>2, <2>3, <2>4, <2>5 DEF Prologue
<1>3. CASE RunStages
  <2>1. ASSUME NEW t \in Task, CheckTask(t) PROVE MainTypeOK'
    <3>1. CASE InvalidOrder(t, step)
      <4>1. OnError(t, step, TRUE) /\ orderErrs' = orderErrs \cup {<<t, step>>}
        BY <2>1, <3>1 DEF CheckTask
      <4>2. /\ startup' \in Cause \cup {"unset", "live"}
            /\ setupErr' \in BOOLEAN
            /\ stopErrs' \subseteq Task \X Step
            /\ UNCHANGED <<pending, taskDone, ctxDone, baseDone, shutdownCtx,
                           initErrors, ctxErrs>>
        BY <4>1, OnErrorType
      <4>3. orderErrs' \subseteq Task \X Step
        BY <2>1, <4>1 DEF CheckTask
      <4>4. todo' \subseteq Task /\ UNCHANGED <<pc, stage, step, stagesRun, outVars>>
        BY <2>1 DEF CheckTask
      <4> QED BY <4>2, <4>3, <4>4 DEF outVars
    <3>2. CASE ~InvalidOrder(t, step)
      <4>1. UNCHANGED <<ctxVars, errVars>> /\ todo' \subseteq Task
        BY <2>1, <3>2 DEF CheckTask
      <4>2. UNCHANGED <<pc, stage, step, stagesRun, outVars>>
        BY <2>1 DEF CheckTask
      <4> QED BY <4>1, <4>2 DEF outVars, ctxVars, errVars
    <3> QED BY <3>1, <3>2
  <2>2. CASE SetupStageDone
    BY <2>2 DEF SetupStageDone, StartReturns, EnterStage, TasksOf, Step,
       ctxVars, errVars, outVars
  <2>3. CASE StartStageReady
    BY <2>3 DEF StartStageReady, MoreStages, StartReturns, EnterStage, TasksOf, Step,
       ctxVars, errVars, outVars, ManagerAssumption
  <2>4. CASE NotifyTasksSkipped
    BY <2>4 DEF NotifyTasksSkipped, ctxVars, errVars
  <2> QED BY <1>3, <2>1, <2>2, <2>3, <2>4 DEF RunStages
<1>4. CASE Finish
  <2>1. ASSUME NEW c \in Cause, SelectCause(c) PROVE MainTypeOK'
    BY <2>1 DEF SelectCause, CauseFor, CancelTasks, NewCtx, CtxState, Cause,
       EnterStage, TasksOf, Step, errVars, ManagerAssumption
  <2>2. CASE StopStageDone
    BY <2>2 DEF StopStageDone, EarlierStages, EnterStage, TasksOf, Step,
       ctxVars, errVars, outVars
  <2>3. CASE Drained
    BY <2>3 DEF Drained, ErrsBeforeTeardown, CtxErr, NewCtx, CtxState, EnterStage,
       TasksOf, Step, outVars, ManagerAssumption
  <2>4. CASE TeardownStageDone
    <3>1. FinalResult \in Cause \cup {"none", "nil", "fatal"}
      BY DEF FinalResult
    <3>2. ctxErrs \cup CtxErr \subseteq {"timeout", "cancelled"}
      BY DEF CtxErr
    <3> QED BY <2>4, <3>1, <3>2 DEF TeardownStageDone, ErrsAfterTeardown,
       EnterStage, TasksOf, Step, ctxVars
  <2> QED BY <1>4, <2>1, <2>2, <2>3, <2>4 DEF Finish
<1>5. ASSUME NEW t \in Task, NEW s \in Step,
             \/ Goroutine(t, s)
             \/ \E fails \in BOOLEAN : GoEnd(t, s, fails)
      PROVE  MainTypeOK'
  <2>1. CASE GoReport(t, s)
    <3> DEFINE fails == <<t, s>> \in failed
    <3>1. OnError(t, s, fails)
      BY <2>1 DEF GoReport
    <3> HIDE DEF fails
    <3>2. /\ startup' \in Cause \cup {"unset", "live"}
          /\ setupErr' \in BOOLEAN
          /\ stopErrs' \subseteq Task \X Step
          /\ UNCHANGED <<pending, taskDone, ctxDone, baseDone, shutdownCtx,
                         initErrors, ctxErrs>>
      BY <3>1, OnErrorType
    <3> QED BY <2>1, <3>2 DEF GoReport, mainVars, outVars
  <2>2. CASE ~GoReport(t, s)
    <3>1. UNCHANGED <<mainVars, ctxVars, errVars, outVars>>
      BY <1>5, <2>2 DEF Goroutine, GoReady, GoBegin, GoUnimplemented, GoEnd
    <3> QED BY <3>1 DEF mainVars, ctxVars, errVars, outVars
  <2> QED BY <2>1, <2>2
<1>6. CASE Callers \/ PropagateCtx \/ Expire
  <2>1. ASSUME NEW c \in {"exit", "rejected"}, RequestStartupCancel(c)
        PROVE  MainTypeOK'
    BY <2>1 DEF RequestStartupCancel, FirstCause, Cause, mainVars, errVars, outVars
  <2>2. CASE AddInitError
    BY <2>2 DEF AddInitError, mainVars, ctxVars, outVars
  <2>3. CASE CancelCtx
    BY <2>3 DEF CancelCtx, mainVars, errVars, outVars
  <2>4. CASE CancelShutdownCtx
    BY <2>4 DEF CancelShutdownCtx, CtxState, mainVars, errVars, outVars
  <2>5. CASE PropagateCtx
    BY <2>5 DEF PropagateCtx, Cause, mainVars, errVars, outVars
  <2>6. CASE Expire
    BY <2>6 DEF Expire, CtxState, mainVars, errVars, outVars
  <2> QED BY <1>6, <2>1, <2>2, <2>3, <2>4, <2>5, <2>6 DEF Callers
<1>7. CASE Terminated \/ UNCHANGED vars
  <2>1. UNCHANGED <<mainVars, ctxVars, errVars, outVars>>
    BY <1>7 DEF Terminated, vars
  <2> QED BY <2>1 DEF mainVars, ctxVars, errVars, outVars
<1> QED BY <1>1, <1>2, <1>3, <1>4, <1>5, <1>6, <1>7 DEF Next, Main

LEMMA InitTyped == Init => TypeOK
<1> SUFFICES ASSUME Init PROVE TypeOK
  OBVIOUS
<1>1. executeSteps \in [Task -> Seq(Step)]
  BY DEF Init, WrapperInit
<1>2. WrapperTypeOK
  BY <1>1 DEF Init, WrapperInit, WrapperTypeOK, RunState, WrapperAssumption
<1>3. skips \in [Task -> Nat] /\ stage \in 0..NStages /\ stagesRun \in 0..NStages
  BY DEF Init, ManagerAssumption
<1>4. MainTypeOK
  BY <1>3 DEF Init, MainTypeOK, Step, CtxState
<1> QED BY <1>2, <1>4 DEF TypeOK

\* Every variable of Manager keeps its type, for every set of tasks, number of
\* stages and choice of options.
THEOREM TypeCorrect == Spec => []TypeOK
<1>1. TypeOK /\ [Next]_vars => TypeOK'
  BY WrapperTypeKept, MainTypeKept DEF TypeOK
<1> QED BY <1>1, InitTyped, PTL DEF Spec

-----------------------------------------------------------------------------
(* The order of the steps.                                                 *)

\* Run never comes back to a step: what it may have asked for only grows.
LEMMA AskedGrows ==
    ASSUME MainTypeOK, OrderInv, [Next]_vars, NEW u \in Task, NEW x \in Step,
           MayHaveAsked(u, x)
    PROVE  MayHaveAsked(u, x)'
<1> StageOf[u] \in 1..NStages /\ NStages \in Nat /\ stage \in 0..NStages
  BY DEF ManagerAssumption, MainTypeOK
<1> USE DEF MayHaveAsked
<1>1. CASE Enter \/ Prologue
  BY <1>1 DEF Enter, Prologue, ReadInitErrors, BeforeRunFails, CreateContexts,
     ApplyPending, ReturnEarly
<1>2. CASE RunStages
  <2>1. ASSUME NEW t \in Task, CheckTask(t) PROVE MayHaveAsked(u, x)'
    BY <2>1 DEF CheckTask
  <2>2. CASE SetupStageDone
    BY <2>2 DEF SetupStageDone, Visited, StartReturns, EnterStage, Step
  <2>3. CASE StartStageReady
    BY <2>3 DEF StartStageReady, Visited, MoreStages, StartReturns, EnterStage, Step
  <2>4. CASE NotifyTasksSkipped
    BY <2>4 DEF NotifyTasksSkipped
  <2> QED BY <1>2, <2>1, <2>2, <2>3, <2>4 DEF RunStages
<1>3. CASE Finish
  <2>1. ASSUME NEW c \in Cause, SelectCause(c) PROVE MayHaveAsked(u, x)'
    BY <2>1 DEF SelectCause, EnterStage
  <2>2. CASE StopStageDone
    BY <2>2 DEF StopStageDone, Visited, EarlierStages, EnterStage, Step
  <2>3. CASE Drained
    BY <2>3 DEF Drained, EnterStage
  <2>4. CASE TeardownStageDone
    BY <2>4 DEF TeardownStageDone, Visited, EnterStage, Step
  <2> QED BY <1>3, <2>1, <2>2, <2>3, <2>4 DEF Finish
<1>4. ASSUME UNCHANGED mainVars PROVE MayHaveAsked(u, x)'
  BY <1>4 DEF mainVars
<1>5. CASE \/ \E t \in Task, s \in Step : Goroutine(t, s)
           \/ \E t \in Task, s \in Step, fails \in BOOLEAN : GoEnd(t, s, fails)
  BY <1>4, <1>5 DEF Goroutine, GoReady, GoBegin, GoUnimplemented, GoReport, GoEnd
<1>6. CASE Callers \/ PropagateCtx \/ Expire
  BY <1>4, <1>6 DEF Callers, RequestStartupCancel, AddInitError, CancelCtx,
     CancelShutdownCtx, PropagateCtx, Expire
<1>7. CASE Terminated \/ UNCHANGED vars
  BY <1>4, <1>7 DEF Terminated, vars
<1> QED BY <1>1, <1>2, <1>3, <1>5, <1>6, <1>7 DEF Next, Main

\* Step s of task t has left a trace: a record in the ledger, or a goroutine.
Seen(t, s) == StepIsDone(t, s) \/ runs[t][s] # "none"

\* A goroutine leaves traces only of the step it runs.
LEMMA GoroutineTraces ==
    ASSUME WrapperTypeOK, NEW t \in Task, NEW s \in Step,
           \/ Ready(t, s) \/ Begin(t, s) \/ Unimplemented(t, s) \/ Report(t, s)
           \/ \E fails \in BOOLEAN : End(t, s, fails),
           NEW u \in Task, NEW x \in Step, Seen(u, x)'
    PROVE  Seen(u, x)
<1>1. runs[t][s] # "none"
  BY DEF Ready, Begin, Unimplemented, Report, End
<1>2. executeSteps' = executeSteps \/ executeSteps' = Record(t, s)
  BY DEF Ready, Begin, Unimplemented, Report, End
<1>3. \E v \in RunState : runs' = [runs EXCEPT ![t][s] = v]
  BY DEF Ready, Begin, Unimplemented, Report, End, RunState
<1>4. StepIsDone(u, x)' => StepIsDone(u, x) \/ (u = t /\ x = s)
  BY <1>2, RecordEffect DEF StepIsDone
<1>5. runs'[u][x] # "none" => runs[u][x] # "none" \/ (u = t /\ x = s)
  BY <1>3, MoveGoroutine DEF WrapperTypeOK
<1> QED BY <1>1, <1>4, <1>5 DEF Seen

\* checkStartStep leaves traces only of the step it is asked for.
LEMMA CheckTraces ==
    ASSUME WrapperTypeOK, NEW t \in Task, NEW s \in Step, CheckStartStep(t, s),
           NEW u \in Task, NEW x \in Step, Seen(u, x)'
    PROVE  Seen(u, x) \/ (u = t /\ x = s)
<1>1. executeSteps' = executeSteps \/ executeSteps' = Record(t, s)
  BY DEF CheckStartStep
<1>2. runs' = runs \/ runs' = [runs EXCEPT ![t][s] = "spawned"]
  BY DEF CheckStartStep
<1>3. StepIsDone(u, x)' => StepIsDone(u, x) \/ (u = t /\ x = s)
  BY <1>1, RecordEffect DEF StepIsDone
<1>4. runs'[u][x] # "none" => runs[u][x] # "none" \/ (u = t /\ x = s)
  BY <1>2, MoveGoroutine DEF WrapperTypeOK, RunState
<1> QED BY <1>3, <1>4 DEF Seen

\* The wrapper of a task still to be visited has no reason to refuse the step.
LEMMA CheckInOrder ==
    ASSUME MainTypeOK, OrderInv, NEW t \in todo, pc = "runStage"
    PROVE  ~InvalidOrder(t, step)
<1>1. t \in Task /\ StageOf[t] = stage
  BY DEF MainTypeOK, OrderInv, TasksOf
<1>2. \A b \in Blocking(step) : b \in Step /\ ~MayHaveAsked(t, b)
  BY <1>1 DEF MainTypeOK, Step, Blocking, MayHaveAsked, ManagerAssumption
<1> QED BY <1>1, <1>2 DEF OrderInv, NothingAhead, InvalidOrder

\* Every step of the manager keeps the inductive invariant of the step order.
LEMMA OrderStep ==
    ASSUME TypeOK, OrderInv, [Next]_vars
    PROVE  OrderInv'
<1> USE DEF TypeOK
<1>1. pc' = "runStage" => todo' \subseteq TasksOf(stage')
  <2>1. CASE UNCHANGED <<pc, stage, todo>>
    BY <2>1 DEF OrderInv, TasksOf
  <2>2. CASE \E t \in Task : CheckTask(t)
    BY <2>2 DEF CheckTask, OrderInv, TasksOf
  <2>3. CASE \E k, s : EnterStage(k, s)
    BY <2>3 DEF EnterStage
  <2>4. CASE pc' # "runStage"
    BY <2>4
  <2>5. CASE Prologue \/ SetupStageDone \/ StartStageReady \/ NotifyTasksSkipped \/ Finish
    BY <2>3, <2>4, <2>5 DEF Prologue, ReadInitErrors, BeforeRunFails, CreateContexts,
       ReturnEarly, ApplyPending, SetupStageDone, StartStageReady, StartReturns,
       NotifyTasksSkipped, Finish, SelectCause, StopStageDone, Drained, TeardownStageDone
  <2> QED BY <2>1, <2>2, <2>4, <2>5 DEF Next, Main, RunStages, Enter, Goroutine,
       GoReady, GoBegin, GoUnimplemented, GoReport, GoEnd, Callers,
       RequestStartupCancel, AddInitError, CancelCtx, CancelShutdownCtx,
       PropagateCtx, Expire, Terminated, vars, mainVars
<1>2. NoOrderError'
  <2>1. ASSUME NEW t \in Task, CheckTask(t) PROVE UNCHANGED orderErrs
    <3>1. ~InvalidOrder(t, step)
      BY <2>1, CheckInOrder DEF CheckTask
    <3> QED BY <2>1, <3>1 DEF CheckTask, errVars
  <2>2. CASE ~\E t \in Task : CheckTask(t)
    BY <2>2 DEF OrderInv, NoOrderError, Next, Main, RunStages, Enter, Prologue,
       ReadInitErrors, BeforeRunFails, CreateContexts, ReturnEarly, ApplyPending,
       SetupStageDone, StartStageReady, NotifyTasksSkipped, Finish, SelectCause,
       StopStageDone, Drained, TeardownStageDone, Goroutine, GoReady, GoBegin,
       GoUnimplemented, GoReport, GoEnd, Callers, RequestStartupCancel, AddInitError,
       CancelCtx, CancelShutdownCtx, PropagateCtx, Expire, Terminated, vars, errVars
  <2> QED BY <2>1, <2>2 DEF OrderInv, NoOrderError
<1>3. NothingAhead'
  <2> SUFFICES ASSUME NEW u \in Task, NEW x \in Step, Seen(u, x)'
               PROVE  MayHaveAsked(u, x)'
    BY DEF NothingAhead, Seen
  <2>1. Seen(u, x) => MayHaveAsked(u, x)
    BY DEF OrderInv, NothingAhead, Seen
  <2>2. CASE Seen(u, x)
    BY <2>1, <2>2, AskedGrows
  <2>3. CASE WrapperUntouched
    BY <2>2, <2>3, WrapperUnchanged DEF Seen, StepIsDone
  <2>4. ASSUME NEW t \in Task, CheckTask(t) PROVE MayHaveAsked(u, x)'
    <3>1. step \in Step /\ CheckStartStep(t, step)
      BY <2>4 DEF CheckTask, MainTypeOK
    <3>2. Seen(u, x) \/ (u = t /\ x = step)
      BY <3>1, CheckTraces
    <3>3. CASE u = t /\ x = step
      <4>1. StageOf[t] = stage
        BY <2>4 DEF CheckTask, OrderInv, TasksOf
      <4> QED BY <2>4, <3>1, <3>3, <4>1 DEF CheckTask, MayHaveAsked, Step
    <3> QED BY <2>2, <3>2, <3>3
  <2>5. ASSUME NEW t \in Task, NEW s \in Step,
               \/ Goroutine(t, s)
               \/ \E fails \in BOOLEAN : GoEnd(t, s, fails)
        PROVE  MayHaveAsked(u, x)'
    <3>1. \/ Ready(t, s) \/ Begin(t, s) \/ Unimplemented(t, s) \/ Report(t, s)
          \/ \E fails \in BOOLEAN : End(t, s, fails)
      BY <2>5 DEF Goroutine, GoReady, GoBegin, GoUnimplemented, GoReport, GoEnd
    <3> QED BY <2>2, <3>1, GoroutineTraces
  <2> QED BY <2>3, <2>4, <2>5 DEF Next, Main, RunStages, WrapperUntouched
<1> QED BY <1>1, <1>2, <1>3 DEF OrderInv

\* checkStartStep never refuses a step Run asks for (run.go:406-412), and Run
\* leaves no trace of a step it has not come to, for every set of tasks, number of
\* stages, choice of options and behaviour of the user code.
THEOREM StepsInOrder == Spec => [](NoOrderError /\ NothingAhead)
<1>1. Init => OrderInv
  BY DEF Init, WrapperInit, OrderInv, NoOrderError, NothingAhead, StepIsDone, InLedger
<1>2. TypeOK /\ OrderInv /\ [Next]_vars => OrderInv'
  BY OrderStep
<1>3. OrderInv => NoOrderError /\ NothingAhead
  BY DEF OrderInv
<1> QED BY <1>1, <1>2, <1>3, TypeCorrect, PTL DEF Spec

-----------------------------------------------------------------------------
(***************************************************************************)
(* The order of the stages: the barriers between them on the way up, and   *)
(* on the way down.                                                        *)
(***************************************************************************)
(* The three kinds of steps, and what each leaves alone.                   *)

\* A step of the goroutine of step s of task t.
GoStep(t, s) == Goroutine(t, s) \/ \E fails \in BOOLEAN : GoEnd(t, s, fails)

\* A step is one of a goroutine, the visit of a task, or touches no wrapper.
LEMMA ThreeKinds ==
    ASSUME [Next]_vars
    PROVE  \/ \E t \in Task, s \in Step : GoStep(t, s)
           \/ \E t \in Task : CheckTask(t)
           \/ WrapperUntouched
BY DEF Next, Main, RunStages, WrapperUntouched, GoStep

\* A goroutine neither starts nor ends another one; it leaves the position of Run
\* alone, and the result of every step that is over.
LEMMA GoStepKeeps ==
    ASSUME TypeOK, NEW t \in Task, NEW s \in Step, GoStep(t, s)
    PROVE  /\ \A u \in Task, x \in Step :
                 /\ Touched(u, x)' <=> Touched(u, x)
                 /\ RunOver(u, x) => RunOver(u, x)'
                 /\ RunOver(u, x) => (<<u, x>> \in failed' <=> <<u, x>> \in failed)
                 /\ runs[u][x] # "spawned" => runs'[u][x] # "spawned"
           /\ UNCHANGED <<pc, stage, step, todo, shutdownCtx, ctxErrs, result>>
<1>1. /\ \/ Ready(t, s) \/ Begin(t, s) \/ Unimplemented(t, s) \/ Report(t, s)
         \/ \E fails \in BOOLEAN : End(t, s, fails)
      /\ UNCHANGED <<pc, stage, step, todo, shutdownCtx, ctxErrs, result>>
  BY DEF GoStep, Goroutine, GoReady, GoBegin, GoUnimplemented, GoReport, GoEnd,
     OnError, mainVars, ctxVars, errVars, outVars
<1>2. runs[t][s] \notin {"none", "done"}
  BY <1>1 DEF Ready, Begin, Unimplemented, Report, End
<1>3. PICK v \in RunState : v \notin {"none", "spawned"} /\ runs' = [runs EXCEPT ![t][s] = v]
  BY <1>1 DEF Ready, Begin, Unimplemented, Report, End, RunState
<1>4. failed' = failed \/ failed' = failed \cup {<<t, s>>}
  BY <1>1 DEF Ready, Begin, Unimplemented, Report, End
<1>5. ASSUME NEW u \in Task, NEW x \in Step
      PROVE  /\ Touched(u, x)' <=> Touched(u, x)
             /\ RunOver(u, x) => RunOver(u, x)'
             /\ RunOver(u, x) => (<<u, x>> \in failed' <=> <<u, x>> \in failed)
             /\ runs[u][x] # "spawned" => runs'[u][x] # "spawned"
  <2>1. runs'[u][x] = IF u = t /\ x = s THEN v ELSE runs[u][x]
    BY <1>3, MoveGoroutine DEF TypeOK, WrapperTypeOK
  <2>2. RunOver(u, x) => <<u, x>> # <<t, s>>
    BY <1>2 DEF RunOver
  <2> QED BY <1>2, <1>3, <1>4, <2>1, <2>2 DEF Touched, RunOver
<1> QED BY <1>1, <1>5

\* The visit of a task may only spawn the goroutine of the step it is about,
\* which the task never had before.
LEMMA CheckKeeps ==
    ASSUME TypeOK, OrderInv, NEW t \in Task, CheckTask(t)
    PROVE  /\ pc = "runStage" /\ StageOf[t] = stage /\ t \in todo /\ step \in Step
           /\ runs[t][step] = "none"
           /\ UNCHANGED <<failed, pc, stage, step, ctxVars, errVars, result>>
           /\ \A u \in Task, x \in Step : ~(u = t /\ x = step) => runs'[u][x] = runs[u][x]
<1>1. pc = "runStage" /\ t \in todo /\ StageOf[t] = stage /\ step \in Step
  BY DEF CheckTask, OrderInv, TasksOf, TypeOK, MainTypeOK
<1>2. ~InvalidOrder(t, step)
  BY <1>1, CheckInOrder DEF TypeOK
<1>3. UNCHANGED <<failed, pc, stage, step, ctxVars, errVars, result>>
  BY <1>2 DEF CheckTask, outVars
<1>4. ~MayHaveAsked(t, step)
  BY <1>1 DEF MayHaveAsked, Step, TypeOK, MainTypeOK, ManagerAssumption
<1>5. runs[t][step] = "none"
  BY <1>1, <1>4 DEF OrderInv, NothingAhead
<1>6. runs' = runs \/ runs' = [runs EXCEPT ![t][step] = "spawned"]
  BY DEF CheckTask, CheckStartStep
<1>7. \A u \in Task, x \in Step : ~(u = t /\ x = step) => runs'[u][x] = runs[u][x]
  BY <1>1, <1>6, MoveGoroutine DEF TypeOK, WrapperTypeOK, RunState
<1> QED BY <1>1, <1>3, <1>5, <1>7

\* The steps in which Run moves on.
Moves ==
    \/ Enter \/ Prologue \/ SetupStageDone \/ StartStageReady \/ NotifyTasksSkipped
    \/ Finish

\* Every other step that touches no wrapper leaves the position of Run alone.
LEMMA PositionKept ==
    ASSUME WrapperUntouched
    PROVE  \/ Moves
           \/ UNCHANGED <<pc, stage, step, todo, setupErr, ctxErrs, stopErrs>>
<1>1. CASE Callers \/ PropagateCtx \/ Expire
  BY <1>1 DEF Callers, RequestStartupCancel, AddInitError, CancelCtx,
     CancelShutdownCtx, PropagateCtx, Expire, mainVars, errVars
<1>2. CASE Terminated \/ UNCHANGED vars
  BY <1>2 DEF Terminated, vars, mainVars, errVars
<1> QED BY <1>1, <1>2 DEF WrapperUntouched, Moves

-----------------------------------------------------------------------------
(* On the way up.                                                          *)

SetupDone(t) == RunOver(t, "setup") /\ <<t, "setup">> \notin failed

\* While Run goes up, the stages below have been set up and started ...
BelowReady ==
    pc = "runStage" /\ step \in {"setup", "start"} =>
        \A t \in Task : StageOf[t] < stage =>
            SetupDone(t) /\ runs[t]["start"] # "spawned"

\* ... and this one has been set up, once Run asks for its start steps.
StageSetUp ==
    pc = "runStage" /\ step = "start" => \A t \in TasksOf(stage) : SetupDone(t)

\* An error of a setup step is not forgotten by the time the step is over.
FailureKept ==
    \A t \in Task : <<t, "setup">> \in failed => runs[t]["setup"] = "ended" \/ setupErr

\* The inductive invariant behind the barriers between the stages.
UpInv == BelowReady /\ StageSetUp /\ FailureKept /\ SetupBarrier /\ StartBarrier

\* The goroutines keep it.
LEMMA UpGoroutine ==
    ASSUME TypeOK, UpInv, NEW t \in Task, NEW s \in Step, GoStep(t, s)
    PROVE  UpInv'
<1> "setup" \in Step /\ "start" \in Step
  BY DEF Step
<1>1. ASSUME NEW u \in Task PROVE SetupDone(u) => SetupDone(u)'
  BY GoStepKeeps DEF SetupDone
<1>2. BelowReady' /\ StageSetUp'
  BY <1>1, GoStepKeeps DEF UpInv, BelowReady, StageSetUp, TasksOf
<1>3. SetupBarrier'
  BY <1>1, GoStepKeeps DEF UpInv, SetupBarrier, SetupDone
<1>4. StartBarrier'
  BY <1>1, GoStepKeeps DEF UpInv, StartBarrier, SetupDone
<1>5. FailureKept'
  <2> SUFFICES ASSUME NEW u \in Task, <<u, "setup">> \in failed', ~setupErr'
               PROVE  runs'[u]["setup"] = "ended"
    BY DEF FailureKept
  <2>1. CASE GoReport(t, s)
    <3>1. Report(t, s) /\ OnError(t, s, <<t, s>> \in failed)
      BY <2>1 DEF GoReport
    <3>2. ~setupErr /\ ~(s = "setup" /\ <<t, s>> \in failed) /\ failed' = failed
      BY <3>1 DEF Report, OnError, SetupFailed
    <3>3. runs[u]["setup"] = "ended" /\ ~(u = t /\ s = "setup")
      BY <3>2 DEF UpInv, FailureKept
    <3> QED BY <3>1, <3>3, MoveGoroutine DEF Report, TypeOK, WrapperTypeOK, RunState
  <2>2. CASE \E fails \in BOOLEAN : GoEnd(t, s, fails)
    <3>1. \E fails \in BOOLEAN : End(t, s, fails) /\ UNCHANGED setupErr
      BY <2>2 DEF GoEnd, errVars
    <3>2. runs' = [runs EXCEPT ![t][s] = "ended"] /\ ~setupErr
      BY <3>1 DEF End
    <3>3. \A x \in Step : runs'[u][x] = IF u = t /\ x = s THEN "ended" ELSE runs[u][x]
      BY <3>2, MoveGoroutine DEF TypeOK, WrapperTypeOK, RunState
    <3>4. <<u, "setup">> \in failed \/ (u = t /\ s = "setup")
      BY <3>1 DEF End
    <3> QED BY <3>2, <3>3, <3>4 DEF UpInv, FailureKept
  <2>3. CASE GoReady(t, s) \/ GoBegin(t, s) \/ GoUnimplemented(t, s)
    <3>1. Ready(t, s) \/ Begin(t, s) \/ Unimplemented(t, s)
      BY <2>3 DEF GoReady, GoBegin, GoUnimplemented
    <3>2. UNCHANGED <<failed, setupErr>>
      BY <2>3, <3>1 DEF GoReady, GoBegin, GoUnimplemented, Ready, Begin, Unimplemented, errVars
    <3>3. runs[u]["setup"] = "ended" /\ runs[t][s] # "ended"
      BY <3>1, <3>2 DEF UpInv, FailureKept, Ready, Begin, Unimplemented
    <3>4. \E v \in RunState : runs' = [runs EXCEPT ![t][s] = v]
      BY <3>1 DEF Ready, Begin, Unimplemented, RunState
    <3> QED BY <3>3, <3>4, MoveGoroutine DEF TypeOK, WrapperTypeOK
  <2> QED BY <2>1, <2>2, <2>3 DEF GoStep, Goroutine
<1> QED BY <1>2, <1>3, <1>4, <1>5 DEF UpInv

\* So does the visit of a task: what it spawns comes after all it waits for.
LEMMA UpCheck ==
    ASSUME TypeOK, OrderInv, UpInv, NEW t \in Task, CheckTask(t)
    PROVE  UpInv'
<1> "setup" \in Step /\ "start" \in Step
  BY DEF Step
<1> StageOf \in [Task -> 1..NStages] /\ NStages \in Nat /\ stage \in 0..NStages
  BY DEF ManagerAssumption, TypeOK, MainTypeOK
<1>1. /\ pc = "runStage" /\ StageOf[t] = stage /\ runs[t][step] = "none"
      /\ UNCHANGED <<failed, pc, stage, step, setupErr>>
  BY CheckKeeps DEF errVars
<1>2. \A u \in Task, x \in Step : ~(u = t /\ x = step) => runs'[u][x] = runs[u][x]
  BY CheckKeeps
<1>3. \A u \in Task : u # t \/ step # "setup" => (SetupDone(u)' <=> SetupDone(u))
  BY <1>1, <1>2 DEF SetupDone, RunOver
<1>4. \A u \in Task : Touched(u, "setup") \/ Touched(u, "start") =>
         \/ step \in {"stop", "teardown"}
         \/ StageOf[u] < stage
         \/ StageOf[u] = stage /\ u # t
         \/ StageOf[u] = stage /\ step = "start" /\ ~Touched(u, "start")
  <2> SUFFICES ASSUME NEW u \in Task, step \in {"setup", "start"},
                      ~(StageOf[u] < stage), ~(StageOf[u] = stage /\ u # t),
                      Touched(u, "setup") \/ Touched(u, "start")
               PROVE  StageOf[u] = stage /\ step = "start" /\ ~Touched(u, "start")
    BY CheckKeeps DEF Step
  <2>1. t \in todo
    BY CheckKeeps
  <2>2. MayHaveAsked(u, "setup") \/ MayHaveAsked(u, "start")
    BY DEF OrderInv, NothingAhead, Touched
  <2>3. StageOf[u] = stage /\ u = t /\ step = "start"
    BY <1>1, <2>1, <2>2 DEF MayHaveAsked
  <2> QED BY <1>1, <2>3 DEF Touched
<1>5. BelowReady'
  BY <1>1, <1>2, <1>3 DEF UpInv, BelowReady
<1>6. StageSetUp'
  BY <1>1, <1>3 DEF UpInv, StageSetUp, TasksOf
<1>7. FailureKept'
  BY <1>1, <1>2 DEF UpInv, FailureKept
<1>8. SetupBarrier'
  <2> SUFFICES ASSUME NEW a \in Task, NEW u \in Task,
                      StageOf[a] < StageOf[u], Touched(u, "setup")'
               PROVE  SetupDone(a)' /\ runs'[a]["start"] # "spawned"
    BY DEF SetupBarrier, SetupDone
  <2>1. CASE Touched(u, "setup")
    <3>1. SetupDone(a) /\ runs[a]["start"] # "spawned"
      BY <2>1 DEF UpInv, SetupBarrier, SetupDone
    <3>2. a = t => step \in {"stop", "teardown"}
      BY <1>1, <1>4, <2>1
    <3> QED BY <1>2, <1>3, <3>1, <3>2
  <2>2. CASE ~Touched(u, "setup")
    <3>1. u = t /\ step = "setup"
      BY <1>2, <2>2 DEF Touched
    <3>2. SetupDone(a) /\ runs[a]["start"] # "spawned" /\ a # t
      BY <1>1, <3>1 DEF UpInv, BelowReady
    <3> QED BY <1>2, <1>3, <3>2
  <2> QED BY <2>1, <2>2
<1>9. StartBarrier'
  <2> SUFFICES ASSUME NEW a \in Task, NEW u \in Task,
                      StageOf[a] <= StageOf[u], Touched(u, "start")'
               PROVE  SetupDone(a)'
    BY DEF StartBarrier, SetupDone
  <2>1. CASE Touched(u, "start")
    <3>1. SetupDone(a)
      BY <2>1 DEF UpInv, StartBarrier, SetupDone
    <3>2. a = t => step # "setup"
      <4> SUFFICES ASSUME a = t, step = "setup" PROVE FALSE
        OBVIOUS
      <4>1. MayHaveAsked(u, "start")
        BY <2>1 DEF OrderInv, NothingAhead, Touched
      <4>2. StageOf[u] < stage
        BY <1>1, <4>1 DEF MayHaveAsked
      <4> QED BY <1>1, <4>2
    <3> QED BY <1>3, <3>1, <3>2
  <2>2. CASE ~Touched(u, "start")
    <3>1. u = t /\ step = "start"
      BY <1>2, <2>2 DEF Touched
    <3>2. SetupDone(a)
      BY <1>1, <3>1 DEF UpInv, BelowReady, StageSetUp, TasksOf
    <3> QED BY <1>3, <3>1, <3>2
  <2> QED BY <2>1, <2>2
<1> QED BY <1>5, <1>6, <1>7, <1>8, <1>9 DEF UpInv

\* So does every step that touches no wrapper: Run goes on to start a stage, or to
\* the next stage, only when what it leaves behind is in the state it should be.
LEMMA UpMove ==
    ASSUME TypeOK, UpInv, WrapperUntouched
    PROVE  UpInv'
<1> StageOf \in [Task -> 1..NStages] /\ NStages \in Nat /\ stage \in 0..NStages
  BY DEF ManagerAssumption, TypeOK, MainTypeOK
<1>1. UNCHANGED <<runs, failed>>
  BY WrapperUnchanged
<1>2. \A u \in Task : SetupDone(u)' <=> SetupDone(u)
  BY <1>1 DEF SetupDone, RunOver
<1>3. SetupBarrier' /\ StartBarrier'
  BY <1>1 DEF UpInv, SetupBarrier, StartBarrier, Touched, RunOver
<1>4. UNCHANGED setupErr
  BY PositionKept DEF Moves, Enter, Prologue, ReadInitErrors, BeforeRunFails, ReturnEarly,
     CreateContexts, ApplyPending, SetupStageDone, StartStageReady, NotifyTasksSkipped,
     Finish, SelectCause, StopStageDone, Drained, TeardownStageDone, errVars
<1>5. FailureKept'
  BY <1>1, <1>4 DEF UpInv, FailureKept
<1>6. BelowReady' /\ StageSetUp'
  <2>1. CASE UNCHANGED <<pc, stage, step>>
    BY <1>1, <1>2, <2>1 DEF UpInv, BelowReady, StageSetUp, TasksOf
  <2>2. CASE pc' # "runStage" \/ step' \in {"stop", "teardown"}
    BY <2>2 DEF BelowReady, StageSetUp
  <2>3. CASE ApplyPending
    BY <2>3 DEF ApplyPending, EnterStage, BelowReady, StageSetUp
  <2>4. CASE SetupStageDone /\ pc' = "runStage"
    <3>1. /\ pc = "runStage" /\ step = "setup" /\ StageOver /\ ~setupErr
          /\ step' = "start" /\ stage' = stage
      BY <2>4 DEF SetupStageDone, Visited, StartReturns, EnterStage
    <3>2. \A u \in TasksOf(stage) : SetupDone(u)
      BY <3>1 DEF StageOver, SetupDone, RunOver, UpInv, FailureKept, TasksOf
    <3> QED BY <1>1, <1>2, <3>1, <3>2 DEF UpInv, BelowReady, StageSetUp, TasksOf
  <2>5. CASE StartStageReady /\ pc' = "runStage"
    <3>1. /\ pc = "runStage" /\ step = "start" /\ GoroutinesReady
          /\ step' = "setup" /\ stage' = stage + 1
      BY <2>5 DEF StartStageReady, Visited, StartReturns, EnterStage
    <3>2. \A u \in Task : StageOf[u] < stage + 1 =>
             StageOf[u] < stage \/ u \in TasksOf(stage)
      BY DEF TasksOf
    <3>3. \A u \in Task : StageOf[u] < stage + 1 =>
             SetupDone(u) /\ runs[u]["start"] # "spawned"
      BY <3>1, <3>2 DEF UpInv, BelowReady, StageSetUp, GoroutinesReady
    <3> QED BY <1>1, <1>2, <3>1, <3>3 DEF BelowReady, StageSetUp
  <2>6. CASE Enter \/ ReadInitErrors \/ BeforeRunFails \/ CreateContexts \/ NotifyTasksSkipped
    BY <2>2, <2>6 DEF Enter, ReadInitErrors, BeforeRunFails, ReturnEarly, CreateContexts,
       NotifyTasksSkipped
  <2>7. CASE Finish
    BY <2>2, <2>7 DEF Finish, SelectCause, StopStageDone, Drained, TeardownStageDone, EnterStage
  <2> QED BY <2>1, <2>2, <2>3, <2>4, <2>5, <2>6, <2>7, PositionKept DEF Moves, Prologue
<1> QED BY <1>3, <1>5, <1>6 DEF UpInv

\* No step of a stage is asked for before what the stages below, and the steps
\* before it, have to be: a setup step before every setup below has succeeded and
\* every start step below has its goroutine, a start step before every setup
\* below and beside it has succeeded (README.md:33-37).
THEOREM BarriersHold == Spec => [](SetupBarrier /\ StartBarrier)
<1>1. Init => OrderInv /\ UpInv
  BY DEF Init, WrapperInit, OrderInv, NoOrderError, NothingAhead, StepIsDone, InLedger,
     UpInv, BelowReady, StageSetUp, FailureKept, SetupBarrier, StartBarrier, Touched, Step
<1>2. TypeOK /\ OrderInv /\ UpInv /\ [Next]_vars => OrderInv' /\ UpInv'
  BY OrderStep, ThreeKinds, UpGoroutine, UpCheck, UpMove
<1>3. UpInv => SetupBarrier /\ StartBarrier
  BY DEF UpInv
<1> QED BY <1>1, <1>2, <1>3, TypeCorrect, PTL DEF Spec

-----------------------------------------------------------------------------
(* On the way down.                                                        *)

\* Run is working on step s of some stage.
Doing(s) == pc = "runStage" /\ step = s

\* A shutdown that has begun has a context, ...
CtxMade == pc = "drain" \/ Doing("stop") \/ Doing("teardown") => shutdownCtx # "unset"

\* ... and the stages above have stopped, unless it was given up, ...
AboveStopped ==
    Doing("stop") =>
        \A t \in Task : StageOf[t] > stage => RunOver(t, "stop") \/ Overdue

\* ... all stages once Run waits for the start goroutines, ...
AllStopped ==
    pc = "drain" => \A t \in Task : RunOver(t, "stop") \/ Overdue

\* ... and all but the teardown of this stage and of those below is over at last.
AboveTornDown ==
    Doing("teardown") =>
        \A t \in Task :
            /\ (RunOver(t, "start") /\ RunOver(t, "stop")) \/ Overdue
            /\ StageOf[t] > stage => RunOver(t, "teardown")

\* The inductive invariant behind the order of the shutdown.
DownInv == CtxMade /\ AboveStopped /\ AllStopped /\ AboveTornDown /\ StopOrder /\ TeardownLast

\* A goroutine keeps it.
LEMMA DownGoroutine ==
    ASSUME TypeOK, DownInv, NEW t \in Task, NEW s \in Step, GoStep(t, s)
    PROVE  DownInv'
<1> "start" \in Step /\ "stop" \in Step /\ "teardown" \in Step
  BY DEF Step
<1>1. Overdue' <=> Overdue
  BY GoStepKeeps DEF Overdue
<1>2. CtxMade' /\ AboveStopped' /\ AllStopped' /\ AboveTornDown'
  BY <1>1, GoStepKeeps DEF DownInv, CtxMade, AboveStopped, AllStopped, AboveTornDown, Doing
<1>3. StopOrder' /\ TeardownLast'
  BY <1>1, GoStepKeeps DEF DownInv, StopOrder, TeardownLast
<1> QED BY <1>2, <1>3 DEF DownInv

\* So does the visit of a task.
LEMMA DownCheck ==
    ASSUME TypeOK, OrderInv, DownInv, NEW t \in Task, CheckTask(t)
    PROVE  DownInv'
<1> "start" \in Step /\ "stop" \in Step /\ "teardown" \in Step
  BY DEF Step
<1> StageOf \in [Task -> 1..NStages] /\ NStages \in Nat /\ stage \in 0..NStages
  BY DEF ManagerAssumption, TypeOK, MainTypeOK
<1>1. /\ pc = "runStage" /\ StageOf[t] = stage /\ t \in todo
      /\ UNCHANGED <<pc, stage, step, shutdownCtx, ctxErrs>>
  BY CheckKeeps DEF ctxVars, errVars
<1>2. \A u \in Task, x \in Step : ~(u = t /\ x = step) => runs'[u][x] = runs[u][x]
  BY CheckKeeps
<1>3. Overdue' <=> Overdue
  BY <1>1 DEF Overdue
<1>4. CtxMade'
  BY <1>1 DEF DownInv, CtxMade, Doing
<1>5. AboveStopped' /\ AllStopped'
  BY <1>1, <1>2, <1>3 DEF DownInv, AboveStopped, AllStopped, Doing, RunOver
<1>6. AboveTornDown'
  BY <1>1, <1>2, <1>3 DEF DownInv, AboveTornDown, Doing, RunOver
<1>7. ASSUME NEW u \in Task, Touched(u, "stop")
      PROVE  step \in {"stop", "teardown"} /\ (step = "stop" => ~(StageOf[u] < stage))
  <2>1. MayHaveAsked(u, "stop")
    BY <1>7 DEF OrderInv, NothingAhead, Touched
  <2> QED BY <1>1, <2>1 DEF MayHaveAsked
<1>8. ASSUME NEW u \in Task, Touched(u, "teardown")
      PROVE  step = "teardown" /\ ~(StageOf[u] < stage)
  <2>1. MayHaveAsked(u, "teardown")
    BY <1>8 DEF OrderInv, NothingAhead, Touched
  <2> QED BY <1>1, <2>1 DEF MayHaveAsked
<1>9. StopOrder'
  <2> SUFFICES ASSUME NEW a \in Task, NEW u \in Task,
                      StageOf[a] < StageOf[u], Touched(a, "stop")', ~Overdue
               PROVE  RunOver(u, "stop")'
    BY <1>3 DEF StopOrder
  <2>1. CASE Touched(a, "stop")
    <3>1. RunOver(u, "stop")
      BY <2>1 DEF DownInv, StopOrder
    <3>2. ~(u = t /\ step = "stop")
      BY <1>1, <1>7, <2>1
    <3> QED BY <1>2, <3>1, <3>2 DEF RunOver
  <2>2. CASE ~Touched(a, "stop")
    <3>1. a = t /\ step = "stop"
      BY <1>2, <2>2 DEF Touched
    <3>2. RunOver(u, "stop") /\ u # t
      BY <1>1, <3>1 DEF DownInv, AboveStopped, Doing
    <3> QED BY <1>2, <3>2 DEF RunOver
  <2> QED BY <2>1, <2>2
<1>10. TeardownLast'
  <2> SUFFICES ASSUME NEW a \in Task, NEW u \in Task, Touched(a, "teardown")'
               PROVE  /\ (RunOver(u, "start")' /\ RunOver(u, "stop")') \/ Overdue
                      /\ StageOf[a] < StageOf[u] => RunOver(u, "teardown")'
    BY <1>3 DEF TeardownLast
  <2>1. step = "teardown" /\ ~(StageOf[a] < stage)
    BY <1>1, <1>2, <1>8 DEF Touched
  <2>2. RunOver(u, "start")' = RunOver(u, "start") /\ RunOver(u, "stop")' = RunOver(u, "stop")
    BY <1>2, <2>1 DEF RunOver
  <2>3. (RunOver(u, "start") /\ RunOver(u, "stop")) \/ Overdue
    BY <1>1, <2>1 DEF DownInv, AboveTornDown, Doing
  <2>4. ASSUME StageOf[a] < StageOf[u] PROVE RunOver(u, "teardown")'
    <3>1. RunOver(u, "teardown") /\ u # t
      BY <1>1, <2>1, <2>4 DEF DownInv, AboveTornDown, Doing
    <3> QED BY <1>2, <3>1 DEF RunOver
  <2> QED BY <2>2, <2>3, <2>4
<1> QED BY <1>4, <1>5, <1>6, <1>9, <1>10 DEF DownInv

\* A shutdown that was late stays late, and one that gave up waiting was late.
LEMMA LateForGood ==
    ASSUME TypeOK, WrapperUntouched
    PROVE  /\ pc # "select" /\ Overdue => Overdue'
           /\ GaveUp /\ shutdownCtx # "unset" => Overdue
<1>1. GaveUp /\ shutdownCtx # "unset" => Overdue
  BY DEF GaveUp, Overdue, TypeOK, MainTypeOK, CtxState
<1> SUFFICES ASSUME pc # "select", Overdue PROVE Overdue'
  BY <1>1
<1>2. CASE UNCHANGED <<shutdownCtx, ctxErrs>>
  BY <1>2 DEF Overdue
<1>3. CASE Drained
  <2>1. CASE shutdownCtx' = shutdownCtx
    <3>1. ctxErrs \subseteq ctxErrs'
      BY <1>3 DEF Drained, ErrsBeforeTeardown
    <3> QED BY <2>1, <3>1 DEF Overdue
  <2>2. CASE shutdownCtx' # shutdownCtx
    <3>1. ctxErrs' = ctxErrs \cup CtxErr
      BY <1>3, <2>2 DEF Drained, ErrsBeforeTeardown
    <3> QED BY <3>1 DEF Overdue, CtxErr
  <2> QED BY <2>1, <2>2
<1>4. CASE TeardownStageDone
  <2>1. ctxErrs \subseteq ctxErrs' /\ shutdownCtx' = shutdownCtx
    BY <1>4 DEF TeardownStageDone, ErrsAfterTeardown, ctxVars
  <2> QED BY <2>1 DEF Overdue
<1>5. CASE CancelShutdownCtx \/ Expire
  BY <1>5 DEF CancelShutdownCtx, Expire, Overdue, errVars
<1>6. CASE Enter \/ Prologue \/ SetupStageDone \/ StartStageReady \/ NotifyTasksSkipped
  BY <1>2, <1>6 DEF Enter, Prologue, ReadInitErrors, BeforeRunFails, ReturnEarly,
     CreateContexts, ApplyPending, SetupStageDone, StartStageReady, NotifyTasksSkipped,
     ctxVars, errVars
<1>7. CASE (\E c \in Cause : SelectCause(c)) \/ StopStageDone
  BY <1>2, <1>7 DEF SelectCause, StopStageDone, ctxVars, errVars
<1>8. CASE (\E c \in {"exit", "rejected"} : RequestStartupCancel(c)) \/ AddInitError
           \/ CancelCtx \/ PropagateCtx \/ Terminated \/ UNCHANGED vars
  BY <1>2, <1>8 DEF RequestStartupCancel, AddInitError, CancelCtx, PropagateCtx,
     Terminated, vars, ctxVars, errVars
<1> QED BY <1>3, <1>4, <1>5, <1>6, <1>7, <1>8 DEF WrapperUntouched, Finish, Callers

\* A context of the shutdown once made is never unmade.
LEMMA CtxStaysMade ==
    ASSUME TypeOK, WrapperUntouched, shutdownCtx # "unset"
    PROVE  shutdownCtx' # "unset"
<1>1. CASE Enter \/ Prologue \/ SetupStageDone \/ StartStageReady \/ NotifyTasksSkipped
  BY <1>1 DEF Enter, Prologue, ReadInitErrors, BeforeRunFails, ReturnEarly,
     CreateContexts, ApplyPending, SetupStageDone, StartStageReady, NotifyTasksSkipped,
     ctxVars
<1>2. CASE Finish
  BY <1>2 DEF Finish, SelectCause, NewCtx, StopStageDone, Drained, TeardownStageDone, ctxVars
<1>3. CASE Callers \/ PropagateCtx \/ Expire \/ Terminated \/ UNCHANGED vars
  BY <1>3 DEF Callers, RequestStartupCancel, AddInitError, CancelCtx, CancelShutdownCtx,
     PropagateCtx, Expire, Terminated, vars, ctxVars
<1> QED BY <1>1, <1>2, <1>3 DEF WrapperUntouched

\* So does every step that touches no wrapper: Run goes on to the stage below, or
\* to the teardown steps, only when the steps it awaited are over or it was late.
LEMMA DownMove ==
    ASSUME TypeOK, OrderInv, DownInv, WrapperUntouched
    PROVE  DownInv'
<1> "start" \in Step /\ "stop" \in Step /\ "teardown" \in Step
  BY DEF Step
<1> StageOf \in [Task -> 1..NStages] /\ NStages \in Nat /\ stage \in 0..NStages
  BY DEF ManagerAssumption, TypeOK, MainTypeOK
<1>1. UNCHANGED runs
  BY WrapperUnchanged
<1>2. CASE \E c \in Cause : SelectCause(c)
  <2>1. /\ pc = "select" /\ pc' = "runStage" /\ step' = "stop" /\ stage' = NStages
        /\ shutdownCtx' # "unset"
    BY <1>2 DEF SelectCause, EnterStage, NewCtx
  <2>2. \A u \in Task : ~Touched(u, "stop") /\ ~Touched(u, "teardown")
    BY <2>1 DEF OrderInv, NothingAhead, MayHaveAsked, Touched
  <2>3. \A u \in Task : ~(StageOf[u] > NStages)
    OBVIOUS
  <2> QED BY <1>1, <2>1, <2>2, <2>3 DEF DownInv, CtxMade, AboveStopped, AllStopped,
      AboveTornDown, StopOrder, TeardownLast, Doing, Touched
<1>3. CASE pc # "select"
  <2>1. (Overdue => Overdue') /\ (shutdownCtx # "unset" => shutdownCtx' # "unset")
    BY <1>3, LateForGood, CtxStaysMade
  <2>2. StopOrder' /\ TeardownLast'
    BY <1>1, <2>1 DEF DownInv, StopOrder, TeardownLast, Touched, RunOver
  <2>3. CASE UNCHANGED <<pc, stage, step>>
    <3>1. CtxMade'
      BY <2>1, <2>3 DEF DownInv, CtxMade, Doing
    <3>2. AboveStopped' /\ AllStopped' /\ AboveTornDown'
      BY <1>1, <2>1, <2>3 DEF DownInv, AboveStopped, AllStopped, AboveTornDown,
         Doing, RunOver
    <3> QED BY <2>2, <3>1, <3>2 DEF DownInv
  <2>4. CASE \/ pc' \notin {"runStage", "drain"}
             \/ pc' = "runStage" /\ step' \in {"setup", "start"}
    BY <2>2, <2>4 DEF DownInv, CtxMade, AboveStopped, AllStopped, AboveTornDown, Doing
  <2>5. CASE StopStageDone
    <3>1. Doing("stop") /\ StopAwaited /\ shutdownCtx # "unset"
      BY <2>5 DEF StopStageDone, Visited, Doing, DownInv, CtxMade
    <3>2. \A u \in Task : StageOf[u] >= stage => RunOver(u, "stop") \/ Overdue
      <4>1. StageOver \/ Overdue
        BY <3>1, LateForGood DEF StopAwaited
      <4>2. \A u \in TasksOf(stage) : RunOver(u, "stop") \/ Overdue
        BY <3>1, <4>1 DEF StageOver, Doing
      <4> QED BY <3>1, <4>2 DEF DownInv, AboveStopped, TasksOf
    <3>3. CASE stage > 1
      <4>1. Doing("stop")' /\ stage' = stage - 1
        BY <2>5, <3>3 DEF StopStageDone, EarlierStages, EnterStage, Doing
      <4> QED BY <1>1, <2>1, <2>2, <3>1, <3>2, <4>1 DEF DownInv, CtxMade, AboveStopped,
          AllStopped, AboveTornDown, Doing, RunOver
    <3>4. CASE ~(stage > 1)
      <4>1. pc' = "drain" /\ \A u \in Task : StageOf[u] >= stage
        BY <2>5, <3>4 DEF StopStageDone, EarlierStages
      <4> QED BY <1>1, <2>1, <2>2, <3>1, <3>2, <4>1 DEF DownInv, CtxMade, AboveStopped,
          AllStopped, AboveTornDown, Doing, RunOver
    <3> QED BY <3>3, <3>4
  <2>6. CASE Drained
    <3>1. /\ pc = "drain" /\ TasksDrained /\ shutdownCtx # "unset"
          /\ Doing("teardown")' /\ stage' = NStages
      BY <2>6 DEF Drained, EnterStage, Doing, DownInv, CtxMade
    <3>2. \A u \in Task : (RunOver(u, "start") /\ RunOver(u, "stop")) \/ Overdue
      BY <3>1, LateForGood DEF DownInv, AllStopped, TasksDrained
    <3>3. \A u \in Task : ~(StageOf[u] > NStages)
      OBVIOUS
    <3> QED BY <1>1, <2>1, <2>2, <3>1, <3>2, <3>3 DEF DownInv, CtxMade, AboveStopped,
        AllStopped, AboveTornDown, Doing, RunOver
  <2>7. CASE TeardownStageDone
    <3>1. Doing("teardown") /\ StageOver /\ shutdownCtx # "unset"
      BY <2>7 DEF TeardownStageDone, Visited, Doing, DownInv, CtxMade
    <3>2. CASE stage > 1
      <4>1. Doing("teardown")' /\ stage' = stage - 1
        BY <2>7, <3>2 DEF TeardownStageDone, EnterStage, Doing
      <4>2. \A u \in Task : StageOf[u] > stage - 1 => RunOver(u, "teardown")
        BY <3>1 DEF DownInv, AboveTornDown, StageOver, TasksOf, Doing
      <4>3. \A u \in Task : (RunOver(u, "start") /\ RunOver(u, "stop")) \/ Overdue
        BY <3>1 DEF DownInv, AboveTornDown
      <4> QED BY <1>1, <2>1, <2>2, <3>1, <4>1, <4>2, <4>3 DEF DownInv, CtxMade,
          AboveStopped, AllStopped, AboveTornDown, Doing, RunOver
    <3>3. CASE ~(stage > 1)
      <4>1. pc' = "returned"
        BY <2>7, <3>3 DEF TeardownStageDone
      <4> QED BY <2>4, <4>1
    <3> QED BY <3>2, <3>3
  <2>8. CASE Prologue \/ Enter \/ SetupStageDone \/ StartStageReady \/ NotifyTasksSkipped
    <3>1. \/ pc' \notin {"runStage", "drain"}
          \/ pc' = "runStage" /\ step' \in {"setup", "start"}
      BY <2>8 DEF Enter, Prologue, ReadInitErrors, BeforeRunFails, ReturnEarly,
         CreateContexts, ApplyPending, SetupStageDone, StartStageReady, StartReturns,
         NotifyTasksSkipped, EnterStage
    <3> QED BY <2>4, <3>1
  <2> QED BY <1>3, <2>3, <2>5, <2>6, <2>7, <2>8, PositionKept DEF Moves, Finish, SelectCause
<1>4. CASE pc = "select" /\ ~\E c \in Cause : SelectCause(c)
  <2>1. CASE UNCHANGED <<pc, stage, step>>
    <3>1. \A u \in Task : ~Touched(u, "stop") /\ ~Touched(u, "teardown")
      BY <1>4 DEF OrderInv, NothingAhead, MayHaveAsked, Touched
    <3>2. \A u \in Task : ~Touched(u, "stop")' /\ ~Touched(u, "teardown")'
      BY <1>1, <3>1 DEF Touched
    <3>3. pc' = "select"
      BY <1>4, <2>1
    <3> QED BY <3>2, <3>3 DEF DownInv, CtxMade, AboveStopped, AllStopped,
        AboveTornDown, StopOrder, TeardownLast, Doing
  <2>2. ~Moves
    BY <1>4 DEF Moves, Enter, Prologue, ReadInitErrors, BeforeRunFails,
       CreateContexts, ApplyPending, SetupStageDone, StartStageReady, NotifyTasksSkipped,
       Visited, Finish, StopStageDone, Drained, TeardownStageDone
  <2> QED BY <2>1, <2>2, PositionKept
<1> QED BY <1>2, <1>3, <1>4

\* The stages are stopped, then torn down, one after the other from the last: no
\* stop step beside or before one of a later stage, no teardown step beside a
\* start or stop step, unless the context of the shutdown is done, and never
\* one beside or before a teardown step of a later stage (run.go:235-291).
THEOREM StagesInReverse == Spec => [](StopOrder /\ TeardownLast)
<1>1. Init => OrderInv /\ DownInv
  BY DEF Init, WrapperInit, OrderInv, NoOrderError, NothingAhead, StepIsDone, InLedger,
     DownInv, CtxMade, AboveStopped, AllStopped, AboveTornDown, StopOrder, TeardownLast,
     Touched, Doing, Step
<1>2. TypeOK /\ OrderInv /\ DownInv /\ [Next]_vars => OrderInv' /\ DownInv'
  BY OrderStep, ThreeKinds, DownGoroutine, DownCheck, DownMove
<1>3. DownInv => StopOrder /\ TeardownLast
  BY DEF DownInv
<1> QED BY <1>1, <1>2, <1>3, TypeCorrect, PTL DEF Spec

-----------------------------------------------------------------------------
(* What Run tells of the steps it did not wait for, and of those that failed. *)

\* Once start has returned, no setup step is under way.
SetupsOver ==
    pc \in {"notify", "select", "drain"} \/ Doing("stop") \/ Doing("teardown") =>
        \A t \in Task : RunOver(t, "setup")

\* The error of a stop or teardown step is collected by the time the step is
\* over, unless Run has returned without waiting for it.
ErrorKept ==
    \A t \in Task, s \in {"stop", "teardown"} :
        <<t, s>> \in failed =>
            \/ runs[t][s] = "ended"
            \/ <<t, s>> \in stopErrs
            \/ pc = "returned" /\ ctxErrs # {}

\* The inductive invariant behind what Run reports.
EndInv == SetupsOver /\ AbandonedIsReported /\ ErrorKept

\* The goroutines keep it.
LEMMA EndGoroutine ==
    ASSUME TypeOK, EndInv, NEW t \in Task, NEW s \in Step, GoStep(t, s)
    PROVE  EndInv'
<1> "setup" \in Step /\ "stop" \in Step /\ "teardown" \in Step
  BY DEF Step
<1>1. SetupsOver' /\ AbandonedIsReported'
  BY GoStepKeeps DEF EndInv, SetupsOver, AbandonedIsReported, Doing
<1>2. ErrorKept'
  <2> SUFFICES ASSUME NEW u \in Task, NEW x \in {"stop", "teardown"}, <<u, x>> \in failed'
               PROVE  \/ runs'[u][x] = "ended"
                      \/ <<u, x>> \in stopErrs'
                      \/ pc' = "returned" /\ ctxErrs' # {}
    BY DEF ErrorKept
  <2>1. UNCHANGED <<pc, ctxErrs>>
    BY GoStepKeeps
  <2>2. CASE GoReport(t, s)
    <3>1. Report(t, s) /\ OnError(t, s, <<t, s>> \in failed)
      BY <2>2 DEF GoReport
    <3>2. <<u, x>> \in failed /\ stopErrs \subseteq stopErrs'
      BY <3>1 DEF Report, OnError
    <3>3. CASE u = t /\ x = s
      <4>1. CASE pc = "returned"
        <5>1. ~RunOver(t, s)
          BY <3>1 DEF Report, RunOver
        <5> QED BY <2>1, <4>1, <5>1 DEF EndInv, AbandonedIsReported
      <4>2. CASE pc # "returned"
        BY <3>1, <3>2, <3>3, <4>2 DEF OnError, Collects
      <4> QED BY <4>1, <4>2
    <3>4. CASE ~(u = t /\ x = s)
      <4>1. runs'[u][x] = runs[u][x]
        BY <3>1, <3>4, MoveGoroutine DEF Report, TypeOK, WrapperTypeOK, RunState
      <4> QED BY <2>1, <3>2, <4>1 DEF EndInv, ErrorKept
    <3> QED BY <3>3, <3>4
  <2>3. CASE \E fails \in BOOLEAN : GoEnd(t, s, fails)
    <3>1. (\E fails \in BOOLEAN : End(t, s, fails)) /\ UNCHANGED stopErrs
      BY <2>3 DEF GoEnd, errVars
    <3>2. runs'[u][x] = IF u = t /\ x = s THEN "ended" ELSE runs[u][x]
      BY <3>1, MoveGoroutine DEF End, TypeOK, WrapperTypeOK, RunState
    <3>3. <<u, x>> \in failed \/ (u = t /\ x = s)
      BY <3>1 DEF End
    <3> QED BY <2>1, <3>1, <3>2, <3>3 DEF EndInv, ErrorKept
  <2>4. CASE GoReady(t, s) \/ GoBegin(t, s) \/ GoUnimplemented(t, s)
    <3>1. (Ready(t, s) \/ Begin(t, s) \/ Unimplemented(t, s)) /\ UNCHANGED stopErrs
      BY <2>4 DEF GoReady, GoBegin, GoUnimplemented, errVars
    <3>2. /\ runs[t][s] # "ended" /\ UNCHANGED failed
          /\ \E v \in RunState : runs' = [runs EXCEPT ![t][s] = v]
      BY <3>1 DEF Ready, Begin, Unimplemented, RunState
    <3>3. runs[u][x] = "ended" => runs'[u][x] = "ended"
      BY <3>2, MoveGoroutine DEF TypeOK, WrapperTypeOK
    <3> QED BY <2>1, <3>1, <3>2, <3>3 DEF EndInv, ErrorKept
  <2> QED BY <2>2, <2>3, <2>4 DEF GoStep, Goroutine
<1> QED BY <1>1, <1>2 DEF EndInv

\* So does the visit of a task, ...
LEMMA EndCheck ==
    ASSUME TypeOK, OrderInv, EndInv, NEW t \in Task, CheckTask(t)
    PROVE  EndInv'
<1> "setup" \in Step /\ "stop" \in Step /\ "teardown" \in Step
  BY DEF Step
<1>1. /\ pc = "runStage" /\ runs[t][step] = "none"
      /\ UNCHANGED <<failed, pc, step, stopErrs, ctxErrs>>
  BY CheckKeeps DEF errVars
<1>2. \A u \in Task, x \in Step : ~(u = t /\ x = step) => runs'[u][x] = runs[u][x]
  BY CheckKeeps
<1>3. SetupsOver'
  BY <1>1, <1>2 DEF EndInv, SetupsOver, Doing, RunOver
<1>4. AbandonedIsReported'
  BY <1>1 DEF AbandonedIsReported
<1>5. ErrorKept'
  <2> SUFFICES ASSUME NEW u \in Task, NEW x \in {"stop", "teardown"}, <<u, x>> \in failed'
               PROVE  runs'[u][x] = "ended" \/ <<u, x>> \in stopErrs'
    BY DEF ErrorKept
  <2>1. runs[u][x] = "ended" \/ <<u, x>> \in stopErrs
    BY <1>1 DEF EndInv, ErrorKept
  <2>2. CASE u = t /\ x = step
    BY <1>1, <2>1, <2>2
  <2>3. CASE ~(u = t /\ x = step)
    <3>1. runs'[u][x] = runs[u][x]
      BY <1>2, <2>3
    <3> QED BY <1>1, <2>1, <3>1
  <2> QED BY <2>2, <2>3
<1> QED BY <1>3, <1>4, <1>5 DEF EndInv

\* ... and every step that touches no wrapper.
LEMMA EndMove ==
    ASSUME TypeOK, OrderInv, UpInv, DownInv, EndInv, WrapperUntouched
    PROVE  EndInv'
<1> "setup" \in Step /\ "start" \in Step /\ "stop" \in Step /\ "teardown" \in Step
  BY DEF Step
<1> StageOf \in [Task -> 1..NStages] /\ NStages \in Nat /\ stage \in 0..NStages
  BY DEF ManagerAssumption, TypeOK, MainTypeOK
<1>1. UNCHANGED <<runs, failed>>
  BY WrapperUnchanged
<1>2. UNCHANGED stopErrs
  BY PositionKept DEF Moves, Enter, Prologue, ReadInitErrors, BeforeRunFails, ReturnEarly,
     CreateContexts, ApplyPending, SetupStageDone, StartStageReady, NotifyTasksSkipped,
     Finish, SelectCause, StopStageDone, Drained, TeardownStageDone, errVars
<1>3. pc = "returned" => UNCHANGED <<pc, ctxErrs>>
  BY PositionKept DEF Moves, Enter, Prologue, ReadInitErrors, BeforeRunFails,
     CreateContexts, ApplyPending, SetupStageDone, StartStageReady, NotifyTasksSkipped,
     Visited, Finish, SelectCause, StopStageDone, Drained, TeardownStageDone
<1>4. ErrorKept'
  BY <1>1, <1>2, <1>3 DEF EndInv, ErrorKept
<1>5. SetupsOver'
  <2>1. CASE pc \in {"notify", "select", "drain"} \/ Doing("stop") \/ Doing("teardown")
    BY <1>1, <2>1 DEF EndInv, SetupsOver, RunOver
  <2>2. CASE SetupStageDone /\ pc' = "notify"
    <3>1. pc = "runStage" /\ step = "setup" /\ todo = {} /\ StageOver
      BY <2>2 DEF SetupStageDone, Visited
    <3>2. ASSUME NEW u \in Task PROVE RunOver(u, "setup")
      <4>1. CASE StageOf[u] < stage
        BY <3>1, <4>1 DEF UpInv, BelowReady, SetupDone
      <4>2. CASE StageOf[u] = stage
        BY <3>1, <4>2 DEF StageOver, TasksOf
      <4>3. CASE StageOf[u] > stage
        <5>1. ~MayHaveAsked(u, "setup")
          BY <3>1, <4>3 DEF MayHaveAsked
        <5> QED BY <5>1 DEF OrderInv, NothingAhead, RunOver
      <4> QED BY <4>1, <4>2, <4>3
    <3> QED BY <1>1, <3>2 DEF SetupsOver, RunOver
  <2>3. CASE StartStageReady /\ pc' = "notify"
    <3>1. pc = "runStage" /\ step = "start" /\ stage >= NStages
      BY <2>3 DEF StartStageReady, Visited, MoreStages, EnterStage
    <3>2. \A u \in Task : StageOf[u] < stage \/ u \in TasksOf(stage)
      BY <3>1 DEF TasksOf
    <3>3. \A u \in Task : RunOver(u, "setup")
      BY <3>1, <3>2 DEF UpInv, BelowReady, StageSetUp, SetupDone
    <3> QED BY <1>1, <3>3 DEF SetupsOver, RunOver
  <2>4. CASE \/ pc' \in {"idle", "entered", "beforeRun", "apply", "returned"}
             \/ pc' = "runStage" /\ step' \in {"setup", "start"}
    BY <2>4 DEF SetupsOver, Doing
  <2>5. CASE UNCHANGED <<pc, stage, step>>
    BY <1>1, <2>5 DEF EndInv, SetupsOver, Doing, RunOver
  <2>6. CASE Enter \/ Prologue \/ SetupStageDone \/ StartStageReady
    <3>1. \/ SetupStageDone /\ pc' = "notify"
          \/ StartStageReady /\ pc' = "notify"
          \/ pc' \in {"idle", "entered", "beforeRun", "apply", "returned"}
          \/ pc' = "runStage" /\ step' \in {"setup", "start"}
      BY <2>6 DEF Enter, Prologue, ReadInitErrors, BeforeRunFails, ReturnEarly,
         CreateContexts, ApplyPending, SetupStageDone, StartStageReady, StartReturns,
         EnterStage
    <3> QED BY <2>2, <2>3, <2>4, <3>1
  <2>7. CASE NotifyTasksSkipped \/ Finish
    BY <2>1, <2>7 DEF NotifyTasksSkipped, Finish, SelectCause, StopStageDone, Drained,
       TeardownStageDone, Visited, Doing
  <2> QED BY <2>5, <2>6, <2>7, PositionKept DEF Moves
<1>6. AbandonedIsReported'
  <2> SUFFICES ASSUME pc' = "returned"
               PROVE  (\A u \in Task, x \in Step : RunOver(u, x)) \/ ctxErrs' # {}
    BY <1>1 DEF AbandonedIsReported, RunOver
  <2>1. CASE pc = "returned"
    BY <1>3, <2>1 DEF EndInv, AbandonedIsReported
  <2>2. CASE pc \in {"entered", "beforeRun"}
    <3>1. \A u \in Task, x \in Step : ~MayHaveAsked(u, x)
      BY <2>2 DEF MayHaveAsked
    <3> QED BY <3>1 DEF OrderInv, NothingAhead, RunOver
  <2>3. CASE TeardownStageDone
    <3>1. Doing("teardown") /\ StageOver /\ ~(stage > 1)
      BY <2>3 DEF TeardownStageDone, Visited, Doing, EnterStage
    <3>2. ctxErrs' = ctxErrs \cup CtxErr
      BY <2>3, <3>1 DEF TeardownStageDone, ErrsAfterTeardown
    <3>3. Overdue => ctxErrs' # {}
      BY <3>2 DEF Overdue, CtxErr
    <3>4. \A u \in Task : RunOver(u, "setup")
      BY <3>1 DEF EndInv, SetupsOver
    <3>5. \A u \in Task : RunOver(u, "teardown")
      BY <3>1 DEF DownInv, AboveTornDown, StageOver, TasksOf, Doing
    <3>6. Overdue \/ \A u \in Task : RunOver(u, "start") /\ RunOver(u, "stop")
      BY <3>1 DEF DownInv, AboveTornDown
    <3> QED BY <3>3, <3>4, <3>5, <3>6 DEF Step
  <2> QED BY <2>1, <2>2, <2>3, PositionKept DEF Moves, Enter, Prologue, ReadInitErrors,
      BeforeRunFails, CreateContexts, ApplyPending, SetupStageDone, StartStageReady,
      StartReturns, NotifyTasksSkipped, Finish, SelectCause, StopStageDone, Drained,
      EnterStage
<1> QED BY <1>4, <1>5, <1>6 DEF EndInv

LEMMA EndTells == EndInv => AbandonedIsReported /\ StopErrorsKept
<1>1. ASSUME EndInv, pc = "returned", ctxErrs = {},
             NEW t \in Task, NEW s \in {"stop", "teardown"}, <<t, s>> \in failed
      PROVE  <<t, s>> \in stopErrs
  <2>1. RunOver(t, s)
    BY <1>1 DEF EndInv, AbandonedIsReported, Step
  <2> QED BY <1>1, <2>1 DEF EndInv, ErrorKept, RunOver
<1> QED BY <1>1 DEF EndInv, StopErrorsKept

\* When Run returns, a goroutine it did not wait for has made it report a context
\* error (run.go:250, 259-270 and 293-306), and it reports the error of every
\* stop and teardown step, unless it reports that it did not wait for them all
\* (run.go:241 and 288).
THEOREM NothingUntold == Spec => [](AbandonedIsReported /\ StopErrorsKept)
<1>1. Init => OrderInv /\ UpInv /\ DownInv /\ EndInv
  BY DEF Init, WrapperInit, OrderInv, NoOrderError, NothingAhead, StepIsDone, InLedger,
     UpInv, BelowReady, StageSetUp, FailureKept, SetupBarrier, StartBarrier,
     DownInv, CtxMade, AboveStopped, AllStopped, AboveTornDown, StopOrder, TeardownLast,
     EndInv, SetupsOver, AbandonedIsReported, ErrorKept, Touched, Doing, Step
<1>2. TypeOK /\ OrderInv /\ UpInv /\ DownInv /\ EndInv /\ [Next]_vars =>
         OrderInv' /\ UpInv' /\ DownInv' /\ EndInv'
  BY OrderStep, ThreeKinds, UpGoroutine, UpCheck, UpMove, DownGoroutine, DownCheck,
     DownMove, EndGoroutine, EndCheck, EndMove
<1> QED BY <1>1, <1>2, EndTells, TypeCorrect, PTL DEF Spec

-----------------------------------------------------------------------------
(***************************************************************************)
(* The pairing of setup and teardown, and the tasks that are skipped.      *)
(***************************************************************************)
(* The ledger.                                                             *)

\* A goroutine records no step but its own, and none that is over; only that of a
\* setup step adds steps to a task.
LEMMA GoStepLedger ==
    ASSUME TypeOK, NEW t \in Task, NEW s \in Step, GoStep(t, s)
    PROVE  /\ \A u \in Task, x \in Step :
                 /\ StepIsDone(u, x) => StepIsDone(u, x)'
                 /\ StepIsDone(u, x)' => StepIsDone(u, x) \/ (u = t /\ x = s)
                 /\ RunOver(u, x) => (StepIsDone(u, x)' <=> StepIsDone(u, x))
                 /\ HasStep(u, x) => HasStep(u, x)'
           /\ \A u \in Task : RunOver(u, "setup") => steps'[u] = steps[u]
           /\ UNCHANGED <<stagesRun, skips>>
<1>1. /\ \/ Ready(t, s) \/ Begin(t, s) \/ Unimplemented(t, s) \/ Report(t, s)
         \/ \E fails \in BOOLEAN : End(t, s, fails)
      /\ UNCHANGED <<stagesRun, skips>>
  BY DEF GoStep, Goroutine, GoReady, GoBegin, GoUnimplemented, GoReport, GoEnd,
     mainVars, outVars
<1>2. ~RunOver(t, s)
  BY <1>1 DEF Ready, Begin, Unimplemented, Report, End, RunOver
<1>3. executeSteps' = executeSteps \/ executeSteps' = Record(t, s)
  BY <1>1 DEF Ready, Begin, Unimplemented, Report, End
<1>4. \A u \in Task, x \in Step :
         /\ StepIsDone(u, x) => StepIsDone(u, x)'
         /\ StepIsDone(u, x)' => StepIsDone(u, x) \/ (u = t /\ x = s)
  <2>1. CASE executeSteps' = executeSteps
    BY <2>1 DEF StepIsDone
  <2>2. CASE executeSteps' = Record(t, s)
    BY <2>2, RecordEffect DEF TypeOK
  <2> QED BY <1>3, <2>1, <2>2
<1>5. \/ steps' = steps
      \/ s = "setup" /\ steps' = [steps EXCEPT ![t] = steps[t] \cup ProvidedSteps]
  BY <1>1, EndProvides DEF Ready, Begin, Unimplemented, Report
<1>6. \A u \in Task, x \in Step : HasStep(u, x) => HasStep(u, x)'
  BY <1>5 DEF HasStep, TypeOK, WrapperTypeOK
<1>7. \A u \in Task : RunOver(u, "setup") => steps'[u] = steps[u]
  BY <1>2, <1>5 DEF TypeOK, WrapperTypeOK
<1>8. \A u \in Task, x \in Step : RunOver(u, x) => (StepIsDone(u, x)' <=> StepIsDone(u, x))
  BY <1>2, <1>4
<1> QED BY <1>1, <1>4, <1>6, <1>7, <1>8

\* A visit spawns the step, passes it over, or leaves no trace of it; a step that
\* follows none is never left without a trace.
LEMMA CheckLedger ==
    ASSUME TypeOK, OrderInv, NEW t \in Task, CheckTask(t)
    PROVE  /\ ~StepIsDone(t, step)
           /\ PassedOver(t, step) <=> ~CanStartStep(t, step) /\ PrevStepIsDone(t, step)
           /\ \A u \in Task, x \in Step :
                 StepIsDone(u, x)' <=>
                     StepIsDone(u, x) \/ (u = t /\ x = step /\ PassedOver(t, step))
           /\ runs'[t][step] = IF CanStartStep(t, step) /\ PrevStepIsDone(t, step)
                               THEN "spawned" ELSE "none"
           /\ UNCHANGED <<steps, stagesRun, skips>>
<1>1. /\ pc = "runStage" /\ t \in todo /\ StageOf[t] = stage /\ step \in Step
      /\ runs[t][step] = "none" /\ ~InvalidOrder(t, step)
  BY CheckKeeps, CheckInOrder DEF TypeOK
<1>2. ~StepIsDone(t, step)
  <2>1. ~MayHaveAsked(t, step)
    BY <1>1 DEF MayHaveAsked, Step, TypeOK, MainTypeOK, ManagerAssumption
  <2> QED BY <1>1, <2>1 DEF OrderInv, NothingAhead
<1>3. CheckStartStep(t, step) /\ UNCHANGED <<steps, stagesRun, skips>>
  BY DEF CheckTask, outVars
<1>4. runs'[t][step] = IF CanStartStep(t, step) /\ PrevStepIsDone(t, step)
                       THEN "spawned" ELSE "none"
  <2>1. CASE MayStart(t, step)
    <3>1. runs' = [runs EXCEPT ![t][step] = "spawned"]
      BY <1>3, <2>1 DEF CheckStartStep
    <3>2. runs'[t][step] = "spawned"
      BY <1>1, <3>1, MoveGoroutine DEF TypeOK, WrapperTypeOK, RunState
    <3> QED BY <2>1, <3>2 DEF MayStart
  <2>2. CASE ~MayStart(t, step)
    BY <1>1, <1>3, <2>2 DEF CheckStartStep, MayStart
  <2> QED BY <2>1, <2>2
<1>5. \A u \in Task, x \in Step :
         StepIsDone(u, x)' <=>
             StepIsDone(u, x) \/ (u = t /\ x = step /\ PassedOver(t, step))
  <2>1. CASE PassedOver(t, step)
    <3>1. executeSteps' = Record(t, step)
      BY <1>3, <2>1 DEF CheckStartStep
    <3> QED BY <1>1, <2>1, <3>1, RecordEffect DEF TypeOK
  <2>2. CASE ~PassedOver(t, step)
    <3>1. executeSteps' = executeSteps
      BY <1>3, <2>2 DEF CheckStartStep
    <3> QED BY <2>2, <3>1 DEF StepIsDone
  <2> QED BY <2>1, <2>2
<1>6. PassedOver(t, step) <=> ~CanStartStep(t, step) /\ PrevStepIsDone(t, step)
  BY <1>1 DEF PassedOver
<1> QED BY <1>2, <1>3, <1>4, <1>5, <1>6

-----------------------------------------------------------------------------
(* The inductive invariant.                                                *)

\* Run is past the start of the stages.
PastStart ==
    pc \in {"notify", "select", "drain", "returned"} \/ Doing("stop") \/ Doing("teardown")

\* Run has visited t for its setup step: never if its stage was not reached.
SetupAsked(t) ==
    \/ Doing("setup") /\ (StageOf[t] < stage \/ (StageOf[t] = stage /\ t \notin todo))
    \/ Doing("start") /\ StageOf[t] <= stage
    \/ PastStart /\ StageOf[t] <= stagesRun

\* Run has visited t for its teardown step, or has returned.
TeardownAsked(t) ==
    \/ Doing("teardown") /\ (StageOf[t] > stage \/ (StageOf[t] = stage /\ t \notin todo))
    \/ pc = "returned"

NoStageYet == pc \in {"idle", "entered", "beforeRun", "apply"} => stagesRun = 0

\* A task has a trace of its setup step exactly if it was visited for it, and of
\* no other step before that.
AskedIsSeen ==
    \A t \in Task :
        /\ SetupAsked(t) => Seen(t, "setup")
        /\ \A s \in Step : Seen(t, s) => SetupAsked(t)

\* A setup step that is over is in the ledger exactly if it did not fail.
SetupTold ==
    \A t \in Task :
        /\ runs[t]["setup"] \in {"spawned", "ready", "running"} =>
              ~StepIsDone(t, "setup") /\ <<t, "setup">> \notin failed
        /\ runs[t]["setup"] = "none" => <<t, "setup">> \notin failed
        /\ runs[t]["setup"] \in {"ended", "done"} =>
              (StepIsDone(t, "setup") <=> <<t, "setup">> \notin failed)

\* Only a task that implements setup has a goroutine for it.
SetupImplemented == \A t \in Task : runs[t]["setup"] # "none" => HasStep(t, "setup")

\* A task has a goroutine for teardown exactly if it implements it and was set up.
TeardownExact ==
    \A t \in Task : TeardownAsked(t) =>
        (Touched(t, "teardown") <=> HasStep(t, "teardown") /\ StepIsDone(t, "setup"))

\* Run returns with no setup or teardown step under way.
EndQuiet ==
    pc = "returned" => \A t \in Task : RunOver(t, "setup") /\ RunOver(t, "teardown")

\* Skipped was called for the tasks of the stages that never come, once known.
SkipsExact ==
    \A t \in Task :
        skips[t] = IF PastStart /\ pc # "notify" /\ NeverRuns(t) THEN 1 ELSE 0

PairInv ==
    /\ NoStageYet /\ AskedIsSeen /\ SetupTold /\ SetupImplemented
    /\ TeardownExact /\ EndQuiet /\ SkipsExact

\* The goroutine of a setup step ends with a record or a failure, never both.
LEMMA SetupTells ==
    ASSUME TypeOK, PairInv, NEW t \in Task, NEW s \in Step, GoStep(t, s)
    PROVE  SetupTold'
<1> "setup" \in Step
  BY DEF Step
<1> SUFFICES ASSUME NEW u \in Task
    PROVE  /\ runs'[u]["setup"] \in {"spawned", "ready", "running"} =>
                 ~StepIsDone(u, "setup")' /\ <<u, "setup">> \notin failed'
           /\ runs'[u]["setup"] = "none" => <<u, "setup">> \notin failed'
           /\ runs'[u]["setup"] \in {"ended", "done"} =>
                 (StepIsDone(u, "setup")' <=> <<u, "setup">> \notin failed')
  BY DEF SetupTold
<1>1. \/ Ready(t, s) \/ Begin(t, s) \/ Unimplemented(t, s) \/ Report(t, s)
      \/ \E fails \in BOOLEAN : End(t, s, fails)
  BY DEF GoStep, Goroutine, GoReady, GoBegin, GoUnimplemented, GoReport, GoEnd
<1>2. CASE ~(u = t /\ s = "setup")
  <2>1. \E v \in RunState : runs' = [runs EXCEPT ![t][s] = v]
    BY <1>1 DEF Ready, Begin, Unimplemented, Report, End, RunState
  <2>2. runs'[u]["setup"] = runs[u]["setup"]
    BY <1>2, <2>1, MoveGoroutine DEF TypeOK, WrapperTypeOK
  <2>3. failed' = failed \/ failed' = failed \cup {<<t, s>>}
    BY <1>1 DEF Ready, Begin, Unimplemented, Report, End
  <2>4. <<u, "setup">> \in failed' <=> <<u, "setup">> \in failed
    BY <1>2, <2>3
  <2>5. StepIsDone(u, "setup")' <=> StepIsDone(u, "setup")
    BY <1>2, GoStepLedger
  <2> QED BY <2>2, <2>4, <2>5 DEF PairInv, SetupTold
<1>3. CASE u = t /\ s = "setup"
  <2>1. CASE Ready(t, s) \/ Begin(t, s) \/ Report(t, s)
    <3>1. /\ \/ runs[t]["setup"] = "spawned" /\ runs' = [runs EXCEPT ![t]["setup"] = "ready"]
             \/ runs[t]["setup"] = "ready" /\ runs' = [runs EXCEPT ![t]["setup"] = "running"]
             \/ runs[t]["setup"] = "ended" /\ runs' = [runs EXCEPT ![t]["setup"] = "done"]
          /\ UNCHANGED <<executeSteps, failed>>
      BY <1>3, <2>1 DEF Ready, Begin, Report, RecordedFirst
    <3>2. \/ runs[t]["setup"] = "spawned" /\ runs'[t]["setup"] = "ready"
          \/ runs[t]["setup"] = "ready" /\ runs'[t]["setup"] = "running"
          \/ runs[t]["setup"] = "ended" /\ runs'[t]["setup"] = "done"
      BY <3>1 DEF TypeOK, WrapperTypeOK
    <3>3. StepIsDone(t, "setup")' <=> StepIsDone(t, "setup")
      BY <3>1 DEF StepIsDone
    <3> QED BY <1>3, <3>1, <3>2, <3>3 DEF PairInv, SetupTold
  <2>2. CASE Unimplemented(t, s)
    BY <1>3, <2>2 DEF Unimplemented, PairInv, SetupImplemented
  <2>3. ASSUME NEW fails \in BOOLEAN, End(t, s, fails)
        PROVE  /\ runs'[u]["setup"] = "ended"
               /\ StepIsDone(u, "setup")' <=> <<u, "setup">> \notin failed'
    <3>1. runs[t]["setup"] = "running" /\ runs'[t]["setup"] = "ended"
      BY <1>3, <2>3 DEF End, TypeOK, WrapperTypeOK
    <3>2. ~StepIsDone(t, "setup") /\ <<t, "setup">> \notin failed
      BY <3>1 DEF PairInv, SetupTold
    <3>3. CASE fails
      <4>1. executeSteps' = executeSteps /\ <<t, "setup">> \in failed'
        BY <1>3, <2>3, <3>3 DEF End, RecordedOnSuccess
      <4> QED BY <1>3, <3>1, <3>2, <4>1 DEF StepIsDone
    <3>4. CASE ~fails
      <4>1. executeSteps' = Record(t, s) /\ failed' = failed
        BY <1>3, <2>3, <3>4 DEF End, RecordedOnSuccess
      <4>2. StepIsDone(t, "setup")'
        BY <1>3, <4>1, RecordEffect DEF TypeOK
      <4> QED BY <1>3, <3>1, <3>2, <4>1, <4>2
    <3> QED BY <3>3, <3>4
  <2> QED BY <1>1, <2>1, <2>2, <2>3
<1> QED BY <1>2, <1>3

\* The goroutines keep the invariant.
LEMMA PairGoroutine ==
    ASSUME TypeOK, EndInv, PairInv, NEW t \in Task, NEW s \in Step, GoStep(t, s)
    PROVE  PairInv'
<1> "setup" \in Step /\ "teardown" \in Step
  BY DEF Step
<1>1. UNCHANGED <<pc, stage, step, todo, stagesRun, skips>>
  BY GoStepKeeps, GoStepLedger
<1>2. \A u \in Task : SetupAsked(u)' <=> SetupAsked(u)
  BY <1>1 DEF SetupAsked, PastStart, Doing
<1>3. NoStageYet' /\ SkipsExact'
  BY <1>1 DEF PairInv, NoStageYet, SkipsExact, PastStart, Doing, NeverRuns
<1>4. AskedIsSeen'
  <2>1. \A u \in Task : Seen(u, "setup") => Seen(u, "setup")'
    BY GoStepKeeps, GoStepLedger DEF Seen, Touched
  <2>2. \A u \in Task, x \in Step : Seen(u, x)' => Seen(u, x)
    <3>1. \/ Ready(t, s) \/ Begin(t, s) \/ Unimplemented(t, s) \/ Report(t, s)
          \/ \E fails \in BOOLEAN : End(t, s, fails)
      BY DEF GoStep, Goroutine, GoReady, GoBegin, GoUnimplemented, GoReport, GoEnd
    <3> QED BY <3>1, GoroutineTraces DEF TypeOK
  <2> QED BY <1>2, <2>1, <2>2 DEF PairInv, AskedIsSeen
<1>5. SetupTold'
  BY SetupTells
<1>6. SetupImplemented'
  BY GoStepKeeps, GoStepLedger DEF PairInv, SetupImplemented, Touched
<1>7. TeardownExact'
  <2> SUFFICES ASSUME NEW u \in Task, TeardownAsked(u)'
               PROVE  Touched(u, "teardown")' <=>
                          HasStep(u, "teardown")' /\ StepIsDone(u, "setup")'
    BY DEF TeardownExact
  <2>1. TeardownAsked(u)
    BY <1>1 DEF TeardownAsked, Doing
  <2>2. RunOver(u, "setup")
    BY <2>1 DEF TeardownAsked, EndInv, SetupsOver, PairInv, EndQuiet
  <2>3. HasStep(u, "teardown")' <=> HasStep(u, "teardown")
    BY <2>2, GoStepLedger DEF HasStep
  <2>4. StepIsDone(u, "setup")' <=> StepIsDone(u, "setup")
    BY <2>2, GoStepLedger
  <2>5. Touched(u, "teardown")' <=> Touched(u, "teardown")
    BY GoStepKeeps
  <2> QED BY <2>1, <2>3, <2>4, <2>5 DEF PairInv, TeardownExact
<1>8. EndQuiet'
  BY <1>1, GoStepKeeps DEF PairInv, EndQuiet
<1> QED BY <1>3, <1>4, <1>5, <1>6, <1>7, <1>8 DEF PairInv

\* So does the visit of a task.
LEMMA PairCheck ==
    ASSUME TypeOK, OrderInv, PairInv, NEW t \in Task, CheckTask(t)
    PROVE  PairInv'
<1> "setup" \in Step /\ "teardown" \in Step
  BY DEF Step
<1> StageOf \in [Task -> 1..NStages] /\ NStages \in Nat /\ stage \in 0..NStages
  BY DEF ManagerAssumption, TypeOK, MainTypeOK
<1>1. /\ pc = "runStage" /\ StageOf[t] = stage /\ t \in todo /\ todo' = todo \ {t}
      /\ step \in Step /\ runs[t][step] = "none"
      /\ UNCHANGED <<failed, pc, stage, step, steps, stagesRun, skips>>
  BY CheckKeeps, CheckLedger DEF CheckTask
<1>2. \A u \in Task, x \in Step : ~(u = t /\ x = step) => runs'[u][x] = runs[u][x]
  BY CheckKeeps
<1>3. \A u \in Task, x \in Step :
         StepIsDone(u, x)' <=> StepIsDone(u, x) \/ (u = t /\ x = step /\ PassedOver(t, step))
  BY CheckLedger
<1>4. /\ ~StepIsDone(t, step)
      /\ PassedOver(t, step) <=> ~CanStartStep(t, step) /\ PrevStepIsDone(t, step)
      /\ runs'[t][step] = IF CanStartStep(t, step) /\ PrevStepIsDone(t, step)
                          THEN "spawned" ELSE "none"
  BY CheckLedger
<1>5. \A u \in Task :
         SetupAsked(u)' <=> SetupAsked(u) \/ (u = t /\ step = "setup")
  BY <1>1 DEF SetupAsked, PastStart, Doing
<1>6. NoStageYet' /\ SkipsExact' /\ EndQuiet'
  BY <1>1 DEF PairInv, NoStageYet, SkipsExact, EndQuiet, PastStart, Doing, NeverRuns
<1>7. AskedIsSeen'
  <2>1. ASSUME NEW u \in Task, SetupAsked(u)' PROVE Seen(u, "setup")'
    <3>1. CASE SetupAsked(u)
      <4>1. Seen(u, "setup")
        BY <3>1 DEF PairInv, AskedIsSeen
      <4> QED BY <1>1, <1>2, <1>3, <4>1, <1>4 DEF Seen
    <3>2. CASE u = t /\ step = "setup"
      <4>1. PrevStepIsDone(t, step)
        BY <3>2 DEF PrevStepIsDone, Required
      <4> QED BY <1>3, <1>4, <3>2, <4>1 DEF Seen
    <3> QED BY <1>5, <2>1, <3>1, <3>2
  <2>2. ASSUME NEW u \in Task, NEW x \in Step, Seen(u, x)' PROVE SetupAsked(u)'
    <3>1. CASE Seen(u, x)
      BY <1>5, <3>1 DEF PairInv, AskedIsSeen
    <3>2. CASE ~Seen(u, x)
      <4>1. u = t /\ x = step /\ PrevStepIsDone(t, step)
        BY <1>2, <1>3, <1>4, <2>2, <3>2 DEF Seen
      <4>2. CASE step = "setup"
        BY <1>5, <4>1, <4>2
      <4>3. CASE step # "setup"
        <5>1. \E r \in Step : StepIsDone(t, r)
          BY <1>1, <4>1, <4>3 DEF PrevStepIsDone, Required, Step
        <5> QED BY <1>5, <4>1, <5>1 DEF PairInv, AskedIsSeen, Seen
      <4> QED BY <4>2, <4>3
    <3> QED BY <3>1, <3>2
  <2> QED BY <2>1, <2>2 DEF AskedIsSeen
<1>8. SetupTold' /\ SetupImplemented'
  <2> SUFFICES ASSUME NEW u \in Task
      PROVE  /\ runs'[u]["setup"] \in {"spawned", "ready", "running"} =>
                   ~StepIsDone(u, "setup")' /\ <<u, "setup">> \notin failed'
             /\ runs'[u]["setup"] = "none" => <<u, "setup">> \notin failed'
             /\ runs'[u]["setup"] \in {"ended", "done"} =>
                   (StepIsDone(u, "setup")' <=> <<u, "setup">> \notin failed')
             /\ runs'[u]["setup"] # "none" => HasStep(u, "setup")'
    BY DEF SetupTold, SetupImplemented
  <2>1. CASE u = t /\ step = "setup"
    <3>1. runs'[u]["setup"] \in {"none", "spawned"} /\ <<u, "setup">> \notin failed'
      BY <1>1, <1>4, <2>1 DEF PairInv, SetupTold
    <3>2. runs'[u]["setup"] = "spawned" => ~StepIsDone(u, "setup")'
      BY <1>3, <1>4, <2>1
    <3>3. runs'[u]["setup"] = "spawned" => HasStep(u, "setup")'
      BY <1>1, <1>4, <2>1 DEF CanStartStep, HasStep
    <3> QED BY <3>1, <3>2, <3>3
  <2>2. CASE ~(u = t /\ step = "setup")
    <3>1. runs'[u]["setup"] = runs[u]["setup"]
      BY <1>2, <2>2
    <3>2. StepIsDone(u, "setup")' <=> StepIsDone(u, "setup")
      BY <1>3, <2>2
    <3>3. HasStep(u, "setup")' <=> HasStep(u, "setup")
      BY <1>1 DEF HasStep
    <3> QED BY <1>1, <3>1, <3>2, <3>3 DEF PairInv, SetupTold, SetupImplemented
  <2> QED BY <2>1, <2>2
<1>9. TeardownExact'
  <2> SUFFICES ASSUME NEW u \in Task, TeardownAsked(u)'
               PROVE  Touched(u, "teardown")' <=>
                          HasStep(u, "teardown")' /\ StepIsDone(u, "setup")'
    BY DEF TeardownExact
  <2>1. step = "teardown" /\ (TeardownAsked(u) \/ u = t)
    BY <1>1, <1>5 DEF TeardownAsked, Doing
  <2>2. StepIsDone(u, "setup")' <=> StepIsDone(u, "setup")
    BY <1>3, <2>1
  <2>3. HasStep(u, "teardown")' <=> HasStep(u, "teardown")
    BY <1>1 DEF HasStep
  <2>4. CASE u = t
    <3>1. PrevStepIsDone(t, step) <=> StepIsDone(t, "setup")
      BY <2>1 DEF PrevStepIsDone, Required
    <3>2. CanStartStep(t, step) <=> HasStep(t, "teardown")
      BY <2>1 DEF CanStartStep
    <3> QED BY <1>4, <2>1, <2>2, <2>3, <2>4, <3>1, <3>2 DEF Touched
  <2>5. CASE u # t
    <3>1. Touched(u, "teardown")' <=> Touched(u, "teardown")
      BY <1>2, <2>5 DEF Touched
    <3> QED BY <2>1, <2>2, <2>3, <2>5, <3>1 DEF PairInv, TeardownExact
  <2> QED BY <2>4, <2>5
<1> QED BY <1>6, <1>7, <1>8, <1>9 DEF PairInv

\* Wherever Run moves on to, it has visited the same tasks for their setup step.
LEMMA AskedUnmoved ==
    ASSUME TypeOK, PairInv, WrapperUntouched, NEW u \in Task
    PROVE  SetupAsked(u)' <=> SetupAsked(u)
<1> StageOf \in [Task -> 1..NStages] /\ NStages \in Nat /\ stage \in 0..NStages
  BY DEF ManagerAssumption, TypeOK, MainTypeOK
<1> USE DEF SetupAsked, PastStart, Doing
<1>1. CASE UNCHANGED <<pc, stage, step, todo, stagesRun>>
  BY <1>1
<1>2. CASE Enter \/ Prologue
  <2>1. pc \in {"idle", "entered", "beforeRun", "apply"} /\ stagesRun = 0
    BY <1>2 DEF Enter, Prologue, ReadInitErrors, BeforeRunFails, CreateContexts,
       ApplyPending, PairInv, NoStageYet
  <2>2. ~SetupAsked(u)
    BY <2>1
  <2>3. CASE ApplyPending
    BY <2>2, <2>3 DEF ApplyPending, EnterStage, TasksOf
  <2>4. CASE ~ApplyPending
    <3>1. pc' \in {"entered", "beforeRun", "apply", "returned"} /\ stagesRun' = 0
      BY <1>2, <2>1, <2>4 DEF Enter, Prologue, ReadInitErrors, BeforeRunFails,
         CreateContexts, ReturnEarly
    <3> QED BY <2>2, <3>1
  <2> QED BY <2>3, <2>4
<1>3. CASE SetupStageDone
  BY <1>3 DEF SetupStageDone, Visited, StartReturns, EnterStage
<1>4. CASE StartStageReady
  BY <1>4 DEF StartStageReady, Visited, StartReturns, EnterStage, TasksOf
<1>5. CASE NotifyTasksSkipped
  BY <1>5 DEF NotifyTasksSkipped
<1>6. CASE Finish
  <2>1. PastStart /\ PastStart' /\ stagesRun' = stagesRun
    BY <1>6 DEF Finish, SelectCause, StopStageDone, Drained, TeardownStageDone, Visited,
       EnterStage
  <2> QED BY <2>1
<1>7. CASE Callers \/ PropagateCtx \/ Expire
  BY <1>1, <1>7 DEF Callers, RequestStartupCancel, AddInitError, CancelCtx,
     CancelShutdownCtx, PropagateCtx, Expire, mainVars
<1>8. CASE Terminated \/ UNCHANGED vars
  BY <1>1, <1>8 DEF Terminated, vars, mainVars
<1> QED BY <1>2, <1>3, <1>4, <1>5, <1>6, <1>7, <1>8 DEF WrapperUntouched

\* Skipped is called once, when it is known which stages never come.
LEMMA SkipsMove ==
    ASSUME TypeOK, PairInv, WrapperUntouched
    PROVE  NoStageYet' /\ SkipsExact'
<1> StageOf \in [Task -> 1..NStages] /\ NStages \in Nat /\ skips \in [Task -> Nat]
  BY DEF ManagerAssumption, TypeOK, MainTypeOK
<1> USE DEF NoStageYet, SkipsExact, PastStart, Doing, NeverRuns
<1>1. CASE UNCHANGED <<pc, step, stagesRun, skips>>
  BY <1>1 DEF PairInv
<1>2. CASE Enter \/ Prologue
  <2>1. pc \in {"idle", "entered", "beforeRun", "apply"} /\ stagesRun = 0 /\ stagesRun' = 0
    BY <1>2 DEF Enter, Prologue, ReadInitErrors, BeforeRunFails, CreateContexts,
       ApplyPending, ReturnEarly, PairInv
  <2>2. \A t \in Task : skips[t] = 0
    BY <2>1 DEF PairInv
  <2>3. CASE pc' = "returned"
    <3>1. \A t \in Task : skips'[t] = 1
      BY <1>2, <2>2, <2>3 DEF Enter, Prologue, ReadInitErrors, BeforeRunFails,
         CreateContexts, ApplyPending, EnterStage, ReturnEarly
    <3> QED BY <2>1, <2>3, <3>1
  <2>4. CASE pc' # "returned"
    <3>1. /\ skips' = skips
          /\ \/ pc' \in {"entered", "beforeRun", "apply"}
             \/ pc' = "runStage" /\ step' = "setup"
      BY <1>2, <2>4 DEF Enter, Prologue, ReadInitErrors, BeforeRunFails,
         CreateContexts, ApplyPending, EnterStage, ReturnEarly, outVars
    <3> QED BY <2>1, <2>2, <3>1
  <2> QED BY <2>3, <2>4
<1>3. CASE SetupStageDone \/ StartStageReady
  <2>1. /\ pc = "runStage" /\ step \in {"setup", "start"} /\ skips' = skips
        /\ \/ pc' = "notify"
           \/ pc' = "runStage" /\ step' \in {"setup", "start"}
    BY <1>3 DEF SetupStageDone, StartStageReady, Visited, StartReturns, EnterStage, outVars
  <2>2. \A t \in Task : skips[t] = 0
    BY <2>1 DEF PairInv
  <2> QED BY <2>1, <2>2
<1>4. CASE NotifyTasksSkipped
  <2>1. \A t \in Task : skips[t] = 0
    BY <1>4 DEF NotifyTasksSkipped, PairInv
  <2>2. pc' = "select" /\ stagesRun' = stagesRun
    BY <1>4 DEF NotifyTasksSkipped
  <2>3. \A t \in Task : skips'[t] = IF StageOf[t] > stagesRun THEN 1 ELSE 0
    BY <1>4, <2>1 DEF NotifyTasksSkipped
  <2> QED BY <2>2, <2>3
<1>5. CASE Finish
  <2>1. /\ PastStart /\ pc # "notify" /\ PastStart' /\ pc' # "notify"
        /\ UNCHANGED <<stagesRun, skips>>
    BY <1>5 DEF Finish, SelectCause, StopStageDone, Drained, TeardownStageDone, Visited,
       EnterStage, outVars
  <2>2. pc \notin {"idle", "entered", "beforeRun", "apply"}
        /\ pc' \notin {"idle", "entered", "beforeRun", "apply"}
    BY <2>1
  <2> QED BY <2>1, <2>2 DEF PairInv
<1>6. CASE Callers \/ PropagateCtx \/ Expire
  BY <1>1, <1>6 DEF Callers, RequestStartupCancel, AddInitError, CancelCtx,
     CancelShutdownCtx, PropagateCtx, Expire, mainVars, outVars
<1>7. CASE Terminated \/ UNCHANGED vars
  BY <1>1, <1>7 DEF Terminated, vars, mainVars, outVars
<1> QED BY <1>2, <1>3, <1>4, <1>5, <1>6, <1>7 DEF WrapperUntouched

\* Run reaches the teardown of a stage, or returns, with every task it has left
\* behind torn down.
LEMMA TeardownMove ==
    ASSUME TypeOK, OrderInv, DownInv, EndInv, PairInv, WrapperUntouched
    PROVE  TeardownExact' /\ EndQuiet'
<1> "setup" \in Step /\ "teardown" \in Step
  BY DEF Step
<1> StageOf \in [Task -> 1..NStages] /\ NStages \in Nat /\ stage \in 0..NStages
  BY DEF ManagerAssumption, TypeOK, MainTypeOK
<1>1. UNCHANGED <<steps, executeSteps, runs>>
  BY WrapperUnchanged
<1>2. ASSUME \A u \in Task : TeardownAsked(u)' => TeardownAsked(u) PROVE TeardownExact'
  <2>1. \A u \in Task :
           /\ Touched(u, "teardown")' <=> Touched(u, "teardown")
           /\ HasStep(u, "teardown")' <=> HasStep(u, "teardown")
           /\ StepIsDone(u, "setup")' <=> StepIsDone(u, "setup")
    BY <1>1 DEF Touched, HasStep, StepIsDone
  <2> QED BY <1>2, <2>1 DEF PairInv, TeardownExact
<1>3. CASE UNCHANGED <<pc, stage, step, todo>>
  <2>1. TeardownExact'
    BY <1>2, <1>3 DEF TeardownAsked, Doing
  <2>2. EndQuiet'
    BY <1>1, <1>3 DEF PairInv, EndQuiet, RunOver
  <2> QED BY <2>1, <2>2
<1>4. CASE pc' # "returned" /\ ~Doing("teardown")'
  BY <1>4 DEF TeardownExact, EndQuiet, TeardownAsked
<1>5. CASE Prologue /\ pc' = "returned"
  <2>1. pc \in {"entered", "beforeRun"}
    BY <1>5 DEF Prologue, ReadInitErrors, BeforeRunFails, CreateContexts, ApplyPending,
       EnterStage
  <2>2. \A u \in Task, x \in Step : ~StepIsDone(u, x) /\ runs[u][x] = "none"
    BY <2>1 DEF OrderInv, NothingAhead, MayHaveAsked
  <2>3. \A u \in Task :
           /\ ~StepIsDone(u, "setup")' /\ ~Touched(u, "teardown")'
           /\ RunOver(u, "setup")' /\ RunOver(u, "teardown")'
    BY <1>1, <2>2 DEF StepIsDone, Touched, RunOver
  <2> QED BY <2>3 DEF TeardownExact, EndQuiet
<1>6. CASE Drained
  <2>1. Doing("teardown")' /\ stage' = NStages /\ todo' = TasksOf(NStages)
    BY <1>6 DEF Drained, EnterStage, Doing
  <2>2. \A u \in Task : ~TeardownAsked(u)'
    BY <2>1 DEF TeardownAsked, Doing, TasksOf
  <2>3. pc' # "returned"
    BY <2>1 DEF Doing
  <2> QED BY <2>2, <2>3 DEF TeardownExact, EndQuiet
<1>7. CASE TeardownStageDone
  <2>1. Doing("teardown") /\ todo = {} /\ StageOver
    BY <1>7 DEF TeardownStageDone, Visited, Doing
  <2>2. CASE stage > 1
    <3>1. Doing("teardown")' /\ stage' = stage - 1 /\ todo' = TasksOf(stage - 1)
      BY <1>7, <2>2 DEF TeardownStageDone, EnterStage, Doing
    <3>2. \A u \in Task : TeardownAsked(u)' => TeardownAsked(u)
      BY <2>1, <3>1 DEF TeardownAsked, Doing, TasksOf
    <3>3. pc' # "returned"
      BY <3>1 DEF Doing
    <3> QED BY <1>2, <3>2, <3>3 DEF EndQuiet
  <2>3. CASE ~(stage > 1)
    <3>1. \A u \in Task : TeardownAsked(u)
      BY <2>1, <2>3 DEF TeardownAsked
    <3>2. \A u \in Task : RunOver(u, "setup")
      BY <2>1 DEF EndInv, SetupsOver
    <3>3. \A u \in Task : RunOver(u, "teardown")
      BY <2>1, <2>3 DEF DownInv, AboveTornDown, StageOver, TasksOf, Doing
    <3>4. EndQuiet'
      BY <1>1, <3>2, <3>3 DEF EndQuiet, RunOver
    <3> QED BY <1>2, <3>1, <3>4
  <2> QED BY <2>2, <2>3
<1>8. CASE Moves /\ ~Drained /\ ~TeardownStageDone /\ ~(Prologue /\ pc' = "returned")
  <2>1. pc' # "returned" /\ ~Doing("teardown")'
    BY <1>8 DEF Moves, Enter, Prologue, ReadInitErrors, BeforeRunFails, ReturnEarly,
       CreateContexts, ApplyPending, SetupStageDone, StartStageReady, StartReturns,
       NotifyTasksSkipped, Finish, SelectCause, StopStageDone, EnterStage, Doing
  <2> QED BY <1>4, <2>1
<1> QED BY <1>3, <1>5, <1>6, <1>7, <1>8, PositionKept

\* Every step that touches no wrapper keeps the invariant.
LEMMA PairMove ==
    ASSUME TypeOK, OrderInv, DownInv, EndInv, PairInv, WrapperUntouched
    PROVE  PairInv'
<1>1. UNCHANGED <<steps, executeSteps, runs, failed>>
  BY WrapperUnchanged
<1>2. AskedIsSeen'
  BY <1>1, AskedUnmoved DEF PairInv, AskedIsSeen, Seen, StepIsDone
<1>3. SetupTold' /\ SetupImplemented'
  BY <1>1 DEF PairInv, SetupTold, SetupImplemented, HasStep, StepIsDone
<1> QED BY <1>2, <1>3, SkipsMove, TeardownMove DEF PairInv

-----------------------------------------------------------------------------
(* Setup and teardown come in pairs.                                       *)

\* The invariants hold before Run is called.
LEMMA PairedAtFirst ==
    ASSUME Init
    PROVE  OrderInv /\ UpInv /\ DownInv /\ EndInv /\ PairInv
<1>1. OrderInv /\ UpInv /\ DownInv /\ EndInv
  BY DEF Init, WrapperInit, OrderInv, NoOrderError, NothingAhead, StepIsDone, InLedger,
     UpInv, BelowReady, StageSetUp, FailureKept, SetupBarrier, StartBarrier,
     DownInv, CtxMade, AboveStopped, AllStopped, AboveTornDown, StopOrder, TeardownLast,
     EndInv, SetupsOver, AbandonedIsReported, ErrorKept, Touched, Doing, Step
<1>2. \A t \in Task, s \in Step :
         runs[t][s] = "none" /\ ~StepIsDone(t, s) /\ skips[t] = 0 /\ failed = {}
  BY DEF Init, WrapperInit, StepIsDone, InLedger
<1>3. pc = "idle" /\ stagesRun = 0 /\ "setup" \in Step
  BY DEF Init, Step
<1>4. PairInv
  BY <1>2, <1>3 DEF PairInv, NoStageYet, AskedIsSeen, SetupTold, SetupImplemented,
     TeardownExact, EndQuiet, SkipsExact, SetupAsked, TeardownAsked, PastStart, Doing, Seen
<1> QED BY <1>1, <1>4

\* What was recorded and run when Run returns follows from the invariant.
LEMMA PairTells == TypeOK /\ PairInv => TeardownPaired /\ SkippedNeverRan
<1>1. TypeOK /\ PairInv => TeardownPaired
  <2> SUFFICES ASSUME TypeOK, PairInv, pc = "returned", NEW t \in Task
               PROVE  /\ RunOver(t, "teardown")
                      /\ Touched(t, "teardown") <=>
                            /\ HasStep(t, "teardown")
                            /\ StageOf[t] <= stagesRun
                            /\ <<t, "setup">> \notin failed
    BY DEF TeardownPaired
  <2>1. RunOver(t, "setup") /\ RunOver(t, "teardown")
    BY DEF PairInv, EndQuiet
  <2>2. Touched(t, "teardown") <=> HasStep(t, "teardown") /\ StepIsDone(t, "setup")
    BY DEF PairInv, TeardownExact, TeardownAsked
  <2>3. SetupAsked(t) <=> StageOf[t] <= stagesRun
    BY DEF SetupAsked, PastStart, Doing
  <2>4. SetupAsked(t) <=> Seen(t, "setup")
    BY DEF PairInv, AskedIsSeen, Step
  <2>5. Seen(t, "setup") =>
           (StepIsDone(t, "setup") <=> <<t, "setup">> \notin failed)
    BY <2>1 DEF PairInv, SetupTold, Seen, RunOver
  <2> QED BY <2>1, <2>2, <2>3, <2>4, <2>5 DEF Seen
<1>2. TypeOK /\ PairInv => SkippedNeverRan
  <2> SUFFICES ASSUME TypeOK, PairInv, NEW t \in Task
               PROVE  /\ skips[t] <= 1
                      /\ skips[t] > 0 => \A s \in Step : ~Touched(t, s)
                      /\ pc = "returned" /\ StageOf[t] > stagesRun => skips[t] = 1
    BY DEF SkippedNeverRan
  <2>1. skips[t] = IF PastStart /\ pc # "notify" /\ NeverRuns(t) THEN 1 ELSE 0
    BY DEF PairInv, SkipsExact
  <2>2. ASSUME skips[t] > 0, NEW s \in Step PROVE ~Touched(t, s)
    <3>1. PastStart /\ StageOf[t] > stagesRun
      BY <2>1, <2>2 DEF NeverRuns
    <3>2. ~SetupAsked(t)
      BY <3>1 DEF SetupAsked, PastStart, Doing, TypeOK, MainTypeOK, ManagerAssumption
    <3> QED BY <3>2 DEF PairInv, AskedIsSeen, Seen, Touched
  <2>3. pc = "returned" /\ StageOf[t] > stagesRun => skips[t] = 1
    BY <2>1 DEF PastStart, NeverRuns
  <2> QED BY <2>1, <2>2, <2>3
<1> QED BY <1>1, <1>2

\* When Run returns, teardown has run for exactly the tasks that implement it, of
\* the stages that were reached, whose setup did not fail; and TaskInfo.Skipped
\* was called once for the tasks of the stages that were not, and for no task that
\* ran a step (README.md:36-39, task.go:49-51).
THEOREM SetupIsUndone == Spec => [](TeardownPaired /\ SkippedNeverRan)
<1>1. Init => OrderInv /\ UpInv /\ DownInv /\ EndInv /\ PairInv
  BY PairedAtFirst
<1>2. TypeOK /\ OrderInv /\ UpInv /\ DownInv /\ EndInv /\ PairInv /\ [Next]_vars =>
         OrderInv' /\ UpInv' /\ DownInv' /\ EndInv' /\ PairInv'
  BY OrderStep, ThreeKinds, UpGoroutine, UpCheck, UpMove, DownGoroutine, DownCheck,
     DownMove, EndGoroutine, EndCheck, EndMove, PairGoroutine, PairCheck, PairMove
<1> QED BY <1>1, <1>2, PairTells, TypeCorrect, PTL DEF Spec

-----------------------------------------------------------------------------
(* What the modules that extend Manager use of it.                         *)

\* No step but setup leaves a trace before setup is recorded.
LEMMA FollowsKept ==
    ASSUME TypeOK, OrderInv, AfterSetup, [Next]_vars
    PROVE  AfterSetup'
<1> SUFFICES ASSUME NEW u \in Task, NEW x \in Step \ {"setup"}, Seen(u, x)'
             PROVE  StepIsDone(u, "setup")'
  BY DEF AfterSetup, Seen
<1> "setup" \in Step
  BY DEF Step
<1>1. Seen(u, x) => StepIsDone(u, "setup")
  BY DEF AfterSetup, Seen
<1>2. CASE WrapperUntouched
  BY <1>1, <1>2, WrapperUnchanged DEF Seen, StepIsDone
<1>3. ASSUME NEW t \in Task, NEW s \in Step, GoStep(t, s) PROVE StepIsDone(u, "setup")'
  <2>1. \/ Ready(t, s) \/ Begin(t, s) \/ Unimplemented(t, s) \/ Report(t, s)
        \/ \E fails \in BOOLEAN : End(t, s, fails)
    BY <1>3 DEF GoStep, Goroutine, GoReady, GoBegin, GoUnimplemented, GoReport, GoEnd
  <2>2. Seen(u, x)
    BY <2>1, GoroutineTraces DEF TypeOK
  <2> QED BY <1>1, <1>3, <2>2, GoStepLedger
<1>4. ASSUME NEW t \in Task, CheckTask(t) PROVE StepIsDone(u, "setup")'
  <2>1. step \in Step /\ CheckStartStep(t, step)
    BY <1>4 DEF CheckTask, TypeOK, MainTypeOK
  <2>2. CASE Seen(u, x)
    BY <1>1, <1>4, <2>2, CheckLedger
  <2>3. CASE u = t /\ x = step /\ ~Seen(u, x)
    <3>1. PrevStepIsDone(t, step)
      BY <1>4, <2>3, CheckLedger DEF Seen
    <3>2. StepIsDone(t, "setup")
      BY <2>3, <3>1, FollowsSetup
    <3> QED BY <1>4, <2>3, <3>2, CheckLedger
  <2> QED BY <2>1, <2>2, <2>3, CheckTraces DEF TypeOK
<1> QED BY <1>2, <1>3, <1>4, ThreeKinds

\* What a step of the manager may do to one task: a goroutine once spawned stays, a
\* goroutine runs a step only if the task implements it, the steps of a task that
\* is no provider are those it was added with, and no record is taken back.
TaskMoved(u, x) ==
    /\ Touched(u, x) => Touched(u, x)'
    /\ runs'[u][x] = "running" => runs[u][x] = "running" \/ HasStep(u, x)
    /\ u \notin Provider => steps'[u] = steps[u]
    /\ StepIsDone(u, x) => StepIsDone(u, x)'

LEMMA TaskMoves ==
    ASSUME TypeOK, OrderInv, [Next]_vars, NEW u \in Task, NEW x \in Step
    PROVE  TaskMoved(u, x)
<1>1. CASE WrapperUntouched
  BY <1>1, WrapperUnchanged DEF TaskMoved, Touched, StepIsDone
<1>2. ASSUME NEW t \in Task, NEW s \in Step, GoStep(t, s) PROVE TaskMoved(u, x)
  <2>1. /\ \/ Ready(t, s) \/ Begin(t, s) \/ Unimplemented(t, s) \/ Report(t, s)
           \/ \E fails \in BOOLEAN : End(t, s, fails)
    BY <1>2 DEF GoStep, Goroutine, GoReady, GoBegin, GoUnimplemented, GoReport, GoEnd
  <2>2. Touched(u, x) => Touched(u, x)'
    BY <1>2, GoStepKeeps
  <2>3. StepIsDone(u, x) => StepIsDone(u, x)'
    BY <1>2, GoStepLedger
  <2>4. \/ HasStep(t, s)
        \/ \E v \in RunState \ {"running"} : runs' = [runs EXCEPT ![t][s] = v]
    BY <2>1 DEF Ready, Begin, Unimplemented, Report, End, RunState
  <2>5. \E v \in RunState : runs' = [runs EXCEPT ![t][s] = v]
    BY <2>1 DEF Ready, Begin, Unimplemented, Report, End, RunState
  <2>6. runs'[u][x] = "running" => runs[u][x] = "running" \/ HasStep(u, x)
    <3>1. CASE HasStep(t, s)
      <4>1. PICK v \in RunState : runs' = [runs EXCEPT ![t][s] = v]
        BY <2>5
      <4>2. ~(u = t /\ x = s) => runs'[u][x] = runs[u][x]
        BY <4>1, MoveGoroutine DEF TypeOK, WrapperTypeOK
      <4> QED BY <3>1, <4>2
    <3>2. CASE ~HasStep(t, s)
      <4>1. PICK v \in RunState \ {"running"} : runs' = [runs EXCEPT ![t][s] = v]
        BY <2>4, <3>2
      <4>2. runs'[u][x] = IF u = t /\ x = s THEN v ELSE runs[u][x]
        BY <4>1, MoveGoroutine DEF TypeOK, WrapperTypeOK
      <4> QED BY <4>2
    <3> QED BY <3>1, <3>2
  <2>7. u \notin Provider => steps'[u] = steps[u]
    BY <2>1, EndProvides DEF Ready, Begin, Unimplemented, Report, TypeOK, WrapperTypeOK
  <2> QED BY <2>2, <2>3, <2>6, <2>7 DEF TaskMoved
<1>3. ASSUME NEW t \in Task, CheckTask(t) PROVE TaskMoved(u, x)
  <2>1. runs'[u][x] = runs[u][x] \/ (runs[u][x] = "none" /\ runs'[u][x] \in {"none", "spawned"})
    BY <1>3, CheckKeeps, CheckLedger
  <2>2. steps' = steps /\ (StepIsDone(u, x) => StepIsDone(u, x)')
    BY <1>3, CheckLedger
  <2> QED BY <2>1, <2>2 DEF TaskMoved, Touched
<1> QED BY <1>1, <1>2, <1>3, ThreeKinds

\* A task that implements setup has a goroutine for it if it has a record of it.
SetupTraced(u) == HasStep(u, "setup") /\ (StepIsDone(u, "setup") => Touched(u, "setup"))

LEMMA SetupNotPassedOver ==
    ASSUME TypeOK, OrderInv, [Next]_vars, NEW u \in Task, SetupTraced(u)
    PROVE  SetupTraced(u)'
<1> "setup" \in Step
  BY DEF Step
<1>1. CASE WrapperUntouched
  BY <1>1, WrapperUnchanged DEF SetupTraced, HasStep, StepIsDone, Touched
<1>2. ASSUME NEW t \in Task, NEW s \in Step, GoStep(t, s) PROVE SetupTraced(u)'
  <2>1. u = t /\ s = "setup" => Touched(u, "setup")
    BY <1>2 DEF Touched, GoStep, Goroutine, GoReady, GoBegin, GoUnimplemented, GoReport, GoEnd,
       Ready, Begin, Unimplemented, Report, End
  <2>2. /\ HasStep(u, "setup")'
        /\ Touched(u, "setup") => Touched(u, "setup")'
        /\ StepIsDone(u, "setup")' => StepIsDone(u, "setup") \/ (u = t /\ s = "setup")
    BY <1>2, GoStepKeeps, GoStepLedger DEF SetupTraced
  <2> QED BY <2>1, <2>2 DEF SetupTraced
<1>3. ASSUME NEW t \in Task, CheckTask(t) PROVE SetupTraced(u)'
  <2>1. u = t /\ step = "setup" => ~PassedOver(t, step)
    BY <1>3, CheckLedger DEF SetupTraced, CanStartStep
  <2>2. /\ steps' = steps
        /\ StepIsDone(u, "setup")' => StepIsDone(u, "setup")
        /\ Touched(u, "setup") => Touched(u, "setup")'
    BY <1>3, <2>1, CheckLedger, CheckKeeps DEF Touched
  <2> QED BY <2>2 DEF SetupTraced, HasStep
<1> QED BY <1>1, <1>2, <1>3, ThreeKinds

\* All that is known of the ledgers, the goroutines and the position of Run.
RunInv == OrderInv /\ UpInv /\ DownInv /\ EndInv /\ PairInv /\ AfterSetup

LEMMA RunInvStep ==
    ASSUME TypeOK, RunInv, [Next]_vars
    PROVE  RunInv'
BY OrderStep, ThreeKinds, UpGoroutine, UpCheck, UpMove, DownGoroutine, DownCheck, DownMove,
   EndGoroutine, EndCheck, EndMove, PairGoroutine, PairCheck, PairMove, FollowsKept
   DEF RunInv

LEMMA RunInvAtFirst ==
    ASSUME Init
    PROVE  RunInv
<1>1. AfterSetup
  BY DEF AfterSetup, Init, WrapperInit, StepIsDone, InLedger, Step
<1> QED BY <1>1, PairedAtFirst DEF RunInv

\* The steps of the tasks may change, by what the modules that extend Manager add to
\* it, as long as no task loses the setup step it has a goroutine for and Run does
\* not ask for teardown steps yet: nothing else that is known of Run is about them.
LEMMA StepSetsMayChange ==
    ASSUME TypeOK, RunInv, steps' \in [Task -> SUBSET Step],
           \A t \in Task : runs[t]["setup"] # "none" => "setup" \in steps'[t],
           \A t \in Task : ~TeardownAsked(t),
           UNCHANGED <<executeSteps, runs, failed, mainVars, ctxVars, errVars, outVars>>
    PROVE  TypeOK' /\ RunInv'
<1>1. UNCHANGED <<executeSteps, runs, failed, pc, stage, step, todo, stagesRun, startup, pending,
                  taskDone, ctxDone, baseDone, shutdownCtx, initErrors, setupErr, stopErrs,
                  ctxErrs, orderErrs, cause, result, skips>>
  BY DEF mainVars, ctxVars, errVars, outVars
<1>2. TypeOK'
  BY <1>1 DEF TypeOK, WrapperTypeOK, MainTypeOK
<1>3. OrderInv' /\ UpInv'
  BY <1>1 DEF RunInv, OrderInv, NoOrderError, NothingAhead, MayHaveAsked, StepIsDone, TasksOf,
     UpInv, BelowReady, StageSetUp, FailureKept, SetupDone, SetupBarrier, StartBarrier,
     Touched, RunOver
<1>4. DownInv'
  BY <1>1 DEF RunInv, DownInv, CtxMade, AboveStopped, AllStopped, AboveTornDown, StopOrder,
     TeardownLast, Doing, Touched, RunOver, Overdue
<1>5. EndInv' /\ AfterSetup'
  BY <1>1 DEF RunInv, EndInv, SetupsOver, AbandonedIsReported, ErrorKept, AfterSetup,
     StepIsDone, Doing, RunOver
<1>6. NoStageYet' /\ AskedIsSeen' /\ SetupTold' /\ EndQuiet' /\ SkipsExact'
  BY <1>1 DEF RunInv, PairInv, NoStageYet, AskedIsSeen, SetupTold, EndQuiet, SkipsExact,
     SetupAsked, PastStart, NeverRuns, Doing, Seen, StepIsDone, RunOver
<1>7. SetupImplemented' /\ TeardownExact'
  BY <1>1 DEF SetupImplemented, TeardownExact, TeardownAsked, Doing, HasStep
<1> QED BY <1>2, <1>3, <1>4, <1>5, <1>6, <1>7 DEF RunInv, PairInv

LEMMA RunInvHolds == Spec => [](TypeOK /\ RunInv)
<1>1. Init => RunInv
  BY RunInvAtFirst
<1>2. TypeOK /\ RunInv /\ [Next]_vars => RunInv'
  BY RunInvStep
<1> QED BY <1>1, <1>2, TypeCorrect, PTL DEF Spec

-----------------------------------------------------------------------------
(***************************************************************************)
(* Why Manager stops, and what Run returns.                                *)
(***************************************************************************)
USE TaskAssumption

(* The inductive invariant.                                                *)

\* A cause is there for a reason.
Deserved(c) ==
    /\ c \in Task => <<c, "start">> \in failed
    /\ c = "exit" => ExitAsked
    /\ c = "setup" => setupErr
    /\ c = "ctx" => ctxDone
    /\ c = "rejected" => "rejected" \in Calls

\* The startup context is made after the prologue, before the first stage.
ContextMade ==
    /\ startup = "unset" => pc \in {"idle", "entered", "beforeRun", "returned"}
    /\ pc \in {"idle", "entered", "beforeRun"} => startup = "unset"

\* A request made before that is not forgotten.
RequestKept ==
    pending # "none" /\ pc \notin {"idle", "entered", "beforeRun", "apply"}
        => startup # "live"

PendingDeserved == pending # "none" => pending \in Calls

SetupErrDeserved == setupErr => \E t \in Task : <<t, "setup">> \in failed

\* Once it is chosen, the cause is a setup error exactly if there is one.
CauseChosen ==
    cause # "none" =>
        /\ pc \in {"drain", "returned"} \/ Doing("stop") \/ Doing("teardown")
        /\ cause = "setup" <=> setupErr

ShutdownHasCause == pc = "drain" \/ Doing("stop") \/ Doing("teardown") => cause # "none"

\* Run returns before the first stage, or what it makes of the cause.
ResultFromCause ==
    pc = "returned" =>
        \/ /\ result \in EarlyResult
           /\ \A t \in Task : <<t, "setup">> \notin failed
        \/ cause # "none" /\ result = IF IsExit(cause) THEN "nil" ELSE cause

ResultInv ==
    /\ Deserved(startup) /\ Deserved(cause) /\ ContextMade /\ PendingDeserved
    /\ SetupErrDeserved /\ CauseChosen /\ ShutdownHasCause /\ ResultFromCause
    /\ RequestKept

\* What is deserved stays deserved, as failures and results only accumulate.
LEMMA DeservedForGood ==
    ASSUME setupErr => setupErr', failed \subseteq failed', ctxDone => ctxDone',
           ExitAsked => ExitAsked'
    PROVE  /\ Deserved(startup) /\ startup' = startup => Deserved(startup)'
           /\ Deserved(cause) /\ cause' = cause => Deserved(cause)'
BY DEF Deserved

\* So does what asks Run to return without an error.
LEMMA AskedForGood ==
    ASSUME failed \subseteq failed', ctxDone => ctxDone',
           \A t \in Task : runs[t]["start"] = "done" /\ <<t, "start">> \notin failed
                            => runs'[t]["start"] = "done" /\ <<t, "start">> \notin failed'
    PROVE  ExitAsked => ExitAsked'
BY DEF ExitAsked, ExitsFailed

\* What Run makes of a cause changes only with the setup steps that failed.
LEMMA SameExit ==
    ASSUME \A t \in Task : <<t, "setup">> \in failed' <=> <<t, "setup">> \in failed,
           cause' = cause
    PROVE  IsExit(cause)' <=> IsExit(cause)
BY DEF IsExit

\* The goroutines keep the invariant.
LEMMA ResultGoroutine ==
    ASSUME TypeOK, EndInv, PairInv, ResultInv, NEW t \in Task, NEW s \in Step, GoStep(t, s)
    PROVE  ResultInv'
<1> "setup" \in Step /\ "start" \in Step
  BY DEF Step
<1>1. UNCHANGED <<pc, stage, step, result, cause, pending, ctxDone>>
  <2>1. UNCHANGED <<cause, pending, ctxDone>>
    BY DEF GoStep, Goroutine, GoReady, GoBegin, GoUnimplemented, GoReport, GoEnd,
       OnError, ctxVars, outVars
  <2> QED BY <2>1, GoStepKeeps
<1>2. failed \subseteq failed'
  BY DEF GoStep, Goroutine, GoReady, GoBegin, GoUnimplemented, GoReport, GoEnd,
     Ready, Begin, Unimplemented, Report, End
<1>3. ExitAsked => ExitAsked'
  <2>1. ASSUME NEW u \in Task, runs[u]["start"] = "done", <<u, "start">> \notin failed
        PROVE  runs'[u]["start"] = "done" /\ <<u, "start">> \notin failed'
    BY <2>1, GoStepKeeps DEF RunOver, Touched
  <2> QED BY <1>1, <1>2, <2>1, AskedForGood
<1>4. \/ UNCHANGED <<startup, setupErr>>
      \/ Report(t, s) /\ OnError(t, s, <<t, s>> \in failed)
  BY DEF GoStep, Goroutine, GoReady, GoBegin, GoUnimplemented, GoReport, GoEnd, ctxVars, errVars
<1>5. /\ setupErr => setupErr'
      /\ setupErr' => setupErr \/ (s = "setup" /\ ~RunOver(t, s) /\ <<t, s>> \in failed)
  <2>1. CASE UNCHANGED <<startup, setupErr>>
    BY <2>1
  <2>2. CASE Report(t, s) /\ OnError(t, s, <<t, s>> \in failed)
    <3>1. ~RunOver(t, s)
      BY <2>2 DEF Report, RunOver
    <3>2. setupErr' = (setupErr \/ (s = "setup" /\ <<t, s>> \in failed))
      BY <2>2 DEF OnError, SetupFailed
    <3> QED BY <3>1, <3>2
  <2> QED BY <1>4, <2>1, <2>2
<1>6. Deserved(startup)' /\ (startup' = startup \/ (startup = "live" /\ startup' \in Cause))
  <2>1. CASE startup' = startup
    BY <1>1, <1>2, <1>3, <1>5, <2>1, DeservedForGood DEF ResultInv
  <2>2. CASE startup' # startup
    <3>1. /\ Report(t, s) /\ startup = "live"
          /\ \/ s = "setup" /\ startup' = "setup" /\ setupErr'
             \/ s = "start" /\ startup' = t /\ <<t, s>> \in failed
             \/ s = "start" /\ startup' = "exit" /\ <<t, s>> \notin failed
      BY <1>4, <2>2 DEF OnError, FirstCause, SetupFailed
    <3>2. runs'[t][s] = "done" /\ failed' = failed
      BY <3>1, MoveGoroutine DEF Report, TypeOK, WrapperTypeOK, RunState
    <3>3. CASE s = "start" /\ startup' = "exit" /\ <<t, s>> \notin failed
      <4>1. ExitAsked'
        BY <3>2, <3>3 DEF ExitAsked
      <4> QED BY <3>1, <3>3, <4>1 DEF Deserved, Cause, TaskAssumption
    <3> QED BY <3>1, <3>2, <3>3 DEF Deserved, Cause, TaskAssumption
  <2> QED BY <2>1, <2>2
<1>7. Deserved(cause)'
  BY <1>1, <1>2, <1>3, <1>5, DeservedForGood DEF ResultInv
<1>8. ContextMade' /\ PendingDeserved' /\ ShutdownHasCause' /\ RequestKept'
  BY <1>1, <1>6 DEF ResultInv, ContextMade, PendingDeserved, ShutdownHasCause,
     RequestKept, Doing, Cause, TaskAssumption
<1>9. SetupErrDeserved'
  BY <1>2, <1>5 DEF ResultInv, SetupErrDeserved
<1>10. CauseChosen'
  <2> SUFFICES ASSUME cause # "none" PROVE setupErr' = setupErr
    BY <1>1 DEF ResultInv, CauseChosen, Doing
  <2>1. \A u \in Task : RunOver(u, "setup")
    BY DEF ResultInv, CauseChosen, EndInv, SetupsOver, PairInv, EndQuiet
  <2>2. setupErr \in BOOLEAN /\ setupErr' \in BOOLEAN
    BY <1>4 DEF TypeOK, MainTypeOK, OnError, SetupFailed
  <2>3. setupErr' <=> setupErr
    BY <1>5, <2>1
  <2> QED BY <2>2, <2>3
<1>11. ResultFromCause'
  <2>1. pc = "returned" => \A u \in Task :
           <<u, "setup">> \in failed' <=> <<u, "setup">> \in failed
    BY GoStepKeeps DEF PairInv, EndQuiet
  <2>2. pc = "returned" => (IsExit(cause)' <=> IsExit(cause))
    BY <1>1, <2>1, SameExit
  <2> QED BY <1>1, <2>1, <2>2 DEF ResultInv, ResultFromCause
<1> QED BY <1>6, <1>7, <1>8, <1>9, <1>10, <1>11 DEF ResultInv

\* So does the visit of a task.
LEMMA ResultCheck ==
    ASSUME TypeOK, OrderInv, ResultInv, NEW t \in Task, CheckTask(t)
    PROVE  ResultInv'
<1> "start" \in Step
  BY DEF Step
<1>1. /\ pc = "runStage"
      /\ UNCHANGED <<failed, pc, stage, step, startup, pending, ctxDone, setupErr, result>>
      /\ runs[t][step] = "none"
  BY CheckKeeps DEF ctxVars, errVars
<1>2. UNCHANGED cause
  BY DEF CheckTask, outVars
<1>3. ExitAsked => ExitAsked'
  BY <1>1, CheckKeeps, AskedForGood
<1>4. Deserved(startup)' /\ Deserved(cause)'
  BY <1>1, <1>2, <1>3 DEF ResultInv, Deserved
<1>5. ContextMade' /\ PendingDeserved' /\ SetupErrDeserved' /\ RequestKept'
  BY <1>1 DEF ResultInv, ContextMade, PendingDeserved, SetupErrDeserved, RequestKept
<1>6. CauseChosen' /\ ShutdownHasCause' /\ ResultFromCause'
  BY <1>1, <1>2 DEF ResultInv, CauseChosen, ShutdownHasCause, ResultFromCause, Doing
<1> QED BY <1>4, <1>5, <1>6 DEF ResultInv

\* The steps that touch no wrapper cancel the startup for a reason, and for good.
LEMMA StartupMove ==
    ASSUME TypeOK, ResultInv, WrapperUntouched
    PROVE  /\ UNCHANGED <<runs, failed, setupErr>>
           /\ (ctxDone => ctxDone') /\ (ExitAsked => ExitAsked')
           /\ Deserved(startup)' /\ ContextMade' /\ PendingDeserved' /\ RequestKept'
<1>1. UNCHANGED <<runs, failed>>
  BY WrapperUnchanged
<1>2. UNCHANGED setupErr
  BY PositionKept DEF Moves, Enter, Prologue, ReadInitErrors, BeforeRunFails, ReturnEarly,
     CreateContexts, ApplyPending, SetupStageDone, StartStageReady, NotifyTasksSkipped,
     Finish, SelectCause, StopStageDone, Drained, TeardownStageDone, errVars
<1>3. (ctxDone => ctxDone') /\ (ExitAsked => ExitAsked')
  <2>1. ctxDone => ctxDone'
    BY DEF WrapperUntouched, Enter, Prologue, ReadInitErrors, BeforeRunFails, ReturnEarly,
       CreateContexts, ApplyPending, SetupStageDone, StartStageReady, NotifyTasksSkipped,
       Finish, SelectCause, StopStageDone, Drained, TeardownStageDone, Callers,
       RequestStartupCancel, AddInitError, CancelCtx, CancelShutdownCtx, PropagateCtx,
       Expire, Terminated, vars, ctxVars
  <2> QED BY <1>1, <2>1, AskedForGood
<1> USE DEF ResultInv, Deserved, ContextMade, PendingDeserved, RequestKept
<1>4. ASSUME CreateContexts
      PROVE  Deserved(startup)' /\ ContextMade' /\ PendingDeserved' /\ RequestKept'
  <2>1. /\ startup' = IF ctxDone THEN "ctx" ELSE "live"
        /\ pc' = "apply" /\ pending' = pending
    BY <1>4 DEF CreateContexts
  <2> QED BY <1>1, <1>2, <1>3, <2>1 DEF TaskAssumption
<1>5. ASSUME ApplyPending
      PROVE  Deserved(startup)' /\ ContextMade' /\ PendingDeserved' /\ RequestKept'
  <2>1. /\ startup' = startup \/ (startup = "live" /\ startup' = pending)
        /\ pending # "none" => startup' # "live"
        /\ pending' = pending /\ pc = "apply" /\ pc' = "runStage"
    BY <1>5 DEF ApplyPending, EnterStage, FirstCause, TypeOK, MainTypeOK
  <2>2. startup' = pending => startup' \in {"none", "exit", "rejected"}
    BY DEF TypeOK, MainTypeOK
  <2>3. Deserved(startup)'
    <3>1. "exit" \in Calls => ExitAsked'
      BY DEF ExitAsked
    <3> QED BY <1>1, <1>2, <1>3, <2>1, <2>2, <3>1 DEF TaskAssumption
  <2>4. startup' # "unset"
    BY <2>1, <2>2
  <2> QED BY <1>1, <1>2, <2>1, <2>3, <2>4
<1>6. ASSUME NEW c \in {"exit", "rejected"}, RequestStartupCancel(c)
      PROVE  Deserved(startup)' /\ ContextMade' /\ PendingDeserved' /\ RequestKept'
  <2>1. c \in Calls /\ pc' = pc
    BY <1>6 DEF RequestStartupCancel, mainVars
  <2>2. CASE startup = "unset"
    <3>1. startup' = startup /\ (pending' = pending \/ pending' = c)
      BY <1>6, <2>2 DEF RequestStartupCancel
    <3> QED BY <1>1, <2>1, <2>2, <3>1 DEF TaskAssumption
  <2>3. CASE startup # "unset"
    <3>1. pending' = pending /\ (startup' = startup \/ startup' = c)
      BY <1>6, <2>3 DEF RequestStartupCancel, FirstCause
    <3>2. "exit" \in Calls => ExitAsked'
      BY DEF ExitAsked
    <3> QED BY <1>1, <1>2, <1>3, <2>1, <2>3, <3>1, <3>2 DEF TaskAssumption
  <2> QED BY <2>2, <2>3
<1>7. ASSUME PropagateCtx
      PROVE  Deserved(startup)' /\ ContextMade' /\ PendingDeserved' /\ RequestKept'
  <2>1. /\ startup' = "ctx" /\ startup = "live" /\ pending' = pending /\ pc' = pc
        /\ ctxDone
    BY <1>7 DEF PropagateCtx, mainVars
  <2> QED BY <1>1, <1>2, <1>3, <2>1 DEF TaskAssumption
<1>8. ASSUME startup' = startup, pending' = pending,
             \/ pc' = pc
             \/ /\ pc \notin {"idle", "entered", "beforeRun", "returned", "apply"}
                /\ pc' \notin {"idle", "entered", "beforeRun"}
             \/ pc' \in {"entered", "beforeRun"} /\ startup = "unset"
             \/ pc' = "returned" /\ startup = "unset"
      PROVE  Deserved(startup)' /\ ContextMade' /\ PendingDeserved' /\ RequestKept'
  BY <1>1, <1>2, <1>3, <1>8
<1>9. ASSUME Moves, ~CreateContexts, ~ApplyPending
      PROVE  Deserved(startup)' /\ ContextMade' /\ PendingDeserved' /\ RequestKept'
  <2>1. CASE Enter \/ ReadInitErrors \/ BeforeRunFails
    <3>1. /\ UNCHANGED <<startup, pending>> /\ startup = "unset"
          /\ pc' \in {"entered", "beforeRun", "returned"}
      BY <2>1 DEF Enter, ReadInitErrors, BeforeRunFails, ReturnEarly, ctxVars
    <3> QED BY <1>8, <3>1
  <2>2. CASE SetupStageDone \/ StartStageReady \/ NotifyTasksSkipped \/ Finish
    <3>1. /\ UNCHANGED <<startup, pending>>
          /\ pc \notin {"idle", "entered", "beforeRun", "returned", "apply"}
          /\ pc' \notin {"idle", "entered", "beforeRun"}
      BY <2>2 DEF SetupStageDone, StartStageReady, StartReturns, EnterStage,
         NotifyTasksSkipped, Visited, Finish, SelectCause, StopStageDone, Drained,
         TeardownStageDone, ctxVars
    <3> QED BY <1>8, <3>1
  <2> QED BY <1>9, <2>1, <2>2 DEF Moves, Prologue
<1>10. ASSUME \/ AddInitError \/ CancelCtx \/ CancelShutdownCtx \/ Expire
              \/ Terminated \/ UNCHANGED vars
       PROVE  Deserved(startup)' /\ ContextMade' /\ PendingDeserved' /\ RequestKept'
  <2>1. UNCHANGED <<startup, pending, pc>>
    BY <1>10 DEF AddInitError, CancelCtx, CancelShutdownCtx, Expire, Terminated, vars,
       mainVars, ctxVars
  <2> QED BY <1>8, <2>1
<1> HIDE DEF ResultInv, Deserved, ContextMade, PendingDeserved, RequestKept
<1>11. Deserved(startup)' /\ ContextMade' /\ PendingDeserved' /\ RequestKept'
  BY <1>4, <1>5, <1>6, <1>7, <1>9, <1>10 DEF WrapperUntouched, Moves, Callers
<1> QED BY <1>1, <1>2, <1>3, <1>11

\* Run chooses a cause it was given, and returns what it makes of it.
LEMMA ResultMove ==
    ASSUME TypeOK, OrderInv, EndInv, PairInv, ResultInv, WrapperUntouched
    PROVE  ResultInv'
<1> "setup" \in Step
  BY DEF Step
<1>1. /\ UNCHANGED <<runs, failed, setupErr>>
      /\ (ctxDone => ctxDone') /\ (ExitAsked => ExitAsked')
      /\ Deserved(startup)' /\ ContextMade' /\ PendingDeserved' /\ RequestKept'
  BY StartupMove
<1>2. SetupErrDeserved'
  BY <1>1 DEF ResultInv, SetupErrDeserved
<1>3. ASSUME cause' = cause PROVE IsExit(cause)' <=> IsExit(cause)
  BY <1>1, <1>3, SameExit
<1>4. ASSUME cause' = cause PROVE Deserved(cause)'
  BY <1>1, <1>4 DEF ResultInv, Deserved
<1>5. CASE \E c \in Cause : SelectCause(c)
  <2>1. PICK c \in Cause : SelectCause(c)
    BY <1>5
  <2>2. /\ c = startup \/ (c = "ctx" /\ ctxDone)
        /\ cause' = IF setupErr THEN "setup" ELSE c
    BY <2>1 DEF SelectCause, Reasons, CauseFor
  <2>3. ~setupErr => c # "setup"
    BY <2>2 DEF ResultInv, Deserved
  <2>4. Deserved(cause)'
    <3>1. CASE setupErr
      BY <1>1, <2>2, <3>1 DEF Deserved, TaskAssumption
    <3>2. CASE ~setupErr /\ c = "ctx" /\ ctxDone
      BY <1>1, <2>2, <3>2 DEF Deserved, TaskAssumption
    <3>3. CASE ~setupErr /\ c = startup
      BY <1>1, <2>2, <3>3 DEF ResultInv, Deserved
    <3> QED BY <2>2, <3>1, <3>2, <3>3
  <2>5. cause' # "none" /\ (cause' = "setup" <=> setupErr)
    BY <2>2, <2>3 DEF Cause, TaskAssumption
  <2>6. pc' = "runStage" /\ step' = "stop"
    BY <2>1 DEF SelectCause, EnterStage
  <2>7. CauseChosen' /\ ShutdownHasCause' /\ ResultFromCause'
    BY <1>1, <2>5, <2>6 DEF CauseChosen, ShutdownHasCause, ResultFromCause, Doing
  <2> QED BY <1>1, <1>2, <2>4, <2>7 DEF ResultInv
<1>6. ASSUME cause' = cause,
             CauseChosen', ShutdownHasCause', ResultFromCause'
      PROVE  ResultInv'
  BY <1>1, <1>2, <1>4, <1>6 DEF ResultInv
<1>7. CASE StopStageDone \/ Drained \/ TeardownStageDone
  <2>1. cause' = cause /\ cause # "none"
    BY <1>7 DEF StopStageDone, Drained, TeardownStageDone, Visited, outVars,
       ResultInv, ShutdownHasCause, Doing
  <2>2. /\ pc' \in {"drain", "returned"} \/ Doing("stop")' \/ Doing("teardown")'
        /\ pc' = "returned" => result' = FinalResult
    BY <1>7 DEF StopStageDone, Drained, TeardownStageDone, Visited, EnterStage, Doing
  <2>3. FinalResult = IF IsExit(cause) THEN "nil" ELSE cause
    BY DEF FinalResult, OrderInv, NoOrderError
  <2> QED BY <1>1, <1>3, <1>6, <2>1, <2>2, <2>3 DEF ResultInv, CauseChosen, ShutdownHasCause,
      ResultFromCause
<1>8. CASE Enter \/ Prologue \/ SetupStageDone \/ StartStageReady \/ NotifyTasksSkipped
  <2>1. /\ pc \in {"idle", "entered", "beforeRun", "apply", "notify"}
              \/ Doing("setup") \/ Doing("start")
        /\ cause' = cause
    BY <1>8 DEF Enter, Prologue, ReadInitErrors, BeforeRunFails, ReturnEarly, CreateContexts,
       ApplyPending, SetupStageDone, StartStageReady, NotifyTasksSkipped, Visited, Doing,
       outVars
  <2>2. cause = "none"
    BY <2>1 DEF ResultInv, CauseChosen, Doing
  <2>3. CASE pc' # "returned"
    <3>1. \/ pc' \in {"entered", "beforeRun", "apply", "notify", "select"}
          \/ pc' = "runStage" /\ step' \in {"setup", "start"}
      BY <1>8, <2>3 DEF Enter, Prologue, ReadInitErrors, BeforeRunFails, ReturnEarly,
         CreateContexts, ApplyPending, SetupStageDone, StartStageReady, StartReturns,
         NotifyTasksSkipped, EnterStage
    <3> QED BY <1>6, <2>1, <2>2, <3>1 DEF CauseChosen, ShutdownHasCause, ResultFromCause, Doing
  <2>4. CASE pc' = "returned"
    <3>1. pc \in {"entered", "beforeRun"} /\ result' \in EarlyResult
      BY <1>8, <2>4 DEF Enter, Prologue, ReadInitErrors, BeforeRunFails, ReturnEarly,
         CreateContexts, ApplyPending, SetupStageDone, StartStageReady, StartReturns,
         NotifyTasksSkipped, EnterStage, EarlyResult
    <3>2. \A u \in Task : runs[u]["setup"] = "none"
      BY <3>1 DEF OrderInv, NothingAhead, MayHaveAsked
    <3>3. \A u \in Task : <<u, "setup">> \notin failed'
      BY <1>1, <3>2 DEF PairInv, SetupTold
    <3> QED BY <1>6, <2>1, <2>2, <2>4, <3>1, <3>3 DEF CauseChosen, ShutdownHasCause,
        ResultFromCause, Doing
  <2> QED BY <2>3, <2>4
<1>9. CASE Callers \/ PropagateCtx \/ Expire \/ Terminated \/ UNCHANGED vars
  <2>1. UNCHANGED <<cause, result, pc, step>>
    BY <1>9 DEF Callers, RequestStartupCancel, AddInitError, CancelCtx, CancelShutdownCtx,
       PropagateCtx, Expire, Terminated, vars, mainVars, outVars
  <2> QED BY <1>1, <1>3, <1>6, <2>1 DEF ResultInv, CauseChosen, ShutdownHasCause,
      ResultFromCause, Doing
<1> QED BY <1>5, <1>7, <1>8, <1>9 DEF WrapperUntouched, Finish

-----------------------------------------------------------------------------
(* Why Run returns what it returns.                                        *)

\* Once a setup step has failed Run returns a setup error, or none if the error of
\* one of them wraps ErrExit; it returns a setup error or that of a task only if such
\* a step failed, and no error only if a start step returned without one, a failed
\* step or a call brought ErrExit, or Shutdown may have been called; and a request
\* made before the contexts exist cancels the startup (run.go:94-98, 128-130, 149-151).
THEOREM StopsForAReason == Spec => [](ResultIsDeserved /\ RequestNotLost)
<1> DEFINE All == OrderInv /\ UpInv /\ DownInv /\ EndInv /\ PairInv /\ ResultInv
<1>1. Init => All
  <2> SUFFICES ASSUME Init PROVE All
    OBVIOUS
  <2>1. OrderInv /\ UpInv /\ DownInv /\ EndInv /\ PairInv
    BY PairedAtFirst
  <2>2. ResultInv
    BY DEF Init, WrapperInit, ResultInv, Deserved, ContextMade, PendingDeserved, RequestKept,
       SetupErrDeserved, CauseChosen, ShutdownHasCause, ResultFromCause, Doing, TaskAssumption
  <2> QED BY <2>1, <2>2
<1>2. TypeOK /\ All /\ [Next]_vars => All'
  BY OrderStep, ThreeKinds, UpGoroutine, UpCheck, UpMove, DownGoroutine, DownCheck,
     DownMove, EndGoroutine, EndCheck, EndMove, PairGoroutine, PairCheck, PairMove,
     ResultGoroutine, ResultCheck, ResultMove
<1>3. All => RequestNotLost
  BY DEF ResultInv, RequestKept, RequestNotLost
<1>4. TypeOK /\ All => ResultIsDeserved
  <2> DEFINE SetupExit == \E t \in Task : <<t, "setup">> \in ExitsFailed
  <2> SUFFICES ASSUME TypeOK, All, pc = "returned"
      PROVE  /\ (\E t \in Task : <<t, "setup">> \in failed) =>
                    result = IF SetupExit THEN "nil" ELSE "setup"
             /\ result = "setup" => \E t \in Task : <<t, "setup">> \in failed
             /\ \A t \in Task : result = t => <<t, "start">> \in failed \ ExitErrors
             /\ result = "nil" => ExitAsked
    BY DEF ResultIsDeserved
  <2>1. CASE result \in EarlyResult /\ \A t \in Task : <<t, "setup">> \notin failed
    BY <2>1 DEF EarlyResult, TaskAssumption
  <2>2. CASE cause # "none" /\ result = IF IsExit(cause) THEN "nil" ELSE cause
    <3>1. (cause = "setup" <=> setupErr) /\ cause \in Cause /\ Deserved(cause)
      BY <2>2 DEF ResultInv, CauseChosen, TypeOK, MainTypeOK
    <3>2. setupErr <=> \E t \in Task : <<t, "setup">> \in failed
      BY DEF ResultInv, SetupErrDeserved, UpInv, FailureKept, PairInv, EndQuiet, RunOver
    <3>3. cause # "nil"
      BY <3>1 DEF Cause, TaskAssumption
    <3>4. IsExit("setup") <=> SetupExit
      BY DEF IsExit, ExitsFailed, ManagerAssumption, TaskAssumption
    <3>5. (\E t \in Task : <<t, "setup">> \in failed) =>
              result = IF SetupExit THEN "nil" ELSE "setup"
      BY <2>2, <3>1, <3>2, <3>4
    <3>6. ASSUME NEW t \in Task, result = t PROVE <<t, "start">> \in failed \ ExitErrors
      <4>1. cause = t /\ ~IsExit(t)
        BY <2>2, <3>6 DEF TaskAssumption
      <4> QED BY <3>1, <4>1 DEF Deserved, IsExit
    <3>7. ASSUME IsExit(cause) PROVE ExitAsked
      <4>1. CASE cause = "exit"
        BY <3>1, <4>1 DEF Deserved
      <4>2. CASE cause = "ctx" /\ "cancelCtx" \in ExitCalls
        BY <3>1, <4>2 DEF Deserved, ExitAsked
      <4>3. CASE cause = "rejected" /\ "rejected" \in ExitCalls
        BY <3>1, <4>3 DEF Deserved, ExitAsked
      <4>4. CASE \E t \in Task : <<t, "setup">> \in failed \cap ExitErrors
        BY <4>4 DEF ExitAsked, ExitsFailed
      <4>5. CASE <<cause, "start">> \in ExitErrors
        BY <3>1, <4>5 DEF Deserved, ExitAsked, ExitsFailed, ManagerAssumption
      <4> QED BY <3>7, <4>1, <4>2, <4>3, <4>4, <4>5 DEF IsExit
    <3> QED BY <2>2, <3>1, <3>2, <3>3, <3>5, <3>6, <3>7
  <2> QED BY <2>1, <2>2 DEF ResultInv, ResultFromCause
<1> QED BY <1>1, <1>2, <1>3, <1>4, TypeCorrect, PTL DEF Spec
=============================================================================
