------------------------------ MODULE Manager ------------------------------
(***************************************************************************)
(* Manager.Run of svcinit (run.go): the goroutine that sets up and starts  *)
(* the tasks of every stage in order, waits for a reason to stop, stops    *)
(* and tears the stages down in reverse order and returns; the goroutines  *)
(* it spawns for the steps (TaskWrapper.tla); the callers that request a   *)
(* shutdown or cancel a context meanwhile; and the timers.                 *)
(*                                                                         *)
(* The tasks of a stage are visited in any order, which includes the order *)
(* of AddTask the code uses.  User code (the steps, the callbacks) is      *)
(* external: it may take any time and return any result.                   *)
(***************************************************************************)
EXTENDS TaskWrapper

CONSTANTS
    NStages,                \* the number of stages
    StageOf,                \* StageOf[t]: the stage task t was added to
    CancelContext,          \* the tasks with WithCancelContext(true)
    ShutdownTimeout,        \* is WithShutdownTimeout positive?
    TeardownTimeout,        \* is WithTeardownTimeout positive?
    EnforceShutdownTimeout, \* the value of WithEnforceShutdownTimeout
    Calls,                  \* what other goroutines may do while Run runs
    ExitErrors,             \* the <<task, step>> whose error, if any, wraps ErrExit
    ExitCalls               \* the calls whose cause wraps it

ASSUME ManagerAssumption ==
    /\ NStages \in Nat \ {0}
    /\ StageOf \in [Task -> 1..NStages]
    /\ CancelContext \subseteq Task
    /\ ShutdownTimeout \in BOOLEAN
    /\ TeardownTimeout \in BOOLEAN
    /\ EnforceShutdownTimeout \in BOOLEAN
    /\ Calls \subseteq {"exit", "rejected", "initError", "cancelCtx", "cancelShutdownCtx"}
    /\ ExitErrors \subseteq Task \X {"setup", "start"}
    /\ ExitCalls \subseteq {"rejected", "cancelCtx"}

\* The error of a task is told apart from every other result and state.
ASSUME TaskAssumption ==
    Task \cap {"exit", "rejected", "setup", "ctx", "none", "nil", "fatal", "unset", "live",
               "initErrors", "noStartTask", "beforeRun"} = {}

VARIABLES
    pc,          \* where the goroutine of Run is
    stage,       \* the stage runStage is working on; 0 before the first
    step,        \* the step runStage is working on
    todo,        \* the tasks of the stage runStageStep has not visited yet
    stagesRun,   \* how many stages start has run, a failed one included
    startup,     \* the cause startupCtx was cancelled with; "unset", "live"
    pending,     \* m.pendingStartupCancel
    taskDone,    \* is taskDoneCtx cancelled?
    ctxDone,     \* has the caller cancelled the context given to Run?
    baseDone,    \* ... and the one given to WithRunShutdownContext?
    shutdownCtx, \* the context of the stop, then of the teardown steps
    initErrors,  \* m.initErrors is not empty
    setupErr,    \* a setup step of the current stage returned an error
    stopErrs,    \* the <<task, step>> whose error the shutdown collected
    ctxErrs,     \* the context errors the shutdown collected
    orderErrs,   \* the <<task, step>> checkStartStep returned an error for
    cause,       \* why Run stops
    result,      \* the cause Run returns
    skips        \* skips[t]: how many times TaskInfo.Skipped was called

mainVars == <<pc, stage, step, todo, stagesRun>>
ctxVars == <<startup, pending, taskDone, ctxDone, baseDone, shutdownCtx>>
errVars == <<initErrors, setupErr, stopErrs, ctxErrs, orderErrs>>
outVars == <<cause, result, skips>>
vars == <<wrapperVars, mainVars, ctxVars, errVars, outVars>>

\* "exit" is ErrExit, "rejected" an AddTask or AddInitError that came too late,
\* "setup" an initialization error, "ctx" the cause of the caller's context, a
\* task the error of its start step.
Cause == {"exit", "rejected", "setup", "ctx"} \cup Task

EarlyResult == {"initErrors", "noStartTask", "beforeRun"}

CtxState == {"unset", "live", "timeout", "cancelled"}

MainTypeOK ==
    /\ pc \in {"idle", "entered", "beforeRun", "apply", "runStage", "notify",
               "select", "drain", "returned"}
    /\ stage \in 0..NStages
    /\ step \in Step
    /\ todo \subseteq Task
    /\ stagesRun \in 0..NStages
    /\ startup \in Cause \cup {"unset", "live"}
    /\ pending \in {"none", "exit", "rejected"}
    /\ taskDone \in BOOLEAN /\ ctxDone \in BOOLEAN /\ baseDone \in BOOLEAN
    /\ shutdownCtx \in CtxState
    /\ initErrors \in BOOLEAN /\ setupErr \in BOOLEAN
    /\ stopErrs \subseteq Task \X Step
    /\ ctxErrs \subseteq {"timeout", "cancelled"}
    /\ orderErrs \subseteq Task \X Step
    /\ cause \in Cause \cup {"none"}
    /\ result \in Cause \cup EarlyResult \cup {"none", "nil", "fatal"}
    /\ skips \in [Task -> Nat]

TypeOK == WrapperTypeOK /\ MainTypeOK

Init ==
    /\ WrapperInit
    /\ pc = "idle" /\ stage = 0 /\ step = "setup" /\ todo = {} /\ stagesRun = 0
    /\ startup = "unset" /\ pending = "none"
    /\ taskDone = FALSE /\ ctxDone = FALSE /\ baseDone = FALSE
    /\ shutdownCtx = "unset"
    /\ initErrors = FALSE /\ setupErr = FALSE
    /\ stopErrs = {} /\ ctxErrs = {} /\ orderErrs = {}
    /\ cause = "none" /\ result = "none"
    /\ skips = [t \in Task |-> 0]

\* Mutant: a task is visited at its own stage and at every later one.
TasksOfEarlierStagesToo(k) == {t \in Task : StageOf[t] <= k}

TasksOf(k) == {t \in Task : StageOf[t] = k}

\* A context keeps the cause it was cancelled with first.
FirstCause(c) == IF startup = "live" THEN c ELSE startup

-----------------------------------------------------------------------------
(* Calls of other goroutines.                                              *)

\* Shutdown, or an AddTask or AddInitError that finds the manager running: the
\* startup context is cancelled or, before there is one, the first request kept.
RequestStartupCancel(c) ==
    /\ c \in Calls
    /\ c = "rejected" => pc # "idle"
    /\ IF startup = "unset"
       THEN /\ pending' = IF pending = "none" THEN c ELSE pending
            /\ UNCHANGED startup
       ELSE /\ startup' = FirstCause(c)
            /\ UNCHANGED pending
    /\ UNCHANGED <<wrapperVars, mainVars, taskDone, ctxDone, baseDone,
                   shutdownCtx, errVars, outVars>>

\* AddInitError, or an AddTask that fails, before Run is called.
AddInitError ==
    /\ "initError" \in Calls
    /\ pc = "idle"
    /\ initErrors' = TRUE
    /\ UNCHANGED <<wrapperVars, mainVars, ctxVars, setupErr, stopErrs, ctxErrs,
                   orderErrs, outVars>>

\* The caller cancels the context it gave to Run ...
CancelCtx ==
    /\ "cancelCtx" \in Calls
    /\ ~ctxDone
    /\ ctxDone' = TRUE
    /\ UNCHANGED <<wrapperVars, mainVars, startup, pending, taskDone, baseDone,
                   shutdownCtx, errVars, outVars>>

\* ... and the startup context is cancelled with it, not in the same instant.
PropagateCtx ==
    /\ ctxDone
    /\ startup = "live"
    /\ startup' = "ctx"
    /\ UNCHANGED <<wrapperVars, mainVars, pending, taskDone, ctxDone, baseDone,
                   shutdownCtx, errVars, outVars>>

\* The caller cancels the context it gave to WithRunShutdownContext.
CancelShutdownCtx ==
    /\ "cancelShutdownCtx" \in Calls
    /\ ~baseDone
    /\ baseDone' = TRUE
    /\ shutdownCtx' = IF shutdownCtx = "live" THEN "cancelled" ELSE shutdownCtx
    /\ UNCHANGED <<wrapperVars, mainVars, startup, pending, taskDone, ctxDone,
                   errVars, outVars>>

\* The timeout of the context the shutdown is using expires; that context is
\* given back when Run returns.
Expire ==
    /\ shutdownCtx = "live"
    /\ pc # "returned"
    /\ IF step = "teardown" /\ TeardownTimeout THEN TRUE ELSE ShutdownTimeout
    /\ shutdownCtx' = "timeout"
    /\ UNCHANGED <<wrapperVars, mainVars, startup, pending, taskDone, ctxDone,
                   baseDone, errVars, outVars>>

-----------------------------------------------------------------------------
(* The prologue of Run.                                                    *)

\* isRunning.CompareAndSwap: a second call of Run returns ErrAlreadyRunning.
Enter ==
    /\ pc = "idle"
    /\ pc' = "entered"
    /\ UNCHANGED <<wrapperVars, stage, step, todo, stagesRun, ctxVars, errVars, outVars>>

\* Run returns before any stage, and its deferred function notifies every task.
ReturnEarly(r) ==
    /\ pc' = "returned"
    /\ result' = r
    /\ skips' = [t \in Task |-> skips[t] + 1]
    /\ UNCHANGED <<wrapperVars, stage, step, todo, stagesRun, ctxVars, errVars, cause>>

HasStartTask == \E t \in Task : HasStep(t, "start")

\* m.initErrors and the number of start steps are read under m.mu.
ReadInitErrors ==
    /\ pc = "entered"
    /\ \/ initErrors /\ ReturnEarly("initErrors")
       \/ ~initErrors /\ ~HasStartTask /\ ReturnEarly("noStartTask")
       \/ /\ ~initErrors /\ HasStartTask
          /\ pc' = "beforeRun"
          /\ UNCHANGED <<wrapperVars, stage, step, todo, stagesRun, ctxVars, errVars, outVars>>

\* A beforeRun callback returns an error.
BeforeRunFails ==
    /\ pc = "beforeRun"
    /\ ReturnEarly("beforeRun")

\* startupCtx and taskDoneCtx are created and published under m.mu; a request
\* from here on finds startupCancel.
CreateContexts ==
    /\ pc = "beforeRun"
    /\ pc' = "apply"
    /\ startup' = IF ctxDone THEN "ctx" ELSE "live"
    /\ UNCHANGED <<wrapperVars, stage, step, todo, stagesRun, pending, taskDone, ctxDone,
                   baseDone, shutdownCtx, errVars, outVars>>

\* runStage is called: its tasks have to be visited.
EnterStage(k, s) ==
    /\ pc' = "runStage"
    /\ stage' = k
    /\ step' = s
    /\ todo' = TasksOf(k)

\* Mutant: the pending request is read but not applied.
PendingDropped ==
    /\ pc = "apply"
    /\ EnterStage(1, "setup")
    /\ UNCHANGED <<wrapperVars, stagesRun, ctxVars, errVars, outVars>>

\* The request that came before the contexts existed is applied, the mutex
\* being released; start begins.
ApplyPending ==
    /\ pc = "apply"
    /\ startup' = IF pending = "none" THEN startup ELSE FirstCause(pending)
    /\ EnterStage(1, "setup")
    /\ UNCHANGED <<wrapperVars, stagesRun, pending, taskDone, ctxDone, baseDone,
                   shutdownCtx, errVars, outVars>>

-----------------------------------------------------------------------------
(* runStage: the tasks of one stage take one step.                         *)

\* Mutant: a setup error cancels the startup but is not kept for start.
SetupErrorForgotten(s, fails) == FALSE

\* setupErr.add: the error makes start return after this stage's setup steps.
SetupFailed(s, fails) == s = "setup" /\ fails

\* Mutant: the teardown loop of shutdown ignores the errors of its steps.
OnlyStopCollects(s) == s = "stop"

\* The steps whose onError adds to the errors of shutdown.
Collects(s) == s \in {"stop", "teardown"}

\* The onError function runStage is given: what the result of a step does.
\* After Run has returned nobody reads the errors of the shutdown.
OnError(t, s, fails) ==
    /\ startup' =
         CASE s = "setup" /\ fails -> FirstCause("setup")
           [] s = "start" /\ fails -> FirstCause(t)
           [] s = "start" /\ ~fails -> FirstCause("exit")
           [] OTHER -> startup
    /\ setupErr' = (setupErr \/ SetupFailed(s, fails))
    /\ stopErrs' = IF Collects(s) /\ fails /\ pc # "returned"
                   THEN stopErrs \cup {<<t, s>>}
                   ELSE stopErrs
    /\ UNCHANGED <<pending, taskDone, ctxDone, baseDone, shutdownCtx,
                   initErrors, ctxErrs>>

\* runStageStep visits a task: the step is refused, passed over or spawned.
CheckTask(t) ==
    /\ pc = "runStage"
    /\ t \in todo
    /\ todo' = todo \ {t}
    /\ CheckStartStep(t, step)
    /\ IF InvalidOrder(t, step)
       THEN /\ OnError(t, step, TRUE)
            /\ orderErrs' = orderErrs \cup {<<t, step>>}
       ELSE UNCHANGED <<ctxVars, errVars>>
    /\ UNCHANGED <<steps, failed, pc, stage, step, stagesRun, outVars>>

RunOver(t, s) == runs[t][s] \in {"none", "done"}

Visited == pc = "runStage" /\ todo = {}

\* The wait group of the stage is released.
StageOver == \A t \in TasksOf(stage) : RunOver(t, step)

\* Mutant: the timeout is never enforced.
NeverGivesUp == FALSE

\* waitGroupWaitWithContext, when the timeout is enforced.
GaveUp == EnforceShutdownTimeout /\ shutdownCtx # "live"

\* start returns the number of stages it has run.
StartReturns ==
    /\ pc' = "notify"
    /\ stagesRun' = stage
    /\ UNCHANGED <<stage, step, todo>>

\* After the setup steps: the start steps, or no more stages after an error.
SetupStageDone ==
    /\ Visited /\ step = "setup" /\ StageOver
    /\ IF setupErr
       THEN StartReturns
       ELSE EnterStage(stage, "start") /\ UNCHANGED stagesRun
    /\ UNCHANGED <<wrapperVars, ctxVars, errVars, outVars>>

\* Mutant: the start goroutines of the stage are not waited for.
GoroutinesNotAwaited == TRUE

\* startWg.Wait: every start goroutine of the stage is ready to run.
GoroutinesReady == \A t \in TasksOf(stage) : runs[t]["start"] # "spawned"

\* Mutant: the loop over the stages runs once too often.
OneStageTooMany == stage <= NStages

\* The loop over the stages has not come to its end.
MoreStages == stage < NStages

\* The start steps of the stage are under way: the next stage.
StartStageReady ==
    /\ Visited /\ step = "start"
    /\ GoroutinesReady
    /\ IF MoreStages
       THEN EnterStage(stage + 1, "setup") /\ UNCHANGED stagesRun
       ELSE StartReturns
    /\ UNCHANGED <<wrapperVars, ctxVars, errVars, outVars>>

\* Mutant: the stage that failed is counted among those that never run.
FailedStageToo(t) == StageOf[t] >= stagesRun

\* Mutant: the last stage is never notified.
LastStageForgotten(t) == StageOf[t] > stagesRun /\ StageOf[t] < NStages

\* m.stages[stagesRun:]
NeverRuns(t) == StageOf[t] > stagesRun

\* The tasks of the stages after a failed one are told that they will never run.
NotifyTasksSkipped ==
    /\ pc = "notify"
    /\ pc' = "select"
    /\ skips' = [t \in Task |-> IF NeverRuns(t) THEN skips[t] + 1 ELSE skips[t]]
    /\ UNCHANGED <<wrapperVars, stage, step, todo, stagesRun, ctxVars, errVars, cause, result>>

-----------------------------------------------------------------------------
(* The end of Run.                                                         *)

\* The causes the select statement may pick from.
Reasons == (IF ctxDone THEN {"ctx"} ELSE {})
               \cup ({startup} \ {"unset", "live"})

NewCtx == IF baseDone THEN "cancelled" ELSE "live"

\* Mutant: a setup error does not take precedence.
CauseAsPicked(c) == c

CauseFor(c) == IF setupErr THEN "setup" ELSE c

\* Mutant: the contexts of the start steps with CancelContext stay alive.
TaskDoneForgotten == UNCHANGED taskDone

CancelTasks == taskDone' = TRUE

\* The first reason to stop is picked, but a setup error takes precedence; the
\* start steps with CancelContext are cancelled and the shutdown clock starts.
SelectCause(c) ==
    /\ pc = "select"
    /\ c \in Reasons
    /\ cause' = CauseFor(c)
    /\ CancelTasks
    /\ shutdownCtx' = NewCtx
    /\ EnterStage(NStages, "stop")
    /\ UNCHANGED <<wrapperVars, stagesRun, startup, pending, ctxDone, baseDone, errVars,
                   result, skips>>

\* Mutant: the stop steps of a stage are not waited for.
StopNotAwaited == TRUE

StopAwaited == StageOver \/ GaveUp

\* Mutant: a timeout ends the loop over the stages, not only the wait.
NoMoreAfterTimeout == stage > 1 /\ ~GaveUp

EarlierStages == stage > 1

\* The stop steps of a stage are over, or were given up.
StopStageDone ==
    /\ Visited /\ step = "stop"
    /\ StopAwaited
    /\ IF EarlierStages
       THEN EnterStage(stage - 1, "stop")
       ELSE pc' = "drain" /\ UNCHANGED <<stage, step, todo>>
    /\ UNCHANGED <<wrapperVars, stagesRun, ctxVars, errVars, outVars>>

\* The error of the context, if it has one, joins the errors of the shutdown.
CtxErr == {shutdownCtx} \cap {"timeout", "cancelled"}

\* Mutant: the start goroutines are not waited for.
NothingToDrain == TRUE

\* tasksRunning.Wait, up to the timeout when it is enforced.
TasksDrained == (\A t \in Task : RunOver(t, "start")) \/ GaveUp

\* Mutant: the error of the shutdown context is lost when teardown has its own.
ShutdownErrLost == ctxErrs

\* The shutdown context's error is collected if teardown does not inherit it.
ErrsBeforeTeardown == IF TeardownTimeout THEN ctxErrs \cup CtxErr ELSE ctxErrs

\* The start goroutines have ended, or were given up; the teardown steps get a
\* context of their own only if they have a timeout of their own.
Drained ==
    /\ pc = "drain"
    /\ TasksDrained
    /\ ctxErrs' = ErrsBeforeTeardown
    /\ shutdownCtx' = IF TeardownTimeout THEN NewCtx ELSE shutdownCtx
    /\ EnterStage(NStages, "teardown")
    /\ UNCHANGED <<wrapperVars, stagesRun, startup, pending, taskDone, ctxDone, baseDone,
                   initErrors, setupErr, stopErrs, orderErrs, outVars>>

\* Mutant: an error that wraps ErrExit is not recognized.
IsPlainExit(c) == c = "exit"

\* errors.Is(cause, ErrExit): a cause wraps the error it was made from, that of the
\* setup steps all of theirs.
IsExit(c) ==
    \/ c = "exit"
    \/ c = "ctx" /\ "cancelCtx" \in ExitCalls
    \/ c = "rejected" /\ "rejected" \in ExitCalls
    \/ c = "setup" /\ \E t \in Task : <<t, "setup">> \in failed \cap ExitErrors
    \/ <<c, "start">> \in ExitErrors

\* What Run makes of the cause: ErrExit is no error, an invalid order is.
FinalResult ==
    IF \E t \in Task : {<<t, "stop">>, <<t, "teardown">>} \cap orderErrs # {}
    THEN "fatal"
    ELSE IF IsExit(cause) THEN "nil" ELSE cause

\* Mutant: the error of the last context is logged but not collected.
TeardownErrLost == ctxErrs

ErrsAfterTeardown == ctxErrs \cup CtxErr

\* Teardown steps are always waited for; after those of the first stage the
\* errors are put together and Run returns.
TeardownStageDone ==
    /\ Visited /\ step = "teardown" /\ StageOver
    /\ IF stage > 1
       THEN EnterStage(stage - 1, "teardown") /\ UNCHANGED <<ctxErrs, result>>
       ELSE /\ pc' = "returned"
            /\ ctxErrs' = ErrsAfterTeardown
            /\ result' = FinalResult
            /\ UNCHANGED <<stage, step, todo>>
    /\ UNCHANGED <<wrapperVars, stagesRun, ctxVars, initErrors, setupErr,
                   stopErrs, orderErrs, cause, skips>>

-----------------------------------------------------------------------------
(* The goroutines of the steps, and the whole system.                      *)

GoReady(t, s) == Ready(t, s) /\ UNCHANGED <<mainVars, ctxVars, errVars, outVars>>

GoBegin(t, s) == Begin(t, s) /\ UNCHANGED <<mainVars, ctxVars, errVars, outVars>>

GoUnimplemented(t, s) ==
    Unimplemented(t, s) /\ UNCHANGED <<mainVars, ctxVars, errVars, outVars>>

GoEnd(t, s, fails) ==
    End(t, s, fails) /\ UNCHANGED <<mainVars, ctxVars, errVars, outVars>>

GoReport(t, s) ==
    /\ Report(t, s)
    /\ OnError(t, s, <<t, s>> \in failed)
    /\ UNCHANGED <<mainVars, orderErrs, outVars>>

Prologue == ReadInitErrors \/ BeforeRunFails \/ CreateContexts \/ ApplyPending

RunStages ==
    \/ \E t \in Task : CheckTask(t)
    \/ SetupStageDone
    \/ StartStageReady
    \/ NotifyTasksSkipped

Finish ==
    \/ \E c \in Cause : SelectCause(c)
    \/ StopStageDone
    \/ Drained
    \/ TeardownStageDone

Main == Prologue \/ RunStages \/ Finish

\* What the scheduler and the callbacks move on, but not the user code.
Goroutine(t, s) ==
    GoReady(t, s) \/ GoBegin(t, s) \/ GoUnimplemented(t, s) \/ GoReport(t, s)

Callers ==
    \/ \E c \in {"exit", "rejected"} : RequestStartupCancel(c)
    \/ AddInitError
    \/ CancelCtx
    \/ CancelShutdownCtx

\* Run has returned and no goroutine is left.
Terminated ==
    /\ pc = "returned"
    /\ \A t \in Task, s \in Step : RunOver(t, s)
    /\ UNCHANGED vars

Next ==
    \/ Enter
    \/ Main
    \/ \E t \in Task, s \in Step : Goroutine(t, s)
    \/ \E t \in Task, s \in Step, fails \in BOOLEAN : GoEnd(t, s, fails)
    \/ Callers
    \/ PropagateCtx
    \/ Expire
    \/ Terminated

Spec == Init /\ [][Next]_vars

Returns(t, s) == \E fails \in BOOLEAN : GoEnd(t, s, fails)

\* The Go scheduler runs every goroutine that can run, timers and cancellations
\* reach their context, and the callbacks return.
SchedulerFairness ==
    /\ WF_vars(Main) /\ WF_vars(PropagateCtx) /\ WF_vars(Expire)
    /\ \A t \in Task, s \in Step : WF_vars(Goroutine(t, s))

\* Of the user code only the setup steps must return.
SetupFairSpec ==
    Spec /\ SchedulerFairness /\ \A t \in Task : WF_vars(Returns(t, "setup"))

\* Setup and teardown steps return: Run awaits both without a timeout.
FairSpec == SetupFairSpec /\ \A t \in Task : WF_vars(Returns(t, "teardown"))

\* The context given to the start step of a task is cancelled.
StartCtxDone(t) == ctxDone \/ (taskDone /\ t \in CancelContext)

-----------------------------------------------------------------------------
(* Safety.                                                                 *)

Touched(t, s) == runs[t][s] # "none"

\* The context of the shutdown was done before the shutdown was.
Overdue == shutdownCtx \in {"timeout", "cancelled"} \/ ctxErrs # {}

\* run.go:402-411: checkStartStep never returns an error to runStageStep; Run
\* asks for the steps of a task in an order its wrapper never refuses, whatever
\* goroutines of the task a timeout has left behind.
NoOrderError == orderErrs = {}

\* The steps Run can have asked the wrapper of t for, from where it is now: going
\* up, those of the stages below and of the visited tasks of this one; going
\* down, those of the stages above.
MayHaveAsked(t, s) ==
    \/ pc = "returned"
    \/ pc \in {"notify", "select"} /\ s \in {"setup", "start"}
    \/ pc = "drain" /\ s # "teardown"
    \/ /\ pc = "runStage"
       /\ LET below == StageOf[t] < stage
              above == StageOf[t] > stage
              visited == StageOf[t] = stage /\ t \notin todo
          IN  \/ step = "setup" /\ s = "setup" /\ (below \/ visited)
              \/ step = "setup" /\ s = "start" /\ below
              \/ step = "start" /\ s = "setup" /\ ~above
              \/ step = "start" /\ s = "start" /\ (below \/ visited)
              \/ step = "stop" /\ s \in {"setup", "start"}
              \/ step = "stop" /\ s = "stop" /\ (above \/ visited)
              \/ step = "teardown" /\ s # "teardown"
              \/ step = "teardown" /\ s = "teardown" /\ (above \/ visited)

\* run.go:184-216 and 235-291: no goroutine exists, and nothing is in the ledger,
\* for a step Run has not come to, whatever the goroutines it left running do.
NothingAhead ==
    \A t \in Task, s \in Step :
        ~MayHaveAsked(t, s) => ~StepIsDone(t, s) /\ runs[t][s] = "none"

\* The inductive invariant behind NoOrderError.
OrderInv ==
    /\ NoOrderError
    /\ NothingAhead
    /\ pc = "runStage" => todo \subseteq TasksOf(stage)

\* README.md:33: a stage is set up only when every setup step of the stages
\* before it has succeeded and every start step there has its goroutine.
SetupBarrier ==
    \A t, u \in Task :
        StageOf[t] < StageOf[u] /\ Touched(u, "setup")
            => /\ RunOver(t, "setup") /\ <<t, "setup">> \notin failed
               /\ runs[t]["start"] # "spawned"

\* README.md:36-37: one setup error in a stage, and no task of that stage, nor
\* of a later one, is started at all.
StartBarrier ==
    \A t, u \in Task :
        StageOf[t] <= StageOf[u] /\ Touched(u, "start")
            => RunOver(t, "setup") /\ <<t, "setup">> \notin failed

\* run.go:235-244: no stage is stopped while a later one is still stopping, or
\* is yet to be stopped, unless the context of the shutdown is done.
StopOrder ==
    \A t, u \in Task :
        StageOf[t] < StageOf[u] /\ Touched(t, "stop")
            => RunOver(u, "stop") \/ Overdue

\* run.go:246-291: a teardown step never runs beside a start or stop step of any
\* task, nor beside a teardown step of a later stage; only a shutdown context
\* that is done lets it run beside a start or stop step.
TeardownLast ==
    \A t, u \in Task :
        Touched(t, "teardown")
            => /\ (RunOver(u, "start") /\ RunOver(u, "stop")) \/ Overdue
               /\ StageOf[t] < StageOf[u] => RunOver(u, "teardown")

\* README.md:36-39: when Run returns, teardown has run for exactly the tasks that
\* implement it, of the stages that were reached, whose setup did not fail, even
\* if their start or stop step failed or never returned.
TeardownPaired ==
    pc = "returned" =>
        \A t \in Task :
            /\ RunOver(t, "teardown")
            /\ Touched(t, "teardown") <=>
                   /\ HasStep(t, "teardown")
                   /\ StageOf[t] <= stagesRun
                   /\ <<t, "setup">> \notin failed

\* The errors of the steps that wrap ErrExit.
ExitsFailed == failed \cap ExitErrors

\* A start step returned without an error, or somebody asked for a shutdown without
\* one, or with one that wraps ErrExit.
ExitAsked ==
    \/ "exit" \in Calls
    \/ \E t \in Task : runs[t]["start"] = "done" /\ <<t, "start">> \notin failed
    \/ ExitsFailed # {}
    \/ ctxDone /\ "cancelCtx" \in ExitCalls
    \/ "rejected" \in Calls \cap ExitCalls

\* run.go:128-130 and 149-151: once a setup step has failed Run returns a setup
\* error, whatever stopped it first, but none if one of these errors wraps ErrExit;
\* it returns a setup error or that of a task only if such a step failed, with an
\* error that does not; and no error only if there is something that asks for that.
ResultIsDeserved ==
    pc = "returned" =>
        /\ (\E t \in Task : <<t, "setup">> \in failed) =>
              result = IF \E t \in Task : <<t, "setup">> \in ExitsFailed THEN "nil" ELSE "setup"
        /\ result = "setup" => \E t \in Task : <<t, "setup">> \in failed
        /\ \A t \in Task : result = t => <<t, "start">> \in failed \ ExitErrors
        /\ result = "nil" => ExitAsked

\* run.go:250, 259-270 and 293-306: a goroutine still alive when Run returns has
\* been given up for a context error that Run reports.
AbandonedIsReported ==
    pc = "returned" =>
        \/ \A t \in Task, s \in Step : RunOver(t, s)
        \/ ctxErrs # {}

\* run.go:241 and 288: Run reports the error of every stop and teardown step,
\* unless it reports that it did not wait for them all.
StopErrorsKept ==
    pc = "returned" =>
        \/ \A t \in Task, s \in {"stop", "teardown"} :
               <<t, s>> \in failed => <<t, s>> \in stopErrs
        \/ ctxErrs # {}

\* task.go:49-51: Skipped is called at most once for a task, never for one that
\* runs a step before or after, and always for one whose stage never came.
SkippedNeverRan ==
    \A t \in Task :
        /\ skips[t] <= 1
        /\ skips[t] > 0 => \A s \in Step : ~Touched(t, s)
        /\ pc = "returned" /\ StageOf[t] > stagesRun => skips[t] = 1

\* run.go:94-98: a request for a shutdown made before Run has created its
\* contexts cancels the startup once the stages are running.
RequestNotLost ==
    pending # "none" /\ pc \in {"runStage", "notify", "select"}
        => startup # "live"

-----------------------------------------------------------------------------
(* Liveness.                                                               *)

\* manager.go:189-190 and run.go:246-252: with an enforced timeout, once there
\* is a reason to stop Run returns, though start and stop steps may hang.
Terminates == startup \notin {"unset", "live"} ~> pc = "returned"

\* README.md:38-39: a task whose start step was recorded when Run decides to
\* stop gets its stop step, if it has one, though others may hang.
StartedIsStopped ==
    \A t \in Task :
        pc = "select" /\ startup # "live" /\ StepIsDone(t, "start") /\ HasStep(t, "stop")
            ~> Touched(t, "stop")

-----------------------------------------------------------------------------
(* What the documentation says and the code does not do.                   *)

\* README.md:38-39: the stopping steps of what was effectively started are called.
StoppedIfStarted ==
    pc = "returned" =>
        \A t \in Task :
            StepIsDone(t, "start") /\ HasStep(t, "stop") => Touched(t, "stop")

\* run.go:94-96 and 315-317: a rejected AddTask, or a late AddInitError, that
\* came first is the cause of the shutdown instead of being dropped.
RejectionReported ==
    pc = "returned" /\ pending = "rejected" => result # "nil"
=============================================================================
