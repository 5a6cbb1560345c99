-------------------------- MODULE FutureTaskProofs --------------------------
(***************************************************************************)
(* Proofs about the futures of tasks, for every set of tasks, whatever     *)
(* waits for what, and whichever tasks are refused.  Manager with futures  *)
(* is Manager, so that all that is proved about Run holds here; the        *)
(* futures are then related to the setup steps and the Skipped callbacks.  *)
(***************************************************************************)
EXTENDS FutureTask, ManagerProofs

USE WrapperAssumption, ManagerAssumption, FutureTaskAssumption

-----------------------------------------------------------------------------
(* The manager is left as it is.                                           *)

\* Every step of the module is one of the manager, or leaves the manager alone.
LEMMA FutureStepIsNext == [FutureNext]_allVars => [Next]_vars
BY DEF FutureNext, allVars, FutureMain, SetupFuncReturns, FutureReturns, RefuseTask,
   Callers, Next

\* Run, its goroutines and its callers do nothing with futures that they could not
\* do without (futuretask/task.go uses the exported interface of the package).
THEOREM FutureImplementsManager == FutureSpec => Spec
<1>1. FutureInit => Init
  BY DEF FutureInit
<1> QED BY <1>1, FutureStepIsNext, PTL DEF FutureSpec, Spec

-----------------------------------------------------------------------------
(* The inductive invariant.                                                *)

FutureTypeOK ==
    /\ returned \in [FutureTasks -> SetupResult \cup {"none"}]
    /\ future \in [FutureTasks \cup Refused -> SetupResult \cup {"unresolved", "skipped"}]

\* The setup step of a future task does not end before its function has returned,
\* and with the same result if no error handler is in between.
ResultKept(f) ==
    /\ returned[f] # "none" => runs[f]["setup"] \in {"running", "ended", "done"}
    /\ runs[f]["setup"] \in {"ended", "done"} => returned[f] # "none"
    /\ <<f, "setup">> \in failed => returned[f] = "error" \/ f \in Provider \cup Handled
    /\ returned[f] = "error" /\ runs[f]["setup"] \in {"ended", "done"} =>
          <<f, "setup">> \in failed \/ f \in Handled

\* The future holds what the function returned or, if Run has notified the task
\* and it did not hold anything, that it was skipped.
Told(f) ==
    /\ returned[f] # "none" => future[f] = returned[f]
    /\ future[f] \in SetupResult => returned[f] = future[f]
    /\ future[f] = "skipped" => skips[f] > 0
    /\ skips[f] > 0 => future[f] # "unresolved"

FutureInv == \A f \in FutureTasks : SetupTraced(f) /\ ResultKept(f) /\ Told(f)

-----------------------------------------------------------------------------
\* Only Run and the setup functions resolve futures.
LEMMA OthersKeepFutures ==
    ASSUME [FutureNext]_allVars
    PROVE  \/ FutureMain
           \/ \E f \in FutureTasks, res \in SetupResult : SetupFuncReturns(f, res)
           \/ UNCHANGED <<returned, future>>
BY DEF FutureNext, FutureReturns, RefuseTask, allVars, futureVars

LEMMA FutureTypeKept == FutureTypeOK /\ [FutureNext]_allVars => FutureTypeOK'
<1> SUFFICES ASSUME FutureTypeOK, [FutureNext]_allVars PROVE FutureTypeOK'
  OBVIOUS
<1> USE DEF FutureTypeOK
<1>1. CASE FutureMain
  BY <1>1 DEF FutureMain, Released
<1>2. ASSUME NEW f \in FutureTasks, NEW res \in SetupResult, SetupFuncReturns(f, res)
      PROVE  FutureTypeOK'
  BY <1>2 DEF SetupFuncReturns, Resolved
<1>3. CASE UNCHANGED <<returned, future>>
  BY <1>3
<1>4. \/ FutureMain
      \/ \E f \in FutureTasks, res \in SetupResult : SetupFuncReturns(f, res)
      \/ UNCHANGED <<returned, future>>
  BY OthersKeepFutures
<1> QED BY <1>1, <1>2, <1>3, <1>4

\* Run notifies a task by one call of Skipped at a time, and takes none back.
LEMMA SkipsGrow ==
    ASSUME TypeOK, Main, NEW t \in Task
    PROVE  skips[t] \in Nat /\ skips'[t] \in Nat /\ skips'[t] >= skips[t]
<1>1. skips \in [Task -> Nat]
  BY DEF TypeOK, MainTypeOK
<1>2. CASE ReadInitErrors \/ BeforeRunFails
  BY <1>1, <1>2 DEF ReadInitErrors, BeforeRunFails, ReturnEarly, outVars
<1>3. CASE NotifyTasksSkipped
  BY <1>1, <1>3 DEF NotifyTasksSkipped
<1>4. CASE CreateContexts \/ ApplyPending \/ (\E u \in Task : CheckTask(u))
           \/ SetupStageDone \/ StartStageReady \/ Finish
  <2>1. skips' = skips
    BY <1>4 DEF CreateContexts, ApplyPending, CheckTask, SetupStageDone, StartStageReady,
       Finish, SelectCause, StopStageDone, Drained, TeardownStageDone, outVars
  <2> QED BY <1>1, <2>1
<1> QED BY <1>2, <1>3, <1>4 DEF Main, Prologue, RunStages

\* Nobody else calls Skipped.
LEMMA SkipsKept ==
    ASSUME Enter \/ Callers \/ PropagateCtx \/ Expire \/ Terminated \/ UNCHANGED vars
    PROVE  skips' = skips
BY DEF Enter, Callers, RequestStartupCancel, AddInitError, CancelCtx, CancelShutdownCtx,
   PropagateCtx, Expire, Terminated, vars, outVars

\* A step of Run may spawn the setup step of f, but never passes it over.
LEMMA FutureMainKeeps ==
    ASSUME TypeOK, RunInv, FutureTypeOK, FutureInv, FutureMain
    PROVE  FutureInv'
<1> SUFFICES ASSUME NEW f \in FutureTasks
             PROVE  SetupTraced(f)' /\ ResultKept(f)' /\ Told(f)'
  BY DEF FutureInv
<1> f \in Task /\ "setup" \in Step
  BY DEF FutureTaskAssumption, Step
<1>1. Main /\ UNCHANGED returned
  BY DEF FutureMain
<1>2. SetupTraced(f)' /\ ResultKept(f)'
  <2>1. CASE UNCHANGED <<steps, executeSteps, runs, failed>>
    BY <1>1, <2>1 DEF FutureInv, SetupTraced, ResultKept, HasStep, StepIsDone, Touched
  <2>2. ASSUME NEW t \in Task, CheckTask(t)
        PROVE  SetupTraced(f)' /\ ResultKept(f)'
    <3>1. /\ runs[t][step] = "none" /\ step \in Step /\ failed' = failed /\ steps' = steps
          /\ \A x \in Step : ~(f = t /\ x = step) => runs'[f][x] = runs[f][x]
      BY <2>2, CheckKeeps, CheckLedger DEF RunInv
    <3>2. f = t /\ step = "setup" =>
             /\ runs'[f]["setup"] = "spawned"
             /\ returned[f] = "none" /\ <<f, "setup">> \notin failed
      <4> SUFFICES ASSUME f = t, step = "setup"
                   PROVE  /\ runs'[f]["setup"] = "spawned"
                          /\ returned[f] = "none" /\ <<f, "setup">> \notin failed
        OBVIOUS
      <4>1. CanStartStep(f, "setup") /\ PrevStepIsDone(f, "setup")
        BY DEF FutureInv, SetupTraced, CanStartStep, PrevStepIsDone, Required
      <4>2. <<f, "setup">> \notin failed
        BY <3>1 DEF RunInv, PairInv, SetupTold
      <4> QED BY <2>2, <3>1, <4>1, <4>2, CheckLedger DEF FutureInv, ResultKept, RunInv
    <3>3. StepIsDone(f, "setup")' => Touched(f, "setup")'
      BY <2>2, <3>1, <3>2, CheckLedger DEF FutureInv, SetupTraced, Touched, RunInv,
         CanStartStep
    <3>4. SetupTraced(f)'
      BY <3>1, <3>3 DEF FutureInv, SetupTraced, HasStep
    <3>5. CASE f = t /\ step = "setup"
      BY <1>1, <3>1, <3>2, <3>4, <3>5 DEF ResultKept
    <3>6. CASE ~(f = t /\ step = "setup")
      BY <1>1, <3>1, <3>4, <3>6 DEF FutureInv, ResultKept
    <3> QED BY <3>5, <3>6
  <2> QED BY <1>1, <2>1, <2>2, WrapperUnchanged DEF Main, RunStages, WrapperUntouched
<1>3. Told(f)'
  <2>1. skips[f] \in Nat /\ skips'[f] \in Nat /\ skips'[f] >= skips[f]
    BY <1>1, SkipsGrow
  <2>2. future'[f] = IF skips'[f] > skips[f] THEN Released(f) ELSE future[f]
    BY DEF FutureMain, FutureTypeOK
  <2> QED BY <1>1, <2>1, <2>2 DEF Told, FutureInv, Released, SetupResult, FutureTypeOK
<1> QED BY <1>2, <1>3

\* A goroutine of a step keeps it, if it ends as the function of its setup did, or
\* as the error handler makes of that.
LEMMA FutureGoKeeps ==
    ASSUME TypeOK, RunInv, FutureTypeOK, FutureInv,
           NEW t \in Task, NEW s \in Step,
           \/ Goroutine(t, s)
           \/ \E fails \in BOOLEAN :
                 /\ GoEnd(t, s, fails)
                 /\ \E err \in BOOLEAN : StepResult(t, s, err) /\ AfterHandler(t, err, fails),
           UNCHANGED futureVars
    PROVE  FutureInv'
<1> SUFFICES ASSUME NEW f \in FutureTasks
             PROVE  SetupTraced(f)' /\ ResultKept(f)' /\ Told(f)'
  BY DEF FutureInv
<1> f \in Task /\ "setup" \in Step
  BY DEF FutureTaskAssumption, Step
<1>1. GoStep(t, s) /\ UNCHANGED <<returned, future>>
  BY DEF GoStep, futureVars
<1>2. /\ HasStep(f, "setup")'
      /\ skips' = skips
      /\ Touched(f, "setup")' <=> Touched(f, "setup")
      /\ StepIsDone(f, "setup")' => StepIsDone(f, "setup") \/ (f = t /\ s = "setup")
  BY <1>1, GoStepKeeps, GoStepLedger DEF FutureInv, SetupTraced
<1>3. f = t /\ s = "setup" => Touched(f, "setup")
  BY DEF Touched, Goroutine, GoReady, GoBegin, GoUnimplemented, GoReport, GoEnd,
     Ready, Begin, Unimplemented, Report, End
<1>4. SetupTraced(f)' /\ Told(f)'
  BY <1>1, <1>2, <1>3 DEF FutureInv, SetupTraced, Told
<1>5. ResultKept(f)'
  <2>1. CASE ~(f = t /\ s = "setup")
    <3>1. runs'[f]["setup"] = runs[f]["setup"]
      <4>1. \E v \in RunState : runs' = [runs EXCEPT ![t][s] = v]
        BY DEF Goroutine, GoReady, GoBegin, GoUnimplemented, GoReport, GoEnd,
           Ready, Begin, Unimplemented, Report, End, RunState
      <4> QED BY <2>1, <4>1, MoveGoroutine DEF TypeOK, WrapperTypeOK
    <3>2. failed' = failed \/ failed' = failed \cup {<<t, s>>}
      BY DEF Goroutine, GoReady, GoBegin, GoUnimplemented, GoReport, GoEnd,
         Ready, Begin, Unimplemented, Report, End
    <3> QED BY <1>1, <2>1, <3>1, <3>2 DEF FutureInv, ResultKept
  <2>2. CASE f = t /\ s = "setup" /\ Goroutine(f, "setup")
    <3>1. /\ failed' = failed
          /\ \/ runs[f]["setup"] = "spawned" /\ runs'[f]["setup"] = "ready"
             \/ runs[f]["setup"] = "ready" /\ runs'[f]["setup"] = "running"
             \/ runs[f]["setup"] = "ended" /\ runs'[f]["setup"] = "done"
      BY <2>2, MoveGoroutine DEF Goroutine, GoReady, GoBegin, GoUnimplemented, GoReport,
         Ready, Begin, Unimplemented, Report, RunState, TypeOK, WrapperTypeOK, FutureInv,
         SetupTraced
    <3> QED BY <1>1, <3>1 DEF FutureInv, ResultKept
  <2>3. ASSUME f = t, s = "setup", NEW fails \in BOOLEAN, GoEnd(f, "setup", fails),
               NEW err \in BOOLEAN, StepResult(f, "setup", err), AfterHandler(f, err, fails)
        PROVE  ResultKept(f)'
    <3>1. /\ runs[f]["setup"] = "running" /\ runs'[f]["setup"] = "ended"
          /\ failed' = IF fails THEN failed \cup {<<f, "setup">>} ELSE failed
      BY <2>3, MoveGoroutine DEF GoEnd, End, RunState, TypeOK, WrapperTypeOK
    <3>2. <<f, "setup">> \notin failed
      BY <3>1 DEF RunInv, PairInv, SetupTold
    <3>3. \/ returned[f] = "error" /\ (fails \/ f \in Handled)
          \/ returned[f] = "value" /\ (fails => f \in Provider \cup Handled)
      BY <2>3 DEF StepResult, AfterHandler
    <3> QED BY <1>1, <3>1, <3>2, <3>3 DEF ResultKept
  <2> QED BY <2>1, <2>2, <2>3
<1> QED BY <1>4, <1>5

\* Every step keeps the invariant.
LEMMA FutureStep ==
    ASSUME TypeOK, RunInv, FutureTypeOK, FutureInv, [FutureNext]_allVars
    PROVE  FutureInv'
<1>1. ASSUME NEW g \in FutureTasks, NEW res \in SetupResult, SetupFuncReturns(g, res)
      PROVE  FutureInv'
  <2> SUFFICES ASSUME NEW f \in FutureTasks
               PROVE  SetupTraced(f)' /\ ResultKept(f)' /\ Told(f)'
    BY DEF FutureInv
  <2>1. /\ runs[g]["setup"] = "running" /\ returned[g] = "none"
        /\ returned'[f] = IF f = g THEN res ELSE returned[f]
        /\ future'[f] = IF f = g THEN res ELSE future[f]
        /\ UNCHANGED <<steps, executeSteps, runs, failed, skips>>
    BY <1>1 DEF SetupFuncReturns, Resolved, FutureTypeOK, vars, wrapperVars, outVars
  <2>2. res # "none" /\ res # "unresolved" /\ res # "skipped"
    BY DEF SetupResult
  <2>3. <<g, "setup">> \notin failed
    BY <2>1 DEF RunInv, PairInv, SetupTold, FutureTaskAssumption
  <2>4. SetupTraced(f)'
    BY <2>1 DEF FutureInv, SetupTraced, HasStep, StepIsDone, Touched
  <2>5. ResultKept(f)'
    BY <2>1, <2>2, <2>3 DEF FutureInv, ResultKept
  <2>6. Told(f)'
    BY <2>1, <2>2 DEF FutureInv, Told
  <2> QED BY <2>4, <2>5, <2>6
<1>2. ASSUME Enter \/ Callers \/ PropagateCtx \/ Expire \/ Terminated \/ UNCHANGED vars,
             UNCHANGED <<returned, future>>
      PROVE  FutureInv'
  <2>1. skips' = skips /\ UNCHANGED <<steps, executeSteps, runs, failed>>
    BY <1>2, SkipsKept, WrapperUnchanged DEF WrapperUntouched
  <2> QED BY <1>2, <2>1
          DEF FutureInv, SetupTraced, ResultKept, Told, HasStep, StepIsDone, Touched
<1>3. ASSUME NEW f \in Refused, RefuseTask(f) PROVE FutureInv'
  BY <1>2, <1>3 DEF RefuseTask, Callers
<1>4. CASE UNCHANGED allVars
  BY <1>2, <1>4 DEF allVars, futureVars
<1>5. CASE (Enter \/ Callers \/ PropagateCtx \/ Expire \/ Terminated) /\ UNCHANGED futureVars
  BY <1>2, <1>5 DEF futureVars
<1>6. ASSUME NEW t \in Task, NEW s \in Step, Goroutine(t, s), UNCHANGED futureVars
      PROVE  FutureInv'
  BY <1>6, FutureGoKeeps
<1>7. ASSUME NEW t \in Task, NEW s \in Step, NEW fails \in BOOLEAN, FutureReturns(t, s, fails)
      PROVE  FutureInv'
  BY <1>7, FutureGoKeeps DEF FutureReturns
<1> QED BY <1>1, <1>3, <1>4, <1>5, <1>6, <1>7, FutureMainKeeps DEF FutureNext

LEMMA FutureInvHolds == FutureSpec => [](TypeOK /\ RunInv /\ FutureTypeOK /\ FutureInv)
<1>1. FutureInit => FutureTypeOK /\ FutureInv
  <2> SUFFICES ASSUME FutureInit PROVE FutureTypeOK /\ FutureInv
    OBVIOUS
  <2>1. FutureTypeOK
    BY DEF FutureInit, FutureTypeOK
  <2>2. ASSUME NEW f \in FutureTasks PROVE SetupTraced(f) /\ ResultKept(f) /\ Told(f)
    <3>1. f \in Task /\ "setup" \in Step
      BY DEF FutureTaskAssumption, Step
    <3>2. /\ HasStep(f, "setup") /\ ~StepIsDone(f, "setup") /\ runs[f]["setup"] = "none"
          /\ failed = {} /\ skips[f] = 0 /\ returned[f] = "none" /\ future[f] = "unresolved"
      BY <3>1 DEF FutureInit, Init, WrapperInit, HasStep, StepIsDone, InLedger
    <3> QED BY <3>2 DEF SetupTraced, ResultKept, Told, SetupResult
  <2> QED BY <2>1, <2>2 DEF FutureInv
<1> QED BY <1>1, FutureTypeKept, FutureStep, FutureImplementsManager, RunInvHolds,
        PTL DEF FutureSpec

-----------------------------------------------------------------------------
(* What waiters can rely on.                                               *)

\* When Run comes to wait for a reason to stop, the future of every task it knows
\* is resolved, by its setup step or because the task is never run (run.go:107-110,
\* futuretask/task.go).  So nothing Run waits for later waits for a future.
THEOREM FuturesReleased == FutureSpec => []ReleasedBeforeShutdown
<1>1. TypeOK /\ RunInv /\ FutureTypeOK /\ FutureInv => ReleasedBeforeShutdown
  <2> SUFFICES ASSUME TypeOK, RunInv, FutureTypeOK, FutureInv,
                      PastStart, pc # "notify", NEW f \in FutureTasks
               PROVE  future[f] # "unresolved"
    BY DEF ReleasedBeforeShutdown, PastStart, Doing
  <2>1. f \in Task
    BY DEF FutureTaskAssumption
  <2>2. CASE SetupAsked(f)
    <3>1. Touched(f, "setup")
      BY <2>1, <2>2 DEF RunInv, PairInv, AskedIsSeen, Seen, FutureInv, SetupTraced, Touched
    <3>2. RunOver(f, "setup")
      BY <2>1 DEF RunInv, EndInv, SetupsOver, PairInv, EndQuiet, PastStart
    <3>3. returned[f] # "none"
      BY <3>1, <3>2 DEF Touched, RunOver, FutureInv, ResultKept
    <3> QED BY <3>3 DEF FutureInv, Told, FutureTypeOK, SetupResult
  <2>3. CASE ~SetupAsked(f)
    <3>1. NeverRuns(f)
      BY <2>1, <2>3 DEF SetupAsked, NeverRuns, TypeOK, MainTypeOK, ManagerAssumption
    <3>2. skips[f] = 1
      BY <2>1, <3>1 DEF RunInv, PairInv, SkipsExact
    <3> QED BY <3>2 DEF FutureInv, Told
  <2> QED BY <2>2, <2>3
<1> QED BY <1>1, FutureInvHolds, PTL

\* A future tells what happens to its task, also in what is yet to come: a task that
\* was skipped never runs a step; one whose future holds an error runs none after
\* setup, unless its error handler ignored that error; and one whose future has a
\* value has not failed its setup, unless the value could not be its parent or the
\* handler made an error up (futuretask/task.go:36-71, task_wrapper.go:45-85).
THEOREM FuturesTell == FutureSpec => []FutureTells
<1>1. TypeOK /\ RunInv /\ FutureTypeOK /\ FutureInv /\ SkippedNeverRan => FutureTells
  <2> SUFFICES ASSUME TypeOK, RunInv, FutureTypeOK, FutureInv, SkippedNeverRan,
                      NEW f \in FutureTasks
               PROVE  /\ future[f] = "skipped" => \A s \in Step : runs[f][s] = "none"
                      /\ future[f] = "error" /\ (f \in Handled => <<f, "setup">> \in failed) =>
                            \A s \in {"start", "stop", "teardown"} : runs[f][s] = "none"
                      /\ future[f] = "value" =>
                            <<f, "setup">> \notin failed \/ f \in Provider \cup Handled
    BY DEF FutureTells
  <2>1. f \in Task /\ "setup" \in Step
    BY DEF FutureTaskAssumption, Step
  <2>2. future[f] = "skipped" => \A s \in Step : runs[f][s] = "none"
    BY <2>1 DEF FutureInv, Told, SkippedNeverRan, Touched
  <2>3. ASSUME future[f] = "error", f \in Handled => <<f, "setup">> \in failed,
               NEW s \in {"start", "stop", "teardown"}
        PROVE  runs[f][s] = "none"
    <3>1. returned[f] = "error" /\ runs[f]["setup"] \in {"running", "ended", "done"}
      BY <2>3 DEF FutureInv, Told, ResultKept, SetupResult
    <3>2. ~StepIsDone(f, "setup")
      <4>1. <<f, "setup">> \in failed \/ runs[f]["setup"] = "running"
        BY <2>3, <3>1 DEF FutureInv, ResultKept
      <4> QED BY <2>1, <3>1, <4>1 DEF RunInv, PairInv, SetupTold
    <3> QED BY <2>1, <3>2 DEF RunInv, AfterSetup, Step
  <2>4. future[f] = "value" => <<f, "setup">> \notin failed \/ f \in Provider \cup Handled
    BY DEF FutureInv, Told, ResultKept, SetupResult
  <2> QED BY <2>2, <2>3, <2>4
<1>2. FutureSpec => []SkippedNeverRan
  BY FutureImplementsManager, SetupIsUndone, PTL
<1> QED BY <1>1, <1>2, FutureInvHolds, PTL

\* A future is written once: neither the setup function nor the Skipped callback
\* finds it resolved and writes it again, or panics (future.go:155-171,
\* futuretask/task.go:42-57).
THEOREM FuturesWrittenOnce ==
    FutureSpec =>
        [][\A f \in FutureTasks : future[f] # "unresolved" => future'[f] = future[f]]_allVars
<1>1. TypeOK /\ RunInv /\ FutureTypeOK /\ FutureInv /\ SkippedNeverRan /\ [FutureNext]_allVars
        => [\A f \in FutureTasks :
               future[f] # "unresolved" => future'[f] = future[f]]_allVars
  <2> SUFFICES ASSUME FutureTypeOK, FutureInv, SkippedNeverRan, [FutureNext]_allVars,
                      NEW f \in FutureTasks, future[f] # "unresolved"
               PROVE  future'[f] = future[f]
    OBVIOUS
  <2>1. f \in Task /\ "setup" \in Step
    BY DEF FutureTaskAssumption, Step
  <2>2. CASE FutureMain
    BY <2>2 DEF FutureMain, FutureTypeOK, Released
  <2>3. ASSUME NEW g \in FutureTasks, NEW res \in SetupResult, SetupFuncReturns(g, res)
        PROVE  future'[f] = future[f]
    <3>1. runs[g]["setup"] = "running" /\ returned[g] = "none"
      BY <2>3 DEF SetupFuncReturns
    <3>2. future[f] = "skipped" => runs[f]["setup"] = "none"
      BY <2>1 DEF FutureInv, Told, SkippedNeverRan, Touched
    <3>3. future[f] \in SetupResult => returned[f] # "none"
      BY DEF FutureInv, Told, SetupResult
    <3>4. f # g
      BY <3>1, <3>2, <3>3 DEF FutureTypeOK
    <3> QED BY <2>3, <3>4 DEF SetupFuncReturns, Resolved, FutureTypeOK
  <2>4. CASE UNCHANGED future
    BY <2>4
  <2> QED BY <2>2, <2>3, <2>4, OthersKeepFutures
<1>2. FutureSpec => []SkippedNeverRan
  BY FutureImplementsManager, SetupIsUndone, PTL
<1> QED BY <1>1, <1>2, FutureInvHolds, PTL DEF FutureSpec
=============================================================================
