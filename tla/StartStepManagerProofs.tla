----------------------- MODULE StartStepManagerProofs -----------------------
(***************************************************************************)
(* What a stop step learns from its StartStepManager, for every set of     *)
(* tasks, number of stages and choice of options.  The argument relates    *)
(* the contexts the start goroutine publishes to the ledger: a stop step   *)
(* is spawned only when the start step is in the ledger, which it comes to *)
(* after its contexts were published, or without ever being spawned.  That *)
(* the start step is spawned once rests on the order of Run's requests     *)
(* (StepsInOrder in ManagerProofs).                                        *)
(***************************************************************************)
EXTENDS StartStepManager, ManagerProofs

\* Where the start goroutine is and what it has published go together.
Published(t) ==
    /\ runs[t]["start"] \in {"none", "spawned"} => finishCtx[t] = "nil"
    /\ runs[t]["start"] \in {"ready", "running"} => finishCtx[t] = "live"
    /\ runs[t]["start"] = "ended" => finishCtx[t] \in {"live", FinishCause(t)}
    /\ runs[t]["start"] = "done" => finishCtx[t] \in {"live", FinishCause(t)}

\* A start step in the ledger has begun, or never will.
Begun(t) == StepIsDone(t, "start") => runs[t]["start"] \in {"none", "running", "ended", "done"}

\* What the stop goroutine has captured.
Capture(t) ==
    /\ runs[t]["stop"] # "none" => StepIsDone(t, "start")
    /\ runs[t]["stop"] \notin {"none", "spawned"} /\ "finished" \notin captured[t]
           => runs[t]["start"] = "none"
    /\ "finished" \in captured[t] => finishCtx[t] # "nil"

\* What the stop step was told.
Told(t) ==
    told[t] \in {"nil", "error"} =>
        /\ runs[t]["stop"] \notin {"none", "spawned"}
        /\ runs[t]["start"] \in {"none", "ended", "done"}
        /\ told[t] = "error" <=> <<t, "start">> \in failed

\* A start step that failed has ended.
FailedEnded(t) ==
    <<t, "start">> \in failed => runs[t]["start"] \in {"ended", "done"}

SSMInv(t) ==
    /\ Published(t)
    /\ Begun(t)
    /\ Capture(t)
    /\ Told(t)
    /\ FailedEnded(t)

SSMSafe == \A t \in StartStepManaged : SSMInv(t)

\* Every step of the module is one of the manager, or leaves the manager alone.
LEMMA ImplementsStep == [SSMNext]_ssmVars => [Next]_vars
BY DEF SSMNext, ssmVars, Next, Goroutine, ManagerGoroutine, ManagerReady, StartFinishes,
   ManagerReport, ManagerEnd, StopCode, ContextCancel, StopWaits

\* The manager with start step managers is the manager.
LEMMA ImplementsManager == SSMSpec => Spec
<1>1. SSMInit => Init
  BY DEF SSMInit
<1> QED BY <1>1, ImplementsStep, PTL DEF SSMSpec, Spec

ManagerTypeOK ==
    /\ startCtx \in [Task -> {"nil", "live", "cancelled"}]
    /\ finishCtx \in [Task -> {"nil", "live", "ssmNilError", "error"}]
    /\ captured \in [Task -> SUBSET {"cancel", "finished"}]
    /\ told \in [Task -> {"none", "ctx", "nil", "error"}]

LEMMA ManagerTypeKept == ManagerTypeOK /\ [SSMNext]_ssmVars => ManagerTypeOK'
<1> SUFFICES ASSUME ManagerTypeOK, [SSMNext]_ssmVars PROVE ManagerTypeOK'
  OBVIOUS
<1> USE DEF ManagerTypeOK
<1>1. CASE UNCHANGED managerVars
  BY <1>1 DEF managerVars
<1>2. ASSUME NEW t \in Task, NEW s \in Step, ManagerReady(t, s) PROVE ManagerTypeOK'
  <2>1. Fields(t) \in SUBSET {"cancel", "finished"}
    BY DEF Fields
  <2> QED BY <1>2, <2>1 DEF ManagerReady
<1>3. ASSUME NEW t \in Task, StartFinishes(t) PROVE ManagerTypeOK'
  BY <1>3 DEF StartFinishes, FinishCause
<1>4. ASSUME NEW t \in Task, NEW s \in Step, ManagerReport(t, s) PROVE ManagerTypeOK'
  BY <1>4 DEF ManagerReport
<1>5. ASSUME NEW t \in Task, StopCode(t) PROVE ManagerTypeOK'
  BY <1>5 DEF StopCode, ContextCancel, StopWaits, FinishedErr
<1> QED BY <1>1, <1>2, <1>3, <1>4, <1>5
        DEF SSMNext, ssmVars, ManagerGoroutine, ManagerEnd, managerVars

\* The state of the manager and that of the start step managers keep their type.
THEOREM SSMTypeCorrect == SSMSpec => []SSMTypeOK
<1>1. SSMInit => ManagerTypeOK
  BY DEF SSMInit, ManagerTypeOK
<1>2. SSMTypeOK <=> TypeOK /\ ManagerTypeOK
  BY DEF SSMTypeOK, ManagerTypeOK
<1> QED BY <1>1, <1>2, ManagerTypeKept, ImplementsManager, TypeCorrect, PTL DEF SSMSpec

-----------------------------------------------------------------------------
\* The step Run visits a task for has no goroutine yet.
LEMMA NotSpawned ==
    ASSUME MainTypeOK, OrderInv, NEW t \in todo, pc = "runStage"
    PROVE  runs[t][step] = "none" /\ ~StepIsDone(t, step)
<1>1. t \in Task /\ StageOf[t] = stage /\ step \in Step
  BY DEF MainTypeOK, OrderInv, TasksOf
<1>2. ~MayHaveAsked(t, step)
  BY <1>1 DEF Step, MayHaveAsked, ManagerAssumption, MainTypeOK
<1> QED BY <1>1, <1>2 DEF OrderInv, NothingAhead

\* A visit of task u keeps the invariant: the start step is spawned before
\* anything is known of it, the stop step once the start step is in the ledger.
LEMMA SafeCheck ==
    ASSUME TypeOK, OrderInv, ManagerTypeOK, SSMSafe,
           NEW u \in Task, CheckTask(u), UNCHANGED managerVars,
           NEW t \in StartStepManaged
    PROVE  SSMInv(t)'
<1> t \in Task
  BY WrapperAssumption DEF WrapperAssumption
<1> SSMInv(t) /\ {"start", "stop"} \subseteq Step
  BY DEF SSMSafe, Step
<1> USE DEF SSMInv
<1>1. step \in Step /\ CheckStartStep(u, step) /\ failed' = failed /\ u \in todo
      /\ pc = "runStage"
  BY DEF CheckTask, TypeOK, MainTypeOK
<1>2. /\ runs' = runs \/ (MayStart(u, step) /\ runs' = [runs EXCEPT ![u][step] = "spawned"])
      /\ executeSteps' = executeSteps \/ executeSteps' = Record(u, step)
  BY <1>1 DEF CheckStartStep
<1>3. \A x \in Step : runs'[t][x] = runs[t][x]
                        \/ (u = t /\ x = step /\ MayStart(t, x) /\ runs'[t][x] = "spawned")
  BY <1>1, <1>2, MoveGoroutine DEF TypeOK, WrapperTypeOK, RunState
<1>4. StepIsDone(t, "start") => StepIsDone(t, "start")'
  BY <1>1, <1>2, RecordEffect DEF TypeOK, StepIsDone
<1>5. StepIsDone(t, "start")' => StepIsDone(t, "start") \/ (u = t /\ step = "start")
  BY <1>1, <1>2, RecordEffect DEF TypeOK, StepIsDone
<1>6. u = t => runs[t][step] = "none" /\ ~StepIsDone(t, step)
  BY <1>1, NotSpawned DEF TypeOK
<1>7. MayStart(t, "stop") => StepIsDone(t, "start")
  BY DEF MayStart, PrevStepIsDone, Required
<1>8. runs'[t]["start"] = runs[t]["start"]
      \/ (runs[t]["start"] = "none" /\ runs'[t]["start"] = "spawned"
            /\ ~StepIsDone(t, "start"))
  BY <1>3, <1>6
<1>9. runs'[t]["stop"] = runs[t]["stop"]
      \/ (StepIsDone(t, "start") /\ runs[t]["stop"] = "none" /\ runs'[t]["stop"] = "spawned")
  BY <1>3, <1>6, <1>7
<1>10. Published(t)'
  BY <1>1, <1>8 DEF Published, FinishCause, managerVars
<1>11. Begun(t)'
  <2>1. CASE StepIsDone(t, "start")
    BY <2>1, <1>8 DEF Begun
  <2>2. CASE u = t /\ step = "start" /\ StepIsDone(t, "start")' 
    <3>1. ~MayStart(t, "start") \/ executeSteps' = executeSteps
      BY <2>2, <1>1 DEF CheckStartStep, PassedOver, MayStart
    <3>2. ~MayStart(t, "start")
      BY <3>1, <2>2, <1>6 DEF StepIsDone
    <3>3. runs' = runs
      BY <3>2, <2>2, <1>1 DEF CheckStartStep
    <3> QED BY <3>3, <1>6, <2>2 DEF Begun
  <2> QED BY <2>1, <2>2, <1>5 DEF Begun
<1>12. Capture(t)'
  BY <1>1, <1>4, <1>8, <1>9 DEF Capture, managerVars
<1>13. Told(t)'
  BY <1>1, <1>8, <1>9 DEF Told, Capture, managerVars
<1>14. FailedEnded(t)'
  BY <1>1, <1>8 DEF FailedEnded
<1> QED BY <1>10, <1>11, <1>12, <1>13, <1>14

\* What the goroutine of step s of u does to the ledger and the goroutines of t.
LEMMA GoroutineMoves ==
    ASSUME TypeOK, NEW u \in Task, NEW s \in Step, NEW v \in RunState,
           runs' = [runs EXCEPT ![u][s] = v],
           executeSteps' = executeSteps \/ executeSteps' = Record(u, s),
           NEW t \in Task
    PROVE  /\ \A x \in Step : runs'[t][x] = IF u = t /\ x = s THEN v ELSE runs[t][x]
           /\ StepIsDone(t, "start") => StepIsDone(t, "start")'
           /\ StepIsDone(t, "start")' => StepIsDone(t, "start") \/ (u = t /\ s = "start")
<1>1. \A x \in Step : runs'[t][x] = IF u = t /\ x = s THEN v ELSE runs[t][x]
  BY MoveGoroutine DEF TypeOK, WrapperTypeOK
<1>2. "start" \in Step
  BY DEF Step
<1>3. CASE executeSteps' = executeSteps
  BY <1>1, <1>3 DEF StepIsDone
<1>4. CASE executeSteps' = Record(u, s)
  BY <1>1, <1>2, <1>4, RecordEffect DEF TypeOK
<1> QED BY <1>3, <1>4

LEMMA SafeReady ==
    ASSUME TypeOK, ManagerTypeOK, SSMSafe,
           NEW u \in Task, NEW s \in Step, ManagerReady(u, s),
           NEW t \in StartStepManaged
    PROVE  SSMInv(t)'
<1> t \in Task
  BY WrapperAssumption DEF WrapperAssumption
<1> SSMInv(t) /\ "start" \in Step /\ "stop" \in Step
  BY DEF SSMSafe, Step
<1> USE DEF SSMInv
<1>1. runs[u][s] = "spawned" /\ runs' = [runs EXCEPT ![u][s] = "ready"]
      /\ executeSteps' = executeSteps /\ failed' = failed /\ told' = told
  BY DEF ManagerReady, GoReady, Ready
<1>2. \A x \in Step : runs'[t][x] = IF u = t /\ x = s THEN "ready" ELSE runs[t][x]
  <2>1. "ready" \in RunState
    BY DEF RunState
  <2> QED BY <1>1, <2>1, MoveGoroutine DEF TypeOK, WrapperTypeOK
<1>3. /\ u = t /\ s = "start" => finishCtx'[t] = "live"
      /\ ~(u = t /\ s = "start") => finishCtx'[t] = finishCtx[t]
  BY DEF ManagerReady, Publishes, ManagerTypeOK
<1>4. /\ u = t /\ s = "stop" => captured'[t] = Fields(t)
      /\ ~(u = t /\ s = "stop") => captured'[t] = captured[t]
  BY DEF ManagerReady, ManagerTypeOK
<1>5. StepIsDone(t, "start")' <=> StepIsDone(t, "start")
  BY <1>1 DEF StepIsDone
<1>6. Published(t)'
  BY <1>1, <1>2, <1>3 DEF Published, FinishCause
<1>7. Begun(t)'
  BY <1>1, <1>2, <1>5 DEF Begun
<1>8. Capture(t)'
  <2>1. CASE u = t /\ s = "stop"
    <3>1. runs'[t]["start"] = runs[t]["start"] /\ finishCtx'[t] = finishCtx[t]
      BY <2>1, <1>2, <1>3
    <3>2. StepIsDone(t, "start")
      BY <2>1, <1>1 DEF Capture
    <3>3. finishCtx[t] = "nil" => runs[t]["start"] = "none"
      BY <3>2 DEF Published, Begun, FinishCause
    <3>4. "finished" \in captured'[t] <=> finishCtx[t] # "nil"
      BY <2>1, <1>4 DEF Fields
    <3> QED BY <3>1, <3>2, <3>3, <3>4, <1>5 DEF Capture
  <2>2. CASE ~(u = t /\ s = "stop")
    <3>1. runs'[t]["stop"] = runs[t]["stop"] /\ captured'[t] = captured[t]
      BY <2>2, <1>2, <1>4
    <3>2. runs[t]["start"] = "none" => runs'[t]["start"] = "none"
      BY <1>1, <1>2
    <3>3. finishCtx[t] # "nil" => finishCtx'[t] # "nil"
      BY <1>3
    <3> QED BY <3>1, <3>2, <3>3, <1>5 DEF Capture
  <2> QED BY <2>1, <2>2
<1>9. Told(t)'
  BY <1>1, <1>2 DEF Told
<1>10. FailedEnded(t)'
  BY <1>1, <1>2 DEF FailedEnded
<1> QED BY <1>6, <1>7, <1>8, <1>9, <1>10

LEMMA SafeBegin ==
    ASSUME TypeOK, SSMSafe, NEW u \in Task, NEW s \in Step,
           GoBegin(u, s) \/ GoUnimplemented(u, s), UNCHANGED managerVars,
           NEW t \in StartStepManaged
    PROVE  SSMInv(t)'
<1> t \in Task
  BY WrapperAssumption DEF WrapperAssumption
<1> SSMInv(t) /\ "start" \in Step /\ "stop" \in Step
  BY DEF SSMSafe, Step
<1> USE DEF SSMInv
<1>1. PICK v \in {"running", "done"} : runs' = [runs EXCEPT ![u][s] = v]
  BY DEF GoBegin, GoUnimplemented, Begin, Unimplemented
<1>2. /\ runs[u][s] = "ready" /\ failed' = failed
      /\ executeSteps' = executeSteps \/ executeSteps' = Record(u, s)
  BY DEF GoBegin, GoUnimplemented, Begin, Unimplemented
<1>3. v = "running" \/ v = "done"
  BY <1>1
<1>4. v \in RunState
  BY <1>1 DEF RunState
<1>5. /\ \A x \in Step : runs'[t][x] = IF u = t /\ x = s THEN v ELSE runs[t][x]
      /\ StepIsDone(t, "start") => StepIsDone(t, "start")'
      /\ StepIsDone(t, "start")' => StepIsDone(t, "start") \/ (u = t /\ s = "start")
  BY <1>1, <1>2, <1>4, GoroutineMoves
<1>6. runs'[t]["start"] = runs[t]["start"]
      \/ (runs[t]["start"] = "ready" /\ runs'[t]["start"] \in {"running", "done"})
  BY <1>2, <1>3, <1>5
<1>7. runs'[t]["stop"] = runs[t]["stop"]
      \/ (runs[t]["stop"] = "ready" /\ runs'[t]["stop"] \in {"running", "done"})
  BY <1>2, <1>3, <1>5
<1>8. Published(t)'
  BY <1>2, <1>6 DEF Published, FinishCause, managerVars
<1>9. Begun(t)'
  BY <1>3, <1>5, <1>6 DEF Begun
<1>10. Capture(t)'
  BY <1>5, <1>6, <1>7 DEF Capture, managerVars
<1>11. Told(t)'
  BY <1>2, <1>6, <1>7 DEF Told, managerVars
<1>12. FailedEnded(t)'
  BY <1>2, <1>6 DEF FailedEnded
<1> QED BY <1>8, <1>9, <1>10, <1>11, <1>12

LEMMA SafeFinish ==
    ASSUME ManagerTypeOK, SSMSafe, NEW u \in Task, StartFinishes(u),
           NEW t \in StartStepManaged
    PROVE  SSMInv(t)'
<1> t \in Task
  BY WrapperAssumption DEF WrapperAssumption
<1> SSMInv(t)
  BY DEF SSMSafe
<1> USE DEF SSMInv
<1>1. /\ UNCHANGED <<runs, executeSteps, failed, captured, told>>
      /\ runs[u]["start"] = "ended" /\ finishCtx[u] = "live"
      /\ finishCtx'[t] = IF u = t THEN FinishCause(t) ELSE finishCtx[t]
  BY DEF StartFinishes, vars, wrapperVars, ManagerTypeOK
<1>2. FinishCause(t)' = FinishCause(t) /\ FinishCause(t) \in {"ssmNilError", "error"}
  BY <1>1 DEF FinishCause
<1>3. Published(t)'
  BY <1>1, <1>2 DEF Published
<1>4. Capture(t)'
  BY <1>1, <1>2 DEF Capture, StepIsDone
<1> QED BY <1>1, <1>3, <1>4 DEF Begun, Told, FailedEnded, StepIsDone

LEMMA SafeReport ==
    ASSUME TypeOK, SSMSafe, NEW u \in Task, NEW s \in Step, ManagerReport(u, s),
           NEW t \in StartStepManaged
    PROVE  SSMInv(t)'
<1> t \in Task
  BY WrapperAssumption DEF WrapperAssumption
<1> SSMInv(t) /\ "start" \in Step /\ "stop" \in Step
  BY DEF SSMSafe, Step
<1> USE DEF SSMInv
<1>1. /\ UNCHANGED <<executeSteps, failed, finishCtx, captured, told>>
      /\ runs[u][s] = "ended" /\ runs' = [runs EXCEPT ![u][s] = "done"]
  BY DEF ManagerReport, GoReport, Report
<1>2. \A x \in Step : runs'[t][x] = IF u = t /\ x = s THEN "done" ELSE runs[t][x]
  <2>1. "done" \in RunState
    BY DEF RunState
  <2> QED BY <1>1, <2>1, MoveGoroutine DEF TypeOK, WrapperTypeOK
<1>3. /\ runs'[t]["start"] = runs[t]["start"]
         \/ (runs[t]["start"] = "ended" /\ runs'[t]["start"] = "done")
      /\ runs'[t]["stop"] = runs[t]["stop"]
         \/ (runs[t]["stop"] = "ended" /\ runs'[t]["stop"] = "done")
  BY <1>1, <1>2
<1>4. StepIsDone(t, "start")' <=> StepIsDone(t, "start")
  BY <1>1 DEF StepIsDone
<1> QED BY <1>1, <1>3, <1>4 DEF Published, FinishCause, Begun, Capture, Told, FailedEnded

LEMMA SafeEnd ==
    ASSUME TypeOK, SSMSafe, NEW u \in Task, NEW s \in Step, NEW fails \in BOOLEAN,
           ManagerEnd(u, s, fails), NEW t \in StartStepManaged
    PROVE  SSMInv(t)'
<1> t \in Task
  BY WrapperAssumption DEF WrapperAssumption
<1> SSMInv(t) /\ "start" \in Step /\ "stop" \in Step
  BY DEF SSMSafe, Step
<1> USE DEF SSMInv
<1>1. /\ UNCHANGED <<finishCtx, captured, told>>
      /\ runs[u][s] = "running" /\ runs' = [runs EXCEPT ![u][s] = "ended"]
      /\ executeSteps' = executeSteps \/ (s = "setup" /\ executeSteps' = Record(u, s))
      /\ failed' = failed \/ failed' = failed \cup {<<u, s>>}
  BY DEF ManagerEnd, GoEnd, End, managerVars, RecordedOnSuccess
<1>2. /\ \A x \in Step : runs'[t][x] = IF u = t /\ x = s THEN "ended" ELSE runs[t][x]
      /\ StepIsDone(t, "start") => StepIsDone(t, "start")'
      /\ StepIsDone(t, "start")' => StepIsDone(t, "start") \/ (u = t /\ s = "start")
  <2>1. "ended" \in RunState
    BY DEF RunState
  <2> QED BY <1>1, <2>1, GoroutineMoves
<1>3. CASE u = t /\ s = "start"
  <2>1. /\ runs[t]["start"] = "running" /\ runs'[t]["start"] = "ended"
        /\ runs'[t]["stop"] = runs[t]["stop"]
    BY <1>1, <1>2, <1>3
  <2>2. finishCtx[t] = "live" /\ told[t] \notin {"nil", "error"}
    BY <2>1 DEF Published, Told
  <2>3. executeSteps' = executeSteps
    BY <1>1, <1>3
  <2> QED BY <1>1, <2>1, <2>2, <2>3
          DEF Published, Begun, Capture, Told, FailedEnded, StepIsDone
<1>4. CASE ~(u = t /\ s = "start")
  <2>1. /\ runs'[t]["start"] = runs[t]["start"]
        /\ runs'[t]["stop"] = runs[t]["stop"]
           \/ (runs[t]["stop"] = "running" /\ runs'[t]["stop"] = "ended")
    BY <1>1, <1>2, <1>4
  <2>2. <<t, "start">> \in failed' <=> <<t, "start">> \in failed
    BY <1>1, <1>4
  <2>3. StepIsDone(t, "start")' <=> StepIsDone(t, "start")
    BY <1>2, <1>4
  <2> QED BY <1>1, <2>1, <2>2, <2>3
          DEF Published, FinishCause, Begun, Capture, Told, FailedEnded
<1> QED BY <1>3, <1>4

LEMMA SafeStopCode ==
    ASSUME TypeOK, ManagerTypeOK, SSMSafe, NEW u \in Task, StopCode(u), NEW t \in StartStepManaged
    PROVE  SSMInv(t)'
<1> t \in Task
  BY WrapperAssumption DEF WrapperAssumption
<1> SSMInv(t)
  BY DEF SSMSafe
<1> USE DEF SSMInv
<1>1. UNCHANGED <<runs, executeSteps, failed, finishCtx, captured>> /\ runs[u]["stop"] = "running"
  BY DEF StopCode, ContextCancel, StopWaits, vars, wrapperVars
<1>2. Published(t)' /\ Begun(t)' /\ Capture(t)' /\ FailedEnded(t)'
  BY <1>1 DEF Published, FinishCause, Begun, Capture, FailedEnded, StepIsDone
<1>3. Told(t)'
  <2>1. CASE told'[t] = told[t]
    BY <1>1, <2>1 DEF Told
  <2>2. CASE told'[t] # told[t] /\ told'[t] \in {"nil", "error"}
    <3>1. u = t /\ Finished(t) /\ told'[t] = FinishedErr(t)
      BY <2>2 DEF StopCode, ContextCancel, StopWaits, ManagerTypeOK
    <3>2. CASE "finished" \in captured[t]
      <4>1. finishCtx[t] \notin {"nil", "live"}
        BY <3>1, <3>2 DEF Finished, FinishCtxDone, Capture
      <4>2. runs[t]["start"] \in {"ended", "done"} /\ finishCtx[t] = FinishCause(t)
        <5>1. runs[t]["start"] \in RunState
          BY DEF TypeOK, WrapperTypeOK, Step
        <5> QED BY <4>1, <5>1 DEF Published, RunState
      <4> QED BY <1>1, <3>1, <3>2, <4>2 DEF Told, FinishedErr, FinishCause
    <3>3. CASE "finished" \notin captured[t]
      <4>1. runs[t]["start"] = "none" /\ told'[t] = "nil"
        BY <1>1, <3>1, <3>3 DEF Capture, FinishedErr
      <4> QED BY <1>1, <3>1, <4>1 DEF Told, FailedEnded
    <3> QED BY <3>2, <3>3
  <2>3. CASE told'[t] \notin {"nil", "error"}
    BY <2>3 DEF Told
  <2> QED BY <2>1, <2>2, <2>3
<1> QED BY <1>2, <1>3

\* What is left are the steps of Run that spawn nothing, and of other goroutines.
LEMMA SafeElse ==
    ASSUME SSMSafe, UNCHANGED <<runs, executeSteps, failed, managerVars>>
    PROVE  SSMSafe'
BY DEF SSMSafe, SSMInv, Published, FinishCause, Begun, Capture, Told, FailedEnded,
       StepIsDone, managerVars

LEMMA SafeStep ==
    ASSUME TypeOK, OrderInv, ManagerTypeOK, SSMSafe, [SSMNext]_ssmVars
    PROVE  SSMSafe'
<1>1. CASE (Enter \/ Main) /\ UNCHANGED managerVars
  <2>1. ASSUME NEW u \in Task, CheckTask(u) PROVE SSMSafe'
    BY <1>1, <2>1, SafeCheck DEF SSMSafe
  <2>2. CASE WrapperUntouched
    BY <1>1, <2>2, WrapperUnchanged, SafeElse
  <2> QED BY <1>1, <2>1, <2>2 DEF Main, RunStages, WrapperUntouched
<1>2. ASSUME NEW u \in Task, NEW s \in Step, ManagerGoroutine(u, s) PROVE SSMSafe'
  <2>1. CASE ManagerReady(u, s)
    BY <2>1, SafeReady DEF SSMSafe
  <2>2. CASE (GoBegin(u, s) \/ GoUnimplemented(u, s)) /\ UNCHANGED managerVars
    BY <2>2, SafeBegin DEF SSMSafe
  <2>3. CASE StartFinishes(u)
    BY <2>3, SafeFinish DEF SSMSafe
  <2>4. CASE ManagerReport(u, s)
    BY <2>4, SafeReport DEF SSMSafe
  <2> QED BY <1>2, <2>1, <2>2, <2>3, <2>4 DEF ManagerGoroutine
<1>3. ASSUME NEW u \in Task, StopCode(u) PROVE SSMSafe'
  BY <1>3, SafeStopCode DEF SSMSafe
<1>4. ASSUME NEW u \in Task, NEW s \in Step, NEW fails \in BOOLEAN, ManagerEnd(u, s, fails)
      PROVE  SSMSafe'
  BY <1>4, SafeEnd DEF SSMSafe
<1>5. CASE (Callers \/ PropagateCtx \/ Expire \/ Terminated) /\ UNCHANGED managerVars
  BY <1>5, WrapperUnchanged, SafeElse DEF WrapperUntouched, Terminated, vars, wrapperVars
<1>6. CASE UNCHANGED ssmVars
  BY <1>6, SafeElse DEF ssmVars, vars, wrapperVars
<1> QED BY <1>1, <1>2, <1>3, <1>4, <1>5, <1>6 DEF SSMNext

LEMMA SSMSafeAlways == SSMSpec => []SSMSafe
<1>1. SSMInit => SSMSafe
  <2> SUFFICES ASSUME SSMInit, NEW t \in StartStepManaged PROVE SSMInv(t)
    BY DEF SSMSafe
  <2>1. t \in Task
    BY WrapperAssumption DEF WrapperAssumption
  <2>2. runs[t] = [s \in Step |-> "none"] /\ executeSteps[t] = <<>> /\ failed = {}
    BY <2>1 DEF SSMInit, Init, WrapperInit
  <2>3. runs[t]["start"] = "none" /\ runs[t]["stop"] = "none"
    BY <2>2 DEF Step
  <2>4. finishCtx[t] = "nil" /\ captured[t] = {} /\ told[t] = "none"
    BY <2>1 DEF SSMInit
  <2> QED BY <2>2, <2>3, <2>4 DEF SSMInv, Published, Begun, Capture, Told, FailedEnded
<1>2. SSMInit => ManagerTypeOK
  BY DEF SSMInit, ManagerTypeOK
<1>3. SSMInit => OrderInv
  BY DEF SSMInit, Init, WrapperInit, OrderInv, NoOrderError, NothingAhead, StepIsDone, InLedger
<1>4. [SSMNext]_ssmVars => [Next]_vars
  BY ImplementsStep
<1>5. TypeOK /\ OrderInv /\ [SSMNext]_ssmVars => OrderInv'
  BY <1>4, OrderStep
<1>6. TypeOK /\ OrderInv /\ ManagerTypeOK /\ SSMSafe /\ [SSMNext]_ssmVars => SSMSafe'
  BY SafeStep
<1> QED BY <1>1, <1>2, <1>3, <1>5, <1>6, ManagerTypeKept, ImplementsManager, TypeCorrect,
           PTL DEF SSMSpec

\* FinishedMeansReturned for every choice of the constants: a stop step that found
\* Finished closed runs after the start step of its task, whatever cancelled the
\* contexts of the start step before (context.go:86-91, run.go:447-457).
THEOREM FinishedIsReturned == SSMSpec => []FinishedMeansReturned
<1>1. SSMSafe => FinishedMeansReturned
  BY DEF SSMSafe, SSMInv, Told, FinishedMeansReturned
<1> QED BY <1>1, SSMSafeAlways, PTL

\* FinishedErrTold for every choice of the constants: FinishedErr is nil exactly if
\* the start step did not fail (context.go:93-104, run.go:481-487).
THEOREM FinishedErrIsRight == SSMSpec => []FinishedErrTold
<1>1. SSMSafe => FinishedErrTold
  BY DEF SSMSafe, SSMInv, Told, FinishedErrTold
<1> QED BY <1>1, SSMSafeAlways, PTL

-----------------------------------------------------------------------------
(* What cancels the context of a start step.                               *)

\* The context a start step has of its own is cancelled by the stop step of its
\* task, or when the start step is over.
OnlyByStop ==
    \A t \in StartStepManaged :
        startCtx[t] = "cancelled" => runs[t]["start"] = "done" \/ Touched(t, "stop")

LEMMA OnlyByStopKept ==
    ASSUME TypeOK, OrderInv, ManagerTypeOK, OnlyByStop, [SSMNext]_ssmVars
    PROVE  OnlyByStop'
<1> SUFFICES ASSUME NEW t \in StartStepManaged, startCtx'[t] = "cancelled"
             PROVE  runs'[t]["start"] = "done" \/ Touched(t, "stop")'
  BY DEF OnlyByStop
<1> t \in Task /\ "start" \in Step /\ "stop" \in Step
  BY WrapperAssumption DEF WrapperAssumption, Step
<1>1. /\ runs[t]["start"] = "done" => runs'[t]["start"] = "done"
      /\ Touched(t, "stop") => Touched(t, "stop")'
  <2>1. CASE WrapperUntouched
    BY <2>1, WrapperUnchanged DEF Touched
  <2>2. ASSUME NEW u \in Task, NEW s \in Step, GoStep(u, s) PROVE <1>1
    BY <2>2, GoStepKeeps DEF Touched, RunOver
  <2>3. ASSUME NEW u \in Task, CheckTask(u) PROVE <1>1
    BY <2>3, CheckKeeps DEF Touched
  <2> QED BY <2>1, <2>2, <2>3, ImplementsStep, ThreeKinds
<1>2. CASE startCtx[t] = "cancelled"
  BY <1>1, <1>2 DEF OnlyByStop
<1>3. CASE startCtx[t] # "cancelled"
  <2>1. ASSUME NEW s \in Step, ManagerReady(t, s) PROVE FALSE
    BY <1>3, <2>1 DEF ManagerReady, ManagerTypeOK
  <2>2. ASSUME NEW s \in Step, ManagerReport(t, s) PROVE runs'[t]["start"] = "done"
    <3>1. s = "start" /\ runs' = [runs EXCEPT ![t][s] = "done"]
      BY <1>3, <2>2 DEF ManagerReport, Publishes, GoReport, Report
    <3> QED BY <3>1, MoveGoroutine DEF TypeOK, WrapperTypeOK, RunState
  <2>3. CASE ContextCancel(t)
    BY <1>1, <2>3 DEF ContextCancel, Touched
  <2>4. \/ \E s \in Step : ManagerReady(t, s) \/ ManagerReport(t, s)
        \/ ContextCancel(t)
    <3>1. startCtx'[t] # startCtx[t]
      BY <1>3
    <3>2. \A u \in Task, s \in Step :
             u # t => ~ManagerReady(u, s) /\ ~ManagerReport(u, s) /\ ~ContextCancel(u)
      BY <3>1 DEF ManagerReady, ManagerReport, ContextCancel, ManagerTypeOK
    <3> QED BY <3>1, <3>2 DEF SSMNext, ssmVars, managerVars, ManagerGoroutine,
               StartFinishes, StopCode, StopWaits, ManagerEnd
  <2> QED BY <2>1, <2>2, <2>3, <2>4
<1> QED BY <1>2, <1>3

\* ContextOutlivesDependents for every choice of the constants: under a manager the
\* context of a start step outlives the tasks of the stages above, unless the
\* caller cancels it or the shutdown is overdue (run.go:449-457, README.md:38-39).
THEOREM ContextsOutlive == SSMSpec => []ContextOutlivesDependents
<1>1. TypeOK /\ RunInv /\ OnlyByStop => ContextOutlivesDependents
  <2> SUFFICES ASSUME TypeOK, RunInv, OnlyByStop, NEW t \in StartStepManaged \ CancelContext,
                      runs[t]["start"] = "running", StartContextDone(t), ~ctxDone, ~Overdue
               PROVE  /\ StoppingFrom(StageOf[t])
                      /\ \A u \in Task : StageOf[t] < StageOf[u] => RunOver(u, "stop")
    BY DEF ContextOutlivesDependents
  <2>1. t \in Task /\ "stop" \in Step
    BY WrapperAssumption DEF WrapperAssumption, Step
  <2>2. Touched(t, "stop")
    BY DEF StartContextDone, StartCtxDone, OnlyByStop
  <2>3. MayHaveAsked(t, "stop")
    BY <2>1, <2>2 DEF RunInv, OrderInv, NothingAhead, Touched
  <2>4. StoppingFrom(StageOf[t])
    BY <2>1, <2>3, ManagerAssumption
       DEF MayHaveAsked, StoppingFrom, TypeOK, MainTypeOK, ManagerAssumption, Step
  <2>5. \A u \in Task : StageOf[t] < StageOf[u] => RunOver(u, "stop")
    BY <2>1, <2>2 DEF RunInv, DownInv, StopOrder
  <2> QED BY <2>4, <2>5
<1>2. SSMInit => ManagerTypeOK /\ OnlyByStop
  <2>1. ASSUME SSMInit, NEW t \in StartStepManaged PROVE startCtx[t] = "nil"
    BY <2>1, WrapperAssumption DEF SSMInit, WrapperAssumption
  <2> QED BY <2>1 DEF SSMInit, ManagerTypeOK, OnlyByStop
<1>3. RunInv => OrderInv
  BY DEF RunInv
<1>4. TypeOK /\ RunInv /\ ManagerTypeOK /\ OnlyByStop /\ [SSMNext]_ssmVars => OnlyByStop'
  BY <1>3, OnlyByStopKept
<1> QED BY <1>1, <1>2, <1>4, ManagerTypeKept, ImplementsManager, RunInvHolds, PTL DEF SSMSpec
=============================================================================
