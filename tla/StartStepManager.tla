-------------------------- MODULE StartStepManager --------------------------
(***************************************************************************)
(* The StartStepManager (context.go, run.go:441-481): what lets the stop   *)
(* step of a task cancel the context of its start step, wait until that    *)
(* step has returned and read its error.  The start goroutine publishes    *)
(* two contexts in the task wrapper; the stop goroutine, which may run     *)
(* long after or beside it, captures them.                                 *)
(*                                                                         *)
(* The stop step is user code.  It is modelled as the samples and the      *)
(* tests write it: ContextCancel first, and then a select over Finished    *)
(* and its own context, each for the tasks that do so.                     *)
(***************************************************************************)
EXTENDS Manager

CONSTANTS
    Cancels,   \* the tasks whose stop step calls ContextCancel
    Waits      \* the tasks whose stop step waits for Finished

ASSUME StartStepManagerAssumption == Cancels \subseteq Task /\ Waits \subseteq Task

VARIABLES
    startCtx,   \* startCtx[t]: the context tw.startCancel cancels
    finishCtx,  \* finishCtx[t]: tw.finishCtx, with the cause it has if it is done
    captured,   \* captured[t]: the fields that are not nil in the manager stop got
    told        \* told[t]: what the select of the stop step ended with

managerVars == <<startCtx, finishCtx, captured, told>>
ssmVars == <<vars, managerVars>>

SSMTypeOK ==
    /\ TypeOK
    /\ startCtx \in [Task -> {"nil", "live", "cancelled"}]
    /\ finishCtx \in [Task -> {"nil", "live", "ssmNilError", "error"}]
    /\ captured \in [Task -> SUBSET {"cancel", "finished"}]
    /\ told \in [Task -> {"none", "ctx", "nil", "error"}]

SSMInit ==
    /\ Init
    /\ startCtx = [t \in Task |-> "nil"]
    /\ finishCtx = [t \in Task |-> "nil"]
    /\ captured = [t \in Task |-> {}]
    /\ told = [t \in Task |-> "none"]

\* Mutant: a start step under a manager always gets the context with CancelContext.
TaskCtxForAll(t) == startCtx[t] = "cancelled" \/ ctxDone \/ taskDone

\* The context of the start step: its own, if it has one, and those above it.
StartContextDone(t) == startCtx[t] = "cancelled" \/ StartCtxDone(t)

-----------------------------------------------------------------------------
(* The goroutines of the start and stop steps.                             *)

\* Mutant: only a start step with CancelContext gets contexts of its own.
PublishedForCancelContext(t, s) == s = "start" /\ t \in StartStepManaged \cap CancelContext

Publishes(t, s) == s = "start" /\ t \in StartStepManaged

Fields(t) == (IF startCtx[t] = "nil" THEN {} ELSE {"cancel"})
                 \cup (IF finishCtx[t] = "nil" THEN {} ELSE {"finished"})

\* Under tw.mu, the start goroutine creates and publishes both contexts, and the
\* stop goroutine reads both, before it is counted as started.
ManagerReady(t, s) ==
    /\ GoReady(t, s)
    /\ startCtx' = IF Publishes(t, s) THEN [startCtx EXCEPT ![t] = "live"] ELSE startCtx
    /\ finishCtx' = IF Publishes(t, s) THEN [finishCtx EXCEPT ![t] = "live"] ELSE finishCtx
    /\ captured' = IF s = "stop" /\ t \in StartStepManaged
                   THEN [captured EXCEPT ![t] = Fields(t)]
                   ELSE captured
    /\ UNCHANGED told

\* Mutant: the finish context is only cancelled with an error.
NilErrorForgotten(t) == IF <<t, "start">> \in failed THEN "error" ELSE "live"

FinishCause(t) == IF <<t, "start">> \in failed THEN "error" ELSE "ssmNilError"

\* taskCancelOnStop: run has returned, the result was not reported yet.
StartFinishes(t) ==
    /\ runs[t]["start"] = "ended"
    /\ finishCtx[t] = "live"
    /\ finishCtx' = [finishCtx EXCEPT ![t] = FinishCause(t)]
    /\ UNCHANGED <<vars, startCtx, captured, told>>

\* onError, and then the deferred startCancel and wg.Done.
ManagerReport(t, s) ==
    /\ Publishes(t, s) => finishCtx[t] = FinishCause(t)
    /\ GoReport(t, s)
    /\ startCtx' = IF Publishes(t, s) THEN [startCtx EXCEPT ![t] = "cancelled"] ELSE startCtx
    /\ UNCHANGED <<finishCtx, captured, told>>

-----------------------------------------------------------------------------
(* The user code of the stop step.                                         *)

\* ContextCancel of the manager the stop step got; a noop if it got none.
ContextCancel(t) ==
    /\ runs[t]["stop"] = "running"
    /\ t \in Cancels
    /\ "cancel" \in captured[t]
    /\ startCtx[t] = "live"
    /\ startCtx' = [startCtx EXCEPT ![t] = "cancelled"]
    /\ UNCHANGED <<vars, finishCtx, captured, told>>

CancelReturned(t) == t \in Cancels /\ "cancel" \in captured[t] => startCtx[t] = "cancelled"

\* Mutant: the finish context is a child of the start step's, which it outlives.
InheritsCancel(t) == finishCtx[t] # "live" \/ StartContextDone(t)

FinishCtxDone(t) == finishCtx[t] # "live"

\* A manager without a finish context gives a channel that is closed already.
Finished(t) == "finished" \in captured[t] => FinishCtxDone(t)

\* Mutant: the cause is returned as it is.
SentinelReturned(t) == IF "finished" \notin captured[t] THEN "nil" ELSE "error"

\* FinishedErr: the cause of the finish context, unless it is ssmNilError.
FinishedErr(t) ==
    IF "finished" \notin captured[t] \/ finishCtx[t] = "ssmNilError" THEN "nil" ELSE "error"

\* A stop step left behind has a context that is done, or given back by shutdown.
StopCtxDone == shutdownCtx # "live" \/ step = "teardown" \/ pc = "returned"

\* The select of the stop step.
StopWaits(t) ==
    /\ runs[t]["stop"] = "running"
    /\ t \in Waits
    /\ told[t] = "none"
    /\ CancelReturned(t)
    /\ \/ Finished(t) /\ told' = [told EXCEPT ![t] = FinishedErr(t)]
       \/ StopCtxDone /\ told' = [told EXCEPT ![t] = "ctx"]
    /\ UNCHANGED <<vars, startCtx, finishCtx, captured>>

ManagerEnd(t, s, fails) ==
    /\ s = "stop" => CancelReturned(t) /\ (t \in Waits => told[t] # "none")
    /\ GoEnd(t, s, fails)
    /\ UNCHANGED managerVars

-----------------------------------------------------------------------------
\* The steps of the goroutine of step s of t but for the return of its user code.
ManagerGoroutine(t, s) ==
    \/ ManagerReady(t, s)
    \/ (GoBegin(t, s) \/ GoUnimplemented(t, s)) /\ UNCHANGED managerVars
    \/ s = "start" /\ StartFinishes(t)
    \/ ManagerReport(t, s)

StopCode(t) == ContextCancel(t) \/ StopWaits(t)

SSMNext ==
    \/ (Enter \/ Main) /\ UNCHANGED managerVars
    \/ \E t \in Task, s \in Step : ManagerGoroutine(t, s)
    \/ \E t \in Task : StopCode(t)
    \/ \E t \in Task, s \in Step, fails \in BOOLEAN : ManagerEnd(t, s, fails)
    \/ (Callers \/ PropagateCtx \/ Expire \/ Terminated) /\ UNCHANGED managerVars

SSMSpec == SSMInit /\ [][SSMNext]_ssmVars

StepReturns(t, s) == \E fails \in BOOLEAN : ManagerEnd(t, s, fails)

\* User code that cooperates: stop steps go on as long as they are not waiting,
\* and a start step returns if its context is done.  No timeout need expire, and
\* nothing else need happen.
SSMFairSpec ==
    /\ SSMSpec
    /\ \A t \in Task :
           /\ \A s \in {"start", "stop"} : WF_ssmVars(ManagerGoroutine(t, s))
           /\ WF_ssmVars(StopCode(t))
           /\ WF_ssmVars(StepReturns(t, "stop"))
           /\ WF_ssmVars(StartContextDone(t) /\ StepReturns(t, "start"))

-----------------------------------------------------------------------------
\* context.go:21-23: a stop step that found Finished closed runs when the start
\* step of its task has returned, however the contexts of the start step were
\* cancelled meanwhile, and never because it came before them.
FinishedMeansReturned ==
    \A t \in StartStepManaged :
        told[t] \in {"nil", "error"} => runs[t]["start"] \in {"none", "ended", "done"}

\* context.go:93-104: what FinishedErr tells a stop step is whether the start step
\* of its task failed, although the contexts carry other causes too.
FinishedErrTold ==
    \A t \in StartStepManaged :
        told[t] \in {"nil", "error"} => (told[t] = "error" <=> <<t, "start">> \in failed)

\* Run has come to the stop steps of stage k.
StoppingFrom(k) ==
    \/ pc \in {"drain", "returned"}
    \/ pc = "runStage" /\ step = "stop" /\ stage <= k
    \/ pc = "runStage" /\ step = "teardown"

\* run.go:438-451 and README.md:38-39: under a manager, the start step of a task
\* without CancelContext keeps its context until every stage above was stopped,
\* unless the caller cancels the context of Run or the shutdown is overdue.
ContextOutlivesDependents ==
    \A t \in StartStepManaged \ CancelContext :
        runs[t]["start"] = "running" /\ StartContextDone(t)
            => \/ ctxDone \/ Overdue
               \/ /\ StoppingFrom(StageOf[t])
                  /\ \A u \in Task : StageOf[t] < StageOf[u] => RunOver(u, "stop")

\* README.md:678-697: a stop step that cancels its start step, or whose start step
\* has a context that Run cancels, and waits until it has finished does not wait
\* for ever, if that start step returns once its context is done; and neither
\* does one that got a manager without fields.
StopStepReturns ==
    \A t \in {u \in Task : u \in StartStepManaged /\ u \in Waits
                              => u \in Cancels \cup CancelContext} :
        runs[t]["stop"] = "running" ~> runs[t]["stop"] = "done"
=============================================================================
