----------------------------- MODULE FutureTask -----------------------------
(***************************************************************************)
(* Tasks that resolve a future (futuretask/task.go) under Manager.Run: the *)
(* setup step resolves it with its result, the Skipped callback of a task  *)
(* that never runs with ErrTaskSkipped.  Start steps of other tasks may    *)
(* wait for futures without a context.  A future is here the register that *)
(* Future.tla is proved to implement.                                      *)
(***************************************************************************)
EXTENDS Manager

CONSTANTS
    FutureTasks,  \* the tasks made by futuretask.New
    Awaits,       \* Awaits[t]: the futures the start step of t waits for first
    Refused       \* future tasks AddTask does not accept

ASSUME FutureTaskAssumption ==
    /\ FutureTasks \subseteq Task
    /\ Awaits \in [Task -> SUBSET FutureTasks]
    /\ Refused \cap Task = {}

VARIABLES
    returned,     \* what the setup function of each future task returned
    future,       \* what the future of each task holds
    offered       \* the refused tasks AddTask was called with

futureVars == <<returned, future, offered>>
allVars == <<vars, futureVars>>

SetupResult == {"value", "error"}

FutureInit ==
    /\ Init
    /\ \A f \in FutureTasks : "setup" \in steps[f]
    /\ returned = [f \in FutureTasks |-> "none"]
    /\ future = [f \in FutureTasks \cup Refused |-> "unresolved"]
    /\ offered = {}

-----------------------------------------------------------------------------
\* Mutant: a setup function that fails returns before the future is resolved.
ResolvedByValueOnly(f, res) == IF res = "value" THEN [future EXCEPT ![f] = res] ELSE future

\* Mutant: the data is taken without a look at the error.
ErrorIgnored(f, res) == [future EXCEPT ![f] = "value"]

Resolved(f, res) == [future EXCEPT ![f] = res]

\* The setup function returns, and the future is resolved within the step.
SetupFuncReturns(f, res) ==
    /\ runs[f]["setup"] = "running"
    /\ returned[f] = "none"
    /\ returned' = [returned EXCEPT ![f] = res]
    /\ future' = Resolved(f, res)
    /\ UNCHANGED <<vars, offered>>

\* The setup step of a future task fails with its function, and has then set no
\* parent; that of a provider also if what the function returned cannot be it.
StepResult(t, s, err) ==
    t \in FutureTasks /\ s = "setup" =>
        \/ returned[t] = "error" /\ err /\ UNCHANGED steps
        \/ returned[t] = "value" /\ (err => t \in Provider)

\* Value without a context blocks until the future is resolved.
Unblocked(t, s) == s = "start" => \A f \in Awaits[t] : future[f] # "unresolved"

FutureReturns(t, s, fails) ==
    /\ GoEnd(t, s, fails)
    /\ \E err \in BOOLEAN : StepResult(t, s, err) /\ AfterHandler(t, err, fails)
    /\ Unblocked(t, s)
    /\ UNCHANGED futureVars

\* The Skipped callback: a future that is resolved is left alone.
Released(f) == IF future[f] = "unresolved" THEN "skipped" ELSE future[f]

\* Run's goroutine moves on, and calls Skipped for the tasks it notifies.
FutureMain ==
    /\ Main
    /\ future' = [f \in DOMAIN future |->
                     IF f \in Task /\ skips'[f] > skips[f] THEN Released(f) ELSE future[f]]
    /\ UNCHANGED <<returned, offered>>

\* AddTask refuses a future task: with an InitError, or an unknown stage, before
\* Run, or whatever it is once Run was called.
RefuseTask(f) ==
    /\ f \in Refused \ offered
    /\ offered' = offered \cup {f}
    /\ AddInitError \/ RequestStartupCancel("rejected")
    /\ UNCHANGED <<returned, future>>

FutureNext ==
    \/ FutureMain
    \/ \E f \in FutureTasks, res \in SetupResult : SetupFuncReturns(f, res)
    \/ \E t \in Task, s \in Step, fails \in BOOLEAN : FutureReturns(t, s, fails)
    \/ \E f \in Refused : RefuseTask(f)
    \/ Enter /\ UNCHANGED futureVars
    \/ \E t \in Task, s \in Step : Goroutine(t, s) /\ UNCHANGED futureVars
    \/ (Callers \/ PropagateCtx \/ Expire \/ Terminated) /\ UNCHANGED futureVars

FutureSpec == FutureInit /\ [][FutureNext]_allVars

FutureStepReturns(t, s) == \E fails \in BOOLEAN : FutureReturns(t, s, fails)

\* A manager without timeouts, and user code that cooperates: stop steps return,
\* and so do start steps whose context is cancelled, but for those that wait for
\* a future, for as long as it takes.
FutureFairSpec ==
    /\ FutureSpec
    /\ WF_allVars(FutureMain)
    /\ WF_allVars(PropagateCtx /\ UNCHANGED futureVars)
    /\ \A t \in Task, s \in Step : WF_allVars(Goroutine(t, s) /\ UNCHANGED futureVars)
    /\ \A f \in FutureTasks :
           WF_allVars(\E res \in SetupResult : SetupFuncReturns(f, res))
    /\ \A t \in Task, s \in {"setup", "stop", "teardown"} : WF_allVars(FutureStepReturns(t, s))
    /\ \A t \in Task : WF_allVars(StartCtxDone(t) /\ FutureStepReturns(t, "start"))

-----------------------------------------------------------------------------
\* run.go:107-110: when Run comes to wait for a reason to stop, and so before it
\* waits for anything in its shutdown, the futures of all its tasks are resolved.
ReleasedBeforeShutdown ==
    \/ pc \in {"select", "drain", "returned"}
    \/ pc = "runStage" /\ step \in {"stop", "teardown"}
    => \A f \in FutureTasks : future[f] # "unresolved"

\* futuretask/task.go:27-44: what waiters are told is what happens to the task:
\* skipped, and no step of it ever runs; an error, and none but setup ever runs,
\* unless a task error handler ignored that error; a value, and its setup step does
\* not fail, unless the value was to be its parent or the handler made an error up.
FutureTells ==
    \A f \in FutureTasks :
        /\ future[f] = "skipped" => \A s \in Step : runs[f][s] = "none"
        /\ future[f] = "error" /\ (f \in Handled => <<f, "setup">> \in failed) =>
              \A s \in {"start", "stop", "teardown"} : runs[f][s] = "none"
        /\ future[f] = "value" =>
              <<f, "setup">> \notin failed \/ f \in Provider \cup Handled

\* futuretask/task.go:15-16: a task that never runs has its future resolved, so
\* that waiters don't block forever.
RefusedIsReleased == pc = "returned" => \A f \in offered : future[f] # "unresolved"
=============================================================================
