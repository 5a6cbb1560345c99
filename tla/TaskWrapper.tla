---------------------------- MODULE TaskWrapper ----------------------------
(***************************************************************************)
(* The per-task ledger of svcinit (task_wrapper.go) and the goroutine that *)
(* runs one step of one task (the body of the go statement in run.go).     *)
(*                                                                         *)
(* A taskWrapper keeps the slice executeSteps: what was run, and what was  *)
(* passed over because the task does not implement it.  checkStartStep     *)
(* reads it to decide whether a step may be spawned; run appends to it,    *)
(* for setup only after success, for the other steps before the user code  *)
(* is called.  The module ends with the specification of a wrapper whose   *)
(* caller asks for steps in any order but one at a time, as the tests of   *)
(* the package do.  Manager.tla replaces that caller by the real one.      *)
(***************************************************************************)
EXTENDS Naturals, Sequences

CONSTANTS
    Task,             \* the tasks added with AddTask
    StepSets,         \* the values TaskInfo.Steps may have when a task is added
    StartStepManaged, \* the tasks with the WithStartStepManager option
    Provider,         \* the tasks whose parent is set by their setup step
    ProvidedSteps,    \* the steps the parent set by setup adds to a provider
    Handled           \* the tasks whose results an error handler may change

VARIABLES
    steps,            \* steps[t]: TaskInfo.Steps of task t, now
    executeSteps,     \* executeSteps[t]: the slice kept by the wrapper of t
    runs,             \* runs[t][s]: where the goroutine of step s of t is
    failed            \* the <<task, step>> whose run returned an error

wrapperVars == <<steps, executeSteps, runs, failed>>

Step == {"setup", "start", "stop", "teardown"}

\* A goroutine of runStageStep is "spawned", then "ready" once its per-step
\* state is published, "running" from the record in the ledger on, "ended" when
\* the task wrapper's run has returned, and "done" when onError was called.
RunState == {"none", "spawned", "ready", "running", "ended", "done"}

ASSUME WrapperAssumption ==
    /\ StepSets \subseteq SUBSET Step
    /\ StartStepManaged \subseteq Task
    /\ Provider \subseteq Task
    /\ ProvidedSteps \subseteq Step
    /\ Handled \subseteq Task

WrapperTypeOK ==
    /\ steps \in [Task -> SUBSET Step]
    /\ executeSteps \in [Task -> Seq(Step)]
    /\ runs \in [Task -> [Step -> RunState]]
    /\ failed \subseteq Task \X Step

-----------------------------------------------------------------------------
(* The ledger: which step may start.                                       *)

\* slices.Contains(t.executeSteps, step)
InLedger(ledger, s) == \E i \in DOMAIN ledger : ledger[i] = s

StepIsDone(t, s) == InLedger(executeSteps[t], s)

\* Mutant: a start step does not block another one.
StartNotBlocked(s) ==
    CASE s = "setup"    -> Step
      [] s = "start"    -> {"stop", "teardown"}
      [] s = "stop"     -> {"stop", "teardown"}
      [] s = "teardown" -> {"teardown"}

\* The steps that must not be in the ledger when step s is asked for.
Blocking(s) ==
    CASE s = "setup"    -> Step
      [] s = "start"    -> {"start", "stop", "teardown"}
      [] s = "stop"     -> {"stop", "teardown"}
      [] s = "teardown" -> {"teardown"}

\* Mutant: teardown follows stop, not setup.
TeardownAfterStop(s) ==
    CASE s = "setup"    -> {}
      [] s = "start"    -> {"setup"}
      [] s = "stop"     -> {"start"}
      [] s = "teardown" -> {"stop"}

\* The steps one of which must be in the ledger for step s to follow.
Required(s) ==
    CASE s = "setup"    -> {}
      [] s = "start"    -> {"setup"}
      [] s = "stop"     -> {"start"}
      [] s = "teardown" -> {"setup"}

HasStep(t, s) == s \in steps[t]

\* A task with a StartStepManager gets a stop step even if it implements none.
CanStartStep(t, s) == HasStep(t, s) \/ (s = "stop" /\ t \in StartStepManaged)

InvalidOrder(t, s) == \E b \in Blocking(s) : StepIsDone(t, b)

PrevStepIsDone(t, s) ==
    Required(s) = {} \/ \E r \in Required(s) : StepIsDone(t, r)

MayStart(t, s) ==
    ~InvalidOrder(t, s) /\ CanStartStep(t, s) /\ PrevStepIsDone(t, s)

\* A step the task does not implement is recorded as if it had been run.
PassedOver(t, s) ==
    ~InvalidOrder(t, s) /\ ~CanStartStep(t, s) /\ PrevStepIsDone(t, s)

Record(t, s) == [executeSteps EXCEPT ![t] = Append(@, s)]

CheckStartStep(t, s) ==
    /\ executeSteps' = IF PassedOver(t, s) THEN Record(t, s) ELSE executeSteps
    /\ runs' = IF MayStart(t, s) THEN [runs EXCEPT ![t][s] = "spawned"] ELSE runs

-----------------------------------------------------------------------------
(* The goroutine of one step.                                              *)

\* The goroutine has published the state of its step (run.go, startWg.Done).
Ready(t, s) ==
    /\ runs[t][s] = "spawned"
    /\ runs' = [runs EXCEPT ![t][s] = "ready"]
    /\ UNCHANGED <<steps, executeSteps, failed>>

\* Mutant: a start, stop or teardown step is not recorded.
NeverRecorded(s) == FALSE

RecordedFirst(s) == s # "setup"

\* Mutant: a setup is recorded even if it failed.
RecordedAnyway(s, fails) == s = "setup"

RecordedOnSuccess(s, fails) == s = "setup" /\ ~fails

\* The Before callbacks have returned; every step but setup is recorded now,
\* and the user code is called.
Begin(t, s) ==
    /\ runs[t][s] = "ready"
    /\ HasStep(t, s)
    /\ runs' = [runs EXCEPT ![t][s] = "running"]
    /\ executeSteps' = IF RecordedFirst(s) THEN Record(t, s) ELSE executeSteps
    /\ UNCHANGED <<steps, failed>>

\* The stop step made up for a StartStepManager has nothing to run
\* (checkRunStep): it is neither recorded nor reported.
Unimplemented(t, s) ==
    /\ runs[t][s] = "ready"
    /\ ~HasStep(t, s)
    /\ runs' = [runs EXCEPT ![t][s] = "done"]
    /\ UNCHANGED <<steps, executeSteps, failed>>

\* What the task error handler makes of the result of a step: it may ignore an
\* error, and make one up.
AfterHandler(t, err, fails) == fails = err \/ t \in Handled

\* The setup step of a provider sets its parent, ...
Provided(t, s) ==
    IF s = "setup" /\ t \in Provider
    THEN [steps EXCEPT ![t] = @ \cup ProvidedSteps]
    ELSE steps

\* The user code, with an error (err) or not, and the error handler have returned.
\* A setup without error is recorded; ... unless it fails before it comes to that.
End(t, s, fails) ==
    /\ runs[t][s] = "running"
    /\ runs' = [runs EXCEPT ![t][s] = "ended"]
    /\ failed' = IF fails THEN failed \cup {<<t, s>>} ELSE failed
    /\ executeSteps' = IF RecordedOnSuccess(s, fails) THEN Record(t, s) ELSE executeSteps
    /\ \E err \in BOOLEAN :
           /\ AfterHandler(t, err, fails)
           /\ steps' = Provided(t, s) \/ (err /\ steps' = steps)

\* onError was called with the result and the wait group released.
Report(t, s) ==
    /\ runs[t][s] = "ended"
    /\ runs' = [runs EXCEPT ![t][s] = "done"]
    /\ UNCHANGED <<steps, executeSteps, failed>>

-----------------------------------------------------------------------------
(* A wrapper on its own, with a sequential caller.                         *)

Quiet(t) == \A s \in Step : runs[t][s] \in {"none", "done"}

\* The caller asks for any step, once the step it asked for before is over.  A
\* step asked for a second time gets a goroutine, and a result, of its own.
Ask(t, s) ==
    /\ Quiet(t)
    /\ CheckStartStep(t, s)
    /\ failed' = IF MayStart(t, s) THEN failed \ {<<t, s>>} ELSE failed
    /\ UNCHANGED steps

WrapperInit ==
    /\ steps \in [Task -> StepSets]
    /\ executeSteps = [t \in Task |-> <<>>]
    /\ runs = [t \in Task |-> [s \in Step |-> "none"]]
    /\ failed = {}

WrapperNext ==
    \E t \in Task, s \in Step :
        \/ Ask(t, s)
        \/ Ready(t, s)
        \/ Begin(t, s)
        \/ Unimplemented(t, s)
        \/ \E fails \in BOOLEAN : End(t, s, fails)
        \/ Report(t, s)

WrapperSpec == WrapperInit /\ [][WrapperNext]_wrapperVars

-----------------------------------------------------------------------------
(* What the ledger promises to any sequential caller.                      *)

Rank == [s \in Step |->
            CASE s = "setup" -> 1 [] s = "start" -> 2
              [] s = "stop" -> 3 [] s = "teardown" -> 4]

\* Whatever the order in which the steps are asked for, those in the ledger are
\* in the order setup, start, stop, teardown, each at most once
\* (task_wrapper_test.go: invalid order and duplicate requests are refused).
LedgerInOrder ==
    \A t \in Task : \A i, j \in DOMAIN executeSteps[t] :
        i < j => Rank[executeSteps[t][i]] < Rank[executeSteps[t][j]]

\* No step that ran is run again, except a setup that failed: only a failed setup
\* leaves no trace in the ledger (task_wrapper.go:68-71 and 80-82).
NoRerun ==
    [][\A t \in Task, s \in Step :
         runs[t][s] = "done" /\ runs'[t][s] # "done" /\ HasStep(t, s)
            => s = "setup" /\ <<t, s>> \in failed]_wrapperVars

\* After a setup that failed, or that never came, the user code of no other
\* step of the task is called: stop and teardown undo only what was done.
NothingWithoutSetup ==
    \A t \in Task :
        (\E s \in Step \ {"setup"} : runs[t][s] \in {"running", "ended"})
            => \/ "setup" \notin steps[t]
               \/ runs[t]["setup"] = "done" /\ <<t, "setup">> \notin failed
=============================================================================
