---------------------------- MODULE InstanceTask ----------------------------
(***************************************************************************)
(* Tasks whose data is made by their setup step (instancetask/build.go),   *)
(* tasks that are then forwarded to that data (instancetask/provider.go),  *)
(* and tasks that decorate them (WithParent), under Manager.Run.           *)
(*                                                                         *)
(* The same task may be added more than once: its wrappers share the data, *)
(* the parent and the state of the build, which are separate atomics.      *)
(***************************************************************************)
EXTENDS Manager, BuildTask

CONSTANTS
    BuildTasks,  \* the tasks of AddTask that were made by BuildTask
    Builds,      \* the builds they may be
    Own,         \* Own[b]: the steps with a function
    Instance,    \* the builds made by instancetask.Build; the others decorate
    FromSetup,   \* the instances WithParentFromSetup, Provider among them
    Decorates,   \* Decorates[b]: the instance build b was given WithParent
    Results,     \* the steps of the tasks a setup function may return ...
    Faulty,      \* ... those of them with an initialization error
    NotTask,     \* ... or that what it returned is not a task
    None         \* a nil pointer

\* What AddTask takes has no init error: a decorator has no step its instance has
\* (manager.go:78).
ASSUME InstanceTaskAssumption ==
    /\ BuildTasks \subseteq Task \ Provider
    /\ FromSetup \subseteq Instance /\ Instance \subseteq Builds
    /\ Own \in [Builds -> SUBSET Step]
    /\ \A i \in Instance : "setup" \in Own[i]
    /\ Decorates \in [Builds \ Instance -> Instance]
    /\ \A b \in Builds \ Instance : Own[b] \cap Own[Decorates[b]] = {}
    /\ Results \subseteq SUBSET Step /\ Results \cap Builds = {} /\ Faulty \subseteq Results
    /\ NotTask \notin Results /\ None \notin Results \cup Builds \cup {NotTask}
    /\ None \notin [by: BuildTasks, task: Results \cup {NotTask}]

VARIABLES
    task,      \* task[t]: the field task of the wrapper of t
    parent,    \* parent[b]: the parent of a build
    stored,    \* stored[b]: the steps in its state
    data,      \* data[i]: the data of an instance, and the wrapper whose call made it
    at,        \* at[t]: where the setup step of t is inside runSetup
    made,      \* made[t]: what the setup function called by t returned
    called     \* called[t][s]: what became of the call of step s

buildVars == <<task, parent, stored, data, at, made, called>>
instanceVars == <<vars, buildVars>>

\* The steps a parent says it has.
StepsOf(p) == CASE p = None -> {} [] p \in Builds -> stored[p] [] OTHER -> p

InstanceInit ==
    /\ Init
    /\ task \in [BuildTasks -> Builds]
    /\ parent = [b \in Builds |-> IF b \in Instance THEN None ELSE Decorates[b]]
    /\ stored = [b \in Builds |-> IF b \in Instance THEN Own[b]
                                  ELSE BuildSteps(Own[b], Own[Decorates[b]])]
    /\ \A t \in BuildTasks : steps[t] = stored[task[t]]
    /\ data = [i \in Instance |-> None]
    /\ at = [t \in BuildTasks |-> "idle"]
    /\ made = [t \in BuildTasks |-> None]
    /\ called = [t \in BuildTasks |-> [s \in Step |-> "none"]]

-----------------------------------------------------------------------------
(* The call of a step.                                                     *)

\* A step function of an instance needs the data, but for the setup function.
RunOwn(b, s) ==
    IF b \in Instance /\ s # "setup" /\ data[b] = None THEN "ErrNotInitialized" ELSE "own"

RunInstance(i, s) == RunStep(Own[i], StepsOf(parent[i]), s, RunOwn(i, s), "parent")

\* A decorator forwards to the instance, an instance to the result of its setup.
Run(b, s) ==
    IF b \in Instance
    THEN RunInstance(b, s)
    ELSE RunStep(Own[b], StepsOf(parent[b]), s, RunOwn(b, s), RunInstance(parent[b], s))

Called == {"own", "parent"}

InstanceBegin(t, s) ==
    /\ GoBegin(t, s)
    /\ called' = IF t \in BuildTasks
                 THEN [called EXCEPT ![t][s] = Run(task[t], s)]
                 ELSE called
    /\ UNCHANGED <<task, parent, stored, data, at, made>>

\* The instance whose runSetup the setup step of t runs.
Target(t) == IF task[t] \in Instance THEN task[t] ELSE parent[task[t]]

\* Mutant: the data is not looked at.
NeverInitialized(i) == FALSE

Initialized(i) == data[i] # None

RunSetup(t) ==
    /\ runs[t]["setup"] = "running"
    /\ called[t]["setup"] = "own"
    /\ at[t] = "idle"
    /\ at' = [at EXCEPT ![t] = IF Initialized(Target(t)) THEN "failed" ELSE "calling"]
    /\ UNCHANGED <<vars, task, parent, stored, data, made, called>>

SetupFuncFails(t) ==
    /\ at[t] = "calling"
    /\ at' = [at EXCEPT ![t] = "failed"]
    /\ UNCHANGED <<vars, task, parent, stored, data, made, called>>

\* What is left of runSetup when the data is stored.
AfterData(i, r) ==
    CASE i \notin FromSetup -> "succeeded"
      [] r = NotTask        -> "failed"
      [] OTHER              -> "setParent"

\* The setup function has returned, and the data is stored, before it is known
\* whether it can be the parent.
StoreData(t, r) ==
    /\ at[t] = "calling"
    /\ made' = [made EXCEPT ![t] = r]
    /\ data' = [data EXCEPT ![Target(t)] = [by |-> t, task |-> r]]
    /\ at' = [at EXCEPT ![t] = AfterData(Target(t), r)]
    /\ UNCHANGED <<vars, task, parent, stored, called>>

\* SetParent stores the parent, ...
StoreParent(t) ==
    /\ at[t] = "setParent"
    /\ parent' = [parent EXCEPT ![Target(t)] = made[t]]
    /\ at' = [at EXCEPT ![t] = "init"]
    /\ UNCHANGED <<vars, task, stored, data, made, called>>

\* Mutant: the state is not computed again for the new parent.
StateKept(i) == stored[i]

\* ... and then computes the state from the parent it reads back.
NewState(i) == BuildSteps(Own[i], StepsOf(parent[i]))

ParentErrors(i) == IF parent[i] \in Faulty THEN {"InitError"} ELSE {}

StateErrors(i) == InitErrors(Own[i], {}, TRUE, StepsOf(parent[i]), ParentErrors(i))

\* The steps of every task that is this build change; those of decorators do not.
InitState(t) ==
    /\ at[t] = "init"
    /\ stored' = [stored EXCEPT ![Target(t)] = NewState(Target(t))]
    /\ steps' = [u \in Task |-> IF u \in BuildTasks THEN stored'[task[u]] ELSE steps[u]]
    /\ at' = [at EXCEPT ![t] = IF StateErrors(Target(t)) = {} THEN "succeeded" ELSE "failed"]
    /\ UNCHANGED <<executeSteps, runs, failed, mainVars, ctxVars, errVars, outVars,
                   task, parent, data, made, called>>

\* A step that was not called returns an error; a setup step what runSetup did.
StepReturns(t, s, err) ==
    /\ called[t][s] \notin Called => err
    /\ s = "setup" /\ called[t][s] = "own" => at[t] = IF err THEN "failed" ELSE "succeeded"

InstanceEnd(t, s, fails) ==
    /\ GoEnd(t, s, fails)
    /\ t \in BuildTasks =>
          \E err \in BOOLEAN : StepReturns(t, s, err) /\ AfterHandler(t, err, fails)
    /\ UNCHANGED buildVars

-----------------------------------------------------------------------------
Setup(t) ==
    \/ RunSetup(t)
    \/ SetupFuncFails(t)
    \/ \E r \in Results \cup {NotTask} : StoreData(t, r)
    \/ StoreParent(t)
    \/ InitState(t)

InstanceNext ==
    \/ (Enter \/ Main) /\ UNCHANGED buildVars
    \/ \E t \in Task, s \in Step :
           \/ (GoReady(t, s) \/ GoUnimplemented(t, s) \/ GoReport(t, s)) /\ UNCHANGED buildVars
           \/ InstanceBegin(t, s)
           \/ \E fails \in BOOLEAN : InstanceEnd(t, s, fails)
    \/ \E t \in BuildTasks : Setup(t)
    \/ (Callers \/ PropagateCtx \/ Expire \/ Terminated) /\ UNCHANGED buildVars

InstanceSpec == InstanceInit /\ [][InstanceNext]_instanceVars

-----------------------------------------------------------------------------
\* The task error handler has ignored that the setup step of t did not make the
\* instance ready, so that Run goes on as if it had.
Forgiven(t) ==
    /\ runs[t]["setup"] \in {"ended", "done"} /\ <<t, "setup">> \notin failed
    /\ at[t] # "succeeded"

\* build.go:153-169: a step Run calls is one that the build, or its parent, has a
\* function for, and data for, although the steps were read from the state long
\* before.  Only a decorator can find, when it is called, that its parent has
\* got the same step since; and a task whose setup error was ignored anything, as
\* can a later setup step of its instance.
StepsAreCallable ==
    \A t \in BuildTasks, s \in Step :
        \/ called[t][s] \in Called \cup {"none"}
        \/ /\ called[t][s] = "ErrDuplicateStep"
           /\ task[t] \notin Instance
           /\ s \notin Own[Decorates[task[t]]]
        \/ Forgiven(t)
        \/ s = "setup" /\ \E u \in BuildTasks : Target(u) = Target(t) /\ Forgiven(u)

\* instancetask/build.go:82-90: the data every step is given is that of one call
\* of the setup function, though the task was added to two stages and setup errors
\* are ignored; and no setup step succeeds but the one that made it, unless an
\* error handler ignores that it did not.
DataMadeOnce ==
    \A t \in BuildTasks :
        /\ made[t] # None => data[Target(t)] = [by |-> t, task |-> made[t]]
        /\ runs[t]["setup"] \in {"ended", "done"} /\ <<t, "setup">> \notin failed
               => made[t] # None \/ t \in Handled

\* build.go:178-185: parent and state are stored one after the other, but when a
\* step other than setup is asked for, the steps of an instance are its own and
\* those of its parent; also when a setup error was ignored, if there is data.
StateFollowsParent ==
    \A t \in BuildTasks :
        /\ \E s \in Step \ {"setup"} : Touched(t, s)
        /\ task[t] \in Instance
        /\ ~Forgiven(t) \/ made[t] # None
        => /\ \A u \in BuildTasks : Target(u) = Target(t) => at[u] # "init"
           /\ stored[task[t]] = Own[task[t]] \cup StepsOf(parent[task[t]])
=============================================================================
