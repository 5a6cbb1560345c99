------------------------- MODULE InstanceTaskProofs -------------------------
(***************************************************************************)
(* Proofs about tasks whose data is made by their setup step, for every    *)
(* set of tasks and builds, whatever the setup functions return.  A build  *)
(* gets steps from its parent while Run goes up; that this disturbs none   *)
(* of what is known of Run is proved first.  The stages then keep the      *)
(* setup steps of one instance apart, which the code relies on: the data,  *)
(* the parent and the state are written one after the other, unlocked.     *)
(***************************************************************************)
EXTENDS InstanceTask, ManagerProofs

USE WrapperAssumption, ManagerAssumption, InstanceTaskAssumption

-----------------------------------------------------------------------------
(* The state of the builds.                                                *)

Active == {"calling", "setParent", "init"}

Outcome == {"own", "parent", "ErrNotInitialized", "ErrDuplicateStep", "ErrInvalidTaskStep"}

BuildTypeOK ==
    /\ task \in [BuildTasks -> Builds]
    /\ parent \in [Builds -> Results \cup Instance \cup {None}]
    /\ stored \in [Builds -> SUBSET Step]
    /\ data \in [Instance -> [by: BuildTasks, task: Results \cup {NotTask}] \cup {None}]
    /\ at \in [BuildTasks -> Active \cup {"idle", "succeeded", "failed"}]
    /\ made \in [BuildTasks -> Results \cup {NotTask, None}]
    /\ called \in [BuildTasks -> [Step -> Outcome \cup {"none"}]]

\* What has a parent from the beginning keeps it, and its steps; what can get one
\* gets a task its setup function made, and keeps its own steps.
ParentsKept ==
    /\ \A i \in Instance : parent[i] \in Results \cup {None} /\ Own[i] \subseteq stored[i]
    /\ \A b \in Builds \ Instance :
           parent[b] = Decorates[b] /\ stored[b] = Own[b] \cup Own[Decorates[b]]

\* The steps of a task are those in the state of its build.
StepsStored == \A t \in BuildTasks : steps[t] = stored[task[t]]

\* Where runSetup is, and where the goroutine of the setup step.
SetupPhase(t) ==
    /\ at[t] # "idle" =>
          runs[t]["setup"] \in {"running", "ended", "done"} /\ called[t]["setup"] = "own"
    /\ at[t] \in Active => runs[t]["setup"] = "running"
    /\ at[t] \in {"idle", "calling"} => made[t] = None
    /\ at[t] \in {"setParent", "init"} => made[t] \in Results
    /\ at[t] = "succeeded" => made[t] # None

BuildInv ==
    /\ BuildTypeOK /\ ParentsKept /\ StepsStored
    /\ \A t \in BuildTasks : SetupPhase(t) /\ SetupTraced(t)

\* The setup steps of two tasks that share an instance are in different stages.
Apart ==
    \A t, u \in BuildTasks : t # u /\ Target(t) = Target(u) => StageOf[t] # StageOf[u]

\* The setup step of a task calls runSetup, or no function at all, and without an
\* error handler returns no error only if runSetup has succeeded.
SetupReturns(t) ==
    /\ runs[t]["setup"] \in {"running", "ended", "done"} => called[t]["setup"] # "parent"
    /\ runs[t]["setup"] \in {"ended", "done"} /\ <<t, "setup">> \notin failed =>
          at[t] = "succeeded" \/ t \in Handled

\* The setup function is called only while there is no data, and what it returned
\* is never replaced.
DataKept(t) ==
    /\ at[t] = "calling" => data[Target(t)] = None
    /\ made[t] # None => data[Target(t)] = [by |-> t, task |-> made[t]]

\* The steps an instance has got.
Given(i) == IF parent[i] = None THEN {} ELSE parent[i]

\* The state of an instance follows its parent, but for the moment between the two
\* writes; and its steps are not those of its parent, unless its setup failed.
StateComputed(i) ==
    /\ \/ stored[i] = Own[i] \cup Given(i)
       \/ \E t \in BuildTasks : Target(t) = i /\ at[t] = "init"
    /\ \/ Own[i] \cap Given(i) = {}
       \/ \E t \in BuildTasks :
              Target(t) = i /\ at[t] \in {"init", "failed"} /\ made[t] # None

\* The inductive invariant behind the data, the parent and the state.
MadeInv ==
    /\ Apart
    /\ \A t \in BuildTasks : SetupReturns(t) /\ DataKept(t)
    /\ \A i \in Instance : StateComputed(i)
    /\ StepsAreCallable

\* Every step is one of the manager, or computes the state of a build again.
LEMMA InstanceStepKinds ==
    ASSUME [InstanceNext]_instanceVars
    PROVE  (\E t \in BuildTasks : InitState(t)) \/ [Next]_vars
<1>1. ASSUME NEW t \in Task, NEW s \in Step,
             \/ GoReady(t, s) \/ GoUnimplemented(t, s) \/ GoReport(t, s)
             \/ InstanceBegin(t, s)
             \/ \E fails \in BOOLEAN : InstanceEnd(t, s, fails)
      PROVE  Next
  BY <1>1 DEF InstanceBegin, InstanceEnd, Next, Goroutine
<1>2. ASSUME NEW t \in BuildTasks, Setup(t) PROVE InitState(t) \/ UNCHANGED vars
  BY <1>2 DEF Setup, RunSetup, SetupFuncFails, StoreData, StoreParent
<1>3. CASE Enter \/ Main \/ Callers \/ PropagateCtx \/ Expire \/ Terminated
  BY <1>3 DEF Next
<1> QED BY <1>1, <1>2, <1>3 DEF InstanceNext, instanceVars

\* The steps a build says it has.
LEMMA StepsOfTyped ==
    ASSUME BuildTypeOK, ParentsKept, NEW i \in Instance
    PROVE  /\ StepsOf(parent[i]) = IF parent[i] = None THEN {} ELSE parent[i]
           /\ StepsOf(parent[i]) \in SUBSET Step
<1>1. parent[i] \in Results \cup {None} /\ None \notin Builds /\ Results \cap Builds = {}
  BY DEF ParentsKept, InstanceTaskAssumption
<1>2. Results \subseteq SUBSET Step
  BY DEF InstanceTaskAssumption
<1> QED BY <1>1, <1>2 DEF StepsOf

LEMMA TargetTyped ==
    ASSUME BuildTypeOK, ParentsKept, NEW t \in BuildTasks
    PROVE  Target(t) \in Instance /\ Target(t) \in Builds /\ task[t] \in Builds /\ t \in Task
BY DEF BuildTypeOK, ParentsKept, Target, InstanceTaskAssumption

\* Setup is among the steps of every build task.
LEMMA SetupStored ==
    ASSUME BuildTypeOK, ParentsKept, StepsStored, NEW t \in BuildTasks
    PROVE  HasStep(t, "setup")
<1>1. CASE task[t] \in Instance
  BY <1>1 DEF ParentsKept, StepsStored, HasStep, InstanceTaskAssumption
<1>2. CASE task[t] \notin Instance
  BY <1>2, TargetTyped DEF ParentsKept, StepsStored, HasStep, InstanceTaskAssumption
<1> QED BY <1>1, <1>2

-----------------------------------------------------------------------------
(* Run is not disturbed.                                                   *)

\* A build gets steps while the setup step of one of its tasks runs: Run then asks
\* for no teardown step, nor does any task lose its setup step.
LEMMA InitStateKeeps ==
    ASSUME TypeOK, RunInv, BuildInv, NEW t \in BuildTasks, InitState(t)
    PROVE  TypeOK' /\ RunInv' /\ BuildInv'
<1> DEFINE i == Target(t)
<1>1. /\ i \in Instance /\ i \in Builds /\ t \in Task /\ "setup" \in Step
      /\ runs[t]["setup"] = "running"
  BY TargetTyped DEF BuildInv, SetupPhase, InitState, Active, Step
<1>2. /\ stored' = [stored EXCEPT ![i] = Own[i] \cup StepsOf(parent[i])]
      /\ steps' = [u \in Task |-> IF u \in BuildTasks THEN stored'[task[u]] ELSE steps[u]]
      /\ at' = [at EXCEPT ![t] = IF StateErrors(i) = {} THEN "succeeded" ELSE "failed"]
      /\ UNCHANGED <<task, parent, data, made, called>>
  BY DEF InitState, NewState, BuildSteps
<1>3. Own[i] \in SUBSET Step /\ StepsOf(parent[i]) \in SUBSET Step
  BY <1>1, StepsOfTyped DEF BuildInv, InstanceTaskAssumption
<1>4. BuildTypeOK'
  BY <1>1, <1>2, <1>3 DEF BuildInv, BuildTypeOK
<1>5. ParentsKept'
  BY <1>1, <1>2, <1>3 DEF BuildInv, BuildTypeOK, ParentsKept
<1>6. StepsStored'
  BY <1>2 DEF StepsStored, InstanceTaskAssumption
<1>7. steps' \in [Task -> SUBSET Step]
  <2>1. \A u \in BuildTasks : stored'[task[u]] \in SUBSET Step
    BY <1>2, <1>4 DEF BuildTypeOK
  <2> QED BY <1>2, <2>1 DEF TypeOK, WrapperTypeOK
<1>8. \A u \in BuildTasks : "setup" \in steps'[u]
  <2> SUFFICES ASSUME NEW u \in BuildTasks PROVE "setup" \in steps'[u]
    OBVIOUS
  <2>1. task[u] \in Builds /\ "setup" \in stored[task[u]] /\ "setup" \in Own[i]
    BY <1>1, SetupStored, TargetTyped
       DEF BuildInv, StepsStored, HasStep, InstanceTaskAssumption
  <2> QED BY <1>1, <1>2, <2>1 DEF BuildInv, BuildTypeOK, InstanceTaskAssumption
<1>9. ASSUME NEW u \in Task, runs[u]["setup"] # "none" PROVE "setup" \in steps'[u]
  BY <1>2, <1>8, <1>9 DEF HasStep, RunInv, PairInv, SetupImplemented
<1>10. \A u \in Task : ~TeardownAsked(u)
  BY <1>1 DEF TeardownAsked, RunInv, EndInv, SetupsOver, PairInv, EndQuiet, RunOver, Doing
<1>11. UNCHANGED <<executeSteps, runs, failed, mainVars, ctxVars, errVars, outVars>>
  BY DEF InitState
<1>12. TypeOK' /\ RunInv'
  BY <1>7, <1>9, <1>10, <1>11, StepSetsMayChange
<1>13. ASSUME NEW u \in BuildTasks PROVE SetupPhase(u)' /\ SetupTraced(u)'
  <2>1. SetupTraced(u)'
    BY <1>8, <1>11 DEF BuildInv, SetupTraced, HasStep, StepIsDone, Touched
  <2>2. at[t] = "init"
    BY DEF InitState
  <2> QED BY <1>2, <1>11, <2>1, <2>2 DEF BuildInv, BuildTypeOK, SetupPhase, Active
<1> QED BY <1>4, <1>5, <1>6, <1>12, <1>13 DEF BuildInv

\* What a step outside of runSetup may do to the setup step of t.
SetupGoes(t) ==
    LET was == runs[t]["setup"]
        now == runs'[t]["setup"]
        SameCall == called'[t]["setup"] = called[t]["setup"]
        SameResult == <<t, "setup">> \in failed' <=> <<t, "setup">> \in failed
    IN  \/ now = was /\ SameCall /\ SameResult
        \/ was \in {"none", "spawned"} /\ now \in {"spawned", "ready"} /\ SameCall
        \/ was = "ready" /\ now = "running" /\ called'[t]["setup"] = Run(task[t], "setup")
        \/ /\ was = "running" /\ now = "ended" /\ SameCall
           /\ called[t]["setup"] = "own" => at[t] \in {"succeeded", "failed"}
           /\ <<t, "setup">> \notin failed' =>
                 at[t] = "succeeded" \/ called[t]["setup"] = "parent" \/ t \in Handled
        \/ was = "ended" /\ now = "done" /\ SameCall /\ SameResult

\* The step of a goroutine that is not a setup step of a build task, or that is no
\* call and no return.
LEMMA GoSetupGoes ==
    ASSUME TypeOK, BuildInv, NEW t \in BuildTasks, NEW u \in Task, NEW s \in Step,
           GoReady(u, s) \/ GoUnimplemented(u, s) \/ GoReport(u, s), UNCHANGED buildVars
    PROVE  SetupGoes(t)
<1> "setup" \in Step /\ t \in Task
  BY TargetTyped DEF BuildInv, Step
<1>1. HasStep(t, "setup")
  BY SetupStored DEF BuildInv
<1>2. Ready(u, s) \/ Unimplemented(u, s) \/ Report(u, s)
  BY DEF GoReady, GoUnimplemented, GoReport
<1>3. PICK v \in {"ready", "done"} :
         /\ runs' = [runs EXCEPT ![u][s] = v]
         /\ failed' = failed
         /\ v = "ready" => runs[u][s] = "spawned"
         /\ v = "done" => runs[u][s] = "ended" \/ ~HasStep(u, s)
  BY <1>2 DEF Ready, Unimplemented, Report
<1>4. runs'[t]["setup"] = IF t = u /\ s = "setup" THEN v ELSE runs[t]["setup"]
  BY <1>3, MoveGoroutine DEF TypeOK, WrapperTypeOK, RunState
<1>5. called' = called
  BY DEF buildVars
<1> QED BY <1>1, <1>3, <1>4, <1>5 DEF SetupGoes

LEMMA RunTyped ==
    ASSUME NEW b, NEW s
    PROVE  Run(b, s) \in Outcome
<1>1. RunOwn(b, s) \in Outcome
  BY DEF RunOwn, Outcome
<1>2. \A i : RunInstance(i, s) \in Outcome
  BY DEF RunInstance, RunStep, RunOwn, Outcome
<1> QED BY <1>1, <1>2 DEF Run, RunStep, Outcome

\* A step outside of runSetup is one of the manager, and stores nothing.
LEMMA OutsideSetup ==
    ASSUME TypeOK, RunInv, BuildInv, [InstanceNext]_instanceVars,
           ~ \E u \in BuildTasks : Setup(u)
    PROVE  /\ [Next]_vars /\ UNCHANGED <<task, parent, stored, data, at, made>>
           /\ \A t \in BuildTasks : SetupGoes(t)
           /\ \A t \in BuildTasks, s \in Step :
                 \/ called'[t][s] = called[t][s]
                 \/ runs[t][s] = "ready" /\ HasStep(t, s) /\ called'[t][s] = Run(task[t], s)
           /\ BuildTypeOK'
<1> "setup" \in Step /\ BuildTasks \subseteq Task
  BY DEF Step, InstanceTaskAssumption
<1> DEFINE Stored == UNCHANGED <<task, parent, stored, data, at, made>>
           Goes == \A t \in BuildTasks : SetupGoes(t)
           CallMoves(t, s) ==
              \/ called'[t][s] = called[t][s]
              \/ runs[t][s] = "ready" /\ HasStep(t, s) /\ called'[t][s] = Run(task[t], s)
           Moved ==
              /\ Stored /\ Goes /\ BuildTypeOK'
              /\ \A t \in BuildTasks, s \in Step : CallMoves(t, s)
<1>1. ASSUME UNCHANGED buildVars PROVE Stored /\ BuildTypeOK' /\ called' = called
  BY <1>1 DEF buildVars, BuildInv, BuildTypeOK
<1>2. ASSUME WrapperUntouched, UNCHANGED buildVars PROVE Moved
  BY <1>1, <1>2, WrapperUnchanged DEF SetupGoes
<1>3. ASSUME NEW u \in Task, CheckTask(u), UNCHANGED buildVars PROVE Moved
  <2>1. ASSUME NEW t \in BuildTasks PROVE SetupGoes(t)
    <3>1. failed' = failed
      BY <1>3, CheckKeeps DEF RunInv
    <3>2. \/ runs'[t]["setup"] = runs[t]["setup"]
          \/ runs[t]["setup"] = "none" /\ runs'[t]["setup"] \in {"none", "spawned"}
      BY <1>3, CheckKeeps, CheckLedger DEF RunInv
    <3> QED BY <1>1, <1>3, <3>1, <3>2 DEF SetupGoes
  <2> QED BY <1>1, <1>3, <2>1
<1>4. ASSUME NEW u \in Task, NEW s \in Step, UNCHANGED buildVars,
             GoReady(u, s) \/ GoUnimplemented(u, s) \/ GoReport(u, s)
      PROVE  Moved
  BY <1>1, <1>4, GoSetupGoes
<1>5. ASSUME NEW u \in Task, NEW s \in Step, InstanceBegin(u, s) PROVE Moved
  <2>1. /\ runs[u][s] = "ready" /\ HasStep(u, s) /\ failed' = failed
        /\ runs' = [runs EXCEPT ![u][s] = "running"]
        /\ Stored
        /\ called' = IF u \in BuildTasks
                     THEN [called EXCEPT ![u][s] = Run(task[u], s)]
                     ELSE called
    BY <1>5 DEF InstanceBegin, GoBegin, Begin
  <2>2. called \in [BuildTasks -> [Step -> Outcome \cup {"none"}]]
    BY DEF BuildInv, BuildTypeOK
  <2>3. /\ called' \in [BuildTasks -> [Step -> Outcome \cup {"none"}]]
        /\ \A t \in BuildTasks, x \in Step :
              called'[t][x] = IF t = u /\ x = s THEN Run(task[t], x) ELSE called[t][x]
    <3>1. CASE u \in BuildTasks
      <4> DEFINE r == Run(task[u], s)
      <4>1. r \in Outcome /\ called' = [called EXCEPT ![u][s] = r]
        BY <2>1, <3>1, RunTyped
      <4> HIDE DEF r
      <4>2. /\ called' \in [BuildTasks -> [Step -> Outcome \cup {"none"}]]
            /\ \A t \in BuildTasks, x \in Step :
                  called'[t][x] = IF t = u /\ x = s THEN r ELSE called[t][x]
        BY <2>2, <3>1, <4>1
      <4> QED BY <4>2 DEF r
    <3>2. CASE u \notin BuildTasks
      BY <2>1, <2>2, <3>2
    <3> QED BY <3>1, <3>2
  <2>4. ASSUME NEW t \in BuildTasks PROVE SetupGoes(t)
    <3>1. runs'[t]["setup"] = IF t = u /\ s = "setup" THEN "running" ELSE runs[t]["setup"]
      BY <2>1, MoveGoroutine DEF TypeOK, WrapperTypeOK, RunState
    <3> QED BY <2>1, <2>3, <3>1 DEF SetupGoes
  <2>5. BuildTypeOK'
    BY <2>1, <2>3 DEF BuildInv, BuildTypeOK
  <2>6. ASSUME NEW t \in BuildTasks, NEW x \in Step PROVE CallMoves(t, x)
    BY <2>1, <2>3
  <2> QED BY <2>1, <2>4, <2>5, <2>6
<1>6. ASSUME NEW u \in Task, NEW s \in Step, NEW fails \in BOOLEAN, InstanceEnd(u, s, fails)
      PROVE  Moved
  <2>1. /\ runs[u][s] = "running" /\ runs' = [runs EXCEPT ![u][s] = "ended"]
        /\ failed' = IF fails THEN failed \cup {<<u, s>>} ELSE failed
        /\ UNCHANGED buildVars
        /\ u \in BuildTasks /\ s = "setup" =>
              /\ called[u][s] = "own" => at[u] \in {"succeeded", "failed"}
              /\ ~fails => at[u] = "succeeded" \/ called[u][s] = "parent" \/ u \in Handled
    BY <1>6 DEF InstanceEnd, GoEnd, End, StepReturns, AfterHandler, Called
  <2>2. ASSUME NEW t \in BuildTasks PROVE SetupGoes(t)
    <3>1. runs'[t]["setup"] = IF t = u /\ s = "setup" THEN "ended" ELSE runs[t]["setup"]
      BY <2>1, MoveGoroutine DEF TypeOK, WrapperTypeOK, RunState
    <3>2. runs[t]["setup"] = "running" => <<t, "setup">> \notin failed
      BY DEF RunInv, PairInv, SetupTold
    <3> QED BY <1>1, <2>1, <3>1, <3>2 DEF SetupGoes
  <2> QED BY <1>1, <2>1, <2>2
<1>7. CASE UNCHANGED instanceVars
  BY <1>2, <1>7 DEF instanceVars, WrapperUntouched
<1>8. ASSUME (Enter \/ Main \/ Callers \/ PropagateCtx \/ Expire \/ Terminated),
             UNCHANGED buildVars
      PROVE  Moved
  BY <1>2, <1>3, <1>8 DEF Main, RunStages, WrapperUntouched
<1>9. Moved
  BY <1>4, <1>5, <1>6, <1>7, <1>8 DEF InstanceNext
<1>10. [Next]_vars
  BY InstanceStepKinds DEF Setup
<1> QED BY <1>9, <1>10

\* The steps outside of runSetup keep what is known of the builds, ...
LEMMA OutsideKeeps ==
    ASSUME TypeOK, RunInv, BuildInv, [InstanceNext]_instanceVars,
           ~ \E u \in BuildTasks : Setup(u)
    PROVE  BuildInv'
<1> "setup" \in Step /\ BuildTasks \subseteq Task \ Provider
  BY DEF Step, InstanceTaskAssumption
<1>1. /\ [Next]_vars /\ UNCHANGED <<task, parent, stored, data, at, made>>
      /\ \A t \in BuildTasks : SetupGoes(t)
      /\ BuildTypeOK'
  BY OutsideSetup
<1>2. ParentsKept'
  BY <1>1 DEF BuildInv, ParentsKept
<1>3. \A t \in BuildTasks : steps'[t] = steps[t]
  BY <1>1, TaskMoves DEF RunInv, TaskMoved
<1>4. StepsStored'
  BY <1>1, <1>3 DEF BuildInv, StepsStored
<1>5. ASSUME NEW t \in BuildTasks PROVE SetupPhase(t)' /\ SetupTraced(t)'
  <2>1. SetupTraced(t)'
    BY <1>1, SetupNotPassedOver DEF BuildInv, RunInv
  <2>2. SetupPhase(t) /\ SetupGoes(t) /\ at' = at /\ made' = made
    BY <1>1 DEF BuildInv
  <2>3. runs[t]["setup"] = "running" /\ runs'[t]["setup"] = "ended" => at[t] \notin Active
    BY <2>2 DEF SetupPhase, SetupGoes, Active
  <2> QED BY <2>1, <2>2, <2>3 DEF SetupPhase, SetupGoes
<1> QED BY <1>1, <1>2, <1>4, <1>5 DEF BuildInv

\* ... and so do those of runSetup that leave the steps of every task alone.
LEMMA InsideKeeps ==
    ASSUME BuildInv, NEW t \in BuildTasks, Setup(t), ~InitState(t)
    PROVE  UNCHANGED vars /\ BuildInv'
<1>1. /\ Target(t) \in Instance /\ None \notin Results \cup {NotTask} /\ NotTask \notin Results
      /\ t \in BuildTasks
  BY TargetTyped DEF BuildInv, InstanceTaskAssumption
<1>2. UNCHANGED <<vars, task, stored, called>>
  BY DEF Setup, RunSetup, SetupFuncFails, StoreData, StoreParent
<1>3. StepsStored' /\ \A u \in BuildTasks : SetupTraced(u)'
  BY <1>2 DEF BuildInv, StepsStored, SetupTraced, HasStep, StepIsDone, Touched, vars,
     wrapperVars
<1>4. CASE RunSetup(t) \/ SetupFuncFails(t)
  <2>1. PICK a \in {"calling", "failed"} :
           /\ at' = [at EXCEPT ![t] = a] /\ UNCHANGED <<parent, data, made>>
           /\ runs[t]["setup"] = "running" /\ called[t]["setup"] = "own"
           /\ made[t] = None
    BY <1>4 DEF RunSetup, SetupFuncFails, BuildInv, SetupPhase, Active
  <2>2. BuildTypeOK' /\ ParentsKept'
    BY <1>2, <2>1 DEF BuildInv, BuildTypeOK, ParentsKept, Active
  <2>3. ASSUME NEW u \in BuildTasks PROVE SetupPhase(u)'
    BY <1>2, <2>1 DEF BuildInv, BuildTypeOK, SetupPhase, Active, vars, wrapperVars
  <2> QED BY <1>2, <1>3, <2>2, <2>3 DEF BuildInv
<1>5. CASE \E r \in Results \cup {NotTask} : StoreData(t, r)
  <2>1. PICK r \in Results \cup {NotTask} : StoreData(t, r)
    BY <1>5
  <2>2. /\ at[t] = "calling" /\ made' = [made EXCEPT ![t] = r]
        /\ data' = [data EXCEPT ![Target(t)] = [by |-> t, task |-> r]]
        /\ at' = [at EXCEPT ![t] = AfterData(Target(t), r)]
        /\ parent' = parent
    BY <2>1 DEF StoreData
  <2>3. AfterData(Target(t), r) \in {"succeeded", "failed", "setParent"}
    BY DEF AfterData
  <2>4. AfterData(Target(t), r) = "setParent" => r \in Results
    BY DEF AfterData
  <2>5. BuildTypeOK' /\ ParentsKept'
    BY <1>1, <1>2, <2>2, <2>3 DEF BuildInv, BuildTypeOK, ParentsKept, Active
  <2>6. ASSUME NEW u \in BuildTasks PROVE SetupPhase(u)'
    BY <1>1, <1>2, <2>2, <2>3, <2>4
       DEF BuildInv, BuildTypeOK, SetupPhase, Active, vars, wrapperVars
  <2> QED BY <1>2, <1>3, <2>5, <2>6 DEF BuildInv
<1>6. CASE StoreParent(t)
  <2>1. /\ at[t] = "setParent" /\ parent' = [parent EXCEPT ![Target(t)] = made[t]]
        /\ at' = [at EXCEPT ![t] = "init"] /\ UNCHANGED <<data, made>>
    BY <1>6 DEF StoreParent
  <2>2. made[t] \in Results
    BY <2>1 DEF BuildInv, SetupPhase
  <2>3. BuildTypeOK' /\ ParentsKept'
    BY <1>1, <1>2, <2>1, <2>2
       DEF BuildInv, BuildTypeOK, ParentsKept, Active, InstanceTaskAssumption
  <2>4. ASSUME NEW u \in BuildTasks PROVE SetupPhase(u)'
    BY <1>1, <1>2, <2>1, <2>2 DEF BuildInv, BuildTypeOK, SetupPhase, Active, vars, wrapperVars
  <2> QED BY <1>2, <1>3, <2>3, <2>4 DEF BuildInv
<1> QED BY <1>4, <1>5, <1>6 DEF Setup

LEMMA BuildInvStep ==
    ASSUME TypeOK, RunInv, BuildInv, [InstanceNext]_instanceVars
    PROVE  TypeOK' /\ RunInv' /\ BuildInv'
<1>1. ASSUME [Next]_vars PROVE TypeOK' /\ RunInv'
  BY <1>1, WrapperTypeKept, MainTypeKept, RunInvStep DEF TypeOK
<1>2. CASE \E t \in BuildTasks : InitState(t)
  BY <1>2, InitStateKeeps
<1>3. CASE \E t \in BuildTasks : Setup(t) /\ ~InitState(t)
  BY <1>1, <1>3, InsideKeeps
<1>4. CASE ~ \E t \in BuildTasks : Setup(t)
  BY <1>1, <1>4, OutsideSetup, OutsideKeeps
<1> QED BY <1>2, <1>3, <1>4 DEF Setup

LEMMA BuildInvAtFirst ==
    ASSUME InstanceInit
    PROVE  TypeOK /\ RunInv /\ BuildInv
<1>1. TypeOK /\ RunInv
  BY InitTyped, RunInvAtFirst DEF InstanceInit
<1>2. BuildTypeOK
  <2>1. called \in [BuildTasks -> [Step -> Outcome \cup {"none"}]]
    BY DEF InstanceInit
  <2>2. /\ stored \in [Builds -> SUBSET Step]
        /\ parent \in [Builds -> Results \cup Instance \cup {None}]
    BY DEF InstanceInit, InstanceTaskAssumption, BuildSteps
  <2> QED BY <2>1, <2>2 DEF InstanceInit, BuildTypeOK
<1>3. ParentsKept /\ StepsStored
  BY DEF InstanceInit, StepsStored, ParentsKept, InstanceTaskAssumption, BuildSteps
<1>4. ASSUME NEW t \in BuildTasks PROVE SetupPhase(t) /\ SetupTraced(t)
  <2>1. t \in Task /\ HasStep(t, "setup") /\ at[t] = "idle" /\ made[t] = None
    BY <1>2, <1>3, SetupStored DEF InstanceInit, InstanceTaskAssumption
  <2>2. ~StepIsDone(t, "setup")
    BY <2>1 DEF InstanceInit, Init, WrapperInit, StepIsDone, InLedger
  <2> QED BY <2>1, <2>2 DEF SetupPhase, SetupTraced, Active
<1> QED BY <1>1, <1>2, <1>3, <1>4 DEF BuildInv

LEMMA BuildsTyped == InstanceSpec => [](TypeOK /\ RunInv /\ BuildInv)
BY BuildInvAtFirst, BuildInvStep, PTL DEF InstanceSpec

\* The barriers between the stages, the order in which they are stopped, and the
\* pairing of setup and teardown are those of a manager whose tasks keep the steps
\* they were added with.
THEOREM BuildsDisturbNothing ==
    InstanceSpec => [](/\ TypeOK /\ NoOrderError /\ SetupBarrier /\ StartBarrier
                       /\ StopOrder /\ TeardownLast /\ TeardownPaired /\ SkippedNeverRan
                       /\ AbandonedIsReported /\ StopErrorsKept)
<1>1. TypeOK /\ RunInv => /\ TypeOK /\ NoOrderError /\ SetupBarrier /\ StartBarrier
                         /\ StopOrder /\ TeardownLast /\ TeardownPaired /\ SkippedNeverRan
                         /\ AbandonedIsReported /\ StopErrorsKept
  BY PairTells, EndTells DEF RunInv, OrderInv, UpInv, DownInv
<1> QED BY <1>1, BuildsTyped, PTL

-----------------------------------------------------------------------------
(* What the setup steps of one instance leave to the other steps.          *)

LEMMA TargetKept ==
    ASSUME BuildTypeOK, ParentsKept, ParentsKept', task' = task, NEW t \in BuildTasks
    PROVE  Target(t)' = Target(t)
BY DEF BuildTypeOK, ParentsKept, Target

\* While the setup step of a task is under way, that of another task of the same
\* instance is over, with an error only if a handler ignored that, or has not come
\* to runSetup.
LEMMA OneAtOnce ==
    ASSUME TypeOK, RunInv, BuildInv, MadeInv, NEW t \in BuildTasks, NEW u \in BuildTasks,
           t # u, Target(t) = Target(u), runs[t]["setup"] \in {"spawned", "ready", "running"}
    PROVE  at[u] \in {"idle", "succeeded"} \/ (at[u] = "failed" /\ Forgiven(u))
<1> t \in Task /\ u \in Task /\ StageOf \in [Task -> 1..NStages]
  BY DEF InstanceTaskAssumption, ManagerAssumption
<1>1. SUFFICES ASSUME at[u] # "idle"
               PROVE  at[u] = "succeeded" \/ (at[u] = "failed" /\ Forgiven(u))
  OBVIOUS
<1>2. runs[u]["setup"] \in {"running", "ended", "done"}
  BY <1>1 DEF BuildInv, SetupPhase
<1>3. StageOf[t] < StageOf[u] \/ StageOf[u] < StageOf[t]
  BY DEF MadeInv, Apart, ManagerAssumption
<1>4. ~(StageOf[t] < StageOf[u])
  BY <1>2 DEF RunInv, UpInv, SetupBarrier, Touched, RunOver
<1>5. RunOver(u, "setup") /\ <<u, "setup">> \notin failed
  BY <1>3, <1>4 DEF RunInv, UpInv, SetupBarrier, Touched
<1>6. at[u] \in {"succeeded", "failed"}
  BY <1>1, <1>2, <1>5 DEF BuildInv, BuildTypeOK, SetupPhase, RunOver, Active
<1> QED BY <1>2, <1>5, <1>6 DEF RunOver, Forgiven

\* A setup step that has made the data leaves a state that fits the parent, and no
\* duplicate steps if it has succeeded.
LEMMA SetupLeaves ==
    ASSUME BuildInv, MadeInv, NEW t \in BuildTasks, made[t] # None, at[t] # "init"
    PROVE  /\ data[Target(t)] # None
           /\ stored[Target(t)] = Own[Target(t)] \cup Given(Target(t))
           /\ at[t] = "succeeded" => Own[Target(t)] \cap Given(Target(t)) = {}
           /\ \A u \in BuildTasks : Target(u) = Target(t) => at[u] # "init"
<1> DEFINE i == Target(t)
<1>1. i \in Instance /\ StateComputed(i)
  BY TargetTyped DEF BuildInv, MadeInv
<1>2. made[t] # None /\ data[i] = [by |-> t, task |-> made[t]]
  BY DEF MadeInv, DataKept
<1>3. data[i] # None
  <2>1. made[t] \in Results \cup {NotTask}
    BY <1>2 DEF BuildInv, BuildTypeOK
  <2> QED BY <1>2, <2>1 DEF InstanceTaskAssumption
<1>4. ASSUME NEW u \in BuildTasks, Target(u) = i, made[u] # None PROVE u = t
  <2>1. data[i] = [by |-> u, task |-> made[u]]
    BY <1>4 DEF MadeInv, DataKept
  <2>2. data[i].by = u /\ data[i].by = t
    BY <1>2, <2>1
  <2> QED BY <2>2
<1>5. ASSUME NEW u \in BuildTasks, at[u] = "init" PROVE made[u] # None
  BY <1>5 DEF BuildInv, SetupPhase, InstanceTaskAssumption
<1>6. \A u \in BuildTasks : Target(u) = i => at[u] # "init"
  BY <1>4, <1>5
<1>7. at[t] = "succeeded" =>
         ~ \E u \in BuildTasks : Target(u) = i /\ at[u] \in {"init", "failed"} /\ made[u] # None
  BY <1>4
<1> QED BY <1>1, <1>3, <1>6, <1>7 DEF StateComputed

\* No step of a task is asked for before its setup step has succeeded, or seemed to.
LEMMA SetUpFirst ==
    ASSUME TypeOK, RunInv, BuildInv, MadeInv, NEW t \in BuildTasks,
           NEW s \in Step \ {"setup"}, Touched(t, s)
    PROVE  \/ at[t] = "succeeded" /\ made[t] # None
           \/ Forgiven(t) /\ at[t] # "init"
<1> t \in Task /\ "setup" \in Step
  BY DEF InstanceTaskAssumption, Step
<1>1. StepIsDone(t, "setup")
  BY DEF RunInv, AfterSetup, Touched
<1>2. Touched(t, "setup")
  BY <1>1 DEF BuildInv, SetupTraced
<1>3. runs[t]["setup"] \in {"ended", "done"}
  <2>1. runs[t]["setup"] \in RunState
    BY DEF TypeOK, WrapperTypeOK
  <2>2. runs[t]["setup"] \notin {"spawned", "ready", "running"}
    BY <1>1 DEF RunInv, PairInv, SetupTold
  <2> QED BY <1>2, <2>1, <2>2 DEF Touched, RunState
<1>4. <<t, "setup">> \notin failed
  BY <1>1, <1>3 DEF RunInv, PairInv, SetupTold
<1>5. at[t] # "init" /\ (at[t] = "succeeded" => made[t] # None)
  BY <1>3 DEF BuildInv, SetupPhase, Active
<1> QED BY <1>3, <1>4, <1>5 DEF Forgiven

\* The setup step of a task calls the function of the instance, unless the error of
\* an earlier one was ignored.
LEMMA SetupIsOwn ==
    ASSUME TypeOK, RunInv, BuildInv, MadeInv, NEW t \in BuildTasks,
           runs[t]["setup"] = "ready"
    PROVE  /\ Run(task[t], "setup") # "parent"
           /\ \/ Run(task[t], "setup") = "own"
              \/ \E u \in BuildTasks : Target(u) = Target(t) /\ Forgiven(u)
<1> DEFINE i == Target(t)
           Ignored == \E u \in BuildTasks : Target(u) = i /\ Forgiven(u)
<1>1. /\ i \in Instance /\ task[t] \in Builds /\ "setup" \in Own[i]
      /\ StepsOf(parent[i]) = Given(i)
  BY TargetTyped, StepsOfTyped DEF BuildInv, Given, InstanceTaskAssumption
<1>2. at[t] = "idle"
  BY DEF BuildInv, SetupPhase
<1>3. "setup" \notin Given(i) \/ Ignored
  <2> SUFFICES ASSUME NEW u \in BuildTasks, Target(u) = i, at[u] \in {"init", "failed"}
      PROVE  Forgiven(u)
    BY <1>1 DEF MadeInv, StateComputed
  <2> QED BY <1>2, OneAtOnce
<1>4. RunInstance(i, "setup") # "parent" /\ (RunInstance(i, "setup") = "own" \/ Ignored)
  BY <1>1, <1>3 DEF RunInstance, RunStep, RunOwn
<1>5. CASE task[t] \in Instance
  BY <1>4, <1>5 DEF Run, Target
<1>6. CASE task[t] \notin Instance
  <2> DEFINE b == task[t]
  <2>1. parent[b] = i /\ i = Decorates[b] /\ i \in Builds /\ i # None
    BY <1>1, <1>6 DEF Target, BuildInv, ParentsKept, InstanceTaskAssumption
  <2>2. "setup" \notin Own[b]
    BY <1>1, <1>6, <2>1 DEF InstanceTaskAssumption
  <2>3. StepsOf(parent[b]) = stored[i] /\ "setup" \in stored[i]
    BY <1>1, <2>1 DEF StepsOf, BuildInv, ParentsKept
  <2> QED BY <1>4, <1>6, <2>1, <2>2, <2>3 DEF Run, RunStep
<1> QED BY <1>5, <1>6

\* A step a task said it has is one Run can call, or that its decorator gave it, or
\* one that only an ignored setup error let it come to.
LEMMA RunIsCallable ==
    ASSUME TypeOK, RunInv, BuildInv, MadeInv, NEW t \in BuildTasks, NEW s \in Step,
           runs[t][s] = "ready", HasStep(t, s)
    PROVE  \/ Run(task[t], s) \in Called
           \/ /\ Run(task[t], s) = "ErrDuplicateStep"
              /\ task[t] \notin Instance
              /\ s \notin Own[Decorates[task[t]]]
           \/ Forgiven(t)
           \/ s = "setup" /\ \E u \in BuildTasks : Target(u) = Target(t) /\ Forgiven(u)
<1>1. CASE s = "setup"
  BY <1>1, SetupIsOwn DEF Called
<1>2. CASE s # "setup"
  <2> DEFINE i == Target(t)
  <2>1. /\ i \in Instance /\ task[t] \in Builds /\ StepsOf(parent[i]) = Given(i)
    BY TargetTyped, StepsOfTyped DEF BuildInv, Given
  <2> SUFFICES ASSUME ~Forgiven(t)
      PROVE  \/ Run(task[t], s) \in Called
             \/ /\ Run(task[t], s) = "ErrDuplicateStep"
                /\ task[t] \notin Instance
                /\ s \notin Own[Decorates[task[t]]]
    OBVIOUS
  <2>2. at[t] = "succeeded" /\ made[t] # None
    BY <1>2, SetUpFirst DEF Touched
  <2>3. /\ data[i] # None /\ stored[i] = Own[i] \cup Given(i)
        /\ Own[i] \cap Given(i) = {}
    BY <2>2, SetupLeaves
  <2>4. s \in stored[task[t]]
    BY DEF HasStep, BuildInv, StepsStored
  <2>5. /\ s \in Own[i] => RunInstance(i, s) = "own"
        /\ s \in Given(i) => RunInstance(i, s) = "parent"
    BY <2>1, <2>3 DEF RunInstance, RunStep, RunOwn
  <2>6. CASE task[t] \in Instance
    BY <2>3, <2>4, <2>5, <2>6 DEF Run, Target, Called
  <2>7. CASE task[t] \notin Instance
    <3> DEFINE b == task[t]
    <3>1. parent[b] = i /\ i = Decorates[b] /\ i \in Builds /\ i # None
      BY <2>1, <2>7 DEF Target, BuildInv, ParentsKept, InstanceTaskAssumption
    <3>2. stored[b] = Own[b] \cup Own[i] /\ Own[b] \cap Own[i] = {}
      BY <2>1, <2>7, <3>1 DEF BuildInv, ParentsKept, InstanceTaskAssumption
    <3>3. StepsOf(parent[b]) = stored[i]
      BY <2>1, <3>1 DEF StepsOf
    <3>4. RunOwn(b, s) = "own"
      BY <2>7 DEF RunOwn
    <3>5. Run(b, s) = RunStep(Own[b], stored[i], s, "own", RunInstance(i, s))
      BY <2>7, <3>1, <3>3, <3>4 DEF Run
    <3> QED BY <2>3, <2>4, <2>5, <2>7, <3>1, <3>2, <3>5 DEF RunStep, Called
  <2> QED BY <2>6, <2>7
<1> QED BY <1>1, <1>2

-----------------------------------------------------------------------------
(* The steps keep it.                                                      *)

LEMMA OutsideKeepsMade ==
    ASSUME TypeOK, RunInv, BuildInv, MadeInv, BuildInv', [InstanceNext]_instanceVars,
           ~ \E u \in BuildTasks : Setup(u)
    PROVE  MadeInv'
<1> BuildTasks \subseteq Task /\ "setup" \in Step
  BY DEF InstanceTaskAssumption, Step
<1>1. /\ UNCHANGED <<task, parent, stored, data, at, made>>
      /\ \A t \in BuildTasks : SetupGoes(t)
      /\ \A t \in BuildTasks, s \in Step :
            \/ called'[t][s] = called[t][s]
            \/ runs[t][s] = "ready" /\ HasStep(t, s) /\ called'[t][s] = Run(task[t], s)
  BY OutsideSetup
<1>2. \A t \in BuildTasks : Target(t)' = Target(t)
  BY <1>1, TargetKept DEF BuildInv
<1>3. Apart' /\ \A t \in BuildTasks : DataKept(t)'
  BY <1>1, <1>2 DEF MadeInv, Apart, DataKept
<1>4. ASSUME NEW i \in Instance PROVE StateComputed(i)'
  BY <1>1, <1>2 DEF MadeInv, StateComputed, Given
<1>5. ASSUME NEW t \in BuildTasks PROVE SetupReturns(t)'
  <2>1. SetupReturns(t) /\ SetupGoes(t) /\ at' = at
    BY <1>1 DEF MadeInv
  <2>2. runs[t]["setup"] = "ready" => Run(task[t], "setup") # "parent"
    BY SetupIsOwn
  <2> QED BY <2>1, <2>2 DEF SetupReturns, SetupGoes
<1>6. StepsAreCallable'
  <2> DEFINE Ignored(t) == \E u \in BuildTasks : Target(u) = Target(t) /\ Forgiven(u)
  <2>1. \A t \in BuildTasks : Forgiven(t) => Forgiven(t)'
    BY <1>1 DEF Forgiven, SetupGoes
  <2>2. \A t \in BuildTasks : Ignored(t) => Ignored(t)'
    BY <1>2, <2>1
  <2> SUFFICES ASSUME NEW t \in BuildTasks, NEW s \in Step,
                      called'[t][s] \notin Called \cup {"none"}
               PROVE  \/ /\ called'[t][s] = "ErrDuplicateStep"
                         /\ task[t] \notin Instance
                         /\ s \notin Own[Decorates[task[t]]]
                      \/ Forgiven(t)
                      \/ s = "setup" /\ Ignored(t)
    BY <1>1, <2>1, <2>2 DEF StepsAreCallable
  <2>3. CASE called'[t][s] = called[t][s]
    BY <2>3 DEF MadeInv, StepsAreCallable
  <2>4. CASE runs[t][s] = "ready" /\ HasStep(t, s) /\ called'[t][s] = Run(task[t], s)
    BY <2>4, RunIsCallable
  <2> QED BY <1>1, <2>3, <2>4
<1> QED BY <1>3, <1>4, <1>5, <1>6 DEF MadeInv

\* What every step of runSetup leaves alone.
LEMMA InsideLeaves ==
    ASSUME BuildInv, BuildInv', MadeInv, NEW t \in BuildTasks, Setup(t)
    PROVE  /\ task' = task /\ \A u \in BuildTasks : Target(u)' = Target(u)
           /\ runs[t]["setup"] = "running"
           /\ \A u \in BuildTasks : u # t => at'[u] = at[u]
           /\ Apart' /\ StepsAreCallable'
           /\ \A u \in BuildTasks : SetupReturns(u)'
<1>1. /\ UNCHANGED <<task, runs, failed, called>> /\ runs[t]["setup"] = "running"
      /\ \E a : at' = [at EXCEPT ![t] = a]
  BY DEF Setup, RunSetup, SetupFuncFails, StoreData, StoreParent, InitState, vars, wrapperVars,
     BuildInv, SetupPhase, Active
<1>2. \A u \in BuildTasks : u # t => at'[u] = at[u]
  BY <1>1 DEF BuildInv, BuildTypeOK
<1>3. \A u \in BuildTasks : Target(u)' = Target(u)
  BY <1>1, TargetKept DEF BuildInv
<1>4. Apart' /\ StepsAreCallable'
  <2>1. \A u \in BuildTasks : Forgiven(u) => Forgiven(u)'
    BY <1>1, <1>2 DEF Forgiven
  <2> QED BY <1>1, <1>3, <2>1 DEF MadeInv, Apart, StepsAreCallable
<1>5. ASSUME NEW u \in BuildTasks PROVE SetupReturns(u)'
  BY <1>1, <1>2 DEF MadeInv, SetupReturns
<1> QED BY <1>1, <1>2, <1>3, <1>4, <1>5

LEMMA InsideKeepsMade ==
    ASSUME TypeOK, RunInv, BuildInv, MadeInv, BuildInv', NEW t \in BuildTasks, Setup(t)
    PROVE  MadeInv'
<1> DEFINE i == Target(t)
<1>1. /\ \A u \in BuildTasks : Target(u)' = Target(u) /\ (u # t => at'[u] = at[u])
      /\ runs[t]["setup"] = "running" /\ task' = task
      /\ Apart' /\ StepsAreCallable' /\ \A u \in BuildTasks : SetupReturns(u)'
  BY InsideLeaves
<1>2. /\ i \in Instance /\ i \in Builds /\ None \notin Results \cup {NotTask}
      /\ at \in [BuildTasks -> Active \cup {"idle", "succeeded", "failed"}]
      /\ StepsOf(parent[i]) = Given(i)
  BY TargetTyped, StepsOfTyped DEF BuildInv, BuildTypeOK, InstanceTaskAssumption, Given
<1>3. \A u \in BuildTasks : u # t /\ Target(u) = i => at[u] \in {"idle", "succeeded", "failed"}
  BY <1>1, OneAtOnce
<1>4. ASSUME NEW u \in BuildTasks, Target(u) = i, data[i] = None PROVE made[u] = None
  <2> SUFFICES ASSUME made[u] # None PROVE FALSE
    OBVIOUS
  <2>1. data[i] = [by |-> u, task |-> made[u]]
    BY <1>4 DEF MadeInv, DataKept
  <2>2. made[u] \in Results \cup {NotTask}
    BY DEF BuildInv, BuildTypeOK
  <2> QED BY <1>4, <2>1, <2>2 DEF InstanceTaskAssumption
<1>5. ASSUME \A u \in BuildTasks : DataKept(u)', \A j \in Instance : StateComputed(j)'
      PROVE  MadeInv'
  BY <1>1, <1>5 DEF MadeInv
<1>6. CASE RunSetup(t)
  <2>1. /\ at[t] = "idle"
        /\ at' = [at EXCEPT ![t] = IF data[i] # None THEN "failed" ELSE "calling"]
        /\ UNCHANGED <<parent, stored, data, made>>
    BY <1>6 DEF RunSetup, Initialized
  <2>2. made[t] = None
    BY <2>1 DEF BuildInv, SetupPhase
  <2>3. ASSUME NEW u \in BuildTasks PROVE DataKept(u)'
    BY <1>1, <1>2, <2>1, <2>2 DEF MadeInv, DataKept
  <2>4. ASSUME NEW j \in Instance PROVE StateComputed(j)'
    BY <1>1, <1>2, <2>1, <2>2 DEF MadeInv, StateComputed, Given
  <2> QED BY <1>5, <2>3, <2>4
<1>7. CASE SetupFuncFails(t)
  <2>1. /\ at[t] = "calling" /\ at' = [at EXCEPT ![t] = "failed"]
        /\ UNCHANGED <<parent, stored, data, made>>
    BY <1>7 DEF SetupFuncFails
  <2>2. ASSUME NEW u \in BuildTasks PROVE DataKept(u)'
    BY <1>1, <1>2, <2>1 DEF MadeInv, DataKept
  <2>3. ASSUME NEW j \in Instance PROVE StateComputed(j)'
    BY <1>1, <1>2, <2>1 DEF MadeInv, StateComputed, Given
  <2> QED BY <1>5, <2>2, <2>3
<1>8. CASE \E r \in Results \cup {NotTask} : StoreData(t, r)
  <2>1. PICK r \in Results \cup {NotTask} : StoreData(t, r)
    BY <1>8
  <2>2. /\ at[t] = "calling" /\ made' = [made EXCEPT ![t] = r]
        /\ data' = [data EXCEPT ![i] = [by |-> t, task |-> r]]
        /\ at' = [at EXCEPT ![t] = AfterData(i, r)]
        /\ UNCHANGED <<parent, stored>>
    BY <2>1 DEF StoreData
  <2>3. data[i] = None
    BY <2>2 DEF MadeInv, DataKept
  <2>4. ASSUME NEW u \in BuildTasks PROVE DataKept(u)'
    <3>1. /\ made'[u] = IF u = t THEN r ELSE made[u]
          /\ \A j \in Instance : data'[j] = IF j = i THEN [by |-> t, task |-> r] ELSE data[j]
      BY <1>2, <2>2 DEF BuildInv, BuildTypeOK
    <3>2. Target(u) \in Instance
      BY TargetTyped DEF BuildInv
    <3>3. CASE u = t
      <4>1. at'[t] # "calling"
        BY <1>2, <2>2 DEF AfterData
      <4> QED BY <1>1, <1>2, <3>1, <3>3, <4>1 DEF DataKept
    <3>4. CASE u # t /\ Target(u) = i
      BY <1>1, <1>3, <1>4, <2>3, <3>1, <3>4 DEF DataKept
    <3>5. CASE u # t /\ Target(u) # i
      BY <1>1, <3>1, <3>2, <3>5 DEF MadeInv, DataKept
    <3> QED BY <3>3, <3>4, <3>5
  <2>5. ASSUME NEW j \in Instance PROVE StateComputed(j)'
    <3>1. \A u \in BuildTasks : at[u] \in {"init", "failed"} => u # t /\ made'[u] = made[u]
      BY <2>2 DEF BuildInv, BuildTypeOK
    <3> QED BY <1>1, <1>2, <2>2, <3>1 DEF MadeInv, StateComputed, Given
  <2> QED BY <1>5, <2>4, <2>5
<1>9. CASE StoreParent(t)
  <2>1. /\ at[t] = "setParent" /\ parent' = [parent EXCEPT ![i] = made[t]]
        /\ at' = [at EXCEPT ![t] = "init"] /\ UNCHANGED <<stored, data, made>>
    BY <1>9 DEF StoreParent
  <2>2. made[t] # None
    BY <1>2, <2>1 DEF BuildInv, SetupPhase
  <2>3. ASSUME NEW u \in BuildTasks PROVE DataKept(u)'
    BY <1>1, <1>2, <2>1 DEF MadeInv, DataKept
  <2>4. ASSUME NEW j \in Instance PROVE StateComputed(j)'
    <3>1. CASE j = i
      <4>1. Target(t)' = j /\ at'[t] = "init" /\ made'[t] # None
        BY <1>1, <1>2, <2>1, <2>2, <3>1
      <4> QED BY <4>1 DEF StateComputed
    <3>2. CASE j # i
      <4>1. parent'[j] = parent[j] /\ stored' = stored /\ made' = made
        BY <2>1, <3>2 DEF BuildInv, BuildTypeOK, InstanceTaskAssumption
      <4>2. \A u \in BuildTasks : Target(u) = j => at'[u] = at[u] /\ Target(u)' = j
        BY <1>1, <3>2
      <4> QED BY <4>1, <4>2 DEF MadeInv, StateComputed, Given
    <3> QED BY <3>1, <3>2
  <2> QED BY <1>5, <2>3, <2>4
<1>10. CASE InitState(t)
  <2>1. /\ at[t] = "init"
        /\ stored' = [stored EXCEPT ![i] = Own[i] \cup Given(i)]
        /\ at' = [at EXCEPT ![t] = IF StateErrors(i) = {} THEN "succeeded" ELSE "failed"]
        /\ UNCHANGED <<parent, data, made>>
    BY <1>2, <1>10 DEF InitState, NewState, BuildSteps
  <2>2. StateErrors(i) = {} => Own[i] \cap Given(i) = {}
    BY <1>2 DEF StateErrors, InitErrors
  <2>3. made[t] # None
    BY <1>2, <2>1 DEF BuildInv, SetupPhase
  <2>4. ASSUME NEW u \in BuildTasks PROVE DataKept(u)'
    BY <1>1, <1>2, <2>1 DEF MadeInv, DataKept
  <2>5. ASSUME NEW j \in Instance PROVE StateComputed(j)'
    <3>1. CASE j = i
      <4>1. stored'[i] = Own[i] \cup Given(i)
        BY <1>2, <2>1 DEF BuildInv, BuildTypeOK
      <4>2. Own[i] \cap Given(i) = {} \/ at'[t] = "failed"
        BY <1>2, <2>1, <2>2
      <4>3. Target(t)' = i /\ made'[t] # None /\ Given(i)' = Given(i)
        BY <1>1, <2>1, <2>3 DEF Given
      <4> QED BY <3>1, <4>1, <4>2, <4>3 DEF StateComputed
    <3>2. CASE j # i
      <4>1. stored'[j] = stored[j] /\ parent' = parent /\ made' = made
        BY <2>1, <3>2 DEF BuildInv, BuildTypeOK, InstanceTaskAssumption
      <4>2. \A u \in BuildTasks : Target(u) = j => at'[u] = at[u] /\ Target(u)' = j
        BY <1>1, <3>2
      <4> QED BY <4>1, <4>2 DEF MadeInv, StateComputed, Given
    <3> QED BY <3>1, <3>2
  <2> QED BY <1>5, <2>4, <2>5
<1> QED BY <1>6, <1>7, <1>8, <1>9, <1>10 DEF Setup

LEMMA MadeAtFirst ==
    ASSUME InstanceInit, Apart
    PROVE  MadeInv
<1>1. /\ \A t \in BuildTasks : at[t] = "idle" /\ made[t] = None /\ t \in Task
      /\ "setup" \in Step
  BY DEF InstanceInit, InstanceTaskAssumption, Step
<1>2. \A t \in BuildTasks : SetupReturns(t) /\ DataKept(t)
  BY <1>1 DEF SetupReturns, DataKept, InstanceInit, Init, WrapperInit
<1>3. ASSUME NEW i \in Instance PROVE StateComputed(i)
  <2>1. parent[i] = None /\ stored[i] = Own[i]
    BY DEF InstanceInit, InstanceTaskAssumption
  <2> QED BY <2>1 DEF StateComputed, Given
<1>4. StepsAreCallable
  BY DEF StepsAreCallable, InstanceInit
<1> QED BY <1>2, <1>3, <1>4 DEF MadeInv

LEMMA MadeInvHolds == InstanceSpec /\ Apart => [](TypeOK /\ RunInv /\ BuildInv /\ MadeInv)
<1>1. InstanceInit /\ Apart => TypeOK /\ RunInv /\ BuildInv /\ MadeInv
  BY BuildInvAtFirst, MadeAtFirst
<1>2. TypeOK /\ RunInv /\ BuildInv /\ MadeInv /\ [InstanceNext]_instanceVars
         => TypeOK' /\ RunInv' /\ BuildInv' /\ MadeInv'
  BY BuildInvStep, InsideKeepsMade, OutsideKeepsMade
<1> QED BY <1>1, <1>2, PTL DEF InstanceSpec

-----------------------------------------------------------------------------
(* What a caller of the steps relies on.                                   *)

\* If the tasks that share an instance are in different stages, every step Run calls
\* is one the build or its parent has a function for, and data for; only a decorator
\* may find that its parent has got the same step since, and only a task whose setup
\* error a handler ignored, or a later setup step of its instance, may find no
\* function or no data (build.go:153-169, task_wrapper.go:77-79).
THEOREM CallsFindTheirStep == InstanceSpec /\ Apart => []StepsAreCallable
BY MadeInvHolds, PTL DEF MadeInv

\* Then the data is that of one call of the setup function, even if setup errors are
\* ignored, and no setup step succeeds but the one that made it, unless it is its
\* error handler that makes it succeed (instancetask/build.go:82-90) ...
THEOREM DataIsMadeOnce == InstanceSpec /\ Apart => []DataMadeOnce
<1>1. BuildInv /\ MadeInv => DataMadeOnce
  <2> SUFFICES ASSUME BuildInv, MadeInv, NEW t \in BuildTasks
      PROVE  /\ made[t] # None => data[Target(t)] = [by |-> t, task |-> made[t]]
             /\ runs[t]["setup"] \in {"ended", "done"} /\ <<t, "setup">> \notin failed
                    => made[t] # None \/ t \in Handled
    BY DEF DataMadeOnce
  <2> QED BY DEF MadeInv, SetupReturns, DataKept, BuildInv, SetupPhase
<1> QED BY <1>1, MadeInvHolds, PTL

\* ... and when a step other than setup is asked for, the steps of an instance are
\* its own and those of its parent, unless the setup error that was ignored left no
\* data at all (build.go:178-185).
THEOREM StateIsThatOfParent == InstanceSpec /\ Apart => []StateFollowsParent
<1>1. TypeOK /\ RunInv /\ BuildInv /\ MadeInv => StateFollowsParent
  <2> SUFFICES ASSUME TypeOK, RunInv, BuildInv, MadeInv, NEW t \in BuildTasks,
                      NEW s \in Step \ {"setup"}, Touched(t, s), task[t] \in Instance,
                      ~Forgiven(t) \/ made[t] # None
      PROVE  /\ \A u \in BuildTasks : Target(u) = Target(t) => at[u] # "init"
             /\ stored[task[t]] = Own[task[t]] \cup StepsOf(parent[task[t]])
    BY DEF StateFollowsParent
  <2>1. Target(t) = task[t]
    BY DEF Target
  <2>2. StepsOf(parent[task[t]]) = Given(task[t])
    BY StepsOfTyped DEF BuildInv, Given
  <2>3. made[t] # None /\ at[t] # "init"
    BY SetUpFirst
  <2> QED BY <2>1, <2>2, <2>3, SetupLeaves
<1> QED BY <1>1, MadeInvHolds, PTL
=============================================================================
