--------------------------- MODULE WrapperProofs ---------------------------
(***************************************************************************)
(* Proofs about TaskWrapper, for every set of tasks and of step sets.      *)
(***************************************************************************)
EXTENDS TaskWrapper, TLAPS

USE WrapperAssumption

-----------------------------------------------------------------------------
(* The ledger.                                                             *)

\* Appending a step to a ledger adds that step to it and nothing else.
LEMMA AppendToLedger ==
    ASSUME NEW ledger \in Seq(Step), NEW e \in Step
    PROVE  /\ Append(ledger, e) \in Seq(Step)
           /\ \A x \in Step : InLedger(Append(ledger, e), x) <=> InLedger(ledger, x) \/ x = e
<1>1. Append(ledger, e) \in Seq(Step)
  OBVIOUS
<1>2. ASSUME NEW x \in Step
      PROVE  InLedger(Append(ledger, e), x) <=> InLedger(ledger, x) \/ x = e
  <2> DEFINE longer == Append(ledger, e)
  <2>1. Len(longer) = Len(ledger) + 1 /\ longer[Len(ledger) + 1] = e
    OBVIOUS
  <2>2. \A i \in 1..Len(ledger) : longer[i] = ledger[i]
    OBVIOUS
  <2>3. DOMAIN ledger = 1..Len(ledger) /\ DOMAIN longer = 1..(Len(ledger) + 1)
    BY <2>1
  <2>4. Len(ledger) \in Nat
    OBVIOUS
  <2> HIDE DEF longer
  <2>5. InLedger(longer, x) <=> InLedger(ledger, x) \/ x = e
    BY <2>1, <2>2, <2>3, <2>4 DEF InLedger
  <2> QED BY <2>5 DEF longer
<1> QED BY <1>1, <1>2

\* What recording a step of a task does to the ledgers of all tasks.
LEMMA RecordEffect ==
    ASSUME WrapperTypeOK, NEW t \in Task, NEW s \in Step, executeSteps' = Record(t, s)
    PROVE  /\ executeSteps' \in [Task -> Seq(Step)]
           /\ \A u \in Task, x \in Step :
                 StepIsDone(u, x)' <=> StepIsDone(u, x) \/ (u = t /\ x = s)
<1>1. executeSteps' = [executeSteps EXCEPT ![t] = Append(executeSteps[t], s)]
  BY DEF Record
<1>2. executeSteps[t] \in Seq(Step) /\ executeSteps \in [Task -> Seq(Step)]
  BY DEF WrapperTypeOK
<1>3. Append(executeSteps[t], s) \in Seq(Step)
  BY <1>2, AppendToLedger
<1>4. executeSteps' \in [Task -> Seq(Step)]
  BY <1>1, <1>2, <1>3
<1>5. ASSUME NEW u \in Task, NEW x \in Step
      PROVE  StepIsDone(u, x)' <=> StepIsDone(u, x) \/ (u = t /\ x = s)
  <2>1. CASE u = t
    <3>1. executeSteps'[u] = Append(executeSteps[t], s)
      BY <1>1, <1>2, <2>1
    <3>2. InLedger(Append(executeSteps[t], s), x) <=> InLedger(executeSteps[t], x) \/ x = s
      BY <1>2, AppendToLedger
    <3> QED BY <2>1, <3>1, <3>2 DEF StepIsDone
  <2>2. CASE u # t
    <3>1. executeSteps'[u] = executeSteps[u]
      BY <1>1, <1>2, <2>2
    <3> QED BY <2>2, <3>1 DEF StepIsDone
  <2> QED BY <2>1, <2>2
<1> QED BY <1>4, <1>5

-----------------------------------------------------------------------------
(* Type correctness.                                                       *)

\* Moving one goroutine on keeps the others and the type of runs.
LEMMA MoveGoroutine ==
    ASSUME runs \in [Task -> [Step -> RunState]],
           NEW t \in Task, NEW s \in Step, NEW v \in RunState,
           runs' = [runs EXCEPT ![t][s] = v]
    PROVE  /\ runs' \in [Task -> [Step -> RunState]]
           /\ \A u \in Task, x \in Step :
                 runs'[u][x] = IF u = t /\ x = s THEN v ELSE runs[u][x]
OBVIOUS

\* The end of a step changes the steps of its task only if it is the setup step of a
\* provider, and only by what the parent adds.
LEMMA EndProvides ==
    ASSUME NEW t, NEW s, NEW fails, End(t, s, fails)
    PROVE  \/ steps' = steps
           \/ /\ s = "setup" /\ t \in Provider
              /\ steps' = [steps EXCEPT ![t] = @ \cup ProvidedSteps]
BY DEF End, Provided

\* The goroutine of a step keeps the type of the wrappers' state.
LEMMA WrapperTypeStep ==
    ASSUME WrapperTypeOK, NEW t \in Task, NEW s \in Step,
           \/ Ready(t, s) \/ Begin(t, s) \/ Unimplemented(t, s) \/ Report(t, s)
           \/ \E fails \in BOOLEAN : End(t, s, fails)
    PROVE  WrapperTypeOK'
<1>1. runs' \in [Task -> [Step -> RunState]]
  <2>1. \E v \in RunState : runs' = [runs EXCEPT ![t][s] = v]
    BY DEF Ready, Begin, Unimplemented, Report, End, RunState
  <2> QED BY <2>1, MoveGoroutine DEF WrapperTypeOK
<1>2. executeSteps' \in [Task -> Seq(Step)]
  <2>1. executeSteps' = executeSteps \/ executeSteps' = Record(t, s)
    BY DEF Ready, Begin, Unimplemented, Report, End
  <2> QED BY <2>1, RecordEffect DEF WrapperTypeOK
<1>3. steps' \in [Task -> SUBSET Step]
  <2>1. \/ steps' = steps
        \/ steps' = [steps EXCEPT ![t] = steps[t] \cup ProvidedSteps]
    BY EndProvides DEF Ready, Begin, Unimplemented, Report
  <2>2. steps[t] \cup ProvidedSteps \in SUBSET Step
    BY DEF WrapperTypeOK, WrapperAssumption
  <2> QED BY <2>1, <2>2 DEF WrapperTypeOK
<1>4. failed' \subseteq Task \X Step
  <2>1. failed' = failed \/ failed' = failed \cup {<<t, s>>}
    BY DEF Ready, Begin, Unimplemented, Report, End
  <2> QED BY <2>1 DEF WrapperTypeOK
<1> QED BY <1>1, <1>2, <1>3, <1>4 DEF WrapperTypeOK

\* So does checkStartStep, whether it passes a step over or lets it start.
LEMMA WrapperTypeCheck ==
    ASSUME WrapperTypeOK, NEW t \in Task, NEW s \in Step,
           CheckStartStep(t, s), UNCHANGED <<steps, failed>>
    PROVE  WrapperTypeOK'
<1>1. runs' \in [Task -> [Step -> RunState]]
  <2>1. runs' = runs \/ runs' = [runs EXCEPT ![t][s] = "spawned"]
    BY DEF CheckStartStep
  <2> QED BY <2>1, MoveGoroutine DEF WrapperTypeOK, RunState
<1>2. executeSteps' \in [Task -> Seq(Step)]
  <2>1. executeSteps' = executeSteps \/ executeSteps' = Record(t, s)
    BY DEF CheckStartStep
  <2> QED BY <2>1, RecordEffect DEF WrapperTypeOK
<1> QED BY <1>1, <1>2 DEF WrapperTypeOK

\* Asking for a step, and running it, keeps the type of the wrappers' state.
THEOREM WrapperTypeCorrect == WrapperSpec => []WrapperTypeOK
<1>1. WrapperInit => WrapperTypeOK
  <2> SUFFICES ASSUME WrapperInit PROVE WrapperTypeOK
    OBVIOUS
  <2>1. executeSteps \in [Task -> Seq(Step)]
    BY DEF WrapperInit
  <2> QED BY <2>1 DEF WrapperInit, WrapperTypeOK, RunState
<1>2. WrapperTypeOK /\ [WrapperNext]_wrapperVars => WrapperTypeOK'
  <2> SUFFICES ASSUME WrapperTypeOK, [WrapperNext]_wrapperVars PROVE WrapperTypeOK'
    OBVIOUS
  <2>1. ASSUME NEW t \in Task, NEW s \in Step, Ask(t, s) PROVE WrapperTypeOK'
    <3>1. runs' \in [Task -> [Step -> RunState]]
      <4>1. runs' = runs \/ runs' = [runs EXCEPT ![t][s] = "spawned"]
        BY <2>1 DEF Ask, CheckStartStep
      <4> QED BY <4>1, MoveGoroutine DEF WrapperTypeOK, RunState
    <3>2. executeSteps' \in [Task -> Seq(Step)]
      <4>1. executeSteps' = executeSteps \/ executeSteps' = Record(t, s)
        BY <2>1 DEF Ask, CheckStartStep
      <4> QED BY <4>1, RecordEffect DEF WrapperTypeOK
    <3>3. steps' = steps /\ failed' \subseteq failed
      BY <2>1 DEF Ask
    <3> QED BY <3>1, <3>2, <3>3 DEF WrapperTypeOK
  <2>2. ASSUME NEW t \in Task, NEW s \in Step,
               \/ Ready(t, s) \/ Begin(t, s) \/ Unimplemented(t, s) \/ Report(t, s)
               \/ \E fails \in BOOLEAN : End(t, s, fails)
        PROVE  WrapperTypeOK'
    BY <2>2, WrapperTypeStep
  <2>3. CASE UNCHANGED wrapperVars
    BY <2>3 DEF wrapperVars, WrapperTypeOK
  <2> QED BY <2>1, <2>2, <2>3 DEF WrapperNext
<1> QED BY <1>1, <1>2, PTL DEF WrapperSpec

-----------------------------------------------------------------------------
(* The order of the ledger.                                                *)

Over(t, s) == runs[t][s] \in {"none", "done"}

\* The step whose goroutine is still to record it.
ToRecord(t, s) ==
    \/ runs[t][s] \in {"spawned", "ready"}
    \/ s = "setup" /\ runs[t][s] = "running"

\* A sequential caller has at most one goroutine of a task under way, ...
OneAtATime ==
    \A t \in Task, s, x \in Step : ~Over(t, s) /\ ~Over(t, x) => s = x

\* ... and what it is about to record still comes last.
StillInOrder == \A t \in Task, s \in Step : ToRecord(t, s) => ~InvalidOrder(t, s)

\* The steps that block a step are those that may not come before it.
LEMMA BlockingIsRank ==
    \A s, x \in Step : Rank[s] \in 1..4 /\ (x \notin Blocking(s) => Rank[x] < Rank[s])
BY DEF Step, Rank, Blocking

OrderedInv == OneAtATime /\ StillInOrder /\ LedgerInOrder

\* A step that nothing in the ledger blocks can be appended to it.
LEMMA RecordInOrder ==
    ASSUME WrapperTypeOK, LedgerInOrder, NEW t \in Task, NEW s \in Step,
           ~InvalidOrder(t, s), executeSteps' = Record(t, s)
    PROVE  LedgerInOrder'
<1> DEFINE old == executeSteps[t]
           new == Append(executeSteps[t], s)
<1>1. old \in Seq(Step) /\ executeSteps \in [Task -> Seq(Step)]
  BY DEF WrapperTypeOK
<1>2. \A u \in Task : executeSteps'[u] = IF u = t THEN new ELSE executeSteps[u]
  BY <1>1 DEF Record
<1>3. /\ Len(old) \in Nat /\ DOMAIN old = 1..Len(old)
      /\ DOMAIN new = 1..(Len(old) + 1)
      /\ new[Len(old) + 1] = s
      /\ \A i \in 1..Len(old) : new[i] = old[i] /\ old[i] \in Step
  BY <1>1
<1>4. \A i \in 1..Len(old) : Rank[old[i]] < Rank[s]
  <2> SUFFICES ASSUME NEW i \in 1..Len(old) PROVE Rank[old[i]] < Rank[s]
    OBVIOUS
  <2>1. StepIsDone(t, old[i])
    BY <1>3 DEF StepIsDone, InLedger
  <2>2. old[i] \notin Blocking(s)
    BY <2>1 DEF InvalidOrder
  <2> QED BY <1>3, <2>2, BlockingIsRank
<1>5. \A i, j \in DOMAIN old : i < j => Rank[old[i]] < Rank[old[j]]
  BY DEF LedgerInOrder
<1> HIDE DEF old, new
<1>6. \A i, j \in DOMAIN new : i < j => Rank[new[i]] < Rank[new[j]]
  <2> SUFFICES ASSUME NEW i \in DOMAIN new, NEW j \in DOMAIN new, i < j
               PROVE  Rank[new[i]] < Rank[new[j]]
    OBVIOUS
  <2>1. i \in 1..Len(old) /\ (j \in 1..Len(old) \/ j = Len(old) + 1)
    BY <1>3
  <2> QED BY <1>3, <1>4, <1>5, <2>1
<1> QED BY <1>2, <1>6 DEF LedgerInOrder

\* The order of the ledger is kept, whatever a sequential caller asks for.
LEMMA OrderedStep ==
    ASSUME WrapperTypeOK, OrderedInv, [WrapperNext]_wrapperVars
    PROVE  OrderedInv'
<1> USE DEF OrderedInv
<1> "setup" \in Step
  BY DEF Step
<1>1. ASSUME NEW t \in Task, NEW s \in Step, Ask(t, s) PROVE OrderedInv'
  <2>1. Quiet(t) /\ CheckStartStep(t, s)
    BY <1>1 DEF Ask
  <2>2. CASE MayStart(t, s)
    <3>1. runs' = [runs EXCEPT ![t][s] = "spawned"] /\ executeSteps' = executeSteps
      BY <2>1, <2>2 DEF CheckStartStep, PassedOver, MayStart
    <3>2. \A u \in Task, x \in Step :
             runs'[u][x] = IF u = t /\ x = s THEN "spawned" ELSE runs[u][x]
      BY <3>1, MoveGoroutine DEF WrapperTypeOK, RunState
    <3>3. OneAtATime'
      BY <2>1, <3>2 DEF OneAtATime, Over, Quiet
    <3>4. StillInOrder'
      BY <2>2, <3>1, <3>2 DEF StillInOrder, ToRecord, MayStart, InvalidOrder, StepIsDone
    <3> QED BY <3>1, <3>3, <3>4 DEF LedgerInOrder
  <2>3. CASE PassedOver(t, s)
    <3>1. executeSteps' = Record(t, s) /\ runs' = runs
      BY <2>1, <2>3 DEF CheckStartStep, PassedOver, MayStart
    <3>2. LedgerInOrder'
      BY <2>3, <3>1, RecordInOrder DEF PassedOver
    <3>3. OneAtATime'
      BY <3>1 DEF OneAtATime, Over
    <3>4. ASSUME NEW u \in Task, NEW x \in Step, ToRecord(u, x)' PROVE ~InvalidOrder(u, x)'
      <4>1. ToRecord(u, x) /\ u # t
        BY <2>1, <3>1, <3>4 DEF ToRecord, Quiet
      <4>2. \A y \in Step : StepIsDone(u, y)' <=> StepIsDone(u, y)
        BY <3>1, <4>1, RecordEffect
      <4> QED BY <4>1, <4>2 DEF StillInOrder, InvalidOrder, Blocking, Step
    <3> QED BY <3>2, <3>3, <3>4 DEF StillInOrder
  <2>4. CASE ~MayStart(t, s) /\ ~PassedOver(t, s)
    <3>1. UNCHANGED <<runs, executeSteps>>
      BY <2>1, <2>4 DEF CheckStartStep
    <3> QED BY <3>1 DEF OneAtATime, Over, StillInOrder, ToRecord, InvalidOrder, StepIsDone,
        LedgerInOrder
  <2> QED BY <2>2, <2>3, <2>4
<1>2. ASSUME NEW t \in Task, NEW s \in Step,
             \/ Ready(t, s) \/ Begin(t, s) \/ Unimplemented(t, s) \/ Report(t, s)
             \/ \E fails \in BOOLEAN : End(t, s, fails)
      PROVE  OrderedInv'
  <2>1. PICK v \in RunState : runs' = [runs EXCEPT ![t][s] = v]
    BY <1>2 DEF Ready, Begin, Unimplemented, Report, End, RunState
  <2>2. ~Over(t, s)
    BY <1>2 DEF Ready, Begin, Unimplemented, Report, End, Over
  <2>3. \A u \in Task, x \in Step :
           runs'[u][x] = IF u = t /\ x = s THEN v ELSE runs[u][x]
    BY <2>1, MoveGoroutine DEF WrapperTypeOK
  <2>4. OneAtATime'
    BY <2>2, <2>3 DEF OneAtATime, Over
  <2>5. CASE executeSteps' = executeSteps
    <3>1. ToRecord(t, s)' => ToRecord(t, s)
      BY <1>2, <2>1, <2>3, <2>5 DEF ToRecord, Ready, Begin, Unimplemented, Report, End,
         RunState, WrapperTypeOK
    <3>2. \A u \in Task, x \in Step : ToRecord(u, x)' => ToRecord(u, x)
      BY <2>3, <3>1 DEF ToRecord
    <3>3. StillInOrder' /\ LedgerInOrder'
      BY <2>5, <3>2 DEF StillInOrder, InvalidOrder, StepIsDone, LedgerInOrder
    <3> QED BY <2>4, <3>3
  <2>6. CASE executeSteps' # executeSteps
    <3>1. executeSteps' = Record(t, s) /\ ToRecord(t, s) /\ ~ToRecord(t, s)'
      BY <1>2, <2>6 DEF Ready, Begin, Unimplemented, Report, End, RecordedFirst,
         RecordedOnSuccess, ToRecord, WrapperTypeOK
    <3>2. LedgerInOrder'
      BY <3>1, RecordInOrder DEF StillInOrder
    <3>3. ASSUME NEW u \in Task, NEW x \in Step, ToRecord(u, x)' PROVE ~InvalidOrder(u, x)'
      <4>1. ToRecord(u, x) /\ u # t
        <5>1. ~(u = t /\ x = s)
          BY <3>1, <3>3
        <5>2. ToRecord(u, x)
          BY <2>3, <3>3, <5>1 DEF ToRecord
        <5> QED BY <2>2, <5>1, <5>2 DEF OneAtATime, Over, ToRecord
      <4>2. \A y \in Step : StepIsDone(u, y)' <=> StepIsDone(u, y)
        BY <3>1, <4>1, RecordEffect
      <4> QED BY <4>1, <4>2 DEF StillInOrder, InvalidOrder, Blocking, Step
    <3> QED BY <2>4, <3>2, <3>3 DEF StillInOrder
  <2> QED BY <2>5, <2>6
<1>3. CASE UNCHANGED wrapperVars
  BY <1>3 DEF wrapperVars, OneAtATime, Over, StillInOrder, ToRecord, InvalidOrder, StepIsDone,
     LedgerInOrder
<1> QED BY <1>1, <1>2, <1>3 DEF WrapperNext

\* The steps in the ledger of a task are in the order setup, start, stop, teardown,
\* each at most once, whatever a sequential caller asks for and however the
\* steps end (task_wrapper_test.go).
THEOREM LedgerOrdered == WrapperSpec => []LedgerInOrder
<1>1. WrapperInit => OrderedInv
  BY DEF WrapperInit, OrderedInv, OneAtATime, Over, StillInOrder, ToRecord, LedgerInOrder
<1>2. WrapperTypeOK /\ OrderedInv /\ [WrapperNext]_wrapperVars => OrderedInv'
  BY OrderedStep
<1>3. OrderedInv => LedgerInOrder
  BY DEF OrderedInv
<1> QED BY <1>1, <1>2, <1>3, WrapperTypeCorrect, PTL DEF WrapperSpec

-----------------------------------------------------------------------------
(* What the ledger tells of the steps that ran.                            *)

\* No step but setup is recorded, or has a goroutine, before setup is recorded, ...
AfterSetup ==
    \A t \in Task, s \in Step \ {"setup"} :
        StepIsDone(t, s) \/ runs[t][s] # "none" => StepIsDone(t, "setup")

\* ... which it is only without an error, or if there is none, ...
SetupRecorded ==
    \A t \in Task :
        StepIsDone(t, "setup") =>
            \/ ~HasStep(t, "setup")
            \/ runs[t]["setup"] \in {"ended", "done"} /\ <<t, "setup">> \notin failed

\* ... and a step that ran is recorded, unless it is a setup that failed.
RanIsRecorded ==
    \A t \in Task, s \in Step :
        /\ runs[t][s] = "running" /\ s # "setup" => StepIsDone(t, s)
        /\ runs[t][s] \in {"ended", "done"} /\ HasStep(t, s) =>
              StepIsDone(t, s) \/ (s = "setup" /\ <<t, s>> \in failed)

\* A setup step under way has no result of an earlier attempt.
SetupAfresh ==
    \A t \in Task :
        runs[t]["setup"] \in {"spawned", "ready", "running"} => <<t, "setup">> \notin failed

RecordedInv == AfterSetup /\ SetupRecorded /\ RanIsRecorded /\ SetupAfresh

\* A step that follows another one follows setup.
LEMMA FollowsSetup ==
    ASSUME AfterSetup, NEW t \in Task, NEW s \in Step \ {"setup"}, PrevStepIsDone(t, s)
    PROVE  StepIsDone(t, "setup")
<1>1. \E r \in {"setup", "start"} : StepIsDone(t, r)
  BY DEF PrevStepIsDone, Required, Step
<1> QED BY <1>1 DEF AfterSetup, Step

\* Asking for a step keeps the invariant.
LEMMA RecordedAsk ==
    ASSUME WrapperTypeOK, RecordedInv, NEW t \in Task, NEW s \in Step, Ask(t, s)
    PROVE  RecordedInv'
<1> USE DEF RecordedInv
<1> "setup" \in Step
  BY DEF Step
<1>1. Quiet(t) /\ CheckStartStep(t, s) /\ steps' = steps
  BY DEF Ask
<1>2. \A u \in Task, x \in Step : HasStep(u, x)' <=> HasStep(u, x)
  BY <1>1 DEF HasStep
<1>3. CASE MayStart(t, s)
  <2>1. /\ runs' = [runs EXCEPT ![t][s] = "spawned"] /\ executeSteps' = executeSteps
        /\ failed' = failed \ {<<t, s>>}
    BY <1>1, <1>3 DEF Ask, CheckStartStep, PassedOver, MayStart
  <2>2. \A u \in Task, x \in Step :
           /\ runs'[u][x] = IF u = t /\ x = s THEN "spawned" ELSE runs[u][x]
           /\ StepIsDone(u, x)' <=> StepIsDone(u, x)
    BY <2>1, MoveGoroutine DEF WrapperTypeOK, RunState, StepIsDone
  <2>3. ~StepIsDone(t, s) /\ PrevStepIsDone(t, s)
    BY <1>3 DEF MayStart, InvalidOrder, Blocking, Step
  <2>4. s # "setup" => StepIsDone(t, "setup")
    BY <2>3, FollowsSetup
  <2>5. AfterSetup'
    BY <2>2, <2>4 DEF AfterSetup
  <2>6. SetupRecorded'
    BY <1>2, <2>1, <2>2, <2>3 DEF SetupRecorded
  <2>7. RanIsRecorded'
    <3> SUFFICES ASSUME NEW u \in Task, NEW x \in Step
        PROVE  /\ runs'[u][x] = "running" /\ x # "setup" => StepIsDone(u, x)'
               /\ runs'[u][x] \in {"ended", "done"} /\ HasStep(u, x)' =>
                     StepIsDone(u, x)' \/ (x = "setup" /\ <<u, x>> \in failed')
      BY DEF RanIsRecorded
    <3>1. CASE u = t /\ x = s
      BY <1>2, <2>1, <2>2, <3>1 DEF RanIsRecorded
    <3>2. CASE ~(u = t /\ x = s)
      BY <1>2, <2>1, <2>2, <3>2 DEF RanIsRecorded
    <3> QED BY <3>1, <3>2
  <2>8. SetupAfresh'
    BY <2>1, <2>2 DEF SetupAfresh
  <2> QED BY <2>5, <2>6, <2>7, <2>8
<1>4. CASE PassedOver(t, s)
  <2>1. executeSteps' = Record(t, s) /\ runs' = runs /\ failed' = failed
    BY <1>1, <1>4 DEF Ask, CheckStartStep, PassedOver, MayStart
  <2>2. \A u \in Task, x \in Step :
           StepIsDone(u, x)' <=> StepIsDone(u, x) \/ (u = t /\ x = s)
    BY <2>1, RecordEffect
  <2>3. s # "setup" => StepIsDone(t, "setup")
    BY <1>4, FollowsSetup DEF PassedOver
  <2>4. ~HasStep(t, s)
    BY <1>4 DEF PassedOver, CanStartStep
  <2>5. AfterSetup'
    BY <2>1, <2>2, <2>3 DEF AfterSetup
  <2>6. SetupRecorded'
    BY <1>2, <2>1, <2>2, <2>4 DEF SetupRecorded
  <2>7. RanIsRecorded'
    <3> SUFFICES ASSUME NEW u \in Task, NEW x \in Step
        PROVE  /\ runs'[u][x] = "running" /\ x # "setup" => StepIsDone(u, x)'
               /\ runs'[u][x] \in {"ended", "done"} /\ HasStep(u, x)' =>
                     StepIsDone(u, x)' \/ (x = "setup" /\ <<u, x>> \in failed')
      BY DEF RanIsRecorded
    <3>1. CASE u = t /\ x = s
      BY <1>2, <2>1, <2>2, <3>1 DEF RanIsRecorded
    <3>2. CASE ~(u = t /\ x = s)
      BY <1>2, <2>1, <2>2, <3>2 DEF RanIsRecorded
    <3> QED BY <3>1, <3>2
  <2>8. SetupAfresh'
    BY <2>1, <2>2 DEF SetupAfresh
  <2> QED BY <2>5, <2>6, <2>7, <2>8
<1>5. CASE ~MayStart(t, s) /\ ~PassedOver(t, s)
  <2>1. UNCHANGED <<runs, executeSteps, failed>>
    BY <1>1, <1>5 DEF Ask, CheckStartStep
  <2>2. \A u \in Task, x \in Step : StepIsDone(u, x)' <=> StepIsDone(u, x)
    BY <2>1 DEF StepIsDone
  <2> QED BY <1>2, <2>1, <2>2 DEF AfterSetup, SetupRecorded, RanIsRecorded, SetupAfresh
<1> QED BY <1>3, <1>4, <1>5

\* Running it does too.
LEMMA RecordedRun ==
    ASSUME WrapperTypeOK, OrderedInv, RecordedInv, NEW t \in Task, NEW s \in Step,
           \/ Ready(t, s) \/ Begin(t, s) \/ Unimplemented(t, s) \/ Report(t, s)
           \/ \E fails \in BOOLEAN : End(t, s, fails)
    PROVE  RecordedInv'
<1> USE DEF RecordedInv
<1> "setup" \in Step
  BY DEF Step
<1>1. s = "setup" /\ ToRecord(t, s) => ~StepIsDone(t, "setup")
  BY DEF OrderedInv, StillInOrder, InvalidOrder, Blocking
<1>2. CASE Ready(t, s) \/ Unimplemented(t, s) \/ Report(t, s)
  <2>1. PICK v \in {"ready", "done"} : runs' = [runs EXCEPT ![t][s] = v]
    BY <1>2 DEF Ready, Unimplemented, Report
  <2>2. \A u \in Task, x \in Step :
           /\ runs'[u][x] = IF u = t /\ x = s THEN v ELSE runs[u][x]
           /\ StepIsDone(u, x)' <=> StepIsDone(u, x)
           /\ HasStep(u, x)' <=> HasStep(u, x)
    <3>1. UNCHANGED <<steps, executeSteps>>
      BY <1>2 DEF Ready, Unimplemented, Report
    <3>2. v \in RunState
      BY DEF RunState
    <3>3. \A u \in Task, x \in Step :
             runs'[u][x] = IF u = t /\ x = s THEN v ELSE runs[u][x]
      BY <2>1, <3>2, MoveGoroutine DEF WrapperTypeOK
    <3> QED BY <3>1, <3>3 DEF StepIsDone, HasStep
  <2>3. /\ failed' = failed
        /\ runs[t][s] # "none"
        /\ v = "done" /\ runs[t][s] # "ended" => ~HasStep(t, s)
        /\ s = "setup" /\ v # "done" => ~StepIsDone(t, "setup")
    BY <1>1, <1>2, <2>1, <2>2 DEF Ready, Unimplemented, Report, ToRecord
  <2>4. AfterSetup'
    BY <2>2, <2>3 DEF AfterSetup
  <2>5. SetupRecorded'
    BY <2>2, <2>3 DEF SetupRecorded
  <2>6. RanIsRecorded'
    <3> SUFFICES ASSUME NEW u \in Task, NEW x \in Step
        PROVE  /\ runs'[u][x] = "running" /\ x # "setup" => StepIsDone(u, x)'
               /\ runs'[u][x] \in {"ended", "done"} /\ HasStep(u, x)' =>
                     StepIsDone(u, x)' \/ (x = "setup" /\ <<u, x>> \in failed')
      BY DEF RanIsRecorded
    <3>1. CASE u = t /\ x = s
      BY <2>2, <2>3, <3>1 DEF RanIsRecorded
    <3>2. CASE ~(u = t /\ x = s)
      BY <2>2, <2>3, <3>2 DEF RanIsRecorded
    <3> QED BY <3>1, <3>2
  <2>7. SetupAfresh'
    BY <1>2, <2>1, <2>2, <2>3 DEF SetupAfresh, Ready, Unimplemented, Report
  <2> QED BY <2>4, <2>5, <2>6, <2>7
<1>3. CASE Begin(t, s)
  <2>1. /\ runs' = [runs EXCEPT ![t][s] = "running"] /\ runs[t][s] = "ready"
        /\ executeSteps' = IF s # "setup" THEN Record(t, s) ELSE executeSteps
        /\ UNCHANGED <<steps, failed>>
    BY <1>3 DEF Begin, RecordedFirst
  <2>2. \A u \in Task, x \in Step :
           /\ runs'[u][x] = IF u = t /\ x = s THEN "running" ELSE runs[u][x]
           /\ HasStep(u, x)' <=> HasStep(u, x)
    BY <2>1, MoveGoroutine DEF WrapperTypeOK, RunState, HasStep
  <2>3. \A u \in Task, x \in Step :
           StepIsDone(u, x)' <=> StepIsDone(u, x) \/ (u = t /\ x = s /\ s # "setup")
    <3>1. CASE s = "setup"
      BY <2>1, <3>1 DEF StepIsDone
    <3>2. CASE s # "setup"
      BY <2>1, <3>2, RecordEffect
    <3> QED BY <3>1, <3>2
  <2>4. AfterSetup'
    BY <2>1, <2>2, <2>3 DEF AfterSetup
  <2>5. SetupRecorded'
    BY <1>1, <2>1, <2>2, <2>3 DEF SetupRecorded, ToRecord
  <2>6. RanIsRecorded'
    <3> SUFFICES ASSUME NEW u \in Task, NEW x \in Step
        PROVE  /\ runs'[u][x] = "running" /\ x # "setup" => StepIsDone(u, x)'
               /\ runs'[u][x] \in {"ended", "done"} /\ HasStep(u, x)' =>
                     StepIsDone(u, x)' \/ (x = "setup" /\ <<u, x>> \in failed')
      BY DEF RanIsRecorded
    <3>1. CASE u = t /\ x = s
      BY <2>1, <2>2, <2>3, <3>1 DEF RanIsRecorded
    <3>2. CASE ~(u = t /\ x = s)
      BY <2>1, <2>2, <2>3, <3>2 DEF RanIsRecorded
    <3> QED BY <3>1, <3>2
  <2>7. SetupAfresh'
    BY <2>1, <2>2 DEF SetupAfresh
  <2> QED BY <2>4, <2>5, <2>6, <2>7
<1>4. ASSUME NEW fails \in BOOLEAN, End(t, s, fails) PROVE RecordedInv'
  <2>1. /\ runs' = [runs EXCEPT ![t][s] = "ended"] /\ runs[t][s] = "running"
        /\ failed' = IF fails THEN failed \cup {<<t, s>>} ELSE failed
        /\ executeSteps' = IF s = "setup" /\ ~fails THEN Record(t, s) ELSE executeSteps
    BY <1>4 DEF End, RecordedOnSuccess
  <2>2. \A u \in Task, x \in Step :
           runs'[u][x] = IF u = t /\ x = s THEN "ended" ELSE runs[u][x]
    BY <2>1, MoveGoroutine DEF WrapperTypeOK, RunState
  <2>3. \A u \in Task, x \in Step :
           StepIsDone(u, x)' <=> StepIsDone(u, x) \/ (u = t /\ x = s /\ s = "setup" /\ ~fails)
    <3>1. CASE s = "setup" /\ ~fails
      BY <2>1, <3>1, RecordEffect
    <3>2. CASE ~(s = "setup" /\ ~fails)
      BY <2>1, <3>2 DEF StepIsDone
    <3> QED BY <3>1, <3>2
  <2>4. \A u \in Task, x \in Step :
           (u # t \/ s # "setup") => (HasStep(u, x)' <=> HasStep(u, x))
    BY <1>4, EndProvides DEF HasStep, WrapperTypeOK
  <2>5. s = "setup" => ~StepIsDone(t, "setup") /\ \A x \in Step \ {"setup"} :
                           runs[t][x] = "none"
    BY <1>1, <2>1 DEF ToRecord, AfterSetup
  <2>6. AfterSetup'
    BY <2>1, <2>2, <2>3 DEF AfterSetup
  <2>7. SetupRecorded'
    <3> SUFFICES ASSUME NEW u \in Task, StepIsDone(u, "setup")'
                 PROVE  \/ ~HasStep(u, "setup")'
                        \/ /\ runs'[u]["setup"] \in {"ended", "done"}
                           /\ <<u, "setup">> \notin failed'
      BY DEF SetupRecorded
    <3>1. CASE u = t /\ s = "setup"
      <4>1. ~fails
        BY <2>3, <2>5, <3>1
      <4>2. <<t, "setup">> \notin failed
        BY <2>1, <3>1 DEF SetupAfresh
      <4> QED BY <2>1, <2>2, <3>1, <4>1, <4>2
    <3>2. CASE ~(u = t /\ s = "setup")
      BY <2>1, <2>2, <2>3, <2>4, <3>2 DEF SetupRecorded
    <3> QED BY <3>1, <3>2
  <2>8. RanIsRecorded'
    <3> SUFFICES ASSUME NEW u \in Task, NEW x \in Step
        PROVE  /\ runs'[u][x] = "running" /\ x # "setup" => StepIsDone(u, x)'
               /\ runs'[u][x] \in {"ended", "done"} /\ HasStep(u, x)' =>
                     StepIsDone(u, x)' \/ (x = "setup" /\ <<u, x>> \in failed')
      BY DEF RanIsRecorded
    <3>1. CASE u = t /\ x = s
      BY <2>1, <2>2, <2>3, <2>4, <2>5, <3>1 DEF RanIsRecorded
    <3>2. CASE ~(u = t /\ x = s)
      BY <2>1, <2>2, <2>3, <2>4, <2>5, <3>2 DEF RanIsRecorded
    <3> QED BY <3>1, <3>2
  <2>9. SetupAfresh'
    BY <2>1, <2>2 DEF SetupAfresh
  <2> QED BY <2>6, <2>7, <2>8, <2>9
<1> QED BY <1>2, <1>3, <1>4

\* Every step of a wrapper keeps what the ledger tells.
LEMMA RecordedStep ==
    ASSUME WrapperTypeOK, OrderedInv, RecordedInv, [WrapperNext]_wrapperVars
    PROVE  RecordedInv'
<1>1. CASE UNCHANGED wrapperVars
  BY <1>1 DEF wrapperVars, RecordedInv, AfterSetup, SetupRecorded, RanIsRecorded, SetupAfresh,
     StepIsDone, HasStep
<1> QED BY <1>1, RecordedAsk, RecordedRun DEF WrapperNext

\* A wrapper begins with nothing in its ledger and nothing to tell.
LEMMA RecordedAtFirst ==
    ASSUME WrapperInit
    PROVE  OrderedInv /\ RecordedInv
BY DEF WrapperInit, OrderedInv, OneAtATime, Over, StillInOrder, ToRecord, LedgerInOrder,
   RecordedInv, AfterSetup, SetupRecorded, RanIsRecorded, SetupAfresh, StepIsDone, InLedger, Step

\* After a setup that failed, or never came, the user code of no other step of the
\* task is called (task_wrapper.go:45-85).
THEOREM SetupFirst == WrapperSpec => []NothingWithoutSetup
<1>1. WrapperInit => OrderedInv /\ RecordedInv
  BY RecordedAtFirst
<1>2. WrapperTypeOK /\ OrderedInv /\ RecordedInv /\ [WrapperNext]_wrapperVars =>
         OrderedInv' /\ RecordedInv'
  BY OrderedStep, RecordedStep
<1>3. OrderedInv /\ RecordedInv => NothingWithoutSetup
  <2> SUFFICES ASSUME OrderedInv, RecordedInv, NEW t \in Task, NEW s \in Step \ {"setup"},
                      runs[t][s] \in {"running", "ended"}
               PROVE  \/ "setup" \notin steps[t]
                      \/ runs[t]["setup"] = "done" /\ <<t, "setup">> \notin failed
    BY DEF NothingWithoutSetup
  <2>1. StepIsDone(t, "setup")
    BY DEF RecordedInv, AfterSetup
  <2>2. runs[t]["setup"] # "ended"
    BY DEF OrderedInv, OneAtATime, Over, Step
  <2> QED BY <2>1, <2>2 DEF RecordedInv, SetupRecorded, HasStep
<1> QED BY <1>1, <1>2, <1>3, WrapperTypeCorrect, PTL DEF WrapperSpec

\* No step that ran is run again, except a setup that failed
\* (task_wrapper.go:68-71 and 80-82).
THEOREM RunsOnce == WrapperSpec => NoRerun
<1>1. WrapperInit => OrderedInv /\ RecordedInv
  BY RecordedAtFirst
<1>2. WrapperTypeOK /\ OrderedInv /\ RecordedInv /\ [WrapperNext]_wrapperVars =>
         OrderedInv' /\ RecordedInv'
  BY OrderedStep, RecordedStep
<1> DEFINE Rerun(t, s) == runs[t][s] = "done" /\ runs'[t][s] # "done" /\ HasStep(t, s)
           OnlyFailed == \A t \in Task, s \in Step :
                            Rerun(t, s) => s = "setup" /\ <<t, s>> \in failed
<1>3. ASSUME WrapperTypeOK, RecordedInv, [WrapperNext]_wrapperVars PROVE OnlyFailed
  <2> SUFFICES ASSUME NEW t \in Task, NEW s \in Step,
                      runs[t][s] = "done", runs'[t][s] # "done", HasStep(t, s)
               PROVE  s = "setup" /\ <<t, s>> \in failed
    OBVIOUS
  <2>1. ASSUME NEW u \in Task, NEW x \in Step, Ask(u, x)
        PROVE  s = "setup" /\ <<t, s>> \in failed
    <3>1. MayStart(u, x) /\ runs' = [runs EXCEPT ![u][x] = "spawned"]
      BY <2>1 DEF Ask, CheckStartStep
    <3>2. u = t /\ x = s
      BY <3>1, MoveGoroutine DEF WrapperTypeOK, RunState
    <3>3. ~StepIsDone(t, s)
      BY <3>1, <3>2 DEF MayStart, InvalidOrder, Blocking, Step
    <3> QED BY <1>3, <3>3 DEF RecordedInv, RanIsRecorded
  <2>2. ASSUME NEW u \in Task, NEW x \in Step,
               \/ Ready(u, x) \/ Begin(u, x) \/ Unimplemented(u, x) \/ Report(u, x)
               \/ \E fails \in BOOLEAN : End(u, x, fails)
        PROVE  FALSE
    <3>1. runs[u][x] # "done" /\ \E v \in RunState : runs' = [runs EXCEPT ![u][x] = v]
      BY <2>2 DEF Ready, Begin, Unimplemented, Report, End, RunState
    <3> QED BY <3>1, MoveGoroutine DEF WrapperTypeOK
  <2>3. CASE UNCHANGED wrapperVars
    BY <2>3 DEF wrapperVars
  <2> QED BY <1>3, <2>1, <2>2, <2>3 DEF WrapperNext
<1>4. WrapperTypeOK /\ RecordedInv /\ [WrapperNext]_wrapperVars => [OnlyFailed]_wrapperVars
  BY <1>3
<1> HIDE DEF OnlyFailed
<1>5. WrapperSpec => [][OnlyFailed]_wrapperVars
  BY <1>1, <1>2, <1>4, WrapperTypeCorrect, PTL DEF WrapperSpec
<1> QED BY <1>5 DEF NoRerun, OnlyFailed
=============================================================================
