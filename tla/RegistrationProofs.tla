------------------------- MODULE RegistrationProofs -------------------------
(***************************************************************************)
(* Proofs about Registration, for any number of callers and calls of Run.  *)
(***************************************************************************)
EXTENDS Registration, TLAPS

USE RegistrationAssumption DEF CallKind

-----------------------------------------------------------------------------
(* Type correctness.                                                       *)

\* Every variable of the registration keeps its type.
LEMMA TypeKept == TypeOK /\ [Next]_vars => TypeOK'
<1> SUFFICES ASSUME TypeOK, [Next]_vars PROVE TypeOK'
  OBVIOUS
<1> USE DEF TypeOK, runVars, callerVars
<1>1. ASSUME NEW c \in Caller, Calling(c) PROVE TypeOK'
  <2>1. CASE InitFails(c)
    BY <2>1 DEF InitFails
  <2>2. CASE Lock(c)
    BY <2>2 DEF Lock
  <2>3. CASE Shutdown(c)
    BY <2>3 DEF Shutdown, RequestStartupCancel, FirstPending, Unlock
  <2>4. CASE CheckRunning(c)
    BY <2>4 DEF CheckRunning, RequestStartupCancel, FirstPending, Unlock
  <2>5. CASE AddTask(c)
    BY <2>5 DEF AddTask, Unlock
  <2>6. CASE AddInitError(c)
    BY <2>6 DEF AddInitError, RequestStartupCancel, FirstPending, Unlock
  <2> QED BY <1>1, <2>1, <2>2, <2>3, <2>4, <2>5, <2>6 DEF Calling
<1>2. ASSUME NEW r \in Runner, Running(r) PROVE TypeOK'
  <2>1. CASE Swap(r)
    BY <2>1 DEF Swap
  <2>2. CASE ReadRegistered(r)
    BY <2>2 DEF ReadRegistered
  <2>3. CASE BeforeRunFails(r)
    BY <2>3 DEF BeforeRunFails
  <2>4. CASE Publish(r)
    BY <2>4 DEF Publish, Taken
  <2>5. CASE ApplyPending(r)
    BY <2>5 DEF ApplyPending
  <2> QED BY <1>2, <2>1, <2>2, <2>3, <2>4, <2>5 DEF Running
<1>3. CASE Terminated \/ UNCHANGED vars
  BY <1>3 DEF Terminated, vars
<1> QED BY <1>1, <1>2, <1>3 DEF Next

\* The registration's state is well typed.
THEOREM TypeCorrect == Spec => []TypeOK
<1>1. Init => TypeOK
  <2> SUFFICES ASSUME Init PROVE TypeOK
    OBVIOUS
  <2>1. seen \in [tasks : SUBSET Caller, errors : SUBSET Caller]
    BY DEF Init
  <2>2. /\ at \in [Caller -> {"idle", "locked", "checked", "done"}]
        /\ run \in [Runner -> {"idle", "refused", "swapped", "beforeRun", "published",
                               "running", "returned"}]
    BY DEF Init
  <2> QED BY <2>1, <2>2 DEF Init, TypeOK
<1> QED BY <1>1, TypeKept, PTL DEF Spec

-----------------------------------------------------------------------------
(* The invariant, part by part.                                            *)

\* A request is kept where Run will find it, or cancels the startup context.
LEMMA RequestKept ==
    ASSUME TypeOK, RequestInv, NEW c \in Caller, RequestStartupCancel(c), UNCHANGED <<run, taken>>
    PROVE  RequestInv'
<1>1. startup # "live" \/ startup' = c
  BY DEF RequestStartupCancel
<1>2. startup' # "live"
  BY <1>1 DEF RequestStartupCancel, TypeOK
<1>3. startup' = "nil" => pending' \in asked' /\ startup = "nil"
  BY DEF RequestStartupCancel, FirstPending, RequestInv, TypeOK
<1>4. pending' # "nil" => pending' \in asked'
  BY DEF RequestStartupCancel, FirstPending, RequestInv
<1>5. startup' \notin {"nil", "live"} => startup' \in asked'
  BY DEF RequestStartupCancel, RequestInv
<1>6. taken' # "nil" => taken' \in asked'
  BY DEF RequestStartupCancel, RequestInv
<1>7. startup' = "nil" <=> startup = "nil"
  BY DEF RequestStartupCancel, TypeOK
<1> QED BY <1>2, <1>3, <1>4, <1>5, <1>6, <1>7 DEF RequestInv

\* The steps of the callers keep the invariant.
LEMMA CallerStep ==
    ASSUME TypeOK, RegistrationInv, NEW c \in Caller, Calling(c)
    PROVE  RegistrationInv'
<1>1. UNCHANGED runVars
  BY DEF Calling, InitFails, Lock, Shutdown, CheckRunning, AddTask, AddInitError
<1>2. MutexInv'
  <2>1. CASE InitFails(c)
    BY <2>1 DEF InitFails, RegistrationInv, MutexInv, TypeOK
  <2>2. CASE Lock(c)
    BY <2>2 DEF Lock, RegistrationInv, MutexInv, TypeOK
  <2>3. CASE CheckRunning(c) /\ ~TooLate(c)
    BY <2>3 DEF CheckRunning, RegistrationInv, MutexInv, TypeOK
  <2>4. CASE Shutdown(c) \/ (CheckRunning(c) /\ TooLate(c)) \/ AddTask(c) \/ AddInitError(c)
    <3>1. at[c] \in {"locked", "checked"} /\ Unlock(c)
      BY <2>4 DEF Shutdown, CheckRunning, AddTask, AddInitError
    <3> QED BY <3>1 DEF Unlock, RegistrationInv, MutexInv, TypeOK
  <2> QED BY <2>1, <2>2, <2>3, <2>4 DEF Calling
<1>3. RunInv'
  BY <1>1 DEF RegistrationInv, RunInv, RunsOnce, runVars
<1>4. ASSUME NEW r \in Runner, HasRead(r)' PROVE UNCHANGED <<tasks, initErrors>>
  <2>1. HasRead(r) /\ isRunning
    BY <1>1, <1>4 DEF HasRead, runVars, RegistrationInv, RunInv
  <2>2. \A d \in Caller : at[d] # "checked"
    BY <2>1 DEF RegistrationInv, SeenInv
  <2> QED BY <2>1, <2>2 DEF Calling, InitFails, Lock, Shutdown, CheckRunning, AddTask,
          AddInitError, TooLate
<1>5. SeenInv'
  <2> SUFFICES ASSUME NEW r \in Runner, HasRead(r)'
               PROVE  /\ seen'.tasks = tasks' /\ seen'.errors = initErrors'
                      /\ \A d \in Caller : at'[d] # "checked"
    BY DEF SeenInv
  <2>1. HasRead(r) /\ isRunning
    BY <1>1 DEF HasRead, runVars, RegistrationInv, RunInv
  <2>2. seen'.tasks = tasks' /\ seen'.errors = initErrors'
    BY <1>1, <1>4, <2>1 DEF RegistrationInv, SeenInv, runVars
  <2>3. \A d \in Caller : at[d] # "checked"
    BY <2>1 DEF RegistrationInv, SeenInv
  <2>4. \A d \in Caller : at'[d] # "checked"
    BY <2>1, <2>3 DEF Calling, InitFails, Lock, Shutdown, CheckRunning, AddTask, AddInitError,
       Unlock, TooLate, TypeOK
  <2> QED BY <2>2, <2>4
<1>6. RegisteredInv'
  <2>1. tasks \subseteq tasks' /\ initErrors \subseteq initErrors' /\ asked \subseteq asked'
    BY DEF Calling, InitFails, Lock, Shutdown, CheckRunning, AddTask, AddInitError,
       RequestStartupCancel
  <2>2. \A d \in Caller \ {c} : at'[d] = at[d]
    BY DEF Calling, InitFails, Lock, Shutdown, CheckRunning, AddTask, AddInitError, Unlock,
       TypeOK
  <2>3. at'[c] = "done" /\ Kind[c] # "initFails" => c \in tasks' \cup initErrors' \cup asked'
    BY DEF Calling, InitFails, Lock, Shutdown, CheckRunning, AddTask, AddInitError, Unlock,
       RequestStartupCancel, TypeOK
  <2> QED BY <2>1, <2>2, <2>3 DEF RegistrationInv, RegisteredInv
<1>7. ErrorsRefuse'
  BY <1>1, <1>4 DEF RegistrationInv, ErrorsRefuse, HasRead, runVars
<1>8. RequestInv'
  <2>1. CASE RequestStartupCancel(c)
    BY <1>1, <2>1, RequestKept DEF RegistrationInv, runVars
  <2>2. CASE UNCHANGED <<startup, pending, asked>>
    BY <1>1, <2>2 DEF RegistrationInv, RequestInv, runVars
  <2> QED BY <2>1, <2>2 DEF Calling, InitFails, Lock, Shutdown, CheckRunning, AddTask,
          AddInitError
<1> QED BY <1>2, <1>3, <1>5, <1>6, <1>7, <1>8 DEF RegistrationInv

\* The steps of Run keep the invariant.
LEMMA RunnerStep ==
    ASSUME TypeOK, RegistrationInv, NEW r \in Runner, Running(r)
    PROVE  RegistrationInv'
<1>1. UNCHANGED <<mu, at, tasks, initErrors, asked, pending>>
  BY DEF Running, Swap, ReadRegistered, BeforeRunFails, Publish, ApplyPending, callerVars
<1>2. MutexInv' /\ RegisteredInv'
  BY <1>1 DEF RegistrationInv, MutexInv, RegisteredInv
<1>3. \A s \in Runner \ {r} : run'[s] = run[s]
  BY DEF Running, Swap, ReadRegistered, BeforeRunFails, Publish, ApplyPending, TypeOK
<1>4. run[r] \notin {"idle", "refused"} => \A s \in Runner \ {r} : run[s] \in {"idle", "refused"}
  BY DEF RegistrationInv, RunInv, RunsOnce
<1>5. CASE Swap(r)
  <2>1. /\ isRunning' /\ run'[r] = (IF isRunning THEN "refused" ELSE "swapped")
        /\ UNCHANGED <<seen, startup, taken>> /\ run[r] = "idle"
    BY <1>5 DEF Swap, TypeOK
  <2>2. ~isRunning => \A s \in Runner : run[s] = "idle"
    BY DEF RegistrationInv, RunInv
  <2>3. RunInv'
    BY <1>3, <2>1, <2>2 DEF RegistrationInv, RunInv, RunsOnce
  <2>4. SeenInv' /\ ErrorsRefuse' /\ RequestInv'
    BY <1>1, <1>3, <2>1 DEF RegistrationInv, SeenInv, HasRead, ErrorsRefuse, RequestInv
  <2> QED BY <1>2, <2>3, <2>4 DEF RegistrationInv
<1>6. CASE ReadRegistered(r)
  <2>1. /\ seen' = [tasks |-> tasks, errors |-> initErrors] /\ mu = "nil"
        /\ run[r] = "swapped"
        /\ run'[r] = (IF initErrors # {} \/ tasks = {} THEN "returned" ELSE "beforeRun")
        /\ UNCHANGED <<isRunning, startup, taken>>
    BY <1>6 DEF ReadRegistered, MutexFree, TypeOK
  <2>2. \A c \in Caller : at[c] # "checked"
    BY <2>1 DEF RegistrationInv, MutexInv
  <2>3. RunInv'
    BY <1>3, <1>4, <2>1 DEF RegistrationInv, RunInv, RunsOnce
  <2>4. SeenInv'
    BY <1>1, <2>1, <2>2 DEF SeenInv
  <2>5. ErrorsRefuse' /\ RequestInv'
    BY <1>1, <1>3, <2>1 DEF RegistrationInv, ErrorsRefuse, RequestInv
  <2> QED BY <1>2, <2>3, <2>4, <2>5 DEF RegistrationInv
<1>7. CASE BeforeRunFails(r) \/ Publish(r) \/ ApplyPending(r)
  <2>1. /\ HasRead(r) /\ HasRead(r)'
        /\ run[r] \in {"beforeRun", "published"}
        /\ UNCHANGED <<isRunning, seen>>
    BY <1>7 DEF BeforeRunFails, Publish, ApplyPending, HasRead, TypeOK
  <2>2. RunInv'
    BY <1>3, <1>4, <2>1 DEF RegistrationInv, RunInv, RunsOnce
  <2>3. SeenInv'
    BY <1>1, <2>1 DEF RegistrationInv, SeenInv
  <2>4. ErrorsRefuse'
    BY <1>1, <1>3, <2>1 DEF RegistrationInv, ErrorsRefuse
  <2>5. RequestInv'
    <3>1. CASE BeforeRunFails(r)
      BY <1>1, <1>3, <1>4, <3>1 DEF BeforeRunFails, RegistrationInv, RequestInv, TypeOK
    <3>2. CASE Publish(r)
      <4>1. run[r] = "beforeRun" /\ startup' = "live" /\ taken' = pending /\ run'[r] = "published"
        BY <3>2 DEF Publish, Taken, TypeOK
      <4>2. \A s \in Runner : run[s] \notin {"published", "running"}
        BY <1>4, <4>1
      <4>3. startup = "nil"
        BY <4>2 DEF RegistrationInv, RequestInv
      <4>4. asked # {} => taken' # "nil"
        BY <4>1, <4>3 DEF RegistrationInv, RequestInv, TypeOK
      <4>5. taken' # "nil" => taken' \in asked'
        BY <1>1, <4>1 DEF RegistrationInv, RequestInv
      <4> QED BY <1>1, <4>1, <4>4, <4>5 DEF RegistrationInv, RequestInv
    <3>3. CASE ApplyPending(r)
      <4>1. run[r] = "published" /\ run'[r] = "running" /\ UNCHANGED taken
        BY <3>3 DEF ApplyPending, TypeOK
      <4>2. startup # "nil" /\ startup' # "nil"
        BY <3>3, <4>1 DEF ApplyPending, RegistrationInv, RequestInv
      <4>3. startup = "live" => (asked # {} => taken # "nil")
        BY <1>4, <4>1 DEF RegistrationInv, RequestInv
      <4>4. startup' \notin {"nil", "live"} => startup' \in asked
        BY <3>3 DEF ApplyPending, RegistrationInv, RequestInv
      <4>5. startup' = "live" => asked = {}
        BY <3>3, <4>3 DEF ApplyPending, TypeOK
      <4>6. taken # "nil" => taken \in asked
        BY DEF RegistrationInv, RequestInv
      <4> QED BY <1>1, <1>3, <4>1, <4>2, <4>4, <4>5, <4>6 DEF RegistrationInv, RequestInv
    <3> QED BY <1>7, <3>1, <3>2, <3>3
  <2> QED BY <1>2, <2>2, <2>3, <2>4, <2>5 DEF RegistrationInv
<1> QED BY <1>5, <1>6, <1>7 DEF Running

\* The invariant is inductive.
LEMMA RegistrationStep == TypeOK /\ RegistrationInv /\ [Next]_vars => RegistrationInv'
<1> SUFFICES ASSUME TypeOK, RegistrationInv, [Next]_vars PROVE RegistrationInv'
  OBVIOUS
<1>1. CASE Terminated \/ UNCHANGED vars
  <2>1. UNCHANGED vars
    BY <1>1 DEF Terminated
  <2> QED BY <2>1 DEF vars, RegistrationInv, MutexInv, RunInv, RunsOnce, SeenInv, HasRead,
          RegisteredInv, ErrorsRefuse, RequestInv
<1> QED BY <1>1, CallerStep, RunnerStep DEF Next

\* Nobody has called anything at first.
LEMMA RegistrationInit == Init => RegistrationInv
BY DEF Init, RegistrationInv, MutexInv, RunInv, RunsOnce, SeenInv, HasRead, RegisteredInv,
   ErrorsRefuse, RequestInv

\* The invariant holds in every reachable state.
LEMMA RegistrationHolds == Spec => [](TypeOK /\ RegistrationInv)
BY TypeCorrect, RegistrationInit, RegistrationStep, PTL DEF Spec

-----------------------------------------------------------------------------
(* What it means for those who register, and for Run.                      *)

\* Nothing that was given to the manager is dropped, whatever the interleaving of
\* the calls with the beginning of Run.
THEOREM Accounted == Spec => []NothingDropped
<1>1. RegistrationInv => NothingDropped
  BY DEF RegistrationInv, NothingDropped, SeenInv, RegisteredInv
<1> QED BY <1>1, RegistrationHolds, PTL

\* No stage begins when an initialization error was recorded.
THEOREM Refused == Spec => []ErrorsRefuse
<1>1. RegistrationInv => ErrorsRefuse
  BY DEF RegistrationInv
<1> QED BY <1>1, RegistrationHolds, PTL

\* A shutdown requested before the stages begin has cancelled the startup context
\* by then, and stands as its cause.
THEOREM Heard == Spec => []RequestHeard
<1>1. TypeOK /\ RegistrationInv => RequestHeard
  <2> SUFFICES ASSUME TypeOK, RegistrationInv, NEW r \in Runner, run[r] = "running", asked # {}
               PROVE  startup \in asked
    BY DEF RequestHeard
  <2>1. startup # "nil"
    BY DEF RegistrationInv, RequestInv
  <2>2. startup # "live"
    BY DEF RegistrationInv, RequestInv, RunInv, RunsOnce
  <2> QED BY <2>1, <2>2 DEF RegistrationInv, RequestInv
<1> QED BY <1>1, RegistrationHolds, PTL

\* Once a call of Run has read the lists of the manager, they do not change.
THEOREM Frozen == Spec => ListFrozen
<1>1. TypeOK /\ RegistrationInv /\ [Next]_vars
        => [\A r \in Runner : HasRead(r) => UNCHANGED <<tasks, initErrors>>]_vars
  <2> SUFFICES ASSUME TypeOK, RegistrationInv, [Next]_vars, NEW r \in Runner, HasRead(r)
               PROVE  UNCHANGED <<tasks, initErrors>>
    OBVIOUS
  <2>1. isRunning /\ \A c \in Caller : at[c] # "checked"
    BY DEF RegistrationInv, RunInv, SeenInv, HasRead
  <2>2. ASSUME NEW c \in Caller, Calling(c) PROVE UNCHANGED <<tasks, initErrors>>
    BY <2>1, <2>2 DEF Calling, InitFails, Lock, Shutdown, CheckRunning, AddTask, AddInitError,
       TooLate
  <2>3. ASSUME NEW q \in Runner, Running(q) PROVE UNCHANGED <<tasks, initErrors>>
    BY <2>3 DEF Running, Swap, ReadRegistered, BeforeRunFails, Publish, ApplyPending
  <2>4. CASE Terminated \/ UNCHANGED vars
    BY <2>4 DEF Terminated, vars
  <2> QED BY <2>2, <2>3, <2>4 DEF Next
<1> QED BY <1>1, RegistrationHolds, PTL DEF Spec, ListFrozen
=============================================================================
