---------------------------- MODULE Registration ----------------------------
(***************************************************************************)
(* How tasks get into a Manager of svcinit (manager.go) while calls of Run *)
(* begin (run.go).  AddTask, AddInitError and Shutdown hold m.mu; Run      *)
(* swaps isRunning without it, and takes it twice: to read what was        *)
(* registered, and to publish the contexts a late request cancels.         *)
(* Manager.tla takes each call as one step; here AddTask looks at          *)
(* isRunning in one step and acts on what it saw in another.               *)
(***************************************************************************)
CONSTANTS
    Caller,     \* the calls of AddTask, AddService, AddInitError, Shutdown, ...
    Kind,       \* Kind[c]: what the call is, and what it was given
    Runner      \* the calls of Run

\* "task" is a valid task with a start step, for a stage the manager has;
\* "badTask" a nil task or service, one with an InitError, or one for a stage the
\* manager does not have; "initFails" an InitCheckAddTask whose init fails.
CallKind == {"task", "badTask", "initError", "initFails", "shutdown"}

ASSUME RegistrationAssumption ==
    /\ Kind \in [Caller -> CallKind]
    /\ {"nil", "live"} \cap Caller = {}

VARIABLES
    mu,          \* m.mu: the caller that holds it, or "nil"
    isRunning,   \* m.isRunning
    tasks,       \* m.tasks: the calls whose task is in the list
    initErrors,  \* m.initErrors: the calls whose error is in the list
    pending,     \* m.pendingStartupCancel: the call it is of, or "nil"
    startup,     \* the startup context: "nil" before it exists, "live", or its cause
    at,          \* where each caller is
    run,         \* where each call of Run is
    seen,        \* what Run has read: the tasks and the errors
    taken,       \* the pending request Run has read
    asked        \* the calls that have requested a shutdown

vars == <<mu, isRunning, tasks, initErrors, pending, startup, at, run, seen, taken, asked>>

callerVars == <<mu, at>>
runVars == <<isRunning, run, seen, taken>>

TypeOK ==
    /\ mu \in Caller \cup {"nil"}
    /\ isRunning \in BOOLEAN
    /\ tasks \subseteq Caller /\ initErrors \subseteq Caller
    /\ pending \in Caller \cup {"nil"}
    /\ startup \in Caller \cup {"nil", "live"}
    /\ at \in [Caller -> {"idle", "locked", "checked", "done"}]
    /\ run \in [Runner -> {"idle", "refused", "swapped", "beforeRun", "published",
                           "running", "returned"}]
    /\ seen \in [tasks : SUBSET Caller, errors : SUBSET Caller]
    /\ taken \in Caller \cup {"nil"}
    /\ asked \subseteq Caller

Init ==
    /\ mu = "nil" /\ isRunning = FALSE
    /\ tasks = {} /\ initErrors = {}
    /\ pending = "nil" /\ startup = "nil"
    /\ at = [c \in Caller |-> "idle"]
    /\ run = [r \in Runner |-> "idle"]
    /\ seen = [tasks |-> {}, errors |-> {}]
    /\ taken = "nil" /\ asked = {}

-----------------------------------------------------------------------------
(* The callers.                                                            *)

\* The init function of InitCheckAddTask returns an error: nothing is added.
InitFails(c) ==
    /\ at[c] = "idle" /\ Kind[c] = "initFails"
    /\ at' = [at EXCEPT ![c] = "done"]
    /\ UNCHANGED <<mu, tasks, initErrors, pending, startup, runVars, asked>>

\* m.mu.Lock.
Lock(c) ==
    /\ at[c] = "idle" /\ Kind[c] # "initFails"
    /\ mu = "nil" /\ mu' = c
    /\ at' = [at EXCEPT ![c] = "locked"]
    /\ UNCHANGED <<tasks, initErrors, pending, startup, runVars, asked>>

\* The call is over and the mutex released.
Unlock(c) ==
    /\ at' = [at EXCEPT ![c] = "done"]
    /\ mu' = "nil"

\* Mutant: a request that finds no startup context is dropped.
NoPending(c) == pending

FirstPending(c) == IF startup = "nil" /\ pending = "nil" THEN c ELSE pending

\* requestStartupCancel: the startup context is cancelled, which keeps its first
\* cause or, before there is one, the first request is kept.
RequestStartupCancel(c) ==
    /\ asked' = asked \cup {c}
    /\ startup' = IF startup = "live" THEN c ELSE startup
    /\ pending' = FirstPending(c)

\* Shutdown.
Shutdown(c) ==
    /\ at[c] = "locked" /\ Kind[c] = "shutdown"
    /\ RequestStartupCancel(c)
    /\ Unlock(c)
    /\ UNCHANGED <<tasks, initErrors, runVars>>

\* Mutant: AddTask does not look at isRunning.
NeverLate(c) == FALSE

TooLate(c) == isRunning

\* AddTask looks at isRunning: too late, and a shutdown is requested; or the task
\* is looked at.
CheckRunning(c) ==
    /\ at[c] = "locked" /\ Kind[c] \in {"task", "badTask"}
    /\ IF TooLate(c)
       THEN RequestStartupCancel(c) /\ Unlock(c)
       ELSE /\ at' = [at EXCEPT ![c] = "checked"]
            /\ UNCHANGED <<mu, pending, startup, asked>>
    /\ UNCHANGED <<tasks, initErrors, runVars>>

\* m.tasks.add, although Run may have begun since isRunning was looked at.
AddTask(c) ==
    /\ at[c] = "checked" /\ Kind[c] = "task"
    /\ tasks' = tasks \cup {c}
    /\ Unlock(c)
    /\ UNCHANGED <<initErrors, pending, startup, runVars, asked>>

\* addInitError: from AddInitError, or from AddTask for a task it cannot add,
\* when isRunning is looked at for the second time.
AddInitError(c) ==
    /\ \/ at[c] = "locked" /\ Kind[c] = "initError"
       \/ at[c] = "checked" /\ Kind[c] = "badTask"
    /\ IF TooLate(c)
       THEN RequestStartupCancel(c) /\ UNCHANGED initErrors
       ELSE initErrors' = initErrors \cup {c} /\ UNCHANGED <<pending, startup, asked>>
    /\ Unlock(c)
    /\ UNCHANGED <<tasks, runVars>>

-----------------------------------------------------------------------------
(* Run.                                                                    *)

\* isRunning.CompareAndSwap, without the mutex.
Swap(r) ==
    /\ run[r] = "idle"
    /\ run' = [run EXCEPT ![r] = IF isRunning THEN "refused" ELSE "swapped"]
    /\ isRunning' = TRUE
    /\ UNCHANGED <<callerVars, tasks, initErrors, pending, startup, seen, taken, asked>>

\* Mutant: Run reads what was registered without the mutex.
ReadUnlocked == TRUE

MutexFree == mu = "nil"

\* Under the mutex, the errors and the number of tasks to start: Run returns, or
\* goes on to the beforeRun callbacks.
ReadRegistered(r) ==
    /\ run[r] = "swapped"
    /\ MutexFree
    /\ seen' = [tasks |-> tasks, errors |-> initErrors]
    /\ run' = [run EXCEPT ![r] = IF initErrors # {} \/ tasks = {} THEN "returned"
                                                                  ELSE "beforeRun"]
    /\ UNCHANGED <<callerVars, isRunning, tasks, initErrors, pending, startup, taken, asked>>

\* A beforeRun callback returns an error.
BeforeRunFails(r) ==
    /\ run[r] = "beforeRun"
    /\ run' = [run EXCEPT ![r] = "returned"]
    /\ UNCHANGED <<callerVars, isRunning, tasks, initErrors, pending, startup, seen,
                   taken, asked>>

\* Mutant: the pending request is read before the contexts are published.
TakenEarly == taken

Taken == pending

\* Under the mutex, the contexts are published and the pending request read.
Publish(r) ==
    /\ run[r] = "beforeRun"
    /\ mu = "nil"
    /\ startup' = "live"
    /\ taken' = Taken
    /\ run' = [run EXCEPT ![r] = "published"]
    /\ UNCHANGED <<callerVars, isRunning, tasks, initErrors, pending, seen, asked>>

\* The pending request is applied, without the mutex: a later one may have come
\* first.
ApplyPending(r) ==
    /\ run[r] = "published"
    /\ startup' = IF startup = "live" /\ taken # "nil" THEN taken ELSE startup
    /\ run' = [run EXCEPT ![r] = "running"]
    /\ UNCHANGED <<callerVars, isRunning, tasks, initErrors, pending, seen, taken, asked>>

-----------------------------------------------------------------------------
Calling(c) ==
    \/ InitFails(c) \/ Lock(c) \/ Shutdown(c)
    \/ CheckRunning(c) \/ AddTask(c) \/ AddInitError(c)

Running(r) ==
    \/ Swap(r) \/ ReadRegistered(r) \/ BeforeRunFails(r)
    \/ Publish(r) \/ ApplyPending(r)

Terminated ==
    /\ \A c \in Caller : at[c] = "done"
    /\ \A r \in Runner : run[r] \in {"refused", "running", "returned"}
    /\ UNCHANGED vars

Next ==
    \/ \E c \in Caller : Calling(c)
    \/ \E r \in Runner : Running(r)
    \/ Terminated

Spec == Init /\ [][Next]_vars

-----------------------------------------------------------------------------
\* Run has read what was registered.
HasRead(r) == run[r] \in {"beforeRun", "published", "running", "returned"}

\* run.go:47-48: once isRunning is true and Run has read m.initErrors and m.tasks
\* under m.mu, nobody writes to them again, an AddTask that had found isRunning
\* false included; Run and its goroutines read the list without the mutex.
ListFrozen ==
    [][\A r \in Runner : HasRead(r) => UNCHANGED <<tasks, initErrors>>]_vars

\* Nothing that was given to the manager is dropped: when Run has read the lists,
\* a call that is over is in them, or has requested a shutdown.
NothingDropped ==
    \A r \in Runner, c \in Caller :
        HasRead(r) /\ at[c] = "done" /\ Kind[c] # "initFails"
            => c \in seen.tasks \cup seen.errors \cup asked

\* Run begins no stage when there is an initialization error, however late it was
\* recorded; and the error of a task that was not added counts as one.
ErrorsRefuse ==
    \A r \in Runner : run[r] \in {"beforeRun", "published", "running"} => initErrors = {}

\* manager.go:138-148 and run.go:91-109: when the stages begin, a shutdown that was
\* requested, by whoever and whenever, has cancelled the startup context.
RequestHeard ==
    \A r \in Runner : run[r] = "running" /\ asked # {} => startup \in asked

\* A Manager runs once.
RunsOnce ==
    \A r, s \in Runner :
        run[r] \notin {"idle", "refused"} /\ run[s] \notin {"idle", "refused"} => r = s

\* The inductive invariant: who holds the mutex between the two looks at the
\* state, what Run has seen of it, and where a request is kept.
MutexInv == \A c \in Caller : at[c] \in {"locked", "checked"} => mu = c

RunInv ==
    /\ \A r \in Runner : run[r] \notin {"idle"} => isRunning
    /\ RunsOnce

SeenInv ==
    \A r \in Runner : HasRead(r) =>
        /\ seen.tasks = tasks /\ seen.errors = initErrors
        /\ \A c \in Caller : at[c] # "checked"

RegisteredInv ==
    \A c \in Caller : at[c] = "done" /\ Kind[c] # "initFails"
        => c \in tasks \cup initErrors \cup asked

RequestInv ==
    /\ startup = "nil" <=> \A r \in Runner : run[r] \notin {"published", "running"}
    /\ startup = "nil" /\ asked # {} => pending \in asked
    /\ pending # "nil" => pending \in asked
    /\ startup \notin {"nil", "live"} => startup \in asked
    /\ taken # "nil" => taken \in asked
    /\ startup = "live" =>
         \E r \in Runner :
            /\ run[r] \in {"published", "running"}
            /\ run[r] = "published" /\ asked # {} => taken # "nil"
            /\ run[r] = "running" => asked = {}

RegistrationInv ==
    MutexInv /\ RunInv /\ SeenInv /\ RegisteredInv /\ ErrorsRefuse /\ RequestInv
=============================================================================
