# A TLA+ model of svcinit

svcinit runs the tasks of a service through four steps, setup, start, stop and
teardown, stage by stage, and takes them down again in reverse when the first
of them returns, when the caller asks for it, or when an initialization fails.
This directory holds a specification of that machinery, the TLC configurations
that check it on small instances, and proofs of the properties listed at the end
for every instance. File names such as `run.go:34` are relative to `src/`.

## The system: inventory

| component | state | operations | hard behaviour | what makes it correct |
|---|---|---|---|---|
| Task wrapper (`task_wrapper.go`) | the ledger `executeSteps`, under a mutex; options | `checkStartStep`, `checkRunStep`, `run` | written by a step goroutine while Run reads it; steps a task does not implement; a step set that grows (providers); an error handler that changes the result | steps in order, each at most once; nothing after a failed setup |
| Run (`run.go`, `run_helpers.go`) | stage loop, wait groups, `startupCtx`, `taskDoneCtx`, shutdown and teardown contexts, collected errors | `runWithStopErrors`, `start`, `shutdown`, `runStage`, `runStageStep`, `notifyTasksSkipped` | one goroutine per step; timeouts that abandon goroutines; first reason to stop wins; setup errors take precedence | stages are barriers going up and coming down; teardown pairs with setup and runs beside nothing; errors and abandoned goroutines are reported; Run returns |
| Registration (`manager.go`, `run.go:315-335`) | `isRunning`, `initErrors`, the task lists, `pendingStartupCancel` | `AddTask` and its variants, `AddInitError`, `Shutdown` | called from other goroutines while Run starts | no request is lost; the task list does not change once Run read it |
| Start step manager (`context.go`, `run.go:441-467`) | cancel function and finish context of a start step, in the wrapper | `ContextCancel`, `Finished`, `FinishedErr` | a stop step reads what the start goroutine writes | the stop step sees them complete; `Finished` closes when start returned |
| Future and latch (`future.go`) | a lazily made channel, value, error | `Value`, `Done`, `Resolve`, `ResolveError` | concurrent readers, write once, lazy channel | resolved once; readers see one value; no waiter is left behind |
| Future task (`futuretask/task.go`) | a future and an instance task | setup resolves, `Skipped` resolves with an error | both may be called; a refused task has neither | resolved exactly once by the time Run returns |
| Instance task and provider (`instancetask/`) | data of the setup step, parent task | `runSetup`, `Run`, `TaskInfo` | step set and data change while running | steps after setup see the data of setup |
| BuildTask (`build.go`), services (`service.go`) | parent and computed state, two atomics | `init`, `SetParent`, `TaskInfo`, `Run` | parent and state are stored and read apart | the steps a task says it has are those it can run |
| Kubernetes manager (`k8sinit/`) | four stages over Manager, a handler and a task of each kind | `New`, `SetHealthHandler`, `SetHealthTask`, `SetTelemetryHandler`, `SetTelemetryTask`, `AddService` | order of the probe calls at startup and shutdown | "started" only after the initialization, "terminating" before anything below the services stops |
| Health server (`health.go`, `health_http/`) | two atomics, HTTP server | probes, the four steps of the server | two reads of the status while it is written | a probe says 200 only when it may |
| Callbacks (`callback.go`), errors (`defs.go`, `util.go`), logging, ready-made tasks (`default.go`) | none of their own | | | |

Run's own goroutine calls the wrappers and spawns a goroutine for each step.
These come back through the `onError` function and a wait group: one per stage
for setup, stop and teardown, one for all start steps (`tasksRunning`), plus one
that only waits until the start goroutines are ready. Callers reach Run through
three contexts: the one given to Run, the one of `WithRunShutdownContext`, and
`startupCtx`, which the first error, first return or `Shutdown` cancels with a
cause. `taskDoneCtx` is what ends start steps with `WithCancelContext`.

## Modules

* `TaskWrapper.tla`: the ledger and the goroutine of one step.
  `executeSteps` is the slice of the code; `steps` is what `TaskInfo.Steps`
  answers (it grows when the setup of a provider sets its parent); `runs[t][s]`
  is where the goroutine of a step is: *spawned* by `runStageStep`, *ready* once
  `startWg.Done` is called, *running* from the append in `run`
  (`task_wrapper.go:70`) on, *ended* when `run` returned, *done* when `onError`
  was called and the wait group released. *ready* and *ended* are where the Before
  and After callbacks take their time. `Blocking` and `Required` are the four
  cases of `internalPrevStepIsDone`; `CheckStartStep` is the whole of
  `checkStartStep`, with the record of a step passed over. What the user code
  returns passes through the task error handler before it is looked at
  (`task_wrapper.go:77-79`): for the tasks in `Handled`, `AfterHandler` lets any
  result become any other; `Provided` is what the setup step did meanwhile. The specification
  `WrapperSpec` adds the caller the package's unit tests play: any step, in any
  order, any number of times, one at a time.
* `Manager.tla` EXTENDS it with Run (`Main`), callers, timers and the
  goroutines. `pc` follows `runWithStopErrors`: *idle*, *entered* (after the
  compare-and-swap), *beforeRun* (callbacks), *apply* (contexts published,
  pending request not yet applied), *runStage* (within `start` or `shutdown`,
  `stage` and `step` say where, `todo` which tasks the loop has yet to visit),
  *notify*, *select*, *drain* (waiting for `tasksRunning`), *returned*.
  `IsExit` is the `errors.Is(cause, ErrExit)` of `run.go:149`: any cause may wrap
  `ErrExit`, a setup error included, and makes Run return none. `ExitErrors` are
  the steps whose error does, if there is one, `ExitCalls` the calls whose cause does.
* `Future.tla`: the future and its latch, one action per critical section or
  channel operation. A channel is named by the reader whose `Done` made it, or
  `closedchan`; `Lock`, `Write` and `Close` are the three parts of
  `latch.resolve`, `ReadValue` and `ReadError` the two unsynchronized reads of
  `return f.v, f.err`. A content is identified with the resolver that brings it.
* `WriteOnce.tla`: what a future promises, a register written once. `Future`
  implements it: the register has its content when the latch's channel is closed.
* `FutureTask.tla` EXTENDS Manager with the futures of tasks made by
  `futuretask.New`: `SetupFuncReturns` resolves within the running setup step,
  `FutureMain` calls the Skipped callback of every task Run notifies, and the
  start step of a task returns only when the futures it awaits are resolved.
  `RefuseTask` is an AddTask that fails. A future is a register here, which is
  what `Future.tla` is proved to implement; `Manager`'s actions are unchanged.
* `Registration.tla`: AddTask and its variants, AddInitError and Shutdown against
  the prologue of Run, lock by lock. `mu` is `m.mu`; `at[c]` says where a caller
  is (*locked*, *checked* after `isRunning` was read), `run[r]` where a call of
  Run is: *swapped* after the compare-and-swap, which takes no lock,
  *beforeRun* once it has read the lists, *published* once the contexts exist,
  *running* when the pending request was applied. Manager takes each of these
  calls as a step; this module shows why it may.
* `StartStepManager.tla` EXTENDS Manager with the fields `startCancel` and
  `finishCtx` of the wrapper, the copy the stop step is given (`captured`) and the
  stop step of `README.md:678-697`: cancel the start step, then wait until it
  has finished or the context is done (`told`).
* `BuildTask.tla`: the steps of a task made from functions, a parent or a
  service, its errors, and what running a step comes to. The first is computed
  when the task is built or given a parent, the last when the step runs.
* `InstanceTask.tla` EXTENDS Manager and BuildTask with the data pointer, the parent
  and the state of builds made by `instancetask.Build` and `Provider`, and with
  builds that decorate them by `WithParent`. `at[t]` is where a setup step is
  inside `runSetup`: *calling* the user's function, *setParent* with the data
  stored, *init* with the parent stored too, *succeeded* or *failed*.
  A build may be the task of two wrappers, in two stages. `Forgiven(t)` says that the
  error handler of `t` ignored that its setup step did not make the instance ready;
  such a task is started without data or with steps it cannot call.
* `K8s.tla` EXTENDS Manager and BuildTask with the tasks `k8sinit` makes. A task
  that was not added has no steps, and Run passes over it. `Register` is what is
  called before Run; `MayReturn` says when a step of each kind returns, and with
  what; `Accept`, `LoadStarted` and `Answer` are a request goroutine of the health
  server, which has a listener from `Listen` to `Shutdown`. `request.late` remembers
  that it came when a stage below the services was being stopped.
* `MC*.tla` give the constants values for TLC.
* `WrapperProofs.tla` and `ManagerProofs.tla`, which extends it, hold the theorems about
  `TaskWrapper` and `Manager`. `StartStepManagerProofs.tla`, `FutureTaskProofs.tla`,
  `InstanceTaskProofs.tla` and `K8sProofs.tla` extend both and hold those about their
  modules; `FutureProofs.tla` and `RegistrationProofs.tla` stand alone.

An action is the code between two points where another goroutine can make a
difference: `CheckTask` is one iteration of the loop in `runStageStep` up to the
`go` statement, as `checkStartStep` is atomic under the wrapper's mutex; a wait
is a guard. Where `onError` runs (`GoReport`, and `CheckTask` for an invalid
order), its effect on `startupCtx` and on the error builders is part of the step.

### Abstractions

* User code (steps, callbacks, error handlers, handlers) takes any time and
  returns any result: an error or none. Whether the error wraps `ErrExit` is a
  constant, `ExitErrors`, which loses nothing: a step of a task fails once at most.
* The task error handler turns an error into none or none into an error, for the
  tasks in `Handled`; for the others there is no handler, or it keeps the one as it is.
* Causes are classes: `"exit"`, `"rejected"` (late AddTask or AddInitError),
  `"setup"` (the errors of all setup steps that failed, joined), `"ctx"`, or the task
  whose start step failed. Of what they wrap only `ErrExit` matters to the code.
  `"fatal"` is the result `run.go:154-161` makes of an
  invalid step order; `NoOrderError` says it does not occur.
* A `TaskHandler` (`WithHandler`) calls the task. One that does not, or that calls
  another step, is left out.
* The start step of a health server whose setup error was ignored finds no server
  and panics, which ends the program; `ServerReturns` lets it return an error instead.
* The tasks of a stage are visited in any order, which includes the order of
  `AddTask`. AddTask is one step of Manager, before or after the compare-and-swap
  of Run; Registration takes it apart.
* A step that returned to `onError` and released its wait group does so in one
  step; nothing can tell the two apart but a waiter that would wake later.
* A second call of Run changes nothing and is left out of Manager (Registration has
  it); so are `afterRun`
  callbacks, which may replace the result after everything is over.
* Timers may expire at any moment while the context is in use.

## Runs

The runs of the Manager alone have two tasks in two stages: every rule about
stages relates two of them. `steps` adds a third task beside the first, for the
rules about tasks of one stage. Nothing is bounded besides these constants: the
state space is finite as it is, since a wrapper runs each of the four steps
once, and each caller's context is cancelled once.

| run | instance | question |
|---|---|---|
| `wrapper` | two tasks, every step set, one with a start step manager, one a provider with an error handler | is the ledger safe against any sequential caller? `LedgerInOrder`, `NoRerun`, `NothingWithoutSetup` |
| `steps` | 3 tasks in 2 stages: a plain one with one of five step sets and a start step manager; in each stage a provider, its decorator or an instance, perhaps the same one twice; an error handler for the task of the second; init errors, of the manager and of what a setup function returns | do stages come up and go down as barriers, do missing and growing step sets upset the order, is data made once and every called step callable? `SetupBarrier`, `StartBarrier`, `StopOrder`, `NoOrderError`, `TeardownPaired`, `SkippedNeverRan`, `StepsAreCallable`, `DataMadeOnce`, `StateFollowsParent` |
| `timeout` | 2 tasks with or without a stop step, one with a start step manager; enforced shutdown timeout and teardown timeout, both caller contexts cancelled at any moment; one setup error, one start error and the cause of the caller wrap `ErrExit`, the others do not; init errors | is what is abandoned reported, is teardown alone otherwise, and has the result a reason? `TeardownLast`, `AbandonedIsReported`, `StopErrorsKept`, `ResultIsDeserved` |
| `hang` | 2 tasks, enforced timeout whose context teardown shares, start and stop steps may hang | does Run return, is every recorded start stopped and everything set up torn down, and is what was left behind reported where the context is read only once? `Terminates`, `StartedIsStopped`, `TeardownPaired`, `AbandonedIsReported` |
| `registration` | callers of every kind against two calls of Run | is every call accounted for, whatever the order of locks? `NothingDropped`, `ErrorsRefuse`, `RequestHeard`, `ListFrozen` |
| `start_step_manager` | 2 services in 2 stages, both waiting in their stop step, one cancelling its start step, one with CancelContext; enforced timeout, caller's context cancelled at any moment | is what the stop step learns true, do contexts outlive what depends on them, and does the stop step return? `FinishedMeansReturned`, `FinishedErrTold`, `ContextOutlivesDependents`, `StopStepReturns`, `SSMTypeOK` |
| `k8s` | the four stages with signals, health server, database, the probes, telemetry and a service, each added or not; an error handler on the started probe; no timeout | does the readiness probe say 200 only when it may? `ReadyAfterInit`, `NotReadyBelow`, `TypeOK` |
| `future` | 2 resolvers, one with an error; 3 readers, one without waiting, one with a context | does a latch with a lazy channel behave as a register written once? `ReadersAgree`, `ChannelKept`, `NoWaiterLeft`, `IsWriteOnce` |
| `future_tasks` | 3 stages with one task each, two of them future tasks, one a provider and one with an error handler; late and invalid AddTask; no timeout; start steps that wait for futures without a context | is every future resolved before Run waits, does it say what happened, is an early request kept, and does Run return? `ReleasedBeforeShutdown`, `FutureTells`, `RequestNotLost`, `Terminates` |
| `missed_stop`, `dropped_rejection`, `refused_future` | the smallest instance that shows it | a statement of the documentation the code does not keep (below) |

`future` needs two resolvers for a second resolution and two fields for a
mixture of contents; the third reader sees a channel made by the first.
`future_tasks` needs three stages: one that waits, one that fails, one that is
never reached. `k8s` has the bounds that cut behaviour off, both in
`MCK8s.tla`. `OneHandler`: not both a telemetry and a health handler, whose stop steps run beside
each other and the service's and have nothing to do with each other. `TelemetryBelow`: a
telemetry task, a task of the management stage like any other, only beside the signal
and health tasks and the health handler. The theorems have neither. The run has no timeout and
one readiness probe at a time; a probe that was answered is followed by others.
`steps` and `k8s` have no timeout because a context that is done weakens what
may be said (`Overdue`); `timeout` and `hang` have it.

Properties are invariants except `NoRerun` and `ListFrozen`, which are action
properties, `IsWriteOnce`, a refinement, and `NoWaiterLeft`, `Terminates`,
`StartedIsStopped` and `StopStepReturns`, which need fairness:

* `SchedulerFairness`: the Go scheduler runs each goroutine that can run, timers
  fire and cancellations propagate, and callbacks return (they are called
  synchronously, so that nothing works if they do not).
* `FairSpec` adds that setup and teardown steps return: `run.go:191` and
  `run.go:287` await them without any timeout, which is the code's contract with
  its user. Start and stop steps may hang: that is what the timeout is for. So
  `Terminates` shows nothing about a teardown step that hangs: then Run does, and
  no property says otherwise.
* `FutureFairSpec`, for a manager without timeout, assumes user code that
  cooperates: stop steps return as well, and so does a start step whose context
  is cancelled, as the documentation asks of tasks with `WithCancelContext`.
  Nothing is assumed of a start step whose context is alive, and one that waits
  for a future does so for as long as it takes, whatever its context.
  `TestSkippedAfterSetupError` (`futuretask/task_test.go:108`) is one schedule.
* `FairSpec` of Future: whoever can take a step does, and nobody has to resolve.
* `SSMFairSpec` assumes only what `StopStepReturns` is about: the goroutines of start
  and stop steps run, the stop step goes on when it is not waiting, and a start
  step returns once its context is done. Run itself need not move, and no timeout
  need expire.

## Findings

1. **A started task can be left without its stop** (`missed_stop`,
   `StoppedIfStarted`). `startWg.Done` (`run.go:474`) lets Run go on before the
   goroutine has called the Before callbacks and recorded the start
   (`task_wrapper.go:67-70`). If another task ends at that moment, the stop loop
   finds no start in the ledger and passes the task by without an error. Its
   start step then runs, with nobody to stop it; without an enforced timeout Run
   waits for it for ever. `README.md:38-39` promises the stopping steps of what was started.
2. **A pending rejection can be dropped** (`dropped_rejection`,
   `RejectionReported`). Between the publication of `startupCancel`
   (`run.go:85-89`) and the application of the pending cause (`run.go:97`) the
   mutex is free; a `Shutdown` in between wins and Run returns no error.
3. **The future of a refused task is never resolved** (`refused_future`,
   `RefusedIsReleased`). AddTask drops a task it refuses, before Run or after
   (`manager.go:70-85`), so nobody calls its Skipped, and readers without a context
   wait for ever. `futuretask/task.go:15-16` says that they don't.

Met while modelling, and stated by no run because the code does what its
comments nearby say, or because the sentence can be read another way:

* `task.go:49-50` says that Skipped is called when Run returns without having run
  any of the task's steps. `run.go:110` notifies the stages after the failed one: a
  task with only a start step *in* the failed stage is not called.
* `manager.go:189-191` says of the enforced timeout that Run does not wait for
  *all shutdown tasks*; teardown stages are awaited all the same (`run.go:287`).
* `context.go:25` says that Finished is a nil channel when it cannot be checked;
  `context.go:88` returns a closed one. A stop step that waits goes on at once.
* `k8sinit/defs.go:6` calls the ready stage the one that signals *that the service
  has completely started*: it comes before the service stage, so that readiness
  probes are answered with 200 before the services are set up. If that setup
  fails, nothing of the service stage is stopped, the terminating probe is never
  told, and the answer is 200 until the server closes. `NotReadyBelow` is
  therefore about services that were started.
* A decorator of a provider (`WithParent`) computes its steps when it is built and
  does not learn those the provider gains by its setup: they are never run.
* The same instance added twice to *one* stage runs its setup function twice, and
  the data of the first call is replaced (`instancetask/build.go:83-90`).
* A setup error that wraps `ErrExit` makes Run return no error although the
  initialization failed (`run.go:149`); `ResultIsDeserved` states it as it is.

## Proofs

`WrapperProofs.tla` is about `WrapperSpec`, with any sequential caller, and assumes
`WrapperAssumption` (step sets are sets of steps). Its lemmas on `Record` and on
moving one goroutine say what a single update does to all other tasks and steps,
and serve the modules below.

* `LedgerOrdered`: `[]LedgerInOrder`. A step is checked when it is asked for and
  recorded later, by its goroutine. `OrderedInv` therefore adds that at most one
  goroutine of a task is under way (`OneAtATime`), and that the step it has yet to
  record is still in order (`StillInOrder`).
* `SetupFirst`: `[]NothingWithoutSetup`. `RecordedInv` says that a step that is
  recorded or under way comes after a record of setup (`AfterSetup`), that this
  record means success or that there is no setup step (`SetupRecorded`), and that what ran is
  recorded but for a failed setup (`RanIsRecorded`, `SetupAfresh`). Failure and success are
  what the error handler made of the result, as in the code.
* `RunsOnce`: `NoRerun`. A step that ran is in the ledger, and blocks itself.
* `WrapperTypeCorrect`, the type of the wrappers' state.

`ManagerProofs.tla` assumes in addition `ManagerAssumption` (every task has a stage in
`1..NStages`, options are Booleans) and nothing about the size of anything.

* `TypeCorrect`: `Spec => []TypeOK`. The wrapper's part and Run's part are
  proved apart.
* `StepsInOrder`: `Spec => [](NoOrderError /\ NothingAhead)`. `NoOrderError`, that
  `checkStartStep` never returns an error to Run, is not inductive: it depends
  on what the ledger holds. The ledger in turn is written by goroutines that Run
  may have abandoned. `OrderInv` therefore adds `NothingAhead`, that for a step
  Run has not come to there is neither a goroutine nor a record, where "come to" is
  `MayHaveAsked`, a predicate of Run's position alone, and that `todo` holds only
  tasks of the current stage. The step case is: Run's position never goes back
  (`AskedGrows`); a goroutine leaves traces only of its own step
  (`GoroutineTraces`), `checkStartStep` only of the step it is asked for
  (`CheckTraces`); and no step that would block the one asked for has been come to
  (`CheckInOrder`).

The theorems that follow use `TypeOK` and `OrderInv` for one fact above all: when
Run visits a task for a step, the task never had a goroutine for it (`CheckKeeps`).
A step of the manager is one of a goroutine, the visit of a task, or leaves the
wrappers alone (`ThreeKinds`), and each invariant has one lemma for each of these.

* `BarriersHold`: `[](SetupBarrier /\ StartBarrier)`. `UpInv` says what is known of the
  stages below Run's position (`BelowReady`) and of the present one once its start steps
  are asked for (`StageSetUp`), and that a failed setup is known to Run when its
  wait group is released (`FailureKept`), which is why Run cannot go on over it.
* `StagesInReverse`: `[](StopOrder /\ TeardownLast)`. `DownInv` is the same for the
  stages above, on the way down (`AboveStopped`, `AllStopped`, `AboveTornDown`). Its
  weak spot is `Overdue`: a context that is done lets Run go on, and must stay done
  (`LateForGood`), or what was let go would no longer be excused.
* `NothingUntold`: `[](AbandonedIsReported /\ StopErrorsKept)`. `EndInv` says that no
  setup step is under way after start (`SetupsOver`) and that an error is collected
  by the time the step is over, unless Run had returned with a context error
  (`ErrorKept`).
* `SetupIsUndone`: `[](TeardownPaired /\ SkippedNeverRan)`. The way up and the way
  down are related through the ledger, which is all the code has. `PairInv` says that
  a task has a trace of its setup exactly if it was visited for it, and none of
  another step before (`AskedIsSeen`); that a setup that is over is in the ledger
  exactly if it did not fail (`SetupTold`); that a goroutine for teardown exists
  exactly if the task implements it and its setup is in the ledger (`TeardownExact`);
  that both are over when Run returns (`EndQuiet`), for neither wait has a timeout;
  and for whom Skipped was called (`SkipsExact`). The step set of a task grows only
  while its setup runs.
* `StopsForAReason`: `[](ResultIsDeserved /\ RequestNotLost)`, assumes in addition
  `TaskAssumption`: no task is named like another result or state, so that the error
  of a task can be told apart. `ResultInv` follows a reason to stop from where it
  arises to what is returned: a pending request (`RequestKept`), the cause of the
  startup context, the cause chosen from it (`CauseChosen`, where a setup error takes
  precedence), and the result (`ResultFromCause`). What wraps `ErrExit` is any set of
  steps and calls. Whether the setup error does depends on which setup steps failed,
  and no more fail once Run has chosen its cause (`SameExit`).

The modules that extend Manager need what is known of Run, all at once: `RunInv`, the
conjunction of the invariants above with `AfterSetup`. A step of theirs is a step of
the Manager, which keeps it (`RunInvStep`), or leaves Run alone, or changes the
step set of tasks and nothing else of Run. The last keeps `RunInv` too if no task loses
a setup step it has a goroutine for and no teardown step was asked for yet
(`StepSetsMayChange`): only `SetupImplemented` and `TeardownExact` are about step sets. What a step of the
manager may do to one task is `TaskMoves`.

`FutureProofs.tla` assumes `FutureAssumption` (the kinds of calls are subsets of
the calls, and no call is named like a constant of the model).

* `OneContent`: `Spec => [](ReadersAgree /\ ChannelKept)`. The inductive invariant is
  `LatchInv`: who holds the mutex (`MutexInv`), what the fields hold while the
  latch is open (`OpenInv`) and afterwards (`ResolvedInv`), and what readers can
  have read (`ReadInv`). `ChannelKept` is part of it: without it a reader that
  found its channel closed could not conclude that the latch is resolved.
* `Refinement`: `Spec => IsWriteOnce`. `Close` is the step at which the register is
  written, `ReadError`, `NotResolved` and `GiveUp` are those at which a reader has
  its answer, a `Lock` that finds the latch resolved is the panic, and all others
  are invisible.
* `TypeCorrect`, the type of the future's state.

`RegistrationProofs.tla` is about any number of callers and calls of Run.
`RegistrationInv` says who holds the mutex between the two looks at `isRunning`
(`MutexInv`), that one call of Run at most got past the compare-and-swap
(`RunInv`), that after it has read the lists no caller is between the two looks
(`SeenInv`), that what was given is registered or has asked for a shutdown
(`RegisteredInv`), and where a request is kept until the startup context has it
(`RequestInv`). `Accounted`, `Refused`, `Heard` and `Frozen` follow: the last says
that no step changes the lists once Run has read them, which is not inductive
alone because a caller may have found `isRunning` false long before.

`StartStepManagerProofs.tla` uses the Manager's type invariant and assumes in addition
`StartStepManagerAssumption`.

* `FinishedIsReturned`: `SSMSpec => []FinishedMeansReturned`. The inductive invariant
  `SSMInv` relates the contexts to the goroutine of the start step (`Published`) and
  both to the ledger (`Begun`, `Capture`): a stop step is spawned only when the start
  step is in the ledger, which it comes to after its contexts were published, or
  without ever being spawned, because it was passed over. So a stop step that
  captured no finish context has no start step to wait for. That a start step is
  spawned once is `StepsInOrder`, by way of `ImplementsManager`: every step of the
  module is a step of the Manager or leaves it alone.
* `FinishedErrIsRight`: the cause of the finish context, where there is one, is
  what the start step returned, and no later step changes either.
* `ContextsOutlive`: `SSMSpec => []ContextOutlivesDependents`. `OnlyByStop` says that
  the context a start step has of its own is cancelled only once the step is over or
  its stop step has a goroutine, which exists only when the stages above were stopped
  or let go (`StopOrder`).
* `SSMTypeCorrect`, the type of all of it.

`FutureTaskProofs.tla` assumes `FutureTaskAssumption`.

* `FutureImplementsManager`: `FutureSpec => Spec`, without fairness. Futures are
  resolved inside steps the Manager has, or between them, and waiting only
  restricts when a start step returns.
* `FuturesReleased` and `FuturesTell`: `[]ReleasedBeforeShutdown`, `[]FutureTells`.
  `FutureInv` says that the setup step of a future task is never passed over
  (`SetupTraced`), that it ends only after its function has returned, and as that did
  unless an error handler or the parent of a provider comes in between (`ResultKept`), and that the future holds what the function returned or else, once
  Skipped was called, that the task was skipped (`Told`). Skipped is called for
  tasks of stages that were not reached (`SkipsExact`), the setup step run for all others.
  The future holds what the function returned, which the handler does not see: a task
  with a handler may be started although its future holds an error, and
  `FutureTells` says so of no other.
* `FuturesWrittenOnce`: no step changes a resolved future, so that the second
  `Resolve`, which panics (`future.go`), is never made. No run checks it.

`InstanceTaskProofs.tla` assumes `InstanceTaskAssumption`: what AddTask accepts (a
decorator has no step of its instance), a setup function of every instance, and that
a nil pointer, what is no task and a build are told apart.

* `BuildsDisturbNothing`: the theorems about Run hold although builds get steps
  from their parents while Run goes up. `BuildInv` says where the setup step of a task is
  when `runSetup` is anywhere (`SetupPhase`), that the steps of a task are those in
  the state of its build (`StepsStored`), and that it has its setup step throughout
  (`SetupTraced`).
* `CallsFindTheirStep`, `DataIsMadeOnce` and `StateIsThatOfParent`:
  `[]StepsAreCallable`, `[]DataMadeOnce` and `[]StateFollowsParent`, for every
  initial state in which the tasks that share an instance are in different stages
  (`Apart`). This is needed: `runSetup` tests the data pointer and stores it later,
  so that two setup steps of one stage may both call the setup function; with
  `StageOf` of both tasks set to 1, TLC finds `DataMadeOnce` violated. With
  `Apart`, `SetupBarrier` lets one setup step of an instance run at a time, after one
  that succeeded or whose error was ignored (`OneAtOnce`). `MadeInv` then says that the function is called only while there is
  no data, that what it made stays (`DataKept`), and that the state follows the
  parent but between the two writes, where the task that writes is still in its setup (`StateComputed`). Any other step comes after a
  setup that succeeded or was forgiven (`SetUpFirst`); either leaves state and parent as
  they should be where there is data (`SetupLeaves`). What an ignored setup error may
  bring about is excepted by name: a task that is `Forgiven` may be called without data
  or for a step it has twice, a later setup step of its instance likewise, and a handler
  may report a second setup as successful though it made no data.

`K8sProofs.tla` assumes `K8sAssumption`: how the tasks of `k8sinit` are named and to
which stage each belongs, not how many services and resources there are.

* `ServicesAreManaged`: the theorems about Run hold under the Kubernetes manager. What it
  adds to the Manager is that tasks get their steps before Run is called (`Register`).
* `ReadyIsInitialized`: `[]ReadyAfterInit`. The request is followed backwards
  (`StartedInv`): a status 200 means that `isStarted` was read as true, which the setup
  step of `startedProbe` has set, whose goroutine exists only when the stages below
  are up (`SetupBarrier`).
* `TerminatingIsNotReady`: `[]NotReadyBelow`. A stop step below the services is
  spawned only when those of the service stage are over or the shutdown is overdue
  (`StopOrder`). `terminatingProbe` has one if every stage was started, because it has no
  setup or start step that could fail and both were passed over into its ledger
  (`TerminatingInv`); it has set `isTerminating` when it is over. A request that
  comes later (`LateInv`) reads it after that.

Every invariant and action property the runs check is proved. Only model-checked are
the liveness properties (`Terminates`, `StartedIsStopped`, `StopStepReturns`,
`NoWaiterLeft`): fairness and ENABLED are out of the prover's reach. The theorems about
futures under Run take a future for the register that `Future.tla` is proved to
implement; the two are not composed.

## Not modelled

* Logging and formatting of errors, names and descriptions: output only. Of what
  errors wrap, only `ErrExit` is kept.
* `health_http/wrap_http.go`: it answers application requests by `isStarted`, read
  once, and a handler pointer that nothing relates to it.
* `TimeoutTask`: to Run it is a start step that ends at some time, which every start
  step may do.
* `afterRun` and the callbacks: user code, called synchronously; the time they take
  is in the states *ready* and *ended*.
* `WithHandler` handlers that do not call the task they are given.
* Option setters, which store their argument before Run, and the samples.
* A shutdown timeout in `K8s`, and the liveness of the whole service after a signal:
  seven tasks with timers are out of TLC's reach here. `hang` shows that Run returns
  under an enforced timeout.
* An abstract specification of Run as a whole. What Run promises of a task is
  stated as properties of Manager; the modules that extend it use its actions
  unchanged.
