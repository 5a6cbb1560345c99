-------------------------------- MODULE K8s --------------------------------
(***************************************************************************)
(* The Kubernetes manager (k8sinit): Manager.Run with its four stages, the *)
(* tasks it makes for signals (default.go), health probes and telemetry,   *)
(* and the health server (health_http), whose probes are answered by       *)
(* request goroutines that read two atomics while the stages come and go.  *)
(*                                                                         *)
(* A task that was not added has no steps here: Run passes over it.        *)
(* net/http and the kernel's signals are external.                         *)
(***************************************************************************)
EXTENDS Manager, BuildTask

CONSTANTS
    signals,       \* the task New adds for the signals
    health,        \* the task of SetHealthTask: a health_http.Server
    startedProbe, terminatingProbe,   \* the tasks of SetHealthHandler
    flush,         \* the task of SetTelemetryHandler
    telemetry,     \* the task of SetTelemetryTask, with the steps of any task
    Services,      \* the services of the service stage
    StartupProbe,  \* the value of WithStartupProbe
    Probes         \* the probes the kubelet asks for

\* AllStages: management, initialize, ready, service.
Initialize == 2
ServiceStage == 4

ASSUME K8sAssumption ==
    /\ NStages = ServiceStage
    /\ {signals, health, startedProbe, terminatingProbe, flush, telemetry} \cup Services
          \subseteq Task
    /\ \A t \in {signals, health, telemetry} : StageOf[t] = 1
    /\ telemetry \notin {signals, health}
    /\ StageOf[startedProbe] = 3
    /\ \A t \in Services \cup {terminatingProbe, flush} : StageOf[t] = ServiceStage
    /\ terminatingProbe \notin Services \cup {flush}
    /\ Provider \cap {startedProbe, terminatingProbe} = {}
    /\ signals \in CancelContext
    /\ EnforceShutdownTimeout
    /\ StartupProbe \in BOOLEAN
    /\ Probes \subseteq {"startup", "liveness", "readiness"}

VARIABLES
    isStarted, isTerminating,  \* the atomics of the probe handler
    server,   \* the http.Server: "none", "new", "listening", "closed"
    caught,   \* a signal has been delivered to the channel of the signal task
    request   \* the probe being answered, or the last one that was

probeVars == <<isStarted, isTerminating, server, caught, request>>
k8sVars == <<vars, probeVars>>

\* NewHandler: without a startup probe the service counts as started.
InitStarted == ~StartupProbe

NoRequest == [at |-> "none", probe |-> "none", started |-> FALSE, late |-> FALSE, status |-> 0]

\* New: only the signal task is there, unless signals are not handled.
K8sInit ==
    /\ Init
    /\ \A t \in Task : steps[t] # {} => t = signals /\ steps[t] = {"start"}
    /\ isStarted = InitStarted /\ isTerminating = FALSE
    /\ server = "none" /\ caught = FALSE
    /\ request = NoRequest

-----------------------------------------------------------------------------
(* What is called before Run, by one goroutine: Registration.tla has the   *)
(* calls that race with Run.                                               *)

\* AddTask for tasks that were not added yet.
AddTasks(added) ==
    /\ pc = "idle"
    /\ steps' = [t \in Task |-> IF t \in DOMAIN added THEN added[t] ELSE steps[t]]
    /\ UNCHANGED <<executeSteps, runs, failed, mainVars, ctxVars, errVars, outVars, probeVars>>

Added(t) == steps[t] # {}

\* A handler or task that is nil, or was set before, is an initialization error.
Refused == AddInitError /\ UNCHANGED probeVars

HealthHandlerTasks ==
    [t \in {startedProbe, terminatingProbe} |-> IF t = startedProbe THEN {"setup"} ELSE {"stop"}]

SetHealthHandler ==
    \/ ~Added(startedProbe) /\ AddTasks(HealthHandlerTasks)
    \/ Refused

\* TaskInfo of the server names no steps: it has them all.
SetHealthTask ==
    \/ ~Added(health) /\ AddTasks([t \in {health} |-> Step])
    \/ Refused

SetTelemetryHandler ==
    \/ ~Added(flush) /\ AddTasks([t \in {flush} |-> {"stop"}])
    \/ Refused

SetTelemetryTask ==
    \/ /\ ~Added(telemetry)
       /\ \E given \in StepSets \ {{}} : AddTasks([t \in {telemetry} |-> given])
    \/ Refused

AddService(t) == ~Added(t) /\ AddTasks([u \in {t} |-> ServiceSteps({"setup"})])

\* AddTask in the initialize stage, of a resource that needs no service.
AddResource(t) ==
    /\ StageOf[t] = Initialize
    /\ ~Added(t)
    /\ AddTasks([u \in {t} |-> {"setup", "teardown"}])

Register ==
    \/ SetHealthHandler
    \/ SetHealthTask
    \/ SetTelemetryHandler
    \/ SetTelemetryTask
    \/ \E t \in Services : AddService(t)
    \/ \E t \in Task : AddResource(t)

-----------------------------------------------------------------------------
(* The steps of the ready-made tasks.                                      *)

CtxOver == shutdownCtx \in {"timeout", "cancelled"}

Answering == request.at \in {"accepted", "loaded"}

\* SignalTask: an error, that of the signal or the cause of its context.
SignalReturns(err) == err /\ (caught \/ StartCtxDone(signals))

\* Server.Run: ListenAndServe returns no error only when the server was closed;
\* Shutdown closes it, then waits for the requests as long as its context lives.  A
\* start step without a server, its setup error ignored, panics: here it fails.
ServerReturns(s, err) ==
    CASE s = "setup"    -> TRUE
      [] s = "start"    -> err = (server # "closed")
      [] s = "stop"     -> server = "closed" /\ err = Answering /\ (err => CtxOver)
      [] s = "teardown" -> ~err

MayReturn(t, s, err) ==
    CASE t = signals                           -> SignalReturns(err)
      [] t = health                            -> ServerReturns(s, err)
      [] t \in {startedProbe, terminatingProbe} -> ~err
      [] OTHER                                 -> TRUE

\* What is stored by the setup step of the started probe, and by the stop step of
\* the terminating one.
Told(probe, t, was) == was \/ t = probe

K8sEnd(t, s, fails) ==
    /\ GoEnd(t, s, fails)
    /\ isStarted' = Told(startedProbe, t, isStarted)
    /\ isTerminating' = Told(terminatingProbe, t, isTerminating)
    /\ \E err \in BOOLEAN :
           /\ MayReturn(t, s, err)
           /\ AfterHandler(t, err, fails)
           /\ server' = IF t = health /\ s = "setup" /\ ~err THEN "new" ELSE server
    /\ UNCHANGED <<caught, request>>

Running(t, s) == runs[t][s] = "running"

\* The kernel delivers a signal while the signal task is notified.
Signal ==
    /\ Running(signals, "start")
    /\ ~caught
    /\ caught' = TRUE
    /\ UNCHANGED <<vars, isStarted, isTerminating, server, request>>

Listen ==
    /\ Running(health, "start")
    /\ server = "new"
    /\ server' = "listening"
    /\ UNCHANGED <<vars, isStarted, isTerminating, caught, request>>

Shutdown ==
    /\ Running(health, "stop")
    /\ server # "closed"
    /\ server' = "closed"
    /\ UNCHANGED <<vars, isStarted, isTerminating, caught, request>>

-----------------------------------------------------------------------------
(* The probes.                                                             *)

\* Run is stopping a stage that comes before the service stage.
StoppingBelow == \E t \in Task : StageOf[t] < ServiceStage /\ Touched(t, "stop")

Accept(p) ==
    /\ server = "listening" /\ Running(health, "start")
    /\ ~Answering
    /\ request' = [NoRequest EXCEPT !.at = "accepted", !.probe = p, !.late = StoppingBelow]
    /\ UNCHANGED <<vars, isStarted, isTerminating, server, caught>>

\* probeHTTPHandler loads one atomic after the other.
LoadStarted ==
    /\ request.at = "accepted"
    /\ request' = [request EXCEPT !.at = "loaded", !.started = isStarted]
    /\ UNCHANGED <<vars, isStarted, isTerminating, server, caught>>

\* Mutant: the readiness probe is not told that the service is terminating.
StartedOnly(p, started, terminating) ==
    IF p # "liveness" /\ ~started THEN 412 ELSE 200

DefaultProbeHandler(p, started, terminating) ==
    CASE p = "liveness"                 -> 200
      [] p # "liveness" /\ ~started     -> 412
      [] p = "readiness" /\ started /\ terminating -> 503
      [] OTHER                          -> 200

Answer ==
    /\ request.at = "loaded"
    /\ request' = [request EXCEPT
                     !.at = "answered",
                     !.status = DefaultProbeHandler(request.probe, request.started, isTerminating)]
    /\ UNCHANGED <<vars, isStarted, isTerminating, server, caught>>

HTTP == Listen \/ Shutdown \/ LoadStarted \/ Answer

K8sMain == Main /\ UNCHANGED probeVars

K8sGoroutine(t, s) == Goroutine(t, s) /\ UNCHANGED probeVars

K8sNext ==
    \/ Register
    \/ (Enter \/ Callers \/ PropagateCtx \/ Expire \/ Terminated) /\ UNCHANGED probeVars
    \/ K8sMain
    \/ \E t \in Task, s \in Step : K8sGoroutine(t, s)
    \/ \E t \in Task, s \in Step, fails \in BOOLEAN : K8sEnd(t, s, fails)
    \/ Signal
    \/ HTTP
    \/ \E p \in Probes : Accept(p)

K8sSpec == K8sInit /\ [][K8sNext]_k8sVars

-----------------------------------------------------------------------------
ReadyAnswered == request.at = "answered" /\ request.probe = "readiness" /\ request.status = 200

\* README.md:570 and health_http/handler.go:95-99: a readiness probe answered with 200 means
\* that the setup steps of the management and initialize stages have succeeded
\* and their start steps are under way, though the status is read without a lock
\* and the server answers from the first stage on.
ReadyAfterInit ==
    StartupProbe /\ ReadyAnswered =>
        \A t \in Task :
            StageOf[t] \in {1, Initialize} =>
                /\ RunOver(t, "setup") /\ <<t, "setup">> \notin failed
                /\ runs[t]["start"] # "spawned"

\* Every stage was started, so that the service stage has something to stop.
ServiceStarted == stagesRun = ServiceStage /\ ~setupErr

\* k8sinit/health.go:50-51: the probe is told that the service is terminating by
\* a stop step of a task without a start step, beside those of the services: once
\* an earlier stage is being stopped no new readiness probe is answered with 200.
NotReadyBelow ==
    ServiceStarted /\ Added(terminatingProbe) /\ request.late => ~ReadyAnswered \/ Overdue
=============================================================================
