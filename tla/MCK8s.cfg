CONSTANTS
    signals = signals
    health = health
    startedProbe = startedProbe
    terminatingProbe = terminatingProbe
    flush = flush
    telemetry = telemetry
    database = database
    service = service
    Task <- MCTask
    NStages = 4
    StageOf <- MCStageOf
    StepSets <- MCStepSets
    Services = {service}
    StartupProbe = TRUE
    Probes = {"readiness"}
    StartStepManaged = {}
    Provider = {}
    ProvidedSteps = {}
    Handled = {startedProbe}
    CancelContext = {signals}
    ShutdownTimeout = FALSE
    TeardownTimeout = FALSE
    EnforceShutdownTimeout = TRUE
    Calls = {"initError"}
    ExitErrors = {}
    ExitCalls = {}
SPECIFICATION K8sSpec
CONSTRAINTS
    OneHandler
    TelemetryBelow
INVARIANTS
    TypeOK
    ReadyAfterInit
    NotReadyBelow
