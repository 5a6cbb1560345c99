CONSTANTS
    t1 = t1
    t2 = t2
    t3 = t3
    late = late
    Task <- MCTask
    NStages = 3
    StageOf <- MCStageOf
    StepSets <- MCStepSets
    StartStepManaged = {}
    Provider = {t3}
    ProvidedSteps = {"teardown"}
    Handled = {t3}
    CancelContext = {t1, t2, t3}
    ShutdownTimeout = FALSE
    TeardownTimeout = FALSE
    EnforceShutdownTimeout = FALSE
    Calls = {"rejected", "initError"}
    ExitErrors = {}
    ExitCalls = {}
    FutureTasks <- MCFutureTasks
    Awaits <- MCAwaits
    Refused = {late}
SPECIFICATION FutureFairSpec
INVARIANTS
    RequestNotLost
    ReleasedBeforeShutdown
    FutureTells
PROPERTIES
    Terminates
