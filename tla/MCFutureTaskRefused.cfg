CONSTANTS
    t1 = t1
    t2 = t2
    t3 = t3
    late = late
    Task <- TwoTasks
    NStages = 2
    StageOf <- TwoStageOf
    StepSets <- AllSteps
    StartStepManaged = {}
    Provider = {}
    ProvidedSteps = {"start"}
    Handled = {}
    CancelContext = {t1, t2}
    ShutdownTimeout = FALSE
    TeardownTimeout = FALSE
    EnforceShutdownTimeout = FALSE
    Calls = {"initError", "rejected"}
    ExitErrors = {}
    ExitCalls = {}
    FutureTasks <- OneFutureTask
    Awaits <- NoAwaits
    Refused = {late}
SPECIFICATION FutureSpec
INVARIANTS
    RefusedIsReleased
