CONSTANTS
    t1 = t1
    t3 = t3
    Task <- TwoTasks
    NStages = 2
    StageOf <- TwoStageOf
    StepSets <- AllSteps
    StartStepManaged = {}
    Provider = {}
    ProvidedSteps = {}
    Handled = {}
    CancelContext = {}
    ShutdownTimeout = TRUE
    TeardownTimeout = FALSE
    EnforceShutdownTimeout = TRUE
    Calls = {"exit"}
    ExitErrors = {}
    ExitCalls = {}
SPECIFICATION FairSpec
INVARIANTS
    AbandonedIsReported
    TeardownPaired
PROPERTIES
    Terminates
    StartedIsStopped
