CONSTANTS
    t1 = t1
    t3 = t3
    Task <- TwoTasks
    NStages = 2
    StageOf <- TwoStageOf
    StepSets <- AllSteps
    StartStepManaged = {}
    Provider = {}
    ProvidedSteps = {}
    Handled = {}
    CancelContext = {}
    ShutdownTimeout = FALSE
    TeardownTimeout = FALSE
    EnforceShutdownTimeout = FALSE
    Calls = {"exit"}
    ExitErrors = {}
    ExitCalls = {}
SPECIFICATION Spec
INVARIANTS
    StoppedIfStarted
