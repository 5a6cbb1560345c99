CONSTANTS
    t1 = t1
    t2 = t2
    Task <- MCTask
    NStages = 2
    StageOf <- MCStageOf
    StepSets <- MCStepSets
    StartStepManaged = {t1, t2}
    Provider = {}
    ProvidedSteps = {}
    Handled = {}
    CancelContext = {t2}
    ShutdownTimeout = TRUE
    TeardownTimeout = FALSE
    EnforceShutdownTimeout = TRUE
    Calls = {"cancelCtx"}
    ExitErrors = {}
    ExitCalls = {}
    Cancels = {t1}
    Waits = {t1, t2}
SPECIFICATION SSMFairSpec
INVARIANTS
    SSMTypeOK
    FinishedMeansReturned
    FinishedErrTold
    ContextOutlivesDependents
PROPERTIES
    StopStepReturns
