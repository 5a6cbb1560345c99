CONSTANTS
    t1 = t1
    t3 = t3
    Task <- TwoTasks
    NStages = 2
    StageOf <- TwoStageOf
    StepSets <- MaybeNoStop
    StartStepManaged = {t1}
    Provider = {}
    ProvidedSteps = {}
    Handled = {}
    CancelContext = {}
    ShutdownTimeout = TRUE
    TeardownTimeout = TRUE
    EnforceShutdownTimeout = TRUE
    Calls = {"initError", "cancelCtx", "cancelShutdownCtx"}
    ExitErrors <- MixedExits
    ExitCalls = {"cancelCtx"}
SPECIFICATION Spec
INVARIANTS
    ResultIsDeserved
    TeardownLast
    AbandonedIsReported
    StopErrorsKept
