CONSTANTS
    t1 = t1
    t2 = t2
    t3 = t3
    provider = provider
    decorator = decorator
    instance = instance
    None = None
    NotTask = NotTask
    Task <- MCTask
    NStages = 2
    StageOf <- MCStageOf
    StepSets <- MCStepSets
    StartStepManaged = {t1}
    Provider = {}
    ProvidedSteps = {}
    Handled = {t2}
    CancelContext = {}
    ShutdownTimeout = FALSE
    TeardownTimeout = FALSE
    EnforceShutdownTimeout = FALSE
    Calls = {"initError"}
    ExitErrors = {}
    ExitCalls = {}
    BuildTasks <- MCBuildTasks
    Builds = {provider, decorator, instance}
    Own <- MCOwn
    Instance = {provider, instance}
    FromSetup = {provider}
    Decorates <- MCDecorates
    Results <- MCResults
    Faulty <- MCFaulty
SPECIFICATION InstanceSpec
INVARIANTS
    SetupBarrier
    StartBarrier
    StopOrder
    NoOrderError
    TeardownPaired
    SkippedNeverRan
    StepsAreCallable
    DataMadeOnce
    StateFollowsParent
