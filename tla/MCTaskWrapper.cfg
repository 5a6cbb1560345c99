CONSTANTS
    managed = managed
    provider = provider
    Task <- MCTask
    StepSets <- MCStepSets
    StartStepManaged <- MCStartStepManaged
    Provider <- MCProvider
    ProvidedSteps <- MCProvidedSteps
    Handled = {provider}
SPECIFICATION WrapperSpec
INVARIANTS
    LedgerInOrder
    NothingWithoutSetup
PROPERTY
    NoRerun
