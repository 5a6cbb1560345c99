CONSTANTS
    add1 = add1
    add2 = add2
    bad = bad
    initError = initError
    initFails = initFails
    shutdown = shutdown
    r1 = r1
    r2 = r2
    Caller <- MCCaller
    Kind <- MCKind
    Runner <- MCRunner
SPECIFICATION Spec
INVARIANTS
    NothingDropped
    ErrorsRefuse
    RequestHeard
PROPERTY
    ListFrozen
