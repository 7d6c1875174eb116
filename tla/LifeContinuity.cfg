SPECIFICATION Spec
CONSTANTS
    i1 = i1
    i2 = i2
    c1 = c1
    k1 = k1
    NoCall = NoCall
    Inputs <- MCInputs
    Contexts <- MCContexts
    Keys <- MCKeys
    KeepLatest = 2
    MaxSessions = 2
    MaxSequence = 4
SYMMETRY Symmetry
CHECK_DEADLOCK FALSE
INVARIANTS
    AnswersAreDurable
    AbnormalExitIsReported
    WaitingMeansResumed
PROPERTIES
    NothingSavedOnceUnhealthy
    ProtectedIsQuiet
    ImplementsDurableLife
