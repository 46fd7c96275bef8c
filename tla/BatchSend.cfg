\* Three requests, the option gives two places, one retry.
CONSTANTS
    Codes <- MCCodes
    N = 3
    MaxParallel = 0
    OptMaxParallel = 2
    Retry = 1
    Outcomes <- MCOutcomes
    Contexts <- MCContexts
    Handle = {h1, h2}
    Detached = Detached
    Running = Running
SPECIFICATION Spec
INVARIANTS
    HandlesConsistent
    Accounting
    CleanStart
    VerdictOfLastAttempt
PROPERTIES
    AnswerIsFinal
    Returns
    ImplementsPool
