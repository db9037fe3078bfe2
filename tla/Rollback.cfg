SPECIFICATION FairSpec
CONSTANTS
    t1 = t1
    t2 = t2
    r1 = r1
    r2 = r2
    Threads <- MCThreads
    Runs <- MCRuns
    MaxSteps = 3
INVARIANTS
    UndoneInReverse
    OutcomeIsExact
PROPERTIES
    ForgetsOnlyLateSteps
    EveryRollbackEnds
