SPECIFICATION FairSpec
CONSTANTS
    NCalls = 2
    MaxAttempts = 2
    PoolWorkers = 1
    LoopThreads = 2
    NHandlers = 3
    NoDirective = NoDirective
    Directives = {resume, abort}
    Threshold = 2
    MaxRounds = 2
    MaxVotes = 3
INVARIANTS
    HardKillSurfaces
    ReportIsFaithful
    AnswerIsNotStale
    OnlyGhostsLinger
    VotesAreOfThisRound
    RouteFollowsRegistration
PROPERTIES
    GroupEnds
    RouteEnds
CHECK_DEADLOCK FALSE
