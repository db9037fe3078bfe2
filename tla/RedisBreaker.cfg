SPECIFICATION FairSpec
CONSTANTS
    r1 = r1
    r2 = r2
    r3 = r3
    Unset = Unset
    Calls <- MCCalls
    Ahead <- MCAhead
    MaxAhead = 1
    FailureThreshold = 2
    Cooldown = 1
    ProbeCount = 2
INVARIANTS
    TypeOK
    OpenedAtKnown
PROPERTIES
    NewcomersKeepContract
    AdmitsAgain
