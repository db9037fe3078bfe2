SPECIFICATION FairSpec
CONSTANTS
    c1 = c1
    c2 = c2
    k1 = k1
    k2 = k2
    Calls <- MCCalls
    Keys <- MCKeys
    Key <- MCKey
    MaxAttempts = 2
    MaxToolCalls = 3
    FailureBudget = 3
    HasFallback <- MCHasFallback
    FailureThreshold = 1
    Cooldown = 1
    ProbeCount = 1
    BudgetExempt = FALSE
INVARIANTS
    HardKillIsFinal
    CallCeiling
    NoRetryPastBudget
    BreakerCountsCalls
    TrackerFollowsRetries
PROPERTIES
    EveryCallEnds
