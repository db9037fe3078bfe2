SPECIFICATION FairSpec
CONSTANTS
    c1 = c1
    c2 = c2
    c3 = c3
    Calls <- MCCalls
    FailureThreshold = 2
    Cooldown = 2
    ProbeCount = 2
    BudgetExempt = TRUE
PROPERTIES
    NeverRejectsForEver
