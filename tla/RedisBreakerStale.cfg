SPECIFICATION Spec
CONSTANTS
    r1 = r1
    r2 = r2
    r3 = r3
    Unset = Unset
    Calls <- MCCalls
    Ahead <- MCAhead
    MaxAhead = 1
    FailureThreshold = 2
    Cooldown = 2
    ProbeCount = 2
PROPERTIES
    OpenWaitsForCooldown
