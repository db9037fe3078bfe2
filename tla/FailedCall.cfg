SPECIFICATION Spec
CONSTANTS
    max_attempts = 6
    base_delay_seconds = 1
    max_delay_seconds = 6
    max_retry_after_seconds = 8
    FloatExponent = 4
    Headers <- MCHeaders
    Trees <- MCTrees
    NoException = 0
    SAFE_MESSAGE_MAX_CHARS = 8
    Exceptions <- MCExceptions
    Chains <- MCChains
    SAFE_CONTEXT_MAX_DEPTH = 2
    SAFE_CONTEXT_MAX_KEYS = 2
    Contexts <- MCContexts
    a = a
    b = b
    Agents <- MCAgents
    LineageCap = 3
    MaxHops = 5
    Failures <- MCFailures
INVARIANTS
    SleepIsBounded
    GroupIsItsWorst
    MessageIsRight
    SecretsStay
    SnapshotSurvives
    EnvelopeStaysTrue
CHECK_DEADLOCK FALSE
