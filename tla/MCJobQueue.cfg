CONSTANTS
    j1 = j1
    j2 = j2
    w1 = w1
    w2 = w2
    Null = Null
    Jobs = {j1, j2}
    Workers = {w1, w2}
    Delays = {0, 1}
    RetryLimits = {0}
    DefaultMaxRetries = 2
    Visibility = 1
    MaxAge = 1
    MaxClaimAge = 1
    MaxCrashes = 1
    LocalWorkers = {w1}
SPECIFICATION FairSpec
INVARIANT TypeOK
INVARIANT ExclusiveLease
INVARIANT NoSilentLoss
INVARIANT DeadLetterJustified
PROPERTY LiveClaimUndisturbed
PROPERTY ImplementsContract
PROPERTY EventuallyAtRest
CHECK_DEADLOCK TRUE
