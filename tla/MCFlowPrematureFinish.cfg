CONSTANTS
    w1 = w1
    w2 = w2
    a1 = a1
    a2 = a2
    Null = Null
    Steps <- ParallelSteps
    Start = "start"
    ForEach = {}
    System = {}
    Flows <- ParallelFlows
    Source <- ParallelSource
    Target <- ParallelTarget
    Kind <- ParallelKind
    Errors = {"failure"}
    Catches <- ParallelCatches
    Items = {}
    Workers = {w1}
    Admins = {}
    MaxAttempts = 2
    MaxErrors = 0
    MaxCrashes = 0
    MaxFaults = 2
    MaxRequests = 0
    MaxDeferrals = 1
SPECIFICATION Spec
INVARIANT CompletedIsDone
CHECK_DEADLOCK FALSE
