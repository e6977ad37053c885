CONSTANTS
    w1 = w1
    w2 = w2
    a1 = a1
    a2 = a2
    Null = Null
    Steps <- JoinSteps
    Start = "start"
    ForEach = {"list"}
    System = {}
    Flows <- JoinFlows
    Source <- JoinSource
    Target <- JoinTarget
    Kind <- JoinKind
    Errors = {"failure"}
    Catches <- JoinCatches
    Items = {1}
    Workers = {w1}
    Admins = {}
    MaxAttempts = 2
    MaxErrors = 0
    MaxCrashes = 0
    MaxFaults = 2
    MaxRequests = 0
    MaxDeferrals = 1
SPECIFICATION Spec
INVARIANT NothingStranded
CHECK_DEADLOCK FALSE
