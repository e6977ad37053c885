CONSTANTS
    w1 = w1
    w2 = w2
    a1 = a1
    a2 = a2
    Null = Null
    Steps <- SequentialSteps
    Start = "start"
    ForEach = {"list"}
    System = {"auto"}
    Flows <- SequentialFlows
    Source <- SequentialSource
    Target <- SequentialTarget
    Kind <- SequentialKind
    Errors = {"failure"}
    Catches <- SequentialCatches
    Items = {0, 2}
    Workers = {w1}
    Admins = {}
    MaxAttempts = 2
    MaxErrors = 2
    MaxCrashes = 0
    MaxFaults = 2
    MaxRequests = 0
    MaxDeferrals = 1
SPECIFICATION FairSpec
PROPERTY AlwaysSettles
CHECK_DEADLOCK FALSE
