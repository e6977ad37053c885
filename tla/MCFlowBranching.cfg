CONSTANTS
    w1 = w1
    w2 = w2
    a1 = a1
    a2 = a2
    Null = Null
    Steps <- BranchingSteps
    Start = "start"
    ForEach = {"poll"}
    System = {"poll"}
    Flows <- BranchingFlows
    Source <- BranchingSource
    Target <- BranchingTarget
    Kind <- BranchingKind
    Errors = {"timeout", "refused"}
    Catches <- BranchingCatches
    Items = {1}
    Workers = {w1, w2}
    Admins = {}
    MaxAttempts = 2
    MaxErrors = 1
    MaxCrashes = 0
    MaxFaults = 2
    MaxRequests = 0
    MaxDeferrals = 2
SPECIFICATION FairSpec
INVARIANT RoutedOnce
INVARIANT CompletedHasNoToDo
INVARIANT NothingStranded
INVARIANT BarriersApart
PROPERTY AlwaysSettles
CHECK_DEADLOCK FALSE
