CONSTANTS
    w1 = w1
    w2 = w2
    a1 = a1
    a2 = a2
    Null = Null
    Steps <- SequentialSteps
    Start = "start"
    ForEach = {"list"}
    System = {"auto"}
    Flows <- SequentialFlows
    Source <- SequentialSource
    Target <- SequentialTarget
    Kind <- SequentialKind
    Errors = {"failure"}
    Catches <- SequentialCatches
    Items = {0, 2}
    Workers = {w1, w2}
    Admins = {a1}
    MaxAttempts = 2
    MaxErrors = 1
    MaxCrashes = 1
    MaxFaults = 2
    MaxRequests = 1
    MaxDeferrals = 1
SPECIFICATION Spec
SYMMETRY Symmetry
INVARIANT TypeOK
INVARIANT RoutedOnce
INVARIANT BarrierWaits
INVARIANT CompletedHasNoToDo
INVARIANT NothingStranded
INVARIANT CompletedIsDone
PROPERTY ClosedStaysQuiet
CHECK_DEADLOCK FALSE
