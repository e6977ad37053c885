CONSTANTS
    r1 = r1
    r2 = r2
    r3 = r3
    form = form
    item = item
    alice = alice
    guest = guest
    None = None
    Requests = {r1, r2}
    Todos = {form, item}
    ForEachTodos = {item}
    Users = {alice, guest}
    Identified = {alice}
    Silent = {guest}
    MaxAttempts = 2
    MaxClock = 2
    MaxSystemWrites = 1
    MaxFaults = 1
    MaxLapses = 2
    MaxCrashes = 1
SPECIFICATION Spec
SYMMETRY Symmetry
INVARIANT TypeOK
INVARIANT ValidatedAmongRequests
INVARIANT WrittenOnce
INVARIANT AnswerIsTrue
INVARIANT DispatchKept
INVARIANT DispatchInOrder
INVARIANT PublishedOnce
INVARIANT SuccessMeansDispatched
CHECK_DEADLOCK FALSE
