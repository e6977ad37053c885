CONSTANTS
    r1 = r1
    r2 = r2
    r3 = r3
    form = form
    item = item
    alice = alice
    guest = guest
    None = None
    Requests = {r1, r2}
    Todos = {form, item}
    ForEachTodos = {item}
    Users = {alice, guest}
    Identified = {alice}
    Silent = {guest}
    MaxAttempts = 2
    MaxClock = 1
    MaxSystemWrites = 2
    MaxFaults = 0
    MaxLapses = 0
    MaxCrashes = 0
SPECIFICATION Spec
SYMMETRY Symmetry
INVARIANT ValidatedState
CHECK_DEADLOCK FALSE
