CONSTANTS
    r1 = r1
    r2 = r2
    c1 = c1
    c2 = c2
    wrong = wrong
    right = right
    Null = Null
    Requests = {r1}
    Callbacks = {c1}
    Addresses = {wrong, right}
    First = wrong
    QueueModes = {FALSE}
    Kinds = {"transport"}
    MaxReports = 3
    MaxFaults = 1
    MaxRepeats = 0
    MaxRestarts = 0
SPECIFICATION Spec
INVARIANT BounceIsNoticed
CHECK_DEADLOCK FALSE
