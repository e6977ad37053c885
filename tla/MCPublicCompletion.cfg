CONSTANTS
    r1 = r1
    r2 = r2
    c1 = c1
    c2 = c2
    wrong = wrong
    right = right
    Null = Null
    Requests = {r1, r2}
    Callbacks = {c1}
    Addresses = {wrong, right}
    First = wrong
    QueueModes = {TRUE, FALSE}
    Kinds = {"delivered", "address", "transport"}
    MaxReports = 2
    MaxFaults = 1
    MaxRepeats = 1
    MaxRestarts = 1
SYMMETRY Symmetry
SPECIFICATION Spec
INVARIANT TypeOK
INVARIANT CorrectionHasCause
INVARIANT FollowUpsKept
INVARIANT LeftoversAreRepeated
INVARIANT AppliedOnce
INVARIANT BounceIsNoticedInTransaction
INVARIANT StateIsInvited
PROPERTY CompletedIsFinal
CHECK_DEADLOCK FALSE
