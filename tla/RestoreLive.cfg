CONSTANTS
    r1 = r1
    r2 = r2
    u1 = u1
    u2 = u2
    u3 = u3
    Restores = {r1, r2}
    AppRestores = {r2}
    LocationOf <- AllSpace
    NoRestore = NoRestore
    Requests = {u1}
    Attempts = 2
    MaxRestarts = 1
    MaxFaults = 0
SPECIFICATION FairSpec
INVARIANTS StartedOnce
PROPERTIES EveryRestoreEnds WorkerLeavesEveryTask DeleteSeenIsDone
CHECK_DEADLOCK FALSE
