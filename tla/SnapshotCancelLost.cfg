CONSTANTS
    s1 = s1
    s2 = s2
    b1 = b1
    b2 = b2
    Snapshots = {s1}
    Plans = {b1}
    AppPlans = {}
    PlanOf <- OnePlan
    LocationOf <- AllSpace
    NoSnapshot = NoSnapshot
    MaxRestarts = 0
    MaxFaults = 0
    MaxCancels = 1
SPECIFICATION FairSpec
PROPERTIES EverySnapshotEnds
CHECK_DEADLOCK FALSE
