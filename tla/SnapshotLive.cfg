CONSTANTS
    s1 = s1
    s2 = s2
    b1 = b1
    b2 = b2
    Snapshots = {s1, s2}
    Plans = {b1}
    AppPlans = {b1}
    PlanOf <- OnePlan
    LocationOf <- AllSpace
    NoSnapshot = NoSnapshot
    MaxRestarts = 1
    MaxFaults = 0
    MaxCancels = 0
SPECIFICATION FairSpec
PROPERTIES FinishedNeverReopens EverySnapshotEnds EveryResultIsPushed
CHECK_DEADLOCK FALSE
