CONSTANTS
    b1 = b1
    b2 = b2
    Plans = {b1, b2}
    Policies = {p1, p2}
    BadPolicies = {p2}
    Requests = {q1}
    SpacePlans = {b1}
    NameOf <- OneName
    NoPlan = NoPlan
    NoSpec = NoSpec
    MaxRuns = 1
    MaxFaults = 1
    MaxRestarts = 1
SPECIFICATION FairSpec
INVARIANTS TypeOK ScheduleIsCurrent NotifiedWasAnnounced
PROPERTIES RemovedPlanIsQuiet DeleteIsFinal StoppedStaysStopped DeletedIsRemoved ScheduleSettles
CHECK_DEADLOCK FALSE
