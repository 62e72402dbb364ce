CONSTANTS
    s1 = s1
    s2 = s2
    b1 = b1
    b2 = b2
    Snapshots = {s1, s2}
    Plans = {b1, b2}
    AppPlans = {b1}
    PlanOf <- PlanEach
    LocationOf <- SpaceAndS3
    NoSnapshot = NoSnapshot
    MaxRestarts = 1
    MaxFaults = 1
    MaxCancels = 1
SPECIFICATION Spec
INVARIANTS TypeOK CompletedHasData
PROPERTIES PushedWasReported ImplementsRecord
CHECK_DEADLOCK FALSE
