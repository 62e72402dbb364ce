CONSTANTS
    o1 = o1
    b1 = b1
    b2 = b2
    s1 = s1
    s2 = s2
    s3 = s3
    r1 = r1
    Owners = {o1}
    Plans = {b1, b2}
    BackupTasks = {s1, s2}
    RestoreTasks = {r1}
    NoTask = NoTask
    OwnerOf <- MCOwnerOf
    PlanOf <- MCPlanOf
SPECIFICATION Spec
INVARIANTS TypeOK TableIsExact OneLiveTaskPerPlan ActiveIsTheRun
