CONSTANTS
    r1 = r1
    r2 = r2
    u1 = u1
    u2 = u2
    u3 = u3
    Restores = {r1}
    AppRestores = {}
    LocationOf <- AllS3
    NoRestore = NoRestore
    Requests = {u1, u2, u3}
    Attempts = 2
    MaxRestarts = 2
    MaxFaults = 2
SYMMETRY Symmetry
SPECIFICATION Spec
INVARIANTS TypeOK CompletedHasData
PROPERTIES ImplementsRecord
CHECK_DEADLOCK FALSE
