CONSTANTS
    Backups = {k1, k2, a1}
    AppBackups = {a1}
    Restores = {r1}
    Size = 1
    MaxUpload = 2
    Total = 2
    Word = 8
    Life = 2
    Margin = 1
    MaxTime = 2
    MaxRuns = 2
SPECIFICATION FairSpec
INVARIANTS TypeOK ToldToReconnect OverrunIsBounded
PROPERTIES EverySessionEnds
CHECK_DEADLOCK FALSE
