SPECIFICATION MCFairSpec
CHECK_DEADLOCK FALSE
CONSTANTS
    Managers = {n, m}
    Viewers = {}
    Others = {a}
    Nco = n
    Accounts = {n, m}
    None = None
    MaxTasks = 2
    MaxFaults = 1
    MarkKinds = {"ui"}
    Failing = TRUE
    MaxMarks = 2
    MaxNets = 2
INVARIANTS LoggerTypes OneNco LoggerHolds
PROPERTIES OwnSavesInOrder LoggerSettles
