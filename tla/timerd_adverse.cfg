SPECIFICATION Spec
CONSTANTS
    Types = {"RECORD", "ZAPTO"}
    Periodic = {"DAILY"}
    Period <- MCPeriod
    NoTimer = NoTimer
    MaxTimers = 2
    MaxTime = 3
    MaxCommands = 3
    MaxRestarts = 1
    NewTimers <- MCNewTimers
    Safeties <- OneSafety
    NoSafety <- MCNoSafety
    ImmediateLength = 1
    Diffs = {1}
    EarlyShutdown = TRUE
    CutWrites = TRUE
INVARIANTS
    OnlyUnknownIsEndless
    DiskCurrent
    PassComplete
    NoDuplicates
CHECK_DEADLOCK FALSE
