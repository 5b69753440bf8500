SPECIFICATION FairSpec
CONSTANTS
    Types = {"RECORD", "ZAPTO"}
    Periodic = {"DAILY"}
    Period <- MCPeriod
    NoTimer = NoTimer
    MaxTimers = 2
    MaxTime = 2
    MaxCommands = 2
    MaxRestarts = 1
    NewTimers <- MCLegalTimers
    Safeties <- OneSafety
    NoSafety <- MCNoSafety
    ImmediateLength = 1
    Diffs = {}
    EarlyShutdown = TRUE
    CutWrites = FALSE
PROPERTY
    EveryShutdownEnds
CHECK_DEADLOCK FALSE
