SPECIFICATION FairSpec
CONSTANTS
    Types = {"RECORD", "ZAPTO"}
    Periodic = {"DAILY"}
    Period <- MCPeriod
    NoTimer = NoTimer
    MaxTimers = 2
    MaxTime = 3
    MaxCommands = 2
    MaxRestarts = 1
    NewTimers <- MCNewTimers
    Safeties <- MCSafeties
    NoSafety <- MCNoSafety
    ImmediateLength = 1
    Diffs = {}
    EarlyShutdown = FALSE
    CutWrites = FALSE
PROPERTIES
    AlarmsAreHandled
    RecordingsEnd
    ChangesAreSaved
    ShutdownEnds
