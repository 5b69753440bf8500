SPECIFICATION Spec
CONSTANTS
    Types = {"RECORD", "ZAPTO"}
    Periodic = {"DAILY"}
    Period <- MCPeriod
    NoTimer = NoTimer
    MaxTimers = 2
    MaxTime = 4
    MaxCommands = 3
    MaxRestarts = 1
    NewTimers <- MCNewTimers
    Safeties <- OneSafety
    NoSafety <- MCNoSafety
    ImmediateLength = 1
    Diffs = {}
    EarlyShutdown = FALSE
    CutWrites = FALSE
INVARIANTS
    TypeOK
    RecordingHasStopper
    FiredWithinCount
    TimersSurvive
