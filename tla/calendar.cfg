SPECIFICATION Spec
CONSTANTS
    DaySlots = 24
    MonthLengths <- MCMonthLengths
    DstStart <- MCDstStart
    DstEnd <- MCDstEnd
    Kinds <- MCKinds
    Hours = {0, 1, 2, 13, 23}
    StartDays <- MCStartDays
    Lengths = {1, 30}
    Nows <- MCNows
INVARIANTS
    StaysOnCalendar
    SameHour
    NoneLeftOut
CHECK_DEADLOCK FALSE
