SPECIFICATION SchedSpec
CHECK_DEADLOCK FALSE
CONSTANTS
    Keys = {0}
    DayLen = 4
    WeekLen = 2
    MaxTime = 5
    Jumps <- NoJump
    MaxSlots = 2
    InitSlots <- MidnightSlot
    Masks <- EveryDay
    Ops = {}
    NoSlot = NoSlot
    Manual = Manual
    NoClock = NoClock
PROPERTIES
    EveryDueIsFed
