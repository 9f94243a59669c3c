SPECIFICATION FeedSpec
CONSTANTS
    app = app
    cli = cli
    Callers = {app, cli}
    Cmds <- AllCmds
    CmdDepth = 1
    EventDepth = 1
    MaxRetries = 1
    IoFailMax = 2
    RunMax = 4
    IndexTimeout = 2
    SustainPolls = 1
    RevTicks = 1
    WiggleTicks = 1
    BenchTicks = 1
    SettleTicks = 1
    WriteMayFail = TRUE
    Keys = {1, 2}
    DayLen = 4
    WeekLen = 2
    MaxTime = 6
    Jumps <- WithinDay
    MaxSlots = 2
    InitSlots <- TwoSlots
    Masks <- EveryDay
    Ops = {"set", "delete", "skip", "today", "manual"}
    NoSlot = NoSlot
    Manual = Manual
    NoClock = NoClock
INVARIANTS
    TypeOK
    MutexIffSession
    SafeAtRest
    DirectionMatchesPhase
    FedOnce
    JobSettlesItsSlot
    ConfigKept
PROPERTIES
    DueIsFed
