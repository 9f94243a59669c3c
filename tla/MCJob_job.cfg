SPECIFICATION JobSpec
CHECK_DEADLOCK FALSE
CONSTANTS
    app = app
    cli = cli
    Callers = {app}
    Cmds <- AllCmds
    CmdDepth = 1
    EventDepth = 1
    MaxRetries = 2
    IoFailMax = 2
    RunMax = 4
    IndexTimeout = 3
    SustainPolls = 2
    RevTicks = 1
    WiggleTicks = 1
    BenchTicks = 1
    SettleTicks = 1
    WriteMayFail = FALSE
    App = app
    Cli = cli
    Tasks = {app, cli}
    Requests <- Feeds
    TaskOf <- TaskOfSource
    BenchCmds <- BenchFwd
    AppDepth = 7
    MotorDepth = 2
    MaxWeight = 1
    Portion = 2
    Tolerance = 1
    MaxPortions = 3
    MaxBatches = 2
    GiveUp = 2
    NoMotorCmd <- NoSession
INVARIANTS
    OneBurstPerWait
    PendingHasRequest
    SlotHasJob
PROPERTIES
    PortSpec
    SessionEnds
    PhSwitchesUnpowered
    BurstDoneCounted
    JobEnds
