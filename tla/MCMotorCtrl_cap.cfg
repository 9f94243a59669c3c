SPECIFICATION HSpec
CONSTANTS
    app = app
    cli = cli
    Callers = {app}
    Cmds <- OneBurst
    CmdDepth = 2
    EventDepth = 1
    MaxRetries = 2
    IoFailMax = 2
    RunMax = 5
    IndexTimeout = 3
    SustainPolls = 2
    RevTicks = 1
    WiggleTicks = 1
    BenchTicks = 2
    SettleTicks = 1
    WriteMayFail = FALSE
INVARIANTS
    SessionCapped
