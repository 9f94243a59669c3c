SPECIFICATION HSpec
CHECK_DEADLOCK FALSE
CONSTANTS
    App = app
    Cli = cli
    Tasks = {app, cli}
    Requests <- Feeds
    TaskOf <- TaskOfSource
    BenchCmds = {}
    AppDepth = 5
    MotorDepth = 2
    MaxWeight = 1
    Portion = 2
    Tolerance = 1
    MaxPortions = 3
    MaxBatches = 3
    GiveUp = 3
    NoMotorCmd <- NoSession
PROPERTIES
    PendingClears
