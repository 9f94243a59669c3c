SPECIFICATION Spec
CHECK_DEADLOCK FALSE
CONSTANTS
    QueueDepth = 4
    DrainMax = 3
    MaxSent = 5
    NoEvent = NoEvent
    Display = Display
    Timer = Timer
    Irq = Irq
    None = None
    Plain = {"hopper"}
    Burst <- MCBurst
    Depth = 3
    MaxWeight = 1
    Threshold = 1
    MaxChanges = 1
    LowStreak = 3
    NormalStreak = 2
    Interval = 2
    Background = 4
    LevelDepth = 4
    MaxMoves = 3
    MaxCuts = 1
CONSTRAINT
    NotRaced
INVARIANTS
    HopperTold
    QueueKept
PROPERTIES
    PublishConverges
    LevelSettles
    TicksAreServed
