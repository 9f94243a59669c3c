SPECIFICATION Spec
CHECK_DEADLOCK FALSE
CONSTANTS
    None = None
    Workers = {1, 2}
    MaxDelay = 1
    MaxLosses = 1
    MaxOrders = 2
    Nets = {"home", "guest", "cafe"}
    Own = "own"
    Levels = {1, 2}
    MaxAps = 2
    MaxSeen = 3
    MaxForms = 3
    MaxFaults = 2
    Icons = {"wifi", "child_lock", "bowl_error", "dispensing", "bar_orange", "bar_green"}
    MaxBlinks = 2
    SampleEvery = 2
    FeedbackTicks = 2
    MaxPics = 3
    Cadence <- MCCadence
    ErrorPattern <- MCErrorPattern
INVARIANTS
    QuietWhenOff
    StoredWhole
    PanelShows
PROPERTIES
    YieldGuard
    SessionReturns
    ScanBest
    PortalReturns
    IconsAlternate
