SPECIFICATION Spec
CHECK_DEADLOCK FALSE
CONSTANTS
    None = None
    Walks <- MCWalks
    Packs = {0, 4413, 5871}
    Shunt = 350
    Curve <- MCCurve
    Intervals <- MCIntervals
    Readers = {"app", "motor", "cli"}
    MaxReads = 2
    Tasks = {"app", "motor"}
    Pins = {"en", "rail"}
    Loans = {"none", "session", "DISPLAY", "WEIGH", "ADC"}
    MaxCalls = 3
    utc0 = utc0
    home = home
    Resync = 3
    Retry = 2
    Timeout = 2
    Zones <- MCZones
    Default = utc0
    Editors = {"cli", "web"}
    MaxClockEvents = 4
    Buttons = {"reset", "dispense"}
    Debounce = 1
    Long <- MCLong
    Wrap = 6
    MaxTicks = 9
    MaxMoves = 3
    Masses = {0, 4}
    Away <- MCAway
    Missing = 1
    Rate = 1
    MaxDrift = 1
    Streak = 2
    MaxOrders = 2
CONSTRAINT
    NotBorrowed
INVARIANTS
    LoanReturned
