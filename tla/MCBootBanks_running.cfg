SPECIFICATION Spec
CONSTANTS
    Chunks = 2
    MaxAttempts = 3
    MaxFailures = 3
    MaxCuts = 0
    Spare <- MCSpare
    Faults = {}
PROPERTIES
    RunningUntouched
