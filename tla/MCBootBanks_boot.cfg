SPECIFICATION Spec
CONSTANTS
    Chunks = 2
    MaxAttempts = 3
    MaxFailures = 3
    MaxCuts = 1
    Spare <- MCSpare
    Faults <- MCFails
INVARIANTS
    TypeOK
    KnownGoodKept
    VerifiedIsProven
PROPERTIES
    BackInService
    ServicesReturn
