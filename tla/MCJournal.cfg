SPECIFICATION LiveSpec
CONSTANTS
    N = 2
    w1 = w1
    w2 = w2
    Workers <- MCWorkers
    NoWorker = NoWorker
    Limits <- MCLimits
    Ends <- MCEnds
    MaxFaults = 2
INVARIANTS
    CallsAreBounded
    EvidenceStands
    NeverRefused
PROPERTIES
    AmbiguityHalts
    ImplementsLifecycle
    Settles
    CancelDrains
