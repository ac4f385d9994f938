SPECIFICATION BridgeSpec
CONSTANTS
    N = 2
    w1 = w1
    p1 = p1
    r1 = r1
    unmeasured = unmeasured
    Workers <- MCWorkers
    NoWorker = NoWorker
    Limits <- MCAll
    Ends <- MCAll
    MaxFaults = 1
    Proc <- MCProc
    Worker <- MCWorker
    Name <- MCName
    Reservation <- MCReservation
    RemoteLimits <- MCLimits
    MaxEpoch = 3
    Unmeasured = unmeasured
    NoRemote = NoRemote
    MaxRemoteFaults = 1
INVARIANTS
    CallsStayApart
    CancelledNeverSent
    CollectionHolds
