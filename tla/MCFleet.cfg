SPECIFICATION LiveFleetSpec
CONSTANTS
    N = 2
    p1 = p1
    p2 = p2
    w1 = w1
    good = good
    bad = bad
    unmeasured = unmeasured
    Proc <- MCProc
    Worker <- MCWorker
    Name <- MCName
    NoWorker = NoWorker
    Jobs <- MCJobs
    Reservation <- MCReservation
    Limits <- MCLimits
    Measures = {}
    Unmeasured = unmeasured
    Answer <- MCAnswer
    Receipt <- MCReceipt
    NoReceipt = NoReceipt
    MaxEpoch = 5
    MaxFaults = 2
CHECK_DEADLOCK FALSE
INVARIANTS
    CallsAsRecorded
    OutboxIsTrue
PROPERTIES
    WorkSettles
