SPECIFICATION Spec
CONSTANTS
    N = 2
    w1 = w1
    w2 = w2
    r1 = r1
    Worker <- MCWorker
    NoWorker = NoWorker
    Reservation <- MCReservation
    Limits <- MCLimits
    Measures <- MCMeasures
    Unmeasured = unmeasured
    unmeasured = unmeasured
    Receipt <- MCReceipt
    NoReceipt = NoReceipt
    MaxEpoch = 3
INVARIANTS
    BooksAgree
PROPERTIES
    Decided
