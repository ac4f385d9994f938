SPECIFICATION FairSpec
CONSTANTS
    p1 = p1
    p2 = p2
    Process <- MCProcess
    Free = Free
    None = None
CHECK_DEADLOCK FALSE
INVARIANTS
    RunIsGrounded
PROPERTIES
    SessionsEnd
