SPECIFICATION Spec
CONSTANTS
    None = None
    MaxFault = 2
    Task <- MCTask
INVARIANTS
    VerifiedScansAreSound
    AcceptedIsEarned
    DecisionVerifies
    NothingLeftSilently
