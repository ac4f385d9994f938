SPECIFICATION AuthoritySpec
CONSTANTS
    Slots = 2
    x1 = x1
    x2 = x2
    o1 = o1
    cheap = cheap
    dear = dear
    Other <- MCOther
    Operator <- MCOperator
    Recipe <- MCRecipe
    PlanRecipe = cheap
    Requests <- MCRequests
    MaxRepairs <- MCMaxRepairs
    MaxAssisted = 1
    MaxAssistedRequests = 1
    Versions = 1
    Missing = Missing
SYMMETRY Others
CHECK_DEADLOCK FALSE
INVARIANTS
    OneOutcome
    RepairsHold
    ScheduledIsReportable
