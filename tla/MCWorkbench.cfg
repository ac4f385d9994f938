SPECIFICATION Spec
CONSTANTS
  Id = {a, b}
  InWorld = {a}
  Key = {k}
  Reviewer = {r1, r2}
  MaxNotes = 1
  MaxCommands = 4
  MaxCrash = 1
  None = None
SYMMETRY Reviewers
INVARIANTS
    ReadBeforeWritten
    OneExperimentPerKey
    
    PassIsEarned
PROPERTIES
    KeepsUnconfirmed
CHECK_DEADLOCK FALSE
