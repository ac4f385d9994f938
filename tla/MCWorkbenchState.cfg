SPECIFICATION Spec
CONSTANTS
  Id = {a, b}
  InWorld = {a}
  Key = {k}
  Reviewer = {r1, r2}
  MaxNotes = 1
  MaxCommands = 4
  MaxCrash = 1
  None = None
SYMMETRY Reviewers
INVARIANTS
  CompletedIsDecidable
CHECK_DEADLOCK FALSE
