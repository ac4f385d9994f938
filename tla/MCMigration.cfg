SPECIFICATION Spec
CONSTANTS
  Runs = {r1, r2}
  Saved = {r1}
  Releases = {2, 3}
  MaxFault = 2
INVARIANTS
  CommittedBytesSurvive
  SaveIsAllOrNothing
  InstalledIsOneMoment
PROPERTIES
  DestinationIsNeverReplaced
CHECK_DEADLOCK FALSE
