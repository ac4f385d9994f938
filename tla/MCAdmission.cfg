SPECIFICATION Spec
CONSTANTS
  Requests <- MCRequests
  Bundles <- MCBundles
  Commands <- MCCommands
  Manifests <- MCManifests
  Platforms = {"amd64", "arm64"}
  Usage = {1, 2, 3}
  MaxChanges = 3
  None = None
INVARIANTS
  RunsWhatWasApproved
  SpendingIsBounded
  AdmittedFirst
  EvidenceReplays
CHECK_DEADLOCK FALSE
