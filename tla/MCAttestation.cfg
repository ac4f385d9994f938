SPECIFICATION Spec
CONSTANTS
  Events <- MCEvents
  MaxEvents = 2
  MaxDamage = 2
  Extra = {"workspace", "nested"}
  Nested = {"nested"}
INVARIANTS
  AcceptedTrailIsAcknowledged
  VerifiedRunIsWhole
  AttestedButNested
CHECK_DEADLOCK FALSE
