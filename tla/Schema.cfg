SPECIFICATION Spec
CONSTANTS
  ByHand <- MCByHand
  Written <- MCWritten
INVARIANTS
  ChainApplies
  RevisionIsSchema
  OpenTablesAreKnown
CHECK_DEADLOCK FALSE
