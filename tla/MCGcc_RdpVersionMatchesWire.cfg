CONSTANTS
  BlockSet <- MCBlockSet
  MaxBlocks <- MCMaxBlocks
  LimitDeltas <- MCLimitDeltas
SPECIFICATION Spec
\* read_conference_create_response returns once it has an outcome.
CHECK_DEADLOCK FALSE
INVARIANT RdpVersionMatchesWire
