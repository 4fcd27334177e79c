SPECIFICATION MCSpec
CONSTANTS
  Nodes = {1, 2, 3, 4}
  Workflows <- AllContract
  Worlds <- AllWorlds
  maxSettlements = 4
  WALK_SETTLEMENT_BACKSTOP = 4
\* A run that has ended makes no step.
CHECK_DEADLOCK FALSE
INVARIANTS
  TypeOK
  TickWithinContract
  JoinAccounting
  PredictionKept
PROPERTIES
  TicksEnd
