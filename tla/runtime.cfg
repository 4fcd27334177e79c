SPECIFICATION Spec
CONSTANTS
  Parts = {"agent", "nodes", "children", "experiment", "backend", "model", "mcp", "expression"}
  MaxRestarts = 1
CHECK_DEADLOCK FALSE
INVARIANTS
  SessionsSound
  VerdictsEarned
PROPERTIES
  NodesSettle
