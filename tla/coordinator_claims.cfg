SPECIFICATION Spec
CONSTANTS
  r1 = r1  r2 = r2  i1 = i1  n1 = n1  n2 = n2  rec = rec  t1 = t1  t2 = t2
  Runs <- TwoRuns
  Items <- OneItem
  ItemOf <- TwoRunsItem
  Nodes <- TwoNodes
  HumanNodes <- FirstNode
  Tasks <- TwoTasks
  Recovery = rec
  MaxWaits = 2
  MaxCrashes = 0
  Boot = {"list"}
  Env = {"resolveFails", "prepareFails", "fetchFails", "checkpointFails", "raceToEnd",
         "driveThrows"}
SYMMETRY TaskSymmetry
\* A daemon whose runs have all ended or wait for a user is idle.
CHECK_DEADLOCK FALSE
INVARIANTS
  OneLiveRunPerItem
  TerminalLeavesNothing
PROPERTIES
  LegalTransitions
