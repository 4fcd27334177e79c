SPECIFICATION Spec
CONSTANTS
  r1 = r1  r2 = r2  i1 = i1  n1 = n1  n2 = n2  rec = rec  t1 = t1  t2 = t2
  Runs <- OneRun
  Items <- OneItem
  ItemOf <- OneRunItem
  Nodes <- OneNode
  HumanNodes <- FirstNode
  Tasks <- OneTask
  Recovery = rec
  MaxWaits = 1
  MaxCrashes = 1
  Boot = {"v1"}
  Env = {}
\* A daemon whose runs have all ended or wait for a user is idle.
CHECK_DEADLOCK FALSE
PROPERTIES
  ParkedRunSurvivesRestart
