SPECIFICATION FairSpec
CONSTANTS
  r1 = r1  r2 = r2  i1 = i1  n1 = n1  n2 = n2  rec = rec  t1 = t1  t2 = t2
  Runs <- OneRun
  Items <- OneItem
  ItemOf <- OneRunItem
  Nodes <- TwoNodes
  HumanNodes <- FirstNode
  Tasks <- TwoTasks
  Recovery = rec
  MaxWaits = 3
  MaxCrashes = 0
  Boot = {"list"}
  Env = {"late", "specDiffers", "resolveFails", "prepareFails", "checkpointFails",
         "raceToEnd", "driveThrows"}
\* A daemon whose runs have all ended or wait for a user is idle.
CHECK_DEADLOCK FALSE
INVARIANTS
  OneDriverPerRun
  NoRunStranded
  NoOrphanQuestion
  ParkedStateMatchesRows
PROPERTIES
  QuestionsKept
  AnswerReachesNode
