SPECIFICATION MCSpec
CONSTANTS
  Items <- TwoItems
  RunIds <- TwoRuns
  NoItem = "no item"
  Attributes <- TwoAttributes
  Workflows <- TwoWorkflows
  AttributesOf <- ItemAttributes
  RuleName <- Names
  MIN_SUGGESTION_EVIDENCE = 2
  MaxDecisions = 2
  MinutesPerHour = 1  HoursPerDay = 2  DaysPerWeek = 2
  MonthLengths <- Months
  LeapMonth = 2  LeapEvery = 2  MAX_SCAN_MINUTES = 6
  Schedules <- ListedSchedules
  Lanes <- ListedLanes
  ScheduleOf <- SomeSources
  LaneOf <- SomeLanes
  Backlog <- RankedItems
  Blocked <- NoneBlocked
  Rules <- SomeRules
  EnabledWorkflows <- TwoWorkflows
  Throwing = {"schedule", "serial"}
  Scenarios <- Enablements
  MaxTime = 4
  ItemData <- Data
  Definitions <- FirstFree
  maxConcurrentRuns = 1
  ByHand = {"a"}
  MaxCrashes = 1
CHECK_DEADLOCK FALSE
INVARIANTS
  OneRunPerItem
  CapacityKept
  RecordsKept
PROPERTIES
  CatchesUp
