SPECIFICATION Spec
CONSTANTS
  Parts = {"tracker", "coding", "answers", "approvals", "definitions", "designer", "feed", "store", "shell", "section"}
  NoBranch = NoBranch
  r1 = r1
  r2 = r2
CHECK_DEADLOCK FALSE
INVARIANTS
  WorkHeld
  StoresAgree
  ToldTheTruth
  DefinitionsSound
PROPERTIES
  TransitionsTruthful
  NeverOlder
  QuestionsSettle
