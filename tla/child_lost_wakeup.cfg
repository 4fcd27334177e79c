SPECIFICATION Spec
CONSTANTS
  Parts = {"children"}
  MaxRestarts = 0
CHECK_DEADLOCK FALSE
PROPERTIES
  CompletionWakesParent
