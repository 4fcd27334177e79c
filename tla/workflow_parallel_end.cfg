SPECIFICATION CompiledSpec
CONSTANTS
  Definitions <- Parallel
  Compilable = {}
  concurrencyLimit = 2
  Env = {}
CHECK_DEADLOCK FALSE
INVARIANTS
  FailureHasACause
