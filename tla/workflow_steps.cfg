SPECIFICATION FairCompiledSpec
CONSTANTS
  Definitions <- All
  Compilable <- Acyclics
  concurrencyLimit = 2
  Env = {"abort", "timeout", "throw"}
\* The engine returns once.
CHECK_DEADLOCK FALSE
INVARIANTS
  TypeOK
  SuccessMeansSettled
  CancelledMeansQuiet
  CompiledKeepsVerdict
PROPERTIES
  VerdictMatchesFailures
  NoWorkAfterAbort
  EngineReturns
