CONSTANTS
  Errors <- AppErrors
  NotFound = NotFound
  RuntimeError = RuntimeError
  Fault = Fault
  None = None
  CatchClauses <- OneOfEach
  MaxDepth = 4
  MaxEnvs = 3
  MaxDefers = 2
  MaxTemplates = 1

SPECIFICATION Spec

INVARIANTS
  CleanupRunsOnce
  TracebackIsCallChain
  ContextsMatchActivations

PROPERTIES
  UnwindsInReverse
  OnlyDeclaredErrorsEscape
  FailuresSurviveUnwinding
