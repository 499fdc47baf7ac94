CONSTANTS
  Names = {"x", "Error"}
  BuiltinNames = {"Error"}
  Primitives = {"int"}
  None = None
  Annotations <- TypeAnnotations
  Signatures <- Closures
  Preludes <- Begun
  MaxScopes = 3
  MaxDepth = 4
  MaxTypes = 1
  MaxSteps = 3

SPECIFICATION Spec

INVARIANT AssignmentsAreChecked

\* A program ends.
CHECK_DEADLOCK FALSE
