CONSTANTS
  Programs <- AllPrograms
  Unequal = {2}
  MaxArrays = 2

SPECIFICATION Spec

INVARIANT LoopsStayInside
PROPERTY ImplementsSequences

\* The interpreter may crash.
CHECK_DEADLOCK FALSE
