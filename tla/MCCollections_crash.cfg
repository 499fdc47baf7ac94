CONSTANTS
  Programs <- WithoutHandles
  Unequal = {2}
  MaxArrays = 1

SPECIFICATION Spec

INVARIANT NoCrash

CHECK_DEADLOCK FALSE
