SPECIFICATION Spec
CONSTANTS
  Segments = {"", "a", "x", "y", "~"}
  Names <- MCNames
  Depth = 2
  Trees <- MCTrees
  Texts <- MCTexts
  Operands <- MCOperands
  Home <- MCHome
  Suffixings <- MCSuffixings
  Patterns <- MCPatterns
  LinkLimit = 2
  MaxPieces = 3
  MaxOps = 1
  MaxChanges = 2
INVARIANTS FieldsDescribePath JoinsKeepPlace SuccessIsVisible TraversalsAreExact
PROPERTY CallsEnd
CHECK_DEADLOCK FALSE
