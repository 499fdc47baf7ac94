CONSTANTS
  lib = lib
  app = app
  api = api
  util = util
  main = main
  pipe = pipe
  Packages <- Manifests
  Files <- Sources
  Symbols <- Operators
  Members <- MemberLists
  Exports <- Public
  Name <- SameName
  Declared <- Identifiers
  Contents <- Editable
  SearchPaths <- Shortened
  None = None
  Loading = Loading
  MaxRuns = 2
  MaxChanges = 2
  MaxTrace = 2

SPECIFICATION Spec

INVARIANTS
  OperatorMatchesGrammar
  ProgramsMatchGrammar
  InternalStaysInternal
