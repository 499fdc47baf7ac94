CONSTANTS
  lib = lib
  app = app
  api = api
  util = util
  main = main
  pipe = pipe
  Packages <- Manifests
  Files <- Sources
  Symbols <- Operators
  Members <- MemberLists
  Exports <- Public
  Name <- OwnNames
  Declared <- Identifiers
  Contents <- Fixed
  SearchPaths <- Swapped
  None = None
  Loading = Loading
  MaxRuns = 4
  MaxChanges = 0
  MaxTrace = 4
  Nothing = Nothing
  MaxArrivals = 4
  MixedArrivals = 3
  MaxResponse = 3

SPECIFICATION SessionSpec

INVARIANTS
  LoadingMatchesStack
  InputInOrder
  RawModeFollowsState

PROPERTIES
  LoadsAsPromised
  EndOfInputEndsReads

\* The session stops by itself.
CHECK_DEADLOCK FALSE
