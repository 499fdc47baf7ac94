CONSTANTS
  Tasks = {t1, t2}
  l1 = l1
  s1 = s1
  s2 = s2
  p1 = p1
  f1 = f1
  f2 = f2
  Handles <- AllHandles
  Listeners = {l1}
  Streams = {s1, s2}
  Packets = {p1}
  FileHandles = {f1, f2}
  None = None
  Mixes <- Together
  Sizes <- BufferSizes
  Lengths <- DataLengths
  Room = 1
  Pieces = 2

SPECIFICATION Spec

PROPERTIES
  HandlesAsPromised
  BlockedCallsEnd
  ReadsAreWhole
