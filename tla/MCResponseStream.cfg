SPECIFICATION Spec
CONSTANTS
  Pieces = 6
  Size <- MCSize
  ChunkEnds = {1, 2, 3, 5, 6}
  Slots = 2
  Limit = 2
INVARIANTS
  QueuedBytesExact
PROPERTIES
  CommittedStreamKept
  EveryStreamEnds
