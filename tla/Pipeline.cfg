SPECIFICATION Spec
CONSTANTS
  Workers = {w1, w2}
  Texts = {x, y}
  MaxVersion = 2
  MaxChunk = 3
  MaxDead = 1
SYMMETRY Symmetry
VIEW Seen
INVARIANTS
  ChunksSpeakForTheirVersion
  OneChunkingPerVersion
  SomethingIsIndexed
  NothingIsForgotten
PROPERTIES
  TakesHandout
CHECK_DEADLOCK FALSE
