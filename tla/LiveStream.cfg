SPECIFICATION FairSpec
CONSTANTS
  Pages = {p1, p2}
  BufferSize = 2
  MaxEvents = 5
  MaxRestarts = 1
INVARIANTS
  NoSilentLossInOneProcess
PROPERTIES
  NeverBackwards
  StreamsDrain
