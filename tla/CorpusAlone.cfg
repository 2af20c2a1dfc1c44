SPECIFICATION Spec
CONSTANTS
  Items = {k1, k2}
  Hashes = {x, y}
  Gone = Gone
  Actors = {a1}
  Ops <- AllOps
  MaxEvents = 4
  MaxEdits = 2
SYMMETRY SymmetryAlone
INVARIANTS
  EveryVersionHasItsBytes
  SkippedIsUnchanged
CHECK_DEADLOCK FALSE
