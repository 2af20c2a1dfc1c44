SPECIFICATION Spec
CONSTANTS
  Items = {k1}
  Hashes = {x, y}
  Gone = Gone
  Actors = {a1, a2}
  Ops <- AllOps
  MaxEvents = 4
  MaxEdits = 2
SYMMETRY SymmetryRaces
INVARIANTS
  TypeOK
  NewestIsCurrent
  TombstonesAreLogged
  ReplayAgrees
  CursorIsHonest
CHECK_DEADLOCK FALSE
