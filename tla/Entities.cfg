SPECIFICATION EntitySpec
CONSTANTS
  m1 = m1
  m2 = m2
  a = a
  b = b
  c = c
  w1 = w1
  w2 = w2
  r1 = r1
  r2 = r2
  None = None
  Memories = {m1}
  Replaces <- Solo
  Names = {a, b, c}
  At <- Places
  Findings <- AnyFindings
  Extractors = {w1, w2}
  Resolvers = {r1, r2}
  Interleaved = FALSE
  MaxVersion = 2
  MaxMerges = 2
SYMMETRY Alike
INVARIANTS
  MentionsAreOnWinners
  OneOpinion
  EveryMergeCanBeUndone
CHECK_DEADLOCK FALSE
