SPECIFICATION GraphSpec
CONSTANTS
  m1 = m1
  m2 = m2
  a = a
  b = b
  None = None
  Memories = {m1, m2}
  Replaces <- Apart
  Names = {a, b}
  At <- OnePlace
  Findings <- FewFindings
  Extractors = {w1}
  Resolvers = {r1}
  Interleaved = FALSE
  MaxVersion = 2
  MaxMerges = 1
  Syncers = {s1}
  Wide = 2
  Overlap = FALSE
  MaxUntold = 2
SYMMETRY Alike
VIEW Seen
INVARIANTS
  NothingIsMissing
  WhatLeftIsGone
CHECK_DEADLOCK FALSE
