SPECIFICATION Spec
CONSTANTS
  s1 = s1
  s2 = s2
  k1 = k1
  k2 = k2
  x = x
  y = y
  nothing = nothing
  c1 = c1
  c2 = c2
  Sessions <- TwoSessions
  Keys <- TwoKeys
  Texts <- TwoTexts
  Nothing = nothing
  Callers <- TwoCallers
  Overlap = FALSE
  MaxTurns = 5
  MaxVersions = 3
SYMMETRY Interchangeable
INVARIANT OrdinalsTellTheOrder
INVARIANT HistoryReachesTheEnd
INVARIANT PurgedStaysGone
INVARIANT LastWordIsCurrent
