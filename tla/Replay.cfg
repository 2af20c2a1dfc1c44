CONSTANTS
  a = a
  b = b
  Keys = {a, b}
  Sources <- EachItsOwn
  Owners = {d}
  None = None
  Modes = {"place", "shadow"}
  Afters <- FromTheStart
  Others <- Busy
  Kills = TRUE
  MaxEvents = 3
  MaxLinks = 1
SPECIFICATION Spec
SYMMETRY Alike
INVARIANTS
  WhatWasClearedIsRebuilt
  TheWorkspaceIsTheLog
  EvidenceComesBack
