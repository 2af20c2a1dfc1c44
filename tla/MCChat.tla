------------------------------- MODULE MCChat -------------------------------
(* Chat on a small instance: model values, and the symmetry between them.  *)
EXTENDS Chat, TLC

CONSTANTS s1, s2, k1, k2, x, y, nothing, c1, c2

TwoSessions == {s1, s2}
TwoKeys == {k1, k2}
TwoTexts == {x, y}
TwoCallers == {c1, c2}

Interchangeable ==
  Permutations(TwoSessions) \cup Permutations(TwoKeys)
    \cup Permutations(TwoTexts) \cup Permutations(TwoCallers)
=============================================================================
