----------------------------- MODULE MCEntities -----------------------------
(* Instances of Entities for TLC. *)
EXTENDS Entities, TLC

CONSTANTS m1, m2, a, b, c, w1, w2, r1, r2

\* m2 is the next version of m1; a and b may name one place in the text.
Versioned == m1 :> None @@ m2 :> m1
Solo == m1 :> None
Apart == m1 :> None @@ m2 :> None
Places == a :> 1 @@ b :> 1 @@ c :> 2
AnyFindings == SUBSET {a, b, c}

\* Nothing tells two workers, two people, or two names found at one place, from each other.
Alike == Permutations({w1, w2}) \cup Permutations({r1, r2})
           \cup Permutations({a, b})
=============================================================================
