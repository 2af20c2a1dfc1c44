----------------------------- MODULE JobHandout -----------------------------
(***************************************************************************)
(* What the queue is to the handlers, with no rows, attempts or leases in  *)
(* sight: a piece of work waits once, however often it is asked for; it is *)
(* handed to one worker at a time; and what a worker gives up, or has      *)
(* taken from it, is over or waits again.  A worker that has lost its work *)
(* may not know it: what it does from then on is not the queue's business. *)
(***************************************************************************)
CONSTANTS
  Jobs,       \* pieces of work
  Workers

VARIABLES
  waiting,    \* work that is asked for and that nobody has
  held        \* for each worker, the work that is its to settle

vars == <<waiting, held>>

Holding(W) == UNION {held[w] : w \in W}

Init ==
  /\ waiting = {}
  /\ held = [w \in Workers |-> {}]

\* What waits or is held is not asked for a second time.
Ask ==
  /\ waiting \subseteq waiting'
  /\ waiting' \ waiting \subseteq Jobs \ Holding(Workers)
  /\ UNCHANGED held

Claim(w, j) ==
  /\ j \in waiting
  /\ held[w] = {}
  /\ waiting' = waiting \ {j}
  /\ held' = [held EXCEPT ![w] = {j}]

\* A worker settles its own work; a sweep takes it from several at once.  What is not
\* over by then waits again.
GiveUp(W) ==
  /\ waiting \subseteq waiting'
  /\ waiting' \ waiting \subseteq Holding(W)
  /\ held' = [w \in Workers |-> IF w \in W THEN {} ELSE held[w]]

Next ==
  \/ Ask
  \/ \E w \in Workers, j \in Jobs : Claim(w, j)
  \/ \E W \in SUBSET Workers : GiveUp(W)

Spec == Init /\ [][Next]_vars

\* No work is with two workers, or waits while it is with one.
Exclusive ==
  /\ \A w \in Workers : held[w] \cap waiting = {}
  /\ \A v, w \in Workers : v # w => held[v] \cap held[w] = {}

=============================================================================
