------------------------------ MODULE MCReplay ------------------------------
(* Small instances of Replay. *)
EXTENDS Replay, TLC

CONSTANTS a, b

EachItsOwn == {{a}, {b}}
FromTheStart == {0}
NoSource == {}

\* During a replay in place nothing is linked; see README.
Busy == [place |-> {"hide"}, shadow |-> {"observe", "purge", "link"}]
Nobody == [place |-> {}, shadow |-> {}]

Alike == Permutations(Keys)
=============================================================================
