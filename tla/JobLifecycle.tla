---------------------------- MODULE JobLifecycle ----------------------------
(***************************************************************************)
(* What the queue promises whoever enqueues a job, with no workers, leases *)
(* or locks in sight: a job is taken up at most `MaxTries` times, each try *)
(* is given back or ends the job, and every job ends.                      *)
(***************************************************************************)
EXTENDS Naturals

CONSTANTS
  Jobs,
  MaxTries    \* how often a job may be taken up

VARIABLES
  state,
  tries

vars == <<state, tries>>

Final == {"succeeded", "failed"}

Init ==
  /\ state = [j \in Jobs |-> "absent"]
  /\ tries = [j \in Jobs |-> 0]

Submit(j) ==
  /\ state[j] = "absent"
  /\ state' = [state EXCEPT ![j] = "pending"]
  /\ UNCHANGED tries

Take(j) ==
  /\ state[j] = "pending"
  /\ tries[j] < MaxTries[j]
  /\ state' = [state EXCEPT ![j] = "running"]
  /\ tries' = [tries EXCEPT ![j] = @ + 1]

\* A try may end the job or give it back, but the last one is not given back.
Outcomes(j) ==
  IF tries[j] < MaxTries[j] THEN Final \cup {"pending"} ELSE Final

\* Several tries may end together: one sweep finds many dead workers.
Release(S) ==
  \E out \in [S -> Final \cup {"pending"}] :
    /\ \A j \in S : state[j] = "running" /\ out[j] \in Outcomes(j)
    /\ state' = [j \in Jobs |-> IF j \in S THEN out[j] ELSE state[j]]
    /\ UNCHANGED tries

Next ==
  \/ \E j \in Jobs : Submit(j) \/ Take(j)
  \/ \E S \in SUBSET Jobs : Release(S)

Spec == Init /\ [][Next]_vars

\* Nothing waits for ever, and no try lasts for ever.
Promise ==
  \A j \in Jobs : /\ WF_vars(Take(j))
                  /\ WF_vars(\E S \in SUBSET Jobs : j \in S /\ Release(S))

LiveSpec == Spec /\ Promise

=============================================================================
