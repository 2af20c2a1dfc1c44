--------------------------- MODULE JobQueueProofs ---------------------------
(***************************************************************************)
(* The safety of JobQueue for any number of rows, workers, attempts and    *)
(* ticks.  The invariants the runs check are not inductive by themselves:  *)
(* what a fenced write may do depends on what the worker remembers of its  *)
(* claim, so the inductive invariant adds how the processes' memory and    *)
(* the table hang together (Bookkeeping).                                  *)
(***************************************************************************)
EXTENDS JobQueue, TLAPS

Busy == {"handling"} \cup Settling

\* What a worker remembers, against the table: a busy worker holds a row; as
\* long as the fence lets it through, that row still stands as it was claimed;
\* an idle one has no task left over; "ok" means a handler has returned; and a
\* row that was never inserted has used no attempt.
Bookkeeping ==
  /\ \A w \in Workers :
       /\ pc[w] \in Busy =>
            /\ job[w] \in JobIds
            /\ OwnedBy(job[w], w) => claimed[w] = attempts[job[w]]
       /\ pc[w] \notin Busy => job[w] = NoJob /\ ~beating[w] /\ ~lost[w]
       /\ pc[w] = "ok" => ran[job[w]]
  /\ \A j \in JobIds : status[j] = "absent" => attempts[j] = 0

IInv ==
  /\ TypeOK
  /\ Bookkeeping
  /\ NoDuplicateLiveJobs
  /\ RunningRowHasItsWorker
  /\ AttemptsWithinBudget
  /\ SucceededHasRun
  /\ LostMeansLost

\* The columns and bounds, in the form the steps below need them.
LEMMA Constants ==
  /\ \A j \in JobIds : MaxAttempts[j] \in Nat /\ MaxAttempts[j] > 0
  /\ NoWorker \notin Workers /\ NoJob \notin JobIds
  /\ Lease \in Nat /\ Lease > 0 /\ MaxBackoff \in Nat /\ MaxBackoff > 0
  BY ColumnsAssumption, WorkersAssumption, BoundsAssumption

\* The inductive invariant holds of the empty table and the idle processes.
LEMMA InitIInv == Init => IInv
  BY Constants DEF Init, IInv, TypeOK, Bookkeeping, NoDuplicateLiveJobs,
     RunningRowHasItsWorker, AttemptsWithinBudget, SucceededHasRun,
     LostMeansLost, Statuses, Phases, Busy, Settling, Live, OwnedBy

-----------------------------------------------------------------------------
(* The steps that end or start a claim: everything the invariant says is at *)
(* stake, one part at a time.                                               *)

\* A row is handed to one worker, with the attempt already counted.
LEMMA ClaimIInv ==
  ASSUME NEW w \in Workers, NEW j \in JobIds, IInv, Claim(w, j)
  PROVE  IInv'
  <1> USE Constants DEF IInv, TypeOK, Busy, Settling, Statuses, Claim, Ready
  <1>1. TypeOK'
    <2>1. /\ status' \in [JobIds -> Statuses]
          /\ attempts' \in [JobIds -> Nat]
          /\ lockedBy' \in [JobIds -> Workers \cup {NoWorker}]
          /\ lease' \in [JobIds -> 0..Lease]
      OBVIOUS
    <2>2. /\ job' \in [Workers -> JobIds \cup {NoJob}]
          /\ claimed' \in [Workers -> Nat]
      OBVIOUS
    <2>3. /\ pc' \in [Workers -> Phases]
          /\ beating' \in [Workers -> BOOLEAN]
      BY DEF Phases
    <2>4. QED
      BY <2>1, <2>2, <2>3
  <1>2. Bookkeeping'
    BY DEF Bookkeeping, OwnedBy
  <1>3. NoDuplicateLiveJobs'
    BY DEF NoDuplicateLiveJobs, Live
  <1>4. RunningRowHasItsWorker'
    BY DEF Bookkeeping, RunningRowHasItsWorker, OwnedBy
  <1>5. AttemptsWithinBudget'
    BY DEF AttemptsWithinBudget
  <1>6. SucceededHasRun'
    BY DEF SucceededHasRun
  <1>7. LostMeansLost'
    BY DEF Bookkeeping, LostMeansLost, OwnedBy
  <1>8. QED
    BY <1>1, <1>2, <1>3, <1>4, <1>5, <1>6, <1>7

\* A heartbeat extends a lease that is still held, or learns that it is not.
LEMMA HeartbeatIInv ==
  ASSUME NEW w \in Workers, IInv, Heartbeat(w)
  PROVE  IInv'
  <1> USE Constants DEF IInv, TypeOK, Busy, Settling, Statuses, Heartbeat
  <1>1. TypeOK'
    <2>1. job[w] \in JobIds
      BY DEF Bookkeeping
    <2>2. lease' \in [JobIds -> 0..Lease]
      BY <2>1
    <2>3. lost' \in [Workers -> BOOLEAN] /\ beating' \in [Workers -> BOOLEAN]
      OBVIOUS
    <2>4. QED
      BY <2>2, <2>3
  <1>2. Bookkeeping'
    BY DEF Bookkeeping, OwnedBy
  <1>3. NoDuplicateLiveJobs' /\ AttemptsWithinBudget' /\ SucceededHasRun'
    BY DEF NoDuplicateLiveJobs, Live, AttemptsWithinBudget, SucceededHasRun
  <1>4. RunningRowHasItsWorker'
    BY DEF RunningRowHasItsWorker
  <1>5. LostMeansLost'
    BY DEF Bookkeeping, LostMeansLost, OwnedBy
  <1>6. QED
    BY <1>1, <1>2, <1>3, <1>4, <1>5

\* A job whose handler has returned is recorded as succeeded, or not at all.
LEMMA CompleteIInv ==
  ASSUME NEW w \in Workers, IInv, Complete(w)
  PROVE  IInv'
  <1> USE Constants
      DEF IInv, TypeOK, Busy, Settling, Statuses, Complete, Close, Unlock,
          BackToLoop, rows
  <1>1. TypeOK'
    BY DEF Phases
  <1>2. Bookkeeping'
    BY DEF Bookkeeping, OwnedBy
  <1>3. NoDuplicateLiveJobs' /\ AttemptsWithinBudget'
    BY DEF NoDuplicateLiveJobs, Live, AttemptsWithinBudget
  <1>4. RunningRowHasItsWorker'
    BY DEF Bookkeeping, RunningRowHasItsWorker, OwnedBy
  <1>5. SucceededHasRun'
    BY DEF Bookkeeping, SucceededHasRun
  <1>6. LostMeansLost'
    BY DEF Bookkeeping, LostMeansLost, OwnedBy
  <1>7. QED
    BY <1>1, <1>2, <1>3, <1>4, <1>5, <1>6

\* The outcome of a statement that raised is not known: the row is closed, or
\* it is as it was.
LEMMA CompleteRaisesIInv ==
  ASSUME NEW w \in Workers, IInv, CompleteRaises(w)
  PROVE  IInv'
  <1> USE Constants
      DEF IInv, TypeOK, Busy, Settling, Statuses, CompleteRaises, Close, Unlock, rows
  <1>1. TypeOK'
    BY DEF Phases
  <1>2. Bookkeeping'
    BY DEF Bookkeeping, OwnedBy
  <1>3. NoDuplicateLiveJobs' /\ AttemptsWithinBudget'
    BY DEF NoDuplicateLiveJobs, Live, AttemptsWithinBudget
  <1>4. RunningRowHasItsWorker'
    BY DEF Bookkeeping, RunningRowHasItsWorker, OwnedBy
  <1>5. SucceededHasRun'
    BY DEF Bookkeeping, SucceededHasRun
  <1>6. LostMeansLost'
    BY DEF Bookkeeping, LostMeansLost, OwnedBy
  <1>7. QED
    BY <1>1, <1>2, <1>3, <1>4, <1>5, <1>6

\* A job that cannot be done is recorded as failed, or not at all.
LEMMA DeadLetterIInv ==
  ASSUME NEW w \in Workers, IInv, DeadLetter(w)
  PROVE  IInv'
  <1> USE Constants
      DEF IInv, TypeOK, Busy, Settling, Statuses, DeadLetter, Close, Unlock,
          BackToLoop, rows
  <1>1. TypeOK'
    BY DEF Phases
  <1>2. Bookkeeping'
    BY DEF Bookkeeping, OwnedBy
  <1>3. NoDuplicateLiveJobs' /\ AttemptsWithinBudget'
    BY DEF NoDuplicateLiveJobs, Live, AttemptsWithinBudget
  <1>4. RunningRowHasItsWorker'
    BY DEF Bookkeeping, RunningRowHasItsWorker, OwnedBy
  <1>5. SucceededHasRun'
    BY DEF Bookkeeping, SucceededHasRun
  <1>6. LostMeansLost'
    BY DEF Bookkeeping, LostMeansLost, OwnedBy
  <1>7. QED
    BY <1>1, <1>2, <1>3, <1>4, <1>5, <1>6

\* A job goes back only while its claim stands, and then the attempt the
\* worker remembers is the one in the row: the budget is not overdrawn.
LEMMA RetryOrDeadLetterIInv ==
  ASSUME NEW w \in Workers, IInv, RetryOrDeadLetter(w)
  PROVE  IInv'
  <1> USE Constants
      DEF IInv, TypeOK, Busy, Settling, Statuses, RetryOrDeadLetter,
          Reschedule, Close, Unlock, BackToLoop, rows
  <1>1. TypeOK'
    <2>1. job[w] \in JobIds
      BY DEF Bookkeeping
    <2>2. /\ status' \in [JobIds -> Statuses]
          /\ attempts' \in [JobIds -> Nat]
          /\ wait' \in [JobIds -> 0..MaxBackoff]
      BY <2>1
    <2>3. /\ lockedBy' \in [JobIds -> Workers \cup {NoWorker}]
          /\ lease' \in [JobIds -> 0..Lease]
      BY <2>1
    <2>4. /\ pc' \in [Workers -> Phases]
          /\ job' \in [Workers -> JobIds \cup {NoJob}]
          /\ claimed' \in [Workers -> Nat]
      BY DEF Phases
    <2>5. /\ beating' \in [Workers -> BOOLEAN] /\ lost' \in [Workers -> BOOLEAN]
          /\ stopping' \in [Workers -> BOOLEAN] /\ ran' \in [JobIds -> BOOLEAN]
      OBVIOUS
    <2>6. QED
      BY <2>2, <2>3, <2>4, <2>5
  <1>2. Bookkeeping'
    BY DEF Bookkeeping, OwnedBy
  <1>3. NoDuplicateLiveJobs'
    <2>1. \A j \in JobIds : Live(j)' => Live(j)
      BY DEF Bookkeeping, Live, OwnedBy
    <2>2. QED
      BY <2>1 DEF NoDuplicateLiveJobs
  <1>4. RunningRowHasItsWorker'
    BY DEF Bookkeeping, RunningRowHasItsWorker, OwnedBy
  <1>5. AttemptsWithinBudget'
    BY DEF Bookkeeping, AttemptsWithinBudget, OwnedBy
  <1>6. SucceededHasRun'
    BY DEF SucceededHasRun
  <1>7. LostMeansLost'
    BY DEF Bookkeeping, LostMeansLost, OwnedBy
  <1>8. QED
    BY <1>1, <1>2, <1>3, <1>4, <1>5, <1>6, <1>7

-----------------------------------------------------------------------------
(* Every step *)

\* Every step of the queue (job_queue.py) and of a worker (worker.py) keeps the
\* inductive invariant.
LEMMA NextIInv == IInv /\ [Next]_vars => IInv'
  <1> SUFFICES ASSUME IInv, [Next]_vars
               PROVE  IInv'
    OBVIOUS
  <1> USE Constants
      DEF IInv, TypeOK, Bookkeeping, Busy, Settling, Statuses, Phases,
          OwnedBy, Live, NoDuplicateLiveJobs, RunningRowHasItsWorker,
          AttemptsWithinBudget, SucceededHasRun, LostMeansLost
  <1>1. ASSUME NEW j \in JobIds, Enqueue(j)
        PROVE  IInv'
    BY <1>1 DEF Enqueue, SameWork, procs
  <1>2. ASSUME NEW w \in Workers, Start(w)
        PROVE  IInv'
    BY <1>2 DEF Start, rows
  <1>3. ASSUME NEW w \in Workers, Reclaim(w)
        PROVE  IInv'
    BY <1>3 DEF Reclaim, ReclaimExpired, Expired, procs
  <1>4. ASSUME NEW w \in Workers, NEW j \in JobIds, Claim(w, j)
        PROVE  IInv'
    BY <1>4, ClaimIInv
  <1>5. ASSUME NEW w \in Workers, Heartbeat(w)
        PROVE  IInv'
    BY <1>5, HeartbeatIInv
  <1>6. ASSUME NEW w \in Workers, HeartbeatDies(w)
        PROVE  IInv'
    BY <1>6 DEF HeartbeatDies, rows
  <1>7. ASSUME NEW w \in Workers, HandlerReturns(w)
        PROVE  IInv'
    BY <1>7 DEF HandlerReturns, HandlerEnds, rows
  <1>8. ASSUME NEW w \in Workers, AbandonLost(w)
        PROVE  IInv'
    BY <1>8 DEF AbandonLost, BackToLoop, rows
  <1>9. ASSUME NEW w \in Workers, Complete(w)
        PROVE  IInv'
    BY <1>9, CompleteIInv
  <1>10. ASSUME NEW w \in Workers, CompleteRaises(w)
        PROVE  IInv'
    BY <1>10, CompleteRaisesIInv
  <1>11. ASSUME NEW w \in Workers, DeadLetter(w)
        PROVE  IInv'
    BY <1>11, DeadLetterIInv
  <1>12. ASSUME NEW w \in Workers, RetryOrDeadLetter(w)
        PROVE  IInv'
    BY <1>12, RetryOrDeadLetterIInv
  <1>13. ASSUME NEW w \in Workers, RequestStop(w)
        PROVE  IInv'
    BY <1>13 DEF RequestStop, rows
  <1>14. ASSUME NEW w \in Workers, Gone(w)
        PROVE  IInv'
    BY <1>14 DEF Gone, rows
  <1>15. CASE Tick
    BY <1>15 DEF Tick, procs
  <1>16. CASE UNCHANGED vars
    BY <1>16 DEF vars, rows, procs
  <1>17. QED
    BY <1>1, <1>2, <1>3, <1>4, <1>5, <1>6, <1>7, <1>8,
       <1>9, <1>10, <1>11, <1>12, <1>13, <1>14, <1>15, <1>16
       DEF Next, Settle, Exit, DrainExit, ForceStop, Crash

\* The inductive invariant holds throughout, whatever the workers and the sweep
\* (worker.py, job_queue.py) do in whatever order.
THEOREM Invariance == Spec => []IInv
  BY InitIInv, NextIInv, PTL DEF Spec

\* Rows keep their columns' types and workers theirs (models.py Job, worker.py).
THEOREM TypeCorrect == Spec => []TypeOK
  BY Invariance, PTL DEF IInv

\* Two jobs for one piece of work are never pending or running together
\* (job_queue.py enqueue_in: the partial unique index on dedupe_key).
THEOREM Deduplication == Spec => []NoDuplicateLiveJobs
  BY Invariance, PTL DEF IInv

\* A claimed job is always accounted for: its worker is at work on it, or gone
\* (worker.py _run_job, _settle; job_queue.py claim).
THEOREM Accounting == Spec => []RunningRowHasItsWorker
  BY Invariance, PTL DEF IInv

\* No job is claimed more often than its budget, however its workers die
\* (job_queue.py claim, reschedule, reclaim_expired).
THEOREM Budget == Spec => []AttemptsWithinBudget
  BY Invariance, PTL DEF IInv

\* A worker drops a job as lost only when the queue has taken it away (worker.py
\* _heartbeat, job_queue.py heartbeat).
THEOREM LossIsReal == Spec => []LostMeansLost
  BY Invariance, PTL DEF IInv

\* A job recorded as succeeded has been run to the end (worker.py _settle).
THEOREM SuccessIsReal == Spec => []SucceededHasRun
  BY Invariance, PTL DEF IInv

-----------------------------------------------------------------------------
(* What a step may do to a row *)

\* Who may end a claim.
Settles(j) ==
  \/ lease[j] = 0
  \/ \E w \in Workers : /\ pc[w] \in Settling
                        /\ job[w] = j
                        /\ lockedBy[j] = w
                        /\ claimed[w] = attempts[j]

\* A step on the row's status, spelled out: which worker or sweep it is.
LEMMA RowStep ==
  ASSUME IInv, Next, NEW j \in JobIds, status'[j] # status[j]
  PROVE  \/ /\ status[j] = "absent" /\ status'[j] = "pending"
            /\ attempts'[j] = attempts[j]
         \/ /\ status[j] = "pending" /\ status'[j] = "running"
            /\ attempts'[j] = attempts[j] + 1
         \/ /\ status[j] = "running" /\ Settles(j)
            /\ attempts'[j] = attempts[j]
            /\ \/ status'[j] \in Finished
               \/ status'[j] = "pending" /\ attempts[j] < MaxAttempts[j]
  <1> USE Constants
      DEF IInv, TypeOK, Bookkeeping, Busy, Settling, Finished, Settles,
          OwnedBy, Close, Unlock, Reschedule, rows, procs
  <1>1. ASSUME NEW i \in JobIds, Enqueue(i)
        PROVE  status[j] = "absent" /\ status'[j] = "pending"
               /\ attempts'[j] = attempts[j]
    BY <1>1 DEF Enqueue
  <1>2. ASSUME NEW w \in Workers, NEW i \in JobIds, Claim(w, i)
        PROVE  status[j] = "pending" /\ status'[j] = "running"
               /\ attempts'[j] = attempts[j] + 1
    BY <1>2 DEF Claim, Ready
  <1> DEFINE Ended == /\ status[j] = "running" /\ Settles(j)
                      /\ attempts'[j] = attempts[j]
                      /\ \/ status'[j] \in Finished
                         \/ /\ status'[j] = "pending"
                            /\ attempts[j] < MaxAttempts[j]
  <1>3. ASSUME NEW w \in Workers, Reclaim(w)
        PROVE  Ended
    BY <1>3 DEF Reclaim, ReclaimExpired, Expired
  <1>4. ASSUME NEW w \in Workers, Settle(w)
        PROVE  Ended
    <2>1. CASE Complete(w)
      BY <2>1 DEF Complete
    <2>2. CASE CompleteRaises(w)
      BY <2>2 DEF CompleteRaises
    <2>3. CASE DeadLetter(w)
      BY <2>3 DEF DeadLetter
    <2>4. CASE RetryOrDeadLetter(w)
      BY <2>4 DEF RetryOrDeadLetter
    <2>5. QED
      BY <1>4, <2>1, <2>2, <2>3, <2>4 DEF Settle
  <1>5. ASSUME NEW w \in Workers,
               \/ Start(w) \/ Heartbeat(w) \/ HeartbeatDies(w)
               \/ HandlerReturns(w) \/ AbandonLost(w) \/ RequestStop(w)
               \/ Exit(w) \/ DrainExit(w) \/ ForceStop(w) \/ Crash(w)
        PROVE  FALSE
    BY <1>5 DEF Start, Heartbeat, HeartbeatDies, HandlerReturns, HandlerEnds,
       AbandonLost, RequestStop, Exit, DrainExit, ForceStop, Crash, Gone
  <1>6. CASE Tick
    BY <1>6 DEF Tick
  <1>7. QED
    BY <1>1, <1>2, <1>3, <1>4, <1>5, <1>6 DEF Next

\* The row leaves "running" by the claim it is running under or by the sweep
\* (job_queue.py _owned_by, _fenced_update).
THEOREM Fencing == Spec => OnlyTheClaimHolderSettles
  <1>1. IInv /\ [Next]_vars =>
          [\A j \in JobIds :
             status[j] = "running" /\ status'[j] # "running" =>
               \/ lease[j] = 0
               \/ \E w \in Workers : /\ pc[w] \in Settling
                                     /\ job[w] = j
                                     /\ lockedBy[j] = w
                                     /\ claimed[w] = attempts[j]]_vars
    BY RowStep DEF Settles
  <1>2. QED
    BY <1>1, Invariance, PTL DEF Spec, OnlyTheClaimHolderSettles

\* Nothing brings a finished job back or changes how it ended (job_queue.py: every
\* update asks for the status it starts from).
THEOREM Finality == Spec => FinishedIsFinal
  <1>1. IInv /\ [Next]_vars =>
          [\A j \in JobIds :
             status[j] \in Finished => status'[j] = status[j]]_vars
    BY RowStep DEF Finished
  <1>2. QED
    BY <1>1, Invariance, PTL DEF Spec, FinishedIsFinal

-----------------------------------------------------------------------------
(* JobQueue implements JobLifecycle *)

\* A step in which only rows of S change, each leaving "running" for an end or,
\* with budget left, for "pending", is a release of S.
LEMMA ReleaseStep ==
  ASSUME IInv, NEW S \in SUBSET JobIds,
         status' \in [JobIds -> Statuses], attempts' = attempts,
         \A j \in JobIds \ S : status'[j] = status[j],
         \A j \in S :
           /\ status[j] = "running"
           /\ \/ status'[j] \in Finished
              \/ status'[j] = "pending" /\ attempts[j] < MaxAttempts[j]
  PROVE  Lifecycle!Release(S)
  <1> DEFINE out == [j \in S |-> status'[j]]
  <1>1. out \in [S -> Lifecycle!Final \cup {"pending"}]
    BY DEF Lifecycle!Final, Finished
  <1>2. \A j \in S : status[j] = "running" /\ out[j] \in Lifecycle!Outcomes(j)
    BY DEF Lifecycle!Outcomes, Lifecycle!Final, Finished
  <1>3. status' = [j \in JobIds |-> IF j \in S THEN out[j] ELSE status[j]]
    OBVIOUS
  <1>4. QED
    BY <1>1, <1>2, <1>3 DEF Lifecycle!Release

\* Every step of the queue is a step of JobLifecycle or leaves it as it is.
LEMMA StepRefines ==
  IInv /\ [Next]_vars => [Lifecycle!Next]_(Lifecycle!vars)
  <1> SUFFICES ASSUME IInv, [Next]_vars
               PROVE  [Lifecycle!Next]_(Lifecycle!vars)
    OBVIOUS
  <1> USE DEF Lifecycle!Next, Lifecycle!vars
  <1>0. TypeOK /\ TypeOK' /\ IInv'
    BY NextIInv DEF IInv
  <1>1. ASSUME NEW j \in JobIds, Enqueue(j)
        PROVE  Lifecycle!Submit(j)
    BY <1>1 DEF Enqueue, Lifecycle!Submit
  <1>2. ASSUME NEW w \in Workers, NEW j \in JobIds, Claim(w, j)
        PROVE  Lifecycle!Take(j)
    BY <1>2 DEF Claim, Ready, Lifecycle!Take, IInv, AttemptsWithinBudget
  <1>3. ASSUME NEW w \in Workers, Reclaim(w) \/ Settle(w)
        PROVE  \/ \E S \in SUBSET JobIds : Lifecycle!Release(S)
               \/ UNCHANGED <<status, attempts>>
    <2> DEFINE S == {j \in JobIds : status'[j] # status[j]}
    <2>1. attempts' = attempts
      BY <1>3 DEF Reclaim, ReclaimExpired, Settle, Complete, CompleteRaises,
         DeadLetter, RetryOrDeadLetter, Close, Reschedule, rows
    <2>2. \A j \in S :
            /\ status[j] = "running"
            /\ \/ status'[j] \in Finished
               \/ status'[j] = "pending" /\ attempts[j] < MaxAttempts[j]
      <3>1. SUFFICES ASSUME NEW j \in S
                     PROVE  /\ status[j] = "running"
                            /\ \/ status'[j] \in Finished
                               \/ /\ status'[j] = "pending"
                                  /\ attempts[j] < MaxAttempts[j]
        OBVIOUS
      <3>2. Next
        BY <1>3 DEF Next
      <3>3. status[j] \notin {"absent", "pending"}
        BY <1>3 DEF Reclaim, ReclaimExpired, Expired, Settle, Complete,
           CompleteRaises, DeadLetter, RetryOrDeadLetter, Close, Reschedule,
           OwnedBy, rows, IInv, TypeOK, Bookkeeping, Busy, Settling
      <3>4. QED
        BY <3>2, <3>3, RowStep
    <2>3. Lifecycle!Release(S)
      BY <1>0, <2>1, <2>2, ReleaseStep DEF TypeOK
    <2>4. QED
      BY <2>3
  <1>4. ASSUME NEW w \in Workers,
               \/ Start(w) \/ Heartbeat(w) \/ HeartbeatDies(w)
               \/ HandlerReturns(w) \/ AbandonLost(w) \/ RequestStop(w)
               \/ Exit(w) \/ DrainExit(w) \/ ForceStop(w) \/ Crash(w)
        PROVE  UNCHANGED <<status, attempts>>
    BY <1>4 DEF Start, Heartbeat, HeartbeatDies, HandlerReturns, HandlerEnds,
       AbandonLost, RequestStop, Exit, DrainExit, ForceStop, Crash, Gone, rows
  <1>5. CASE Tick
    BY <1>5 DEF Tick
  <1>6. CASE UNCHANGED vars
    BY <1>6 DEF vars, rows
  <1>7. QED
    BY <1>1, <1>2, <1>3, <1>4, <1>5, <1>6 DEF Next

\* The queue, with its workers, leases and crashes (job_queue.py, worker.py), is a
\* JobLifecycle.
THEOREM Refinement == Spec => KeepsLifecycle
  <1>1. Init => Lifecycle!Init
    BY DEF Init, Lifecycle!Init
  <1>2. QED
    BY <1>1, StepRefines, Invariance, PTL
       DEF Spec, KeepsLifecycle, Lifecycle!Spec

-----------------------------------------------------------------------------
(* JobQueue implements JobHandout *)

\* A worker's name is in one running row at most: one that is polling again has
\* no row left, and one that is gone claims nothing.
OneRowEach ==
  \A i, j \in JobIds :
    status[i] = "running" /\ status[j] = "running" /\ lockedBy[i] = lockedBy[j] => i = j

HInv == IInv /\ OneRowEach

\* Work is the same for rows the index calls the same, and for no others.
LEMMA WorkIsShared ==
  ASSUME NEW i \in JobIds, NEW j \in JobIds
  PROVE  Work(i) = Work(j) <=> i = j \/ SameWork(i, j)
  <1>1. i \in Work(i)
    BY DEF Work
  <1>2. i \in Work(j) => i = j \/ SameWork(i, j)
    BY DEF Work, SameWork
  <1>3. SameWork(i, j) => Work(i) = Work(j)
    BY DEF Work, SameWork
  <1>4. QED
    BY <1>1, <1>2, <1>3

\* The rows of different live jobs are different work.
LEMMA LiveWork ==
  ASSUME IInv, NEW i \in JobIds, NEW j \in JobIds, Live(i), Live(j), Work(i) = Work(j)
  PROVE  i = j
  BY WorkIsShared DEF IInv, NoDuplicateLiveJobs

\* A worker that polls has no running row in its name.
LEMMA PollingOwnsNothing ==
  ASSUME IInv, NEW w \in Workers, pc[w] = "polling", NEW j \in JobIds
  PROVE  ~OwnedBy(j, w)
  BY Constants DEF IInv, Bookkeeping, Busy, Settling, RunningRowHasItsWorker, OwnedBy

\* The rows of S, all running, are finished or wait again, and the others stay
\* as they are.
Ends(S) ==
  /\ \A j \in S : status[j] = "running" /\ status'[j] \in Finished \cup {"pending"}
  /\ \A j \in JobIds \ S : status'[j] = status[j] /\ lockedBy'[j] = lockedBy[j]

\* That is a GiveUp of those whose names the rows of S carry.
LEMMA GiveUpStep ==
  ASSUME HInv, NEW S \in SUBSET JobIds, Ends(S)
  PROVE  \E W \in SUBSET Workers : Handout!GiveUp(W)
  <1> DEFINE W == {lockedBy[j] : j \in S}
  <1> USE DEF Ends
  <1>1. W \in SUBSET Workers
    BY DEF HInv, IInv, RunningRowHasItsWorker
  <1>2. Handout!Holding(W) = {Work(j) : j \in S}
    <2>1. ASSUME NEW j \in S
          PROVE  Work(j) \in Handout!Holding(W)
      <3>1. lockedBy[j] \in W /\ lockedBy[j] \in Workers /\ OwnedBy(j, lockedBy[j])
        BY <1>1 DEF OwnedBy
      <3>2. Work(j) \in Held[lockedBy[j]]
        BY <3>1 DEF Held
      <3>3. QED
        BY <3>1, <3>2 DEF Handout!Holding
    <2>2. ASSUME NEW x \in Handout!Holding(W)
          PROVE  x \in {Work(j) : j \in S}
      <3>1. PICK w \in W : x \in Held[w]
        BY DEF Handout!Holding
      <3>2. PICK i \in JobIds : OwnedBy(i, w) /\ x = Work(i)
        BY <1>1, <3>1 DEF Held
      <3>3. PICK j \in S : w = lockedBy[j]
        BY <3>1
      <3>4. i = j
        BY <3>2, <3>3 DEF HInv, OneRowEach, OwnedBy
      <3>5. QED
        BY <3>2, <3>4
    <2>3. QED
      BY <2>1, <2>2
  <1>3. Waiting \subseteq Waiting' /\ Waiting' \subseteq Waiting \cup Handout!Holding(W)
    <2>1. ASSUME NEW x \in Waiting'
          PROVE  x \in Waiting \cup {Work(j) : j \in S}
      <3>1. PICK j \in JobIds : status'[j] = "pending" /\ x = Work(j)
        BY DEF Waiting
      <3>2. CASE j \notin S
        BY <3>1, <3>2 DEF Waiting
      <3>3. CASE j \in S
        BY <3>1, <3>3
      <3>4. QED
        BY <3>2, <3>3
    <2>2. ASSUME NEW x \in Waiting
          PROVE  x \in Waiting'
      BY DEF Waiting
    <2>3. QED
      BY <1>2, <2>1, <2>2
  <1>4. Held' = [w \in Workers |-> IF w \in W THEN {} ELSE Held[w]]
    <2>1. ASSUME NEW w \in Workers, NEW j \in JobIds
          PROVE  OwnedBy(j, w)' <=> w \notin W /\ OwnedBy(j, w)
      <3>1. CASE j \in S
        BY <3>1 DEF OwnedBy, Finished
      <3>2. CASE j \notin S
        BY <3>2 DEF OwnedBy, HInv, OneRowEach
      <3>3. QED
        BY <3>1, <3>2
    <2>2. ASSUME NEW w \in Workers
          PROVE  Held'[w] = IF w \in W THEN {} ELSE Held[w]
      BY <2>1 DEF Held
    <2>3. QED
      BY <2>2 DEF Held
  <1>5. Handout!GiveUp(W)
    BY <1>3, <1>4 DEF Handout!GiveUp
  <1>6. QED
    BY <1>1, <1>5

\* A step that neither asks for a job nor claims one ends some rows, or none.
LEMMA OtherSteps ==
  ASSUME IInv, [Next]_vars
  PROVE  \/ \E j \in JobIds : Enqueue(j)
         \/ \E w \in Workers, j \in JobIds : Claim(w, j)
         \/ \E S \in SUBSET JobIds : Ends(S)
  <1>1. ASSUME UNCHANGED <<status, lockedBy>>
        PROVE  Ends({})
    BY <1>1 DEF Ends
  <1>2. ASSUME NEW w \in Workers, Reclaim(w)
        PROVE  \E S \in SUBSET JobIds : Ends(S)
    <2>1. PICK S \in SUBSET {j \in JobIds : Expired(j)} : ReclaimExpired(S)
      BY <1>2 DEF Reclaim
    <2>2. Ends(S)
      BY <2>1 DEF Ends, Expired, ReclaimExpired, Finished, IInv, TypeOK
    <2>3. QED
      BY <2>2
  <1>3. ASSUME NEW w \in Workers, NEW final \in Finished, pc[w] \in Settling,
               Close(job[w], w, final)
        PROVE  \E S \in SUBSET JobIds : Ends(S)
    <2>1. CASE OwnedBy(job[w], w)
      <3>1. job[w] \in JobIds
        BY <1>3 DEF IInv, Bookkeeping, Busy
      <3>2. Ends({job[w]})
        BY <1>3, <2>1, <3>1 DEF Close, Unlock, Ends, OwnedBy, IInv, TypeOK
      <3>3. QED
        BY <3>1, <3>2
    <2>2. CASE ~OwnedBy(job[w], w)
      BY <1>1, <1>3, <2>2 DEF Close, rows
    <2>3. QED
      BY <2>1, <2>2
  <1>4. ASSUME NEW w \in Workers, NEW delay, pc[w] \in Settling,
               Reschedule(job[w], w, delay)
        PROVE  \E S \in SUBSET JobIds : Ends(S)
    <2>1. CASE OwnedBy(job[w], w)
      <3>1. job[w] \in JobIds
        BY <1>4 DEF IInv, Bookkeeping, Busy
      <3>2. Ends({job[w]})
        BY <1>4, <2>1, <3>1 DEF Reschedule, Unlock, Ends, OwnedBy, IInv, TypeOK
      <3>3. QED
        BY <3>1, <3>2
    <2>2. CASE ~OwnedBy(job[w], w)
      BY <1>1, <1>4, <2>2 DEF Reschedule, rows
    <2>3. QED
      BY <2>1, <2>2
  <1>5. ASSUME NEW w \in Workers, Settle(w)
        PROVE  \E S \in SUBSET JobIds : Ends(S)
    <2>1. CASE Complete(w)
      BY <1>3, <2>1 DEF Complete, Finished, Settling
    <2>2. CASE CompleteRaises(w)
      BY <1>1, <1>3, <2>2 DEF CompleteRaises, Finished, Settling, rows
    <2>3. CASE DeadLetter(w)
      BY <1>3, <2>3 DEF DeadLetter, Finished, Settling
    <2>4. CASE RetryOrDeadLetter(w)
      BY <1>3, <1>4, <2>4 DEF RetryOrDeadLetter, Finished, Settling
    <2>5. QED
      BY <1>5, <2>1, <2>2, <2>3, <2>4 DEF Settle
  <1>6. ASSUME NEW w \in Workers,
               \/ Start(w) \/ Heartbeat(w) \/ HeartbeatDies(w)
               \/ HandlerReturns(w) \/ AbandonLost(w) \/ RequestStop(w)
               \/ Exit(w) \/ DrainExit(w) \/ ForceStop(w) \/ Crash(w)
        PROVE  UNCHANGED <<status, lockedBy>>
    BY <1>6 DEF Start, Heartbeat, HeartbeatDies, HandlerReturns, HandlerEnds,
       AbandonLost, RequestStop, Exit, DrainExit, ForceStop, Crash, Gone, rows
  <1>7. ASSUME Tick \/ UNCHANGED vars
        PROVE  UNCHANGED <<status, lockedBy>>
    BY <1>7 DEF Tick, vars, rows
  <1>8. QED
    BY <1>1, <1>2, <1>5, <1>6, <1>7 DEF Next

\* A claim finds its worker with no row, and gives it one.
LEMMA OneRowStep ==
  ASSUME HInv, [Next]_vars
  PROVE  OneRowEach'
  <1>1. ASSUME NEW j \in JobIds, Enqueue(j)
        PROVE  OneRowEach'
    BY <1>1 DEF Enqueue, HInv, OneRowEach, IInv, TypeOK
  <1>2. ASSUME NEW w \in Workers, NEW j \in JobIds, Claim(w, j)
        PROVE  OneRowEach'
    <2>1. \A i \in JobIds : ~OwnedBy(i, w)
      BY <1>2, PollingOwnsNothing DEF Claim, HInv
    <2>2. \A i \in JobIds :
            /\ status'[i] = IF i = j THEN "running" ELSE status[i]
            /\ lockedBy'[i] = IF i = j THEN w ELSE lockedBy[i]
      BY <1>2 DEF Claim, HInv, IInv, TypeOK
    <2>3. QED
      BY <2>1, <2>2 DEF HInv, OneRowEach, OwnedBy
  <1>3. ASSUME NEW S \in SUBSET JobIds, Ends(S)
        PROVE  OneRowEach'
    BY <1>3 DEF Ends, Finished, HInv, OneRowEach
  <1>4. QED
    BY <1>1, <1>2, <1>3, OtherSteps DEF HInv

\* Every step of the queue is a step of JobHandout or leaves it as it is.
LEMMA StepHandsOut ==
  ASSUME HInv, [Next]_vars
  PROVE  [Handout!Next]_(Handout!vars)
  <1>1. ASSUME NEW j \in JobIds, Enqueue(j)
        PROVE  Handout!Ask
    <2>1. \A i \in JobIds : status'[i] = IF i = j THEN "pending" ELSE status[i]
      BY <1>1 DEF Enqueue, HInv, IInv, TypeOK
    <2>2. \A i \in JobIds : Live(i) => Work(i) # Work(j)
      BY <1>1, WorkIsShared DEF Enqueue, Live
    <2>4. Work(j) \notin Handout!Holding(Workers)
      BY <2>2 DEF Handout!Holding, Held, OwnedBy, Live
    <2>5. Waiting' = Waiting \cup {Work(j)}
      <3>1. \A i \in JobIds : status'[i] = "pending" <=> status[i] = "pending" \/ i = j
        BY <2>1
      <3>2. QED
        BY <3>1 DEF Waiting
    <2>6. Held' = Held
      <3>1. \A w \in Workers, i \in JobIds : OwnedBy(i, w)' <=> OwnedBy(i, w)
        BY <1>1, <2>1 DEF Enqueue, OwnedBy
      <3>2. QED
        BY <3>1 DEF Held
    <2>7. QED
      BY <2>4, <2>5, <2>6 DEF Handout!Ask
  <1>2. ASSUME NEW w \in Workers, NEW j \in JobIds, Claim(w, j)
        PROVE  Handout!Claim(w, Work(j))
    <2>1. /\ status[j] = "pending"
          /\ \A i \in JobIds : ~OwnedBy(i, w)
      BY <1>2, PollingOwnsNothing DEF Claim, Ready, HInv
    <2>2. \A i \in JobIds :
            /\ status'[i] = IF i = j THEN "running" ELSE status[i]
            /\ lockedBy'[i] = IF i = j THEN w ELSE lockedBy[i]
      BY <1>2 DEF Claim, HInv, IInv, TypeOK
    <2>3. Work(j) \in Waiting /\ Held[w] = {}
      BY <2>1 DEF Waiting, Held
    <2>4. \A i \in JobIds : status[i] = "pending" /\ i # j => Work(i) # Work(j)
      BY <2>1, LiveWork DEF Live, HInv
    <2>5. Waiting' = Waiting \ {Work(j)}
      <3>1. \A i \in JobIds : status'[i] = "pending" <=> status[i] = "pending" /\ i # j
        BY <2>2
      <3>2. QED
        BY <2>4, <3>1 DEF Waiting
    <2>6. Held' = [Held EXCEPT ![w] = {Work(j)}]
      <3>1. \A v \in Workers, i \in JobIds :
              OwnedBy(i, v)' <=> IF v = w THEN i = j ELSE OwnedBy(i, v)
        BY <2>1, <2>2 DEF OwnedBy
      <3>2. \A v \in Workers : Held'[v] = IF v = w THEN {Work(j)} ELSE Held[v]
        BY <3>1 DEF Held
      <3>3. QED
        BY <3>2 DEF Held
    <2>7. QED
      BY <2>3, <2>5, <2>6 DEF Handout!Claim
  <1>3. ASSUME NEW S \in SUBSET JobIds, Ends(S)
        PROVE  Handout!Next
    BY <1>3, GiveUpStep DEF Handout!Next
  <1>4. QED
    BY <1>1, <1>2, <1>3, OtherSteps DEF Handout!Next, HInv

\* HInv holds throughout.
LEMMA OneRowAlways == Spec => []HInv
  <1>1. Init => OneRowEach
    BY DEF Init, OneRowEach
  <1>2. HInv /\ [Next]_vars => OneRowEach'
    BY OneRowStep
  <1>3. QED
    BY <1>1, <1>2, Invariance, PTL DEF Spec, HInv

\* Whatever the workers are and however they die, the queue hands work out as
\* the handlers take for granted (job_queue.py claim, enqueue_in, reclaim_expired).
THEOREM HandsOut == Spec => KeepsHandout
  <1>1. Init => Handout!Init
    BY DEF Init, Handout!Init, Waiting, Held, OwnedBy
  <1>2. HInv /\ [Next]_vars => [Handout!Next]_(Handout!vars)
    BY StepHandsOut
  <1>3. QED
    BY <1>1, <1>2, OneRowAlways, PTL DEF Spec, KeepsHandout, Handout!Spec

=============================================================================
