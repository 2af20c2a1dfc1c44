------------------------------ MODULE JobQueue ------------------------------
(***************************************************************************)
(* The durable job queue (adapters/db/job_queue.py, table `jobs`) and the  *)
(* worker processes that drain it (application/worker.py).                 *)
(*                                                                         *)
(* Every queue method is one committed statement, hence one action.  A     *)
(* worker keeps nothing of a job but the row it was handed at claim time:  *)
(* the job's id and the value `attempts` had then.  Workers are process    *)
(* identities, and default_worker_id never hands the same one out twice,   *)
(* so an identity that stops never comes back.                             *)
(*                                                                         *)
(* Time is kept as what is left of it: `lease` and `wait` hold the ticks   *)
(* until lease_expires_at and run_after, and 0 means "in the past".  Rows  *)
(* that are ready are ordered by priority only: two ready rows of one      *)
(* priority are claimed in either order.                                   *)
(***************************************************************************)
EXTENDS Integers, FiniteSets

CONSTANTS
  JobIds,        \* row ids: every enqueue that inserts uses a fresh one
  Workers,       \* process identities
  Types,         \* job types
  Keys,          \* dedupe keys, one per (user_id, dedupe_key)
  NoKey,         \* dedupe_key = None
  NoWorker,      \* locked_by = NULL
  NoJob,         \* the worker holds no job
  TypeOf,        \* the columns of a row that never change after the insert
  KeyOf,
  PriorityOf,
  MaxAttempts,
  Serves,        \* WorkerConfig.only: the types a worker claims
  Registered,    \* the types a worker's registry has a handler for
  Drains,        \* the workers started with drain=True
  Lease,         \* WorkerConfig.lease in ticks
  MaxBackoff,    \* bound: the longest backoff in ticks
  ReclaimLimit   \* WorkerConfig.reclaim_limit

ASSUME ColumnsAssumption ==
  /\ TypeOf \in [JobIds -> Types]
  /\ KeyOf \in [JobIds -> Keys \cup {NoKey}]
  /\ PriorityOf \in [JobIds -> Int]
  /\ MaxAttempts \in [JobIds -> Nat \ {0}]

ASSUME WorkersAssumption ==
  /\ Serves \in [Workers -> SUBSET Types]
  /\ Registered \in [Workers -> SUBSET Types]
  /\ Drains \subseteq Workers
  /\ NoWorker \notin Workers
  /\ NoJob \notin JobIds
  /\ NoKey \notin Keys

ASSUME BoundsAssumption ==
  /\ Lease \in Nat \ {0}
  /\ MaxBackoff \in Nat \ {0}
  /\ ReclaimLimit \in Nat \ {0}

VARIABLES
  \* the rows
  status,        \* "absent" until inserted, then JobStatus
  attempts,
  lockedBy,
  lease,
  wait,
  \* the processes
  pc,            \* where the worker is in run / _run_job / _settle
  job,           \* the row it was handed by claim
  claimed,       \* `attempts` in that row
  beating,       \* the heartbeat task is alive
  lost,          \* lease_lost is set
  stopping,      \* request_stop was called
  \* history
  ran            \* the job's handler has returned normally at least once

rows == <<status, attempts, lockedBy, lease, wait>>
procs == <<pc, job, claimed, beating, lost, stopping>>
vars == <<rows, procs, ran>>

Statuses == {"absent", "pending", "running", "succeeded", "failed"}
Finished == {"succeeded", "failed"}

\* A worker is handling while the handler task runs, and settling (the last
\* three) once it has ended, until the outcome is recorded.
Phases == {"offline", "polling", "handling", "ok", "transient", "permanent",
           "stopped"}
Settling == {"ok", "transient", "permanent"}

TypeOK ==
  /\ status \in [JobIds -> Statuses]
  /\ attempts \in [JobIds -> Nat]
  /\ lockedBy \in [JobIds -> Workers \cup {NoWorker}]
  /\ lease \in [JobIds -> 0..Lease]
  /\ wait \in [JobIds -> 0..MaxBackoff]
  /\ pc \in [Workers -> Phases]
  /\ job \in [Workers -> JobIds \cup {NoJob}]
  /\ claimed \in [Workers -> Nat]
  /\ beating \in [Workers -> BOOLEAN]
  /\ lost \in [Workers -> BOOLEAN]
  /\ stopping \in [Workers -> BOOLEAN]
  /\ ran \in [JobIds -> BOOLEAN]

Init ==
  /\ status = [j \in JobIds |-> "absent"]
  /\ attempts = [j \in JobIds |-> 0]
  /\ lockedBy = [j \in JobIds |-> NoWorker]
  /\ lease = [j \in JobIds |-> 0]
  /\ wait = [j \in JobIds |-> 0]
  /\ pc = [w \in Workers |-> "offline"]
  /\ job = [w \in Workers |-> NoJob]
  /\ claimed = [w \in Workers |-> 0]
  /\ beating = [w \in Workers |-> FALSE]
  /\ lost = [w \in Workers |-> FALSE]
  /\ stopping = [w \in Workers |-> FALSE]
  /\ ran = [j \in JobIds |-> FALSE]

-----------------------------------------------------------------------------
(* The queue *)

\* The predicate of the partial unique index.
Live(j) == status[j] \in {"pending", "running"}

SameWork(i, j) ==
  /\ KeyOf[i] # NoKey
  /\ KeyOf[i] = KeyOf[j]
  /\ TypeOf[i] = TypeOf[j]

\* Mutant: the partial unique index covers the pending rows only.
EnqueueMissesRunning(j) ==
  /\ status[j] = "absent"
  /\ \A i \in JobIds : status[i] = "pending" => ~SameWork(i, j)
  /\ status' = [status EXCEPT ![j] = "pending"]
  /\ UNCHANGED <<attempts, lockedBy, lease, wait, procs, ran>>

\* ON CONFLICT DO NOTHING: an enqueue that collides changes nothing, so only
\* the one that inserts is a step.
Enqueue(j) ==
  /\ status[j] = "absent"
  /\ \A i \in JobIds : Live(i) => ~SameWork(i, j)
  /\ status' = [status EXCEPT ![j] = "pending"]
  /\ UNCHANGED <<attempts, lockedBy, lease, wait, procs, ran>>

Ready(w, j) ==
  /\ status[j] = "pending"
  /\ wait[j] = 0
  /\ TypeOf[j] \in Serves[w]

\* Mutant: the fence forgets locked_by.
AnyoneOwns(j, w) == status[j] = "running"

\* The fencing predicate.  That the lease has run out is not part of it.
OwnedBy(j, w) ==
  /\ status[j] = "running"
  /\ lockedBy[j] = w

\* Mutant: the sweep compares with the wrong side of now.
NeverExpired(j) == status[j] = "running" /\ lease[j] < 0

Expired(j) == status[j] = "running" /\ lease[j] = 0

\* What every statement that ends a claim writes.
Unlock(j) ==
  /\ lockedBy' = [lockedBy EXCEPT ![j] = NoWorker]
  /\ lease' = [lease EXCEPT ![j] = 0]

\* complete and dead_letter: a fenced update to a final status.
Close(j, w, final) ==
  IF OwnedBy(j, w)
    THEN /\ status' = [status EXCEPT ![j] = final]
         /\ Unlock(j)
         /\ UNCHANGED <<attempts, wait>>
    ELSE UNCHANGED rows

Reschedule(j, w, delay) ==
  IF OwnedBy(j, w)
    THEN /\ status' = [status EXCEPT ![j] = "pending"]
         /\ wait' = [wait EXCEPT ![j] = delay]
         /\ Unlock(j)
         /\ UNCHANGED attempts
    ELSE UNCHANGED rows

\* Mutant: > for >= in the sweep's test of the budget.
ReclaimOnceMore(S) ==
  /\ status' = [j \in JobIds |->
                  IF j \notin S THEN status[j]
                  ELSE IF attempts[j] > MaxAttempts[j] THEN "failed"
                  ELSE "pending"]
  /\ lockedBy' = [j \in JobIds |-> IF j \in S THEN NoWorker ELSE lockedBy[j]]
  /\ lease' = [j \in JobIds |-> IF j \in S THEN 0 ELSE lease[j]]
  /\ UNCHANGED <<attempts, wait>>

ReclaimExpired(S) ==
  /\ status' = [j \in JobIds |->
                  IF j \notin S THEN status[j]
                  ELSE IF attempts[j] >= MaxAttempts[j] THEN "failed"
                  ELSE "pending"]
  /\ lockedBy' = [j \in JobIds |-> IF j \in S THEN NoWorker ELSE lockedBy[j]]
  /\ lease' = [j \in JobIds |-> IF j \in S THEN 0 ELSE lease[j]]
  /\ UNCHANGED <<attempts, wait>>

-----------------------------------------------------------------------------
(* The worker *)

\* _run_job has returned: its tasks are gone, and the loop looks at _stopping.
BackToLoop(w) ==
  /\ pc' = [pc EXCEPT ![w] = IF stopping[w] THEN "stopped" ELSE "polling"]
  /\ job' = [job EXCEPT ![w] = NoJob]
  /\ claimed' = [claimed EXCEPT ![w] = 0]
  /\ beating' = [beating EXCEPT ![w] = FALSE]
  /\ lost' = [lost EXCEPT ![w] = FALSE]
  /\ UNCHANGED stopping

\* The process is gone.  Nothing is written.
Gone(w) ==
  /\ pc' = [pc EXCEPT ![w] = "stopped"]
  /\ job' = [job EXCEPT ![w] = NoJob]
  /\ claimed' = [claimed EXCEPT ![w] = 0]
  /\ beating' = [beating EXCEPT ![w] = FALSE]
  /\ lost' = [lost EXCEPT ![w] = FALSE]
  /\ UNCHANGED <<stopping, rows, ran>>

Start(w) ==
  /\ pc[w] = "offline"
  /\ pc' = [pc EXCEPT ![w] = "polling"]
  /\ UNCHANGED <<rows, job, claimed, beating, lost, stopping, ran>>

\* Every worker's loop sweeps, once in reclaim_every_iterations.
Reclaim(w) ==
  /\ pc[w] = "polling"
  /\ \E S \in SUBSET {j \in JobIds : Expired(j)} :
       /\ S # {}
       /\ Cardinality(S) <= ReclaimLimit
       /\ ReclaimExpired(S)
  /\ UNCHANGED <<procs, ran>>

\* Mutant: the attempt is left to be counted by whoever records the failure.
ClaimUncounted(w, j) ==
  /\ pc[w] = "polling"
  /\ Ready(w, j)
  /\ \A i \in JobIds : Ready(w, i) => PriorityOf[i] <= PriorityOf[j]
  /\ status' = [status EXCEPT ![j] = "running"]
  /\ lockedBy' = [lockedBy EXCEPT ![j] = w]
  /\ lease' = [lease EXCEPT ![j] = Lease]
  /\ job' = [job EXCEPT ![w] = j]
  /\ claimed' = [claimed EXCEPT ![w] = attempts[j]]
  /\ pc' = [pc EXCEPT ![w] = "handling"]
  /\ beating' = [beating EXCEPT ![w] = TRUE]
  /\ UNCHANGED <<attempts, wait, lost, stopping, ran>>

\* A stop requested while the claim is in flight does not take it back: the
\* job is run, and the loop ends after it.
Claim(w, j) ==
  /\ pc[w] = "polling"
  /\ Ready(w, j)
  /\ \A i \in JobIds : Ready(w, i) => PriorityOf[i] <= PriorityOf[j]
  /\ status' = [status EXCEPT ![j] = "running"]
  /\ lockedBy' = [lockedBy EXCEPT ![j] = w]
  /\ lease' = [lease EXCEPT ![j] = Lease]
  /\ attempts' = [attempts EXCEPT ![j] = @ + 1]
  /\ job' = [job EXCEPT ![w] = j]
  /\ claimed' = [claimed EXCEPT ![w] = attempts[j] + 1]
  /\ IF TypeOf[j] \in Registered[w]
       THEN /\ pc' = [pc EXCEPT ![w] = "handling"]
            /\ beating' = [beating EXCEPT ![w] = TRUE]
       ELSE /\ pc' = [pc EXCEPT ![w] = "permanent"]
            /\ UNCHANGED beating
  /\ UNCHANGED <<wait, lost, stopping, ran>>

\* The heartbeat task runs until _run_job ends it, settling included, and
\* ends by itself when it finds the lease lost.
Heartbeat(w) ==
  /\ beating[w]
  /\ IF OwnedBy(job[w], w)
       THEN /\ lease' = [lease EXCEPT ![job[w]] = Lease]
            /\ UNCHANGED <<beating, lost>>
       ELSE /\ lost' = [lost EXCEPT ![w] = TRUE]
            /\ beating' = [beating EXCEPT ![w] = FALSE]
            /\ UNCHANGED lease
  /\ UNCHANGED <<status, attempts, lockedBy, wait, pc, job, claimed, stopping,
                 ran>>

\* An exception in the heartbeat task ends that task and nothing else.
HeartbeatDies(w) ==
  /\ beating[w]
  /\ beating' = [beating EXCEPT ![w] = FALSE]
  /\ UNCHANGED <<rows, pc, job, claimed, lost, stopping, ran>>

HandlerEnds(w, outcome) ==
  /\ pc[w] = "handling"
  /\ pc' = [pc EXCEPT ![w] = outcome]
  /\ ran' = IF outcome = "ok" THEN [ran EXCEPT ![job[w]] = TRUE] ELSE ran
  /\ UNCHANGED <<rows, job, claimed, beating, lost, stopping>>

\* The lease went while the handler ran: it is cancelled, nothing is written.
AbandonLost(w) ==
  /\ pc[w] = "handling"
  /\ lost[w]
  /\ BackToLoop(w)
  /\ UNCHANGED <<rows, ran>>

Complete(w) ==
  /\ pc[w] = "ok"
  /\ Close(job[w], w, "succeeded")
  /\ BackToLoop(w)
  /\ UNCHANGED ran

\* The statement raised.  _settle files the exception with the handler's own
\* unknown failures, whether or not the update had been committed by then.
CompleteRaises(w) ==
  /\ pc[w] = "ok"
  /\ \/ Close(job[w], w, "succeeded")
     \/ UNCHANGED rows
  /\ pc' = [pc EXCEPT ![w] = "transient"]
  /\ UNCHANGED <<job, claimed, beating, lost, stopping, ran>>

DeadLetter(w) ==
  /\ pc[w] = "permanent"
  /\ Close(job[w], w, "failed")
  /\ BackToLoop(w)
  /\ UNCHANGED ran

\* Mutant: an exhausted job is not dead-lettered, the worker just moves on.
RetryOrForget(w) ==
  /\ pc[w] = "transient"
  /\ IF claimed[w] >= MaxAttempts[job[w]]
       THEN UNCHANGED rows
       ELSE \E delay \in 1..MaxBackoff : Reschedule(job[w], w, delay)
  /\ BackToLoop(w)
  /\ UNCHANGED ran

\* attempts_exhausted looks at the row handed out by claim, not at the table.
RetryOrDeadLetter(w) ==
  /\ pc[w] = "transient"
  /\ IF claimed[w] >= MaxAttempts[job[w]]
       THEN Close(job[w], w, "failed")
       ELSE \E delay \in 1..MaxBackoff : Reschedule(job[w], w, delay)
  /\ BackToLoop(w)
  /\ UNCHANGED ran

\* Processes are replaced: one that is neither a drain nor on its way out is
\* always still to come or still there.
Replaced(w) ==
  \E v \in Workers \ (Drains \cup {w}) : pc[v] # "stopped" /\ ~stopping[v]

RequestStop(w) ==
  /\ pc[w] \notin {"offline", "stopped"}
  /\ ~stopping[w]
  /\ Replaced(w)
  /\ stopping' = [stopping EXCEPT ![w] = TRUE]
  /\ UNCHANGED <<rows, pc, job, claimed, beating, lost, ran>>

\* The loop sees _stopping between jobs.
Exit(w) ==
  /\ pc[w] = "polling"
  /\ stopping[w]
  /\ Gone(w)

\* Nothing claimable for idle_polls_before_drain_stop polls in a row.
DrainExit(w) ==
  /\ w \in Drains
  /\ pc[w] = "polling"
  /\ \A j \in JobIds : ~Ready(w, j)
  /\ Gone(w)

\* shutdown_timeout_seconds after the stop: the handler is cancelled, and the
\* cancellation takes the worker down without a word to the queue.
ForceStop(w) ==
  /\ pc[w] = "handling"
  /\ stopping[w]
  /\ Gone(w)

\* SIGKILL, or an exception no code of the loop catches.
Crash(w) ==
  /\ pc[w] \notin {"offline", "stopped"}
  /\ Replaced(w)
  /\ Gone(w)

\* Mutant: the time left of a lease is not cut off at zero.
TickBelowZero ==
  /\ \E j \in JobIds : status[j] = "running" \/ wait[j] > 0
  /\ lease' = [j \in JobIds |->
                 IF status[j] = "running" THEN lease[j] - 1 ELSE 0]
  /\ wait' = [j \in JobIds |-> IF wait[j] > 0 THEN wait[j] - 1 ELSE 0]
  /\ UNCHANGED <<status, attempts, lockedBy, procs, ran>>

Tick ==
  /\ \E j \in JobIds : lease[j] > 0 \/ wait[j] > 0
  /\ lease' = [j \in JobIds |-> IF lease[j] > 0 THEN lease[j] - 1 ELSE 0]
  /\ wait' = [j \in JobIds |-> IF wait[j] > 0 THEN wait[j] - 1 ELSE 0]
  /\ UNCHANGED <<status, attempts, lockedBy, procs, ran>>

Settle(w) == Complete(w) \/ CompleteRaises(w) \/ DeadLetter(w)
             \/ RetryOrDeadLetter(w)

HandlerReturns(w) ==
  \E outcome \in Settling : HandlerEnds(w, outcome)

Next ==
  \/ \E j \in JobIds : Enqueue(j)
  \/ \E w \in Workers :
       \/ Start(w)
       \/ Reclaim(w)
       \/ \E j \in JobIds : Claim(w, j)
       \/ Heartbeat(w)
       \/ HeartbeatDies(w)
       \/ HandlerReturns(w)
       \/ AbandonLost(w)
       \/ Settle(w)
       \/ RequestStop(w)
       \/ Exit(w)
       \/ DrainExit(w)
       \/ ForceStop(w)
       \/ Crash(w)
  \/ Tick

Spec == Init /\ [][Next]_vars

\* Time passes, processes are started and get the processor, and a handler
\* ends.  Neither an enqueue, a heartbeat nor any failure is owed.
Fairness ==
  /\ WF_vars(Tick)
  /\ \A w \in Workers :
       /\ WF_vars(Start(w))
       /\ WF_vars(Reclaim(w))
       /\ WF_vars(\E j \in JobIds : Claim(w, j))
       /\ WF_vars(HandlerReturns(w))
       /\ WF_vars(Settle(w))
       /\ WF_vars(Exit(w))

FairSpec == Spec /\ Fairness

-----------------------------------------------------------------------------
(* Properties *)

\* Two jobs for one piece of work are never pending or running together, also
\* not after a retry or a sweep has put an old one back (the partial unique
\* index ux_jobs_dedupe, job_queue.py enqueue_in).
NoDuplicateLiveJobs ==
  \A i, j \in JobIds : i # j /\ Live(i) /\ Live(j) => ~SameWork(i, j)

\* A job that is claimed is accounted for: the process its row names is still
\* at work on it, or is gone and the lease will tell (worker.py, first
\* invariant).  A worker that went on to other work while a row still carries
\* its name would let that row run out its lease for nothing.
RunningRowHasItsWorker ==
  \A j \in JobIds :
    status[j] = "running" =>
      /\ lockedBy[j] \in Workers
      /\ pc[lockedBy[j]] # "stopped" => job[lockedBy[j]] = j

\* Counting attempts at claim time bounds a job whatever kills it: nothing is
\* put back that has used up its budget, and no job is claimed more often
\* than max_attempts (job_queue.py claim, reclaim_expired).
AttemptsWithinBudget ==
  \A j \in JobIds :
    /\ attempts[j] <= MaxAttempts[j]
    /\ status[j] = "pending" => attempts[j] < MaxAttempts[j]

\* A job is only recorded as succeeded after its handler has returned.
SucceededHasRun == \A j \in JobIds : status[j] = "succeeded" => ran[j]

\* A worker knows its lease is lost only when it is: `lost` never drops a job
\* the queue still thinks this worker is running.
LostMeansLost == \A w \in Workers : lost[w] => ~OwnedBy(job[w], w)

\* The row leaves "running" by the hand of the claim it is running under, or
\* by the sweep once the lease is over.  A worker that lost the lease, even
\* one that lost it to a later claim of its own, moves nothing (the fence of
\* every mutating statement, job_queue.py _owned_by).
OnlyTheClaimHolderSettles ==
  [][\A j \in JobIds :
       status[j] = "running" /\ status'[j] # "running" =>
         \/ lease[j] = 0
         \/ \E w \in Workers : /\ pc[w] \in Settling
                               /\ job[w] = j
                               /\ lockedBy[j] = w
                               /\ claimed[w] = attempts[j]]_vars

\* What has succeeded or failed stays so, whoever still works on it.
FinishedIsFinal ==
  [][\A j \in JobIds : status[j] \in Finished => status'[j] = status[j]]_vars

\* The queue keeps the promise of JobLifecycle to those who enqueue: a try is
\* a claim, and it ends where a fenced write or the sweep ends it.
Lifecycle == INSTANCE JobLifecycle WITH
  Jobs <- JobIds, MaxTries <- MaxAttempts, state <- status, tries <- attempts

KeepsLifecycle == Lifecycle!Spec

KeepsLifecyclePromise == Lifecycle!LiveSpec

\* The rows that are one piece of work to the partial unique index.
Work(j) == {i \in JobIds : i = j \/ SameWork(i, j)}

Waiting == {Work(j) : j \in {i \in JobIds : status[i] = "pending"}}
Held == [w \in Workers |-> {Work(j) : j \in {i \in JobIds : OwnedBy(i, w)}}]

Handout == INSTANCE JobHandout WITH
  Jobs <- {Work(j) : j \in JobIds}, waiting <- Waiting, held <- Held

\* To the handlers the queue is the JobHandout that Pipeline and Events take for
\* granted, work being what the dedupe index calls the same: through crashes,
\* sweeps and late workers it waits once and is one worker's to settle
\* (job_queue.py claim, _owned_by, reclaim_expired).
KeepsHandout == Handout!Spec

\* Every job is settled in the end, however often its workers die: the budget
\* bounds the retries and the sweep finds the dead (worker.py, "there is no
\* fourth outcome").
EveryJobSettles ==
  \A j \in JobIds : status[j] = "pending" ~> status[j] \in Finished

=============================================================================
