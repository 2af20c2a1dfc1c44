----------------------------- MODULE EventsProofs -----------------------------
(***************************************************************************)
(* The safety of Events for any number of files, requests, handlers and    *)
(* workers.  The inductive invariant adds a budget for every moment (what  *)
(* is stored for it and what may still be), who runs which job, and what a *)
(* job can have been through: it is done only when its event is stamped,   *)
(* and a handler that does not raise loses an attempt to a kill only.      *)
(***************************************************************************)
EXTENDS Events, FiniteSetTheorems, TLAPS

\* Events that count against the allowance at t, and requests that have been counted
\* and may yet become such events.
Stored(t) == {i \in DOMAIN event : event[i].at <= t /\ event[i].at + Window > t}
Admitted(t) == {s \in Slots : /\ request[s].at = "storing"
                              /\ request[s].now <= t /\ request[s].now + Window > t}

Budgeted ==
    \A t \in 0 .. MaxTime :
        Cardinality(Stored(t)) + Cardinality(Admitted(t))
            <= Limit + Cardinality(Slots) - 1

\* A job in the queue has an attempt left.
QueuedHasTries ==
    \A i \in DOMAIN job, h \in Handlers :
        job[i][h].at = "queued" => job[i][h].tries < MaxAttempts

\* What a job can have been through.  Of a handler that does not raise every try that is
\* over was lost to a kill.
Accounted(j, h, processed) ==
    /\ j.at = "done" => processed
    /\ j.lost <= j.tries
    /\ j.at = "running" => j.lost < j.tries
    /\ h \notin Faulty => /\ j.at = "running" => j.tries = j.lost + 1
                          /\ j.at \in {"queued", "dead"} => j.tries = j.lost
                          /\ j.at = "dead" => j.lost = MaxAttempts

JobsAccounted ==
    \A i \in DOMAIN job, h \in Handlers :
        Accounted(job[i][h], h, event[i].processed)

MarkedIsProcessed ==
    \A w \in Workers : worker[w].at = "marked" => event[worker[w].of].processed

\* A worker that is not idle has a running job, and no other worker has it: what a
\* worker claims is queued, and a job stops running when its worker does.
WorkIsItsOwn ==
    \A w \in Workers : worker[w].at # "idle" =>
        /\ job[worker[w].of][worker[w].handler].at = "running"
        /\ \A v \in Workers : worker[v].at # "idle" /\ worker[v].of = worker[w].of
                              /\ worker[v].handler = worker[w].handler => v = w

Core ==
    /\ EventsTypeOK
    /\ Budgeted
    /\ QueuedHasTries
    /\ JobsAccounted
    /\ MarkedIsProcessed

IInv == Core /\ WorkIsItsOwn

-----------------------------------------------------------------------------
\* Requests beside one another are finitely many.
LEMMA SlotsFinite ==
    IsFiniteSet(Slots) /\ Cardinality(Slots) \in Nat
  BY EventsAssumption, FS_CardinalityType

\* What a moment's budget is made of is finite.
LEMMA BudgetFinite ==
  ASSUME EventsTypeOK, NEW t
  PROVE  /\ IsFiniteSet(Stored(t)) /\ Cardinality(Stored(t)) \in Nat
         /\ IsFiniteSet(Admitted(t)) /\ Cardinality(Admitted(t)) \in Nat
         /\ Cardinality(Admitted(t)) <= Cardinality(Slots)
  <1>1. DOMAIN event = 1 .. Len(event) /\ Len(event) \in Int
    BY DEF EventsTypeOK
  <1>2. IsFiniteSet(DOMAIN event)
    BY <1>1, FS_Interval
  <1>3. Stored(t) \in SUBSET DOMAIN event /\ Admitted(t) \in SUBSET Slots
    BY DEF Stored, Admitted
  <1>4. IsFiniteSet(Stored(t)) /\ IsFiniteSet(Admitted(t))
    BY <1>2, <1>3, SlotsFinite, FS_Subset
  <1>5. Cardinality(Admitted(t)) <= Cardinality(Slots)
    BY <1>3, SlotsFinite, FS_Subset
  <1>6. QED
    BY <1>4, <1>5, FS_CardinalityType

\* A step that stores nothing and admits nobody keeps every budget.
LEMMA BudgetKept ==
  ASSUME EventsTypeOK, Budgeted,
         NEW t \in 0 .. MaxTime,
         Stored(t)' \subseteq Stored(t), Admitted(t)' \subseteq Admitted(t)
  PROVE  Cardinality(Stored(t)') + Cardinality(Admitted(t)')
            <= Limit + Cardinality(Slots) - 1
  <1>1. Cardinality(Stored(t)') <= Cardinality(Stored(t))
        /\ Cardinality(Stored(t)') \in Nat
    BY BudgetFinite, FS_Subset, FS_CardinalityType
  <1>2. Cardinality(Admitted(t)') <= Cardinality(Admitted(t))
        /\ Cardinality(Admitted(t)') \in Nat
    BY BudgetFinite, FS_Subset, FS_CardinalityType
  <1>3. QED
    BY <1>1, <1>2, BudgetFinite, SlotsFinite, EventsAssumption DEF Budgeted

-----------------------------------------------------------------------------
\* A slot nobody's request is in.
LEMMA NoRequestType == NoRequest \in Requests /\ NoRequest.at # "storing"
  BY EventsAssumption DEF NoRequest, Requests, Keys

\* A worker that has no job.
LEMMA OffType == Off \in Tasks /\ Off.at = "idle"
  BY EventsAssumption DEF Off, Tasks

LEMMA InitIInv == Init => IInv
  <1> SUFFICES ASSUME Init PROVE IInv
    OBVIOUS
  <1> USE DEF Init
  <1>1. EventsTypeOK
    <2>1. 0 \in 0 .. MaxTime /\ 0 \in 0 .. MaxKills
      BY EventsAssumption
    <2>2. event \in Seq(Rows) /\ Len(event) = 0 /\ job \in Seq([Handlers -> Jobs])
          /\ Len(job) = 0 /\ Len(event) <= MaxEvents
      BY EventsAssumption
    <2>3. NoRequest \in Requests /\ Off \in Tasks /\ Off.at = "idle"
      BY NoRequestType, OffType
    <2>4. QED
      BY <2>1, <2>2, <2>3 DEF EventsTypeOK
  <1>2. Budgeted
    <2> SUFFICES ASSUME NEW t \in 0 .. MaxTime
                 PROVE  Cardinality(Stored(t)) + Cardinality(Admitted(t))
                            <= Limit + Cardinality(Slots) - 1
      BY DEF Budgeted
    <2>1. Stored(t) = {} /\ Admitted(t) = {}
      BY DEF Stored, Admitted, NoRequest
    <2>2. QED
      BY <2>1, FS_EmptySet, SlotsFinite, EventsAssumption
  <1>3. QueuedHasTries /\ JobsAccounted /\ MarkedIsProcessed /\ WorkIsItsOwn
    <2>1. DOMAIN job = {}
      OBVIOUS
    <2>2. \A w \in Workers : worker[w].at = "idle"
      BY DEF Off
    <2>3. QED
      BY <2>1, <2>2 DEF QueuedHasTries, JobsAccounted, MarkedIsProcessed, WorkIsItsOwn
  <1>4. QED
    BY <1>1, <1>2, <1>3 DEF IInv, Core

\* A step that leaves events, jobs and workers alone keeps what is said of them.
LEMMA WorkUntouched ==
  ASSUME Core, UNCHANGED <<event, job, worker>>
  PROVE  QueuedHasTries' /\ JobsAccounted' /\ MarkedIsProcessed'
  BY DEF Core, QueuedHasTries, JobsAccounted, Accounted, MarkedIsProcessed

\* A step of the clients' side that admits nobody.
LEMMA ClientSide ==
  ASSUME Core, UNCHANGED <<event, job, worker, kills>>,
         clock' \in 0 .. MaxTime,
         last' \in [Paths -> (0 .. MaxTime) \cup {None}],
         backoff' \in BOOLEAN,
         request' \in [Slots -> Requests],
         \A s \in Slots : request'[s].at = "storing" =>
            request[s].at = "storing" /\ request'[s].now = request[s].now
  PROVE  Core'
  <1>1. EventsTypeOK'
    BY DEF Core, EventsTypeOK
  <1>2. ASSUME NEW t \in 0 .. MaxTime
        PROVE  Stored(t)' \subseteq Stored(t) /\ Admitted(t)' \subseteq Admitted(t)
    BY DEF Stored, Admitted
  <1>3. Budgeted'
    BY <1>2, BudgetKept DEF Budgeted, Core
  <1>4. QED
    BY <1>1, <1>3, WorkUntouched DEF Core

LEMMA TickCore == ASSUME Core, Tick PROVE Core'
  <1>1. clock' \in 0 .. MaxTime
    BY EventsAssumption DEF Core, EventsTypeOK, Tick
  <1>2. QED
    BY <1>1, ClientSide DEF Tick, watcher, Core, EventsTypeOK

\* One request goes to r, which is not further on its way to the insert.
LEMMA RequestGoesCore ==
  ASSUME Core, NEW s \in Slots, NEW r \in Requests, RequestGoes(s, r),
         r.at = "storing" => request[s].at = "storing" /\ r.now = request[s].now,
         last' \in [Paths -> (0 .. MaxTime) \cup {None}],
         backoff' \in BOOLEAN, UNCHANGED <<event, job>>
  PROVE  Core'
  <1>1. request' \in [Slots -> Requests]
    BY DEF RequestGoes, Core, EventsTypeOK
  <1>2. \A d \in Slots : request'[d].at = "storing" =>
            request[d].at = "storing" /\ request'[d].now = request[d].now
    BY DEF RequestGoes, Core, EventsTypeOK
  <1>3. QED
    BY <1>1, <1>2, ClientSide DEF RequestGoes, Core, EventsTypeOK

LEMMA AsksCore ==
  ASSUME Core, NEW k \in Keys, NEW watched \in BOOLEAN, Asks(k, watched),
         last' \in [Paths -> (0 .. MaxTime) \cup {None}],
         backoff' = backoff, UNCHANGED <<event, job>>
  PROVE  Core'
  <1> DEFINE r == [at |-> "counting", key |-> k, now |-> clock, watched |-> watched]
  <1>1. r \in Requests /\ r.at # "storing"
    BY DEF Requests, Core, EventsTypeOK
  <1>2. PICK s \in Slots : RequestGoes(s, r)
    BY DEF Asks
  <1>3. backoff' \in BOOLEAN
    BY DEF Core, EventsTypeOK
  <1> HIDE DEF r
  <1>4. QED
    BY <1>1, <1>2, <1>3, RequestGoesCore

LEMMA HandleCore == ASSUME Core, NEW k \in Paths, Handle(k) PROVE Core'
  <1>1. Pruned \in [Paths -> (0 .. MaxTime) \cup {None}]
    BY DEF Pruned, Core, EventsTypeOK
  <1>2. CASE Pruned[k] # None
    BY <1>1, <1>2, ClientSide DEF Handle, Core, EventsTypeOK
  <1>3. CASE Pruned[k] = None
    <2>1. last' = [Pruned EXCEPT ![k] = clock] /\ Asks(k, TRUE)
          /\ UNCHANGED <<backoff, event, job>>
      BY <1>3 DEF Handle
    <2>2. last' \in [Paths -> (0 .. MaxTime) \cup {None}]
      BY <1>1, <2>1 DEF Core, EventsTypeOK
    <2>3. k \in Keys
      BY DEF Keys
    <2>4. QED
      BY <2>1, <2>2, <2>3, AsksCore
  <1>4. QED
    BY <1>2, <1>3

LEMMA AnsweredCore ==
  ASSUME Core, NEW s \in Slots, Answered(s) \/ Refused(s), UNCHANGED <<event, job>>
  PROVE  Core'
  <1>1. request[s].watched \in BOOLEAN
    BY DEF Core, EventsTypeOK, Requests
  <1>2. /\ RequestGoes(s, NoRequest) /\ last' = last
        /\ backoff' \in BOOLEAN
    BY <1>1 DEF Answered, Refused, watcher, Core, EventsTypeOK
  <1>3. last' \in [Paths -> (0 .. MaxTime) \cup {None}]
    BY <1>2 DEF Core, EventsTypeOK
  <1>4. QED
    BY <1>2, <1>3, NoRequestType, RequestGoesCore

LEMMA FailsCore == ASSUME Core, NEW s \in Slots, Fails(s) PROVE Core'
  BY AnsweredCore DEF Fails

LEMMA PostCore == ASSUME Core, NEW k \in OtherKeys, Post(k) PROVE Core'
  <1>1. k \in Keys /\ last \in [Paths -> (0 .. MaxTime) \cup {None}]
    BY DEF Keys, Core, EventsTypeOK
  <1>2. QED
    BY <1>1, AsksCore DEF Post, watcher

LEMMA WakeUpCore == ASSUME Core, WakeUp PROVE Core'
  BY ClientSide DEF WakeUp, Core, EventsTypeOK

\* The API goes on with a request whose client is gone.
LEMMA TimesOutCore == ASSUME Core, NEW s \in Slots, TimesOut(s) PROVE Core'
  <1> DEFINE r == [request[s] EXCEPT !.watched = FALSE]
  <1>1. request[s] \in Requests
    BY DEF Core, EventsTypeOK
  <1>2. r \in Requests /\ r.at = request[s].at /\ r.now = request[s].now
    BY <1>1 DEF Requests
  <1>3. RequestGoes(s, r) /\ last' = last /\ backoff' = TRUE /\ UNCHANGED <<event, job>>
    BY DEF TimesOut
  <1> HIDE DEF r
  <1>4. QED
    BY <1>2, <1>3, RequestGoesCore DEF Core, EventsTypeOK

\* What is stored for a moment counts for every request of an earlier moment of its window.
LEMMA CountedIsStored ==
  ASSUME EventsTypeOK, NEW n \in 0 .. MaxTime, NEW t \in 0 .. MaxTime,
         n <= t
  PROVE  /\ Stored(t) \subseteq Since(n)
         /\ IsFiniteSet(Since(n)) /\ Cardinality(Since(n)) \in Nat
         /\ Cardinality(Stored(t)) <= Cardinality(Since(n))
  <1>1. Stored(t) \subseteq Since(n)
    <2> SUFFICES ASSUME NEW i \in DOMAIN event, event[i].at + Window > t
                 PROVE  event[i].at + Window > n
      BY DEF Stored, Since
    <2>1. event[i] \in Rows
      BY DEF EventsTypeOK
    <2>2. QED
      BY <2>1, EventsAssumption DEF Rows
  <1>2. IsFiniteSet(Since(n))
    <2>1. DOMAIN event = 1 .. Len(event) /\ Len(event) \in Int
      BY DEF EventsTypeOK
    <2>2. IsFiniteSet(DOMAIN event)
      BY <2>1, FS_Interval
    <2>3. Since(n) \subseteq DOMAIN event
      BY DEF Since
    <2>4. QED
      BY <2>2, <2>3, FS_Subset
  <1>3. QED
    BY <1>1, <1>2, FS_Subset, FS_CardinalityType

LEMMA CountCore == ASSUME Core, NEW c \in Slots, Count(c) PROVE Core'
  <1>0. request[c] \in Requests /\ request[c].at = "counting"
    BY DEF Count, Core, EventsTypeOK
  <1>1. CASE Exceeded(Cardinality(Since(request[c].now)))
    BY <1>1, AnsweredCore DEF Count
  <1>2. CASE ~ Exceeded(Cardinality(Since(request[c].now)))
    <2> DEFINE n == request[c].now
               s == [request[c] EXCEPT !.at = "storing"]
    <2>1. request' = [request EXCEPT ![c] = s]
          /\ UNCHANGED <<clock, last, backoff, event, job, worker, kills>>
      BY <1>2 DEF Count, watcher, RequestGoes
    <2>2. s \in Requests /\ n \in 0 .. MaxTime /\ s.now = n
      BY <1>0 DEF Requests
    <2>3. EventsTypeOK'
      BY <2>1, <2>2 DEF Core, EventsTypeOK
    <2>4. ASSUME NEW t \in 0 .. MaxTime
          PROVE  Cardinality(Stored(t)') + Cardinality(Admitted(t)')
                     <= Limit + Cardinality(Slots) - 1
      <3>1. Stored(t)' = Stored(t)
        BY <2>1 DEF Stored
      <3>2. CASE n <= t /\ n + Window > t
        <4>1. Cardinality(Stored(t)) <= Cardinality(Since(n)) /\ Cardinality(Since(n)) \in Nat
          BY <3>2, <2>2, CountedIsStored DEF Core
        <4>2. Cardinality(Since(n)) <= Limit - 1
          BY <1>2, <4>1, EventsAssumption DEF Exceeded
        <4>3. Cardinality(Admitted(t)') <= Cardinality(Slots)
              /\ Cardinality(Admitted(t)') \in Nat
          <5>1. Admitted(t)' \in SUBSET Slots
            BY DEF Admitted
          <5>2. QED
            BY <5>1, SlotsFinite, FS_Subset, FS_CardinalityType
        <4>4. QED
          BY <3>1, <4>1, <4>2, <4>3, BudgetFinite, SlotsFinite, EventsAssumption DEF Core
      <3>3. CASE ~ (n <= t /\ n + Window > t)
        <4>1. Admitted(t)' \subseteq Admitted(t)
          BY <2>1, <2>2, <3>3 DEF Admitted, Core, EventsTypeOK
        <4>2. QED
          BY <3>1, <4>1, BudgetKept DEF Core
      <3>4. QED
        BY <3>2, <3>3
    <2>5. QED
      BY <2>1, <2>3, <2>4, WorkUntouched DEF Core, Budgeted
  <1>3. QED
    BY <1>1, <1>2

LEMMA StoreCore == ASSUME Core, NEW c \in Slots, StoreAndDispatch(c) PROVE Core'
  <1>0. request[c] \in Requests /\ request[c].at = "storing"
    BY DEF StoreAndDispatch, Core, EventsTypeOK
  <1>1. CASE Pending(request[c].key)
    <2> DEFINE s == [request[c] EXCEPT !.at = "colliding"]
    <2>1. s \in Requests /\ s.at # "storing"
      BY <1>0 DEF Requests
    <2>2. QED
      BY <1>1, <2>1, RequestGoesCore DEF StoreAndDispatch, watcher, Core, EventsTypeOK
  <1>2. CASE ~ Pending(request[c].key)
    <2> DEFINE row == [key |-> request[c].key, at |-> request[c].now, processed |-> FALSE]
               jobs == [h \in Handlers |-> Queued]
               new == Len(event) + 1
    <2>1. /\ Len(event) < MaxEvents
          /\ event' = Append(event, row) /\ job' = Append(job, jobs)
          /\ request' = [request EXCEPT ![c] = NoRequest]
          /\ UNCHANGED <<clock, last, backoff, worker, kills>>
      BY <1>2 DEF StoreAndDispatch, Answered, watcher, RequestGoes
    <2>2. row \in Rows
      BY <1>0 DEF Requests, Rows
    <2>3. jobs \in [Handlers -> Jobs]
      BY EventsAssumption DEF Queued, Jobs
    <2>4. /\ event' \in Seq(Rows) /\ Len(event') = new
          /\ job' \in Seq([Handlers -> Jobs]) /\ Len(job') = new
          /\ event'[new] = row /\ job'[new] = jobs
          /\ \A i \in DOMAIN event : event'[i] = event[i]
          /\ \A i \in DOMAIN job : job'[i] = job[i]
          /\ DOMAIN event = 1 .. Len(event) /\ DOMAIN job = 1 .. Len(event)
          /\ DOMAIN event' = DOMAIN event \cup {new} /\ DOMAIN job' = DOMAIN job \cup {new}
          /\ new \notin DOMAIN event
      BY <2>1, <2>2, <2>3 DEF Core, EventsTypeOK
    <2>5. EventsTypeOK'
      <3>1. request' \in [Slots -> Requests]
        BY <2>1, NoRequestType DEF Core, EventsTypeOK
      <3>2. new \in Nat /\ new <= MaxEvents
        BY <2>1, EventsAssumption DEF Core, EventsTypeOK
      <3>3. QED
        BY <2>1, <2>4, <3>1, <3>2 DEF Core, EventsTypeOK
    <2>6. Budgeted'
      <3> SUFFICES ASSUME NEW t \in 0 .. MaxTime
                   PROVE  Cardinality(Stored(t)') + Cardinality(Admitted(t)')
                              <= Limit + Cardinality(Slots) - 1
        BY DEF Budgeted
      <3>1. Admitted(t)' \subseteq Admitted(t)
        BY <2>1, NoRequestType DEF Admitted, Core, EventsTypeOK
      <3>2. CASE request[c].now <= t /\ request[c].now + Window > t
        <4>1. Stored(t)' = Stored(t) \cup {new} /\ new \notin Stored(t)
          BY <2>4, <3>2 DEF Stored
        <4>2. Admitted(t)' = Admitted(t) \ {c} /\ c \in Admitted(t)
          BY <1>0, <2>1, <3>2, NoRequestType DEF Admitted, Core, EventsTypeOK
        <4>3. Cardinality(Stored(t)') = Cardinality(Stored(t)) + 1
          BY <4>1, BudgetFinite, FS_AddElement DEF Core
        <4>4. Cardinality(Admitted(t)') = Cardinality(Admitted(t)) - 1
          BY <4>2, BudgetFinite, FS_RemoveElement DEF Core
        <4>5. QED
          BY <4>3, <4>4, BudgetFinite, SlotsFinite, EventsAssumption DEF Core, Budgeted
      <3>3. CASE ~ (request[c].now <= t /\ request[c].now + Window > t)
        <4>1. Stored(t)' \subseteq Stored(t)
          BY <2>4, <3>3 DEF Stored
        <4>2. QED
          BY <3>1, <4>1, BudgetKept DEF Core
      <3>4. QED
        BY <3>2, <3>3
    <2>7. QueuedHasTries'
      BY <2>1, <2>3, <2>4, EventsAssumption DEF Core, QueuedHasTries, Queued
    <2>8. JobsAccounted'
      <3> SUFFICES ASSUME NEW i \in DOMAIN job', NEW h \in Handlers
                   PROVE  Accounted(job'[i][h], h, event'[i].processed)
        BY DEF JobsAccounted
      <3>1. CASE i = new
        BY <2>1, <2>4, <3>1 DEF Accounted, Queued, Core, EventsTypeOK
      <3>2. CASE i \in DOMAIN job
        BY <2>1, <2>4, <3>2 DEF JobsAccounted, Accounted, Core
      <3>3. QED
        BY <2>4, <3>1, <3>2
    <2>9. MarkedIsProcessed'
      BY <2>1, <2>4 DEF Core, EventsTypeOK, MarkedIsProcessed
    <2>10. QED
      BY <2>5, <2>6, <2>7, <2>8, <2>9 DEF Core
  <1>3. QED
    BY <1>1, <1>2

LEMMA LookUpCore == ASSUME Core, NEW s \in Slots, LookUp(s) PROVE Core'
  BY AnsweredCore DEF LookUp

-----------------------------------------------------------------------------
\* A step that leaves requests and the rows' times alone keeps the budgets.
LEMMA BudgetUntouched ==
  ASSUME Core, UNCHANGED request, DOMAIN event' = DOMAIN event,
         \A i \in DOMAIN event : event'[i].at = event[i].at
  PROVE  Budgeted'
  <1>1. ASSUME NEW t \in 0 .. MaxTime
        PROVE  Stored(t)' \subseteq Stored(t) /\ Admitted(t)' \subseteq Admitted(t)
    BY DEF Stored, Admitted
  <1>2. QED
    BY <1>1, BudgetKept DEF Budgeted, Core

\* A worker's step that writes one job and no event.
LEMMA JobStep ==
  ASSUME Core,
         NEW w \in Workers, NEW s \in Tasks,
         worker' = [worker EXCEPT ![w] = s],
         s.at # "idle" => s.of \in DOMAIN job /\ s.handler \in Handlers,
         s.at # "marked",
         NEW i \in DOMAIN job, NEW h \in Handlers, NEW j \in Jobs,
         job' = [job EXCEPT ![i][h] = j],
         j.at = "queued" => j.tries < MaxAttempts,
         kills' \in 0 .. MaxKills,
         Accounted(j, h, event[i].processed),
         UNCHANGED <<clock, watcher, request, event>>
  PROVE  Core'
  <1>1. /\ job' \in Seq([Handlers -> Jobs]) /\ DOMAIN job' = DOMAIN job
        /\ Len(job') = Len(job)
        /\ \A n \in DOMAIN job, g \in Handlers :
              job'[n][g] = IF n = i /\ g = h THEN j ELSE job[n][g]
    BY DEF Core, EventsTypeOK
  <1>2. EventsTypeOK'
    BY <1>1 DEF Core, EventsTypeOK, watcher
  <1>3. Budgeted'
    BY BudgetUntouched
  <1>4. QueuedHasTries'
    BY <1>1 DEF Core, QueuedHasTries
  <1>5. JobsAccounted'
    BY <1>1 DEF Core, JobsAccounted
  <1>6. MarkedIsProcessed'
    BY DEF Core, EventsTypeOK, MarkedIsProcessed
  <1>7. QED
    BY <1>2, <1>3, <1>4, <1>5, <1>6 DEF Core

\* A claim counts an attempt.
LEMMA ClaimedType ==
  ASSUME NEW j \in Jobs, j.tries < MaxAttempts
  PROVE  /\ Claimed(j) \in Jobs /\ Claimed(j).at = "running"
         /\ Claimed(j).tries = j.tries + 1 /\ Claimed(j).lost = j.lost
  <1>1. j.tries + 1 \in 0 .. MaxAttempts
    BY EventsAssumption DEF Jobs
  <1>2. QED
    BY <1>1 DEF Claimed, Jobs

\* One job goes to j: the same function, written with what is now in its place.
LEMMA JobGoes ==
  ASSUME EventsTypeOK, NEW i \in DOMAIN job, NEW h \in Handlers, NEW j
  PROVE  /\ j = Claimed(job[i][h]) =>
              [job EXCEPT ![i][h] = Claimed(@)] = [job EXCEPT ![i][h] = j]
         /\ j = Lost(job[i][h]) =>
              [job EXCEPT ![i][h] = Lost(@)] = [job EXCEPT ![i][h] = j]
  OBVIOUS

LEMMA ClaimCore ==
  ASSUME Core, NEW w \in Workers, NEW i \in DOMAIN event, NEW h \in Handlers,
         Claim(w, i, h)
  PROVE  Core'
  <1> DEFINE s == [at |-> "handling", of |-> i, handler |-> h]
             j == Claimed(job[i][h])
  <1>1. i \in DOMAIN job /\ i \in 0 .. MaxEvents /\ job[i][h] \in Jobs
    BY EventsAssumption DEF Core, EventsTypeOK
  <1>2. s \in Tasks
    BY <1>1 DEF Tasks
  <1>3. job[i][h].tries < MaxAttempts /\ job[i][h].at = "queued"
    BY <1>1 DEF Claim, Core, QueuedHasTries
  <1>4. /\ j \in Jobs /\ j.at = "running" /\ j.tries = job[i][h].tries + 1
        /\ j.lost = job[i][h].lost
    BY <1>1, <1>3, ClaimedType
  <1>5. Accounted(j, h, event[i].processed)
    <2>1. Accounted(job[i][h], h, event[i].processed)
      BY <1>1 DEF Core, JobsAccounted
    <2>2. job[i][h].tries \in Nat /\ job[i][h].lost \in Nat
      BY <1>1 DEF Jobs
    <2> HIDE DEF j
    <2>3. QED
      BY <1>3, <1>4, <2>1, <2>2 DEF Accounted
  <1>6. job' = [job EXCEPT ![i][h] = j] /\ worker' = [worker EXCEPT ![w] = s]
        /\ UNCHANGED <<clock, watcher, request, event, kills>>
    BY <1>1, JobGoes DEF Claim, Goes, Core
  <1>7. kills' \in 0 .. MaxKills
    BY <1>6 DEF Core, EventsTypeOK
  <1> HIDE DEF j
  <1>8. QED
    BY <1>1, <1>2, <1>4, <1>5, <1>6, <1>7, JobStep

LEMMA HandlerReturnsCore ==
  ASSUME Core, NEW w \in Workers, HandlerReturns(w) PROVE Core'
  <1> DEFINE s == [worker[w] EXCEPT !.at = "handled"]
  <1>0. worker[w] \in Tasks
    BY DEF Core, EventsTypeOK
  <1>1. s \in Tasks /\ s.at = "handled" /\ s.of = worker[w].of
        /\ s.handler = worker[w].handler
    BY <1>0 DEF Tasks
  <1>2. worker' = [worker EXCEPT ![w] = s] /\ worker[w].at = "handling"
        /\ UNCHANGED <<clock, watcher, request, event, job, kills>>
    BY DEF HandlerReturns, Goes
  <1>3. EventsTypeOK'
    BY <1>1, <1>2 DEF Core, EventsTypeOK, watcher
  <1>4. Budgeted' /\ QueuedHasTries' /\ JobsAccounted'
    BY <1>2, BudgetUntouched DEF Core, QueuedHasTries, JobsAccounted, Accounted
  <1>5. MarkedIsProcessed'
    BY <1>1, <1>2 DEF Core, EventsTypeOK, MarkedIsProcessed
  <1>6. QED
    BY <1>3, <1>4, <1>5 DEF Core

\* What a worker that is not idle has in its hands.
LEMMA InHand ==
  ASSUME Core, NEW w \in Workers, worker[w].at # "idle"
  PROVE  /\ worker[w].of \in DOMAIN job /\ worker[w].of \in DOMAIN event
         /\ worker[w].handler \in Handlers
         /\ job[worker[w].of][worker[w].handler] \in Jobs
         /\ Accounted(job[worker[w].of][worker[w].handler], worker[w].handler,
                      event[worker[w].of].processed)
  <1>1. /\ worker[w].of \in DOMAIN job /\ worker[w].handler \in Handlers
        /\ DOMAIN event = DOMAIN job
    BY DEF Core, EventsTypeOK
  <1>2. job[worker[w].of][worker[w].handler] \in Jobs
    BY <1>1 DEF Core, EventsTypeOK
  <1>3. QED
    BY <1>1, <1>2 DEF Core, JobsAccounted

\* A job given back is in the queue with an attempt left, or dead.
LEMMA GivenBackType ==
  ASSUME NEW j \in Jobs
  PROVE  /\ GivenBack(j) \in Jobs /\ GivenBack(j).tries = j.tries
         /\ GivenBack(j).lost = j.lost
         /\ GivenBack(j).at = IF j.tries < MaxAttempts THEN "queued" ELSE "dead"
  BY DEF GivenBack, Jobs

\* A job whose worker has been killed has lost one more attempt.
LEMMA LostType ==
  ASSUME NEW j \in Jobs, j.lost < j.tries
  PROVE  /\ Lost(j) \in Jobs /\ Lost(j).tries = j.tries /\ Lost(j).lost = j.lost + 1
         /\ Lost(j).at = IF j.tries < MaxAttempts THEN "queued" ELSE "dead"
  <1>1. GivenBack(j) \in Jobs /\ GivenBack(j).lost = j.lost
    BY GivenBackType
  <1>2. j.lost + 1 \in 0 .. MaxAttempts
    BY EventsAssumption DEF Jobs
  <1>3. QED
    BY <1>1, <1>2, GivenBackType DEF Lost, Jobs

\* How a handler that raises leaves its job.
LEMMA RaisedType ==
  ASSUME NEW j \in Jobs, NEW e \in {GivenBack(j), [j EXCEPT !.at = "dead"]}
  PROVE  /\ e \in Jobs /\ e.tries = j.tries /\ e.lost = j.lost
         /\ e.at \in {"queued", "dead"}
         /\ e.at = "queued" => e.tries < MaxAttempts
  <1>1. CASE e = GivenBack(j)
    BY <1>1, GivenBackType
  <1>2. CASE e = [j EXCEPT !.at = "dead"]
    BY <1>2 DEF Jobs
  <1>3. QED
    BY <1>1, <1>2

LEMMA HandlerRaisesCore ==
  ASSUME Core, NEW w \in Workers, HandlerRaises(w) PROVE Core'
  <1> DEFINE i == worker[w].of
             h == worker[w].handler
  <1>1. /\ i \in DOMAIN job /\ h \in Handlers /\ job[i][h] \in Jobs /\ h \in Faulty
        /\ Accounted(job[i][h], h, event[i].processed)
    BY InHand DEF HandlerRaises
  <1>2. PICK e \in {GivenBack(job[i][h]), [job[i][h] EXCEPT !.at = "dead"]} :
          job' = [job EXCEPT ![i][h] = e]
    BY DEF HandlerRaises
  <1>3. /\ worker' = [worker EXCEPT ![w] = Off]
        /\ UNCHANGED <<clock, watcher, request, event, kills>>
    BY DEF HandlerRaises, Goes, watcher
  <1>4. kills' \in 0 .. MaxKills
    BY <1>3 DEF Core, EventsTypeOK
  <1>5. /\ e \in Jobs /\ e.at \in {"queued", "dead"}
        /\ e.at = "queued" => e.tries < MaxAttempts
        /\ e.tries = job[i][h].tries /\ e.lost = job[i][h].lost
    BY <1>1, RaisedType
  <1>6. Accounted(e, h, event[i].processed)
    BY <1>1, <1>5 DEF Accounted
  <1>7. QED
    BY <1>1, <1>2, <1>3, <1>4, <1>5, <1>6, OffType, JobStep

\* A kill costs an attempt, and nothing else of a handler that does not raise does.
LEMMA KillCore ==
  ASSUME IInv, NEW w \in Workers, Kill(w) PROVE Core'
  <1> USE DEF IInv
  <1> DEFINE i == worker[w].of
             h == worker[w].handler
             j == job[i][h]
  <1>1. /\ i \in DOMAIN job /\ h \in Handlers /\ j \in Jobs
        /\ Accounted(j, h, event[i].processed)
    BY InHand DEF Kill
  <1>2. j.at = "running" /\ j.lost < j.tries
    BY <1>1 DEF Kill, WorkIsItsOwn, Accounted
  <1>3. /\ job' = [job EXCEPT ![i][h] = Lost(j)]
        /\ worker' = [worker EXCEPT ![w] = Off]
        /\ kills < MaxKills /\ kills' = kills + 1
        /\ UNCHANGED <<clock, watcher, request, event>>
    BY <1>1, JobGoes DEF Kill, Goes, Core
  <1>4. kills' \in 0 .. MaxKills
    BY <1>3, EventsAssumption DEF Core, EventsTypeOK
  <1>5. /\ Lost(j) \in Jobs /\ Lost(j).tries = j.tries /\ Lost(j).lost = j.lost + 1
        /\ Lost(j).at = IF j.tries < MaxAttempts THEN "queued" ELSE "dead"
    BY <1>1, <1>2, LostType
  <1>6. j.tries \in 0 .. MaxAttempts /\ j.lost \in Nat
    BY <1>1 DEF Jobs
  <1> HIDE DEF i, h, j
  <1>7. Accounted(Lost(j), h, event[i].processed)
    <2>1. CASE j.tries < MaxAttempts
      BY <1>1, <1>2, <1>5, <1>6, <2>1 DEF Accounted
    <2>2. CASE ~ (j.tries < MaxAttempts)
      <3>1. j.tries = MaxAttempts /\ Lost(j).at = "dead"
        BY <1>5, <1>6, <2>2, EventsAssumption
      <3>2. QED
        BY <1>1, <1>2, <1>5, <1>6, <3>1 DEF Accounted
    <2>3. QED
      BY <2>1, <2>2
  <1>8. Lost(j).at = "queued" => Lost(j).tries < MaxAttempts
    BY <1>5
  <1>9. QED
    BY <1>1, <1>3, <1>4, <1>5, <1>7, <1>8, OffType, JobStep

LEMMA SettleCore == ASSUME Core, NEW w \in Workers, Settle(w) PROVE Core'
  <1> DEFINE i == worker[w].of
             h == worker[w].handler
             j == [job[i][h] EXCEPT !.at = "done"]
  <1>1. /\ i \in DOMAIN job /\ h \in Handlers /\ job[i][h] \in Jobs
        /\ Accounted(job[i][h], h, event[i].processed)
    BY InHand DEF Settle
  <1>2. j \in Jobs /\ j.at = "done" /\ j.tries = job[i][h].tries /\ j.lost = job[i][h].lost
    BY <1>1 DEF Jobs
  <1>3. job' = [job EXCEPT ![i][h] = j]
        /\ worker' = [worker EXCEPT ![w] = Off]
        /\ UNCHANGED <<clock, watcher, request, event, kills>>
    BY <1>1 DEF Settle, Goes, watcher, Core, EventsTypeOK
  <1>4. event[i].processed
    BY DEF Settle, Core, MarkedIsProcessed
  <1>5. kills' \in 0 .. MaxKills
    BY <1>3 DEF Core, EventsTypeOK
  <1>6. Accounted(j, h, event[i].processed)
    BY <1>1, <1>2, <1>4 DEF Accounted
  <1> HIDE DEF j
  <1>7. QED
    BY <1>1, <1>2, <1>3, <1>5, <1>6, OffType, JobStep

LEMMA MarkProcessedCore ==
  ASSUME Core, NEW w \in Workers, MarkProcessed(w) PROVE Core'
  <1> DEFINE i == worker[w].of
             row == [event[i] EXCEPT !.processed = TRUE]
             s == [worker[w] EXCEPT !.at = "marked"]
  <1>1. i \in DOMAIN event /\ event[i] \in Rows /\ worker[w] \in Tasks
    BY InHand DEF MarkProcessed, Core, EventsTypeOK
  <1>2. row \in Rows /\ row.processed /\ row.at = event[i].at
    BY <1>1 DEF Rows
  <1>3. s \in Tasks /\ s.at = "marked" /\ s.of = i /\ s.handler = worker[w].handler
    BY <1>1 DEF Tasks
  <1>4. event' = [event EXCEPT ![i] = row] /\ worker' = [worker EXCEPT ![w] = s]
        /\ worker[w].at = "handled"
        /\ UNCHANGED <<clock, watcher, request, job, kills>>
    BY <1>1 DEF MarkProcessed, Goes, Core, EventsTypeOK
  <1>5. /\ event' \in Seq(Rows) /\ Len(event') = Len(event) /\ DOMAIN event' = DOMAIN event
        /\ \A n \in DOMAIN event : event'[n] = IF n = i THEN row ELSE event[n]
    BY <1>2, <1>4 DEF Core, EventsTypeOK
  <1>6. EventsTypeOK'
    BY <1>3, <1>4, <1>5 DEF Core, EventsTypeOK, watcher
  <1>7. Budgeted'
    BY <1>2, <1>4, <1>5, BudgetUntouched
  <1>8. QueuedHasTries'
    BY <1>4 DEF Core, QueuedHasTries
  <1>9. JobsAccounted'
    <2> SUFFICES ASSUME NEW n \in DOMAIN job, NEW h \in Handlers
                 PROVE  Accounted(job[n][h], h, event'[n].processed)
      BY <1>4 DEF JobsAccounted
    <2>1. Accounted(job[n][h], h, event[n].processed) /\ n \in DOMAIN event
      BY DEF Core, JobsAccounted, EventsTypeOK
    <2>2. event[n].processed => event'[n].processed
      BY <1>2, <1>5, <2>1
    <2>3. QED
      BY <2>1, <2>2 DEF Accounted
  <1>10. MarkedIsProcessed'
    <2> SUFFICES ASSUME NEW v \in Workers, worker'[v].at = "marked"
                 PROVE  event'[worker'[v].of].processed
      BY DEF MarkedIsProcessed
    <2>1. CASE v = w
      BY <1>1, <1>2, <1>3, <1>4, <1>5, <2>1 DEF Core, EventsTypeOK
    <2>2. CASE v # w
      <3>1. worker'[v] = worker[v]
        BY <1>4, <2>2 DEF Core, EventsTypeOK
      <3>2. event[worker[v].of].processed /\ worker[v].of \in DOMAIN event
        BY <3>1, InHand DEF Core, MarkedIsProcessed
      <3>3. QED
        BY <1>2, <1>5, <3>1, <3>2
    <2>3. QED
      BY <2>1, <2>2
  <1>11. QED
    BY <1>6, <1>7, <1>8, <1>9, <1>10 DEF Core

-----------------------------------------------------------------------------
(* Who runs which job.                                                     *)

\* A worker goes to s, and one job of one event to j.
Changes(w, i, h, j, s) ==
    /\ i \in DOMAIN job /\ h \in Handlers /\ s \in Tasks
    /\ job' = [job EXCEPT ![i][h] = j]
    /\ worker' = [worker EXCEPT ![w] = s]

\* What a worker gives back or settles is no longer running.
Ends(w) ==
    \E j : /\ worker[w].at # "idle" /\ j.at # "running"
           /\ Changes(w, worker[w].of, worker[w].handler, j, Off)

LEMMA Changed ==
  ASSUME EventsTypeOK, NEW w \in Workers, NEW i, NEW h, NEW j, NEW s,
         Changes(w, i, h, j, s)
  PROVE  /\ DOMAIN job' = DOMAIN job
         /\ \A n \in DOMAIN job, g \in Handlers :
               job'[n][g] = IF n = i /\ g = h THEN j ELSE job[n][g]
         /\ \A v \in Workers : worker'[v] = IF v = w THEN s ELSE worker[v]
  BY DEF EventsTypeOK, Changes

\* What a worker's step is, as far as jobs and their workers go: it claims a queued
\* job, goes on with the one it has, or ends it.
LEMMA WorkerStep ==
  ASSUME IInv, NEW w \in Workers, Works(w)
  PROVE  \/ \E i \in DOMAIN event, h \in Handlers : Claim(w, i, h)
         \/ \E at \in {"handled", "marked"} :
               /\ worker[w].at # "idle" /\ job' = job
               /\ worker' = [worker EXCEPT ![w] = [worker[w] EXCEPT !.at = at]]
         \/ Ends(w)
  <1> DEFINE i == worker[w].of
             h == worker[w].handler
  <1>1. ASSUME worker[w].at # "idle"
        PROVE  i \in DOMAIN job /\ h \in Handlers /\ job[i][h] \in Jobs
    BY <1>1, InHand DEF IInv
  <1>2. CASE HandlerReturns(w)
    BY <1>2 DEF HandlerReturns, Goes
  <1>3. CASE MarkProcessed(w)
    BY <1>3 DEF MarkProcessed, Goes
  <1>4. CASE HandlerRaises(w)
    <2>1. worker[w].at # "idle"
      BY <1>4 DEF HandlerRaises
    <2>2. PICK e \in {GivenBack(job[i][h]), [job[i][h] EXCEPT !.at = "dead"]} :
            job' = [job EXCEPT ![i][h] = e]
      BY <1>4 DEF HandlerRaises
    <2>3. e.at # "running"
      BY <1>1, <2>1, RaisedType
    <2>4. Changes(w, i, h, e, Off)
      BY <1>1, <1>4, <2>1, <2>2, OffType DEF HandlerRaises, Goes, Changes
    <2>5. QED
      BY <2>1, <2>3, <2>4 DEF Ends
  <1>7. CASE Kill(w)
    <2>1. worker[w].at # "idle"
      BY <1>7 DEF Kill
    <2>2. job[i][h].lost < job[i][h].tries
      BY <2>1, InHand DEF IInv, WorkIsItsOwn, Accounted
    <2>3. Lost(job[i][h]).at # "running"
      BY <1>1, <2>1, <2>2, LostType
    <2>4. Changes(w, i, h, Lost(job[i][h]), Off)
      BY <1>1, <1>7, <2>1, OffType, JobGoes DEF Kill, Goes, Changes, IInv, Core
    <2>5. QED
      BY <2>1, <2>3, <2>4 DEF Ends
  <1>5. CASE Settle(w)
    <2> DEFINE j == [job[i][h] EXCEPT !.at = "done"]
    <2>1. worker[w].at # "idle"
      BY <1>5 DEF Settle
    <2>2. j.at # "running"
      BY <1>1, <2>1 DEF Jobs
    <2>3. Changes(w, i, h, j, Off)
      BY <1>1, <1>5, <2>1, OffType DEF Settle, Goes, Changes, IInv, Core, EventsTypeOK
    <2>4. QED
      BY <2>1, <2>2, <2>3 DEF Ends
  <1>6. QED
    BY <1>2, <1>3, <1>4, <1>5, <1>7 DEF Works

\* A claim, in the same terms.
LEMMA ClaimChanges ==
  ASSUME IInv, NEW w \in Workers, NEW i \in DOMAIN event, NEW h \in Handlers,
         Claim(w, i, h)
  PROVE  /\ worker[w].at = "idle" /\ job[i][h].at = "queued" /\ i \in DOMAIN job
         /\ \E j, s : /\ j.at = "running" /\ s.at # "idle" /\ s.of = i /\ s.handler = h
                      /\ Changes(w, i, h, j, s)
  <1> DEFINE j == Claimed(job[i][h])
             s == [at |-> "handling", of |-> i, handler |-> h]
  <1>1. i \in DOMAIN job /\ i \in 0 .. MaxEvents /\ job[i][h] \in Jobs
    BY EventsAssumption DEF IInv, Core, EventsTypeOK
  <1>2. s \in Tasks
    BY <1>1 DEF Tasks
  <1>3. Changes(w, i, h, j, s)
    BY <1>1, <1>2, JobGoes DEF Claim, Goes, Changes, IInv, Core
  <1>4. j.at = "running"
    BY <1>1 DEF Claimed, Jobs
  <1>5. QED
    BY <1>1, <1>3, <1>4 DEF Claim

\* A step of the clients' side moves no worker and no job that is there; a stored
\* event comes with its jobs, all queued.
LEMMA ClientStep ==
  ASSUME IInv, [Next]_vars, \A w \in Workers : ~ Works(w)
  PROVE  /\ worker' = worker
         /\ \/ job' = job
            \/ /\ Len(event) < MaxEvents
               /\ job' = Append(job, [h \in Handlers |-> Queued])
  <1>1. ASSUME NEW s \in Slots, Delivers(s)
        PROVE  /\ worker' = worker
               /\ \/ job' = job
                  \/ /\ Len(event) < MaxEvents
                     /\ job' = Append(job, [h \in Handlers |-> Queued])
    BY <1>1 DEF Delivers, TimesOut, Count, StoreAndDispatch, LookUp, Fails, Refused,
       Answered, RequestGoes
  <1>2. QED
    BY <1>1 DEF Next, vars, Tick, Handle, WakeUp, Post, Asks, RequestGoes

\* A new row of jobs leaves the others as they are.
LEMMA RowAdded ==
  ASSUME EventsTypeOK, job' = Append(job, [h \in Handlers |-> Queued])
  PROVE  /\ DOMAIN job' = DOMAIN job \cup {Len(job) + 1}
         /\ Len(job) + 1 \notin DOMAIN job
         /\ \A n \in DOMAIN job : job'[n] = job[n]
         /\ \A h \in Handlers : job'[Len(job) + 1][h].at = "queued"
  BY DEF EventsTypeOK, Queued

\* A job is running when, and only when, a worker is at it, whatever becomes of others
\* (job_queue.py claim, _owned_by).
LEMMA OwnStep ==
  ASSUME IInv, [Next]_vars
  PROVE  WorkIsItsOwn'
  <1>0. EventsTypeOK
    BY DEF IInv, Core
  <1>1. ASSUME NEW w \in Workers, NEW i \in DOMAIN event, NEW h \in Handlers,
               Claim(w, i, h)
        PROVE  WorkIsItsOwn'
    <2>1. job[i][h].at = "queued" /\ i \in DOMAIN job
      BY <1>1, ClaimChanges DEF IInv
    <2>2. PICK j, s : /\ j.at = "running" /\ s.at # "idle" /\ s.of = i /\ s.handler = h
                      /\ Changes(w, i, h, j, s)
      BY <1>1, ClaimChanges DEF IInv
    <2>3. /\ \A n \in DOMAIN job, g \in Handlers :
                job'[n][g] = IF n = i /\ g = h THEN j ELSE job[n][g]
          /\ \A v \in Workers : worker'[v] = IF v = w THEN s ELSE worker[v]
      BY <1>0, <2>2, Changed
    <2>4. \A v \in Workers : worker[v].at # "idle" =>
            /\ worker[v].of \in DOMAIN job /\ worker[v].handler \in Handlers
            /\ ~ (worker[v].of = i /\ worker[v].handler = h)
      BY <1>0, <2>1 DEF IInv, WorkIsItsOwn, EventsTypeOK
    <2>5. QED
      BY <2>1, <2>2, <2>3, <2>4 DEF IInv, WorkIsItsOwn
  <1>2. ASSUME NEW w \in Workers, NEW at \in {"handled", "marked"},
               worker[w].at # "idle", job' = job,
               worker' = [worker EXCEPT ![w] = [worker[w] EXCEPT !.at = at]]
        PROVE  WorkIsItsOwn'
    <2> DEFINE s == [worker[w] EXCEPT !.at = at]
    <2>1. worker[w] \in Tasks
      BY <1>0 DEF EventsTypeOK
    <2>2. s.of = worker[w].of /\ s.handler = worker[w].handler
      BY <2>1 DEF Tasks
    <2>3. \A v \in Workers : /\ worker'[v].of = worker[v].of
                             /\ worker'[v].handler = worker[v].handler
                             /\ worker'[v].at # "idle" => worker[v].at # "idle"
      BY <1>0, <1>2, <2>2 DEF EventsTypeOK
    <2>4. QED
      BY <1>2, <2>3 DEF IInv, WorkIsItsOwn
  <1>3. ASSUME NEW w \in Workers, Ends(w)
        PROVE  WorkIsItsOwn'
    <2>1. PICK j : Changes(w, worker[w].of, worker[w].handler, j, Off)
      BY <1>3 DEF Ends
    <2>2. /\ \A n \in DOMAIN job, g \in Handlers :
                job'[n][g] = IF n = worker[w].of /\ g = worker[w].handler THEN j ELSE job[n][g]
          /\ \A v \in Workers : worker'[v] = IF v = w THEN Off ELSE worker[v]
      BY <1>0, <2>1, Changed
    <2>3. worker[w].at # "idle" /\ Off.at = "idle"
      BY <1>3 DEF Ends, Off
    <2>4. \A v \in Workers : worker[v].at # "idle" =>
            worker[v].of \in DOMAIN job /\ worker[v].handler \in Handlers
      BY <1>0 DEF EventsTypeOK
    <2>5. QED
      BY <2>2, <2>3, <2>4 DEF IInv, WorkIsItsOwn
  <1>4. CASE \A w \in Workers : ~ Works(w)
    <2>1. \A v \in Workers : worker[v].at # "idle" =>
            worker[v].of \in DOMAIN job /\ worker[v].handler \in Handlers
      BY <1>0 DEF EventsTypeOK
    <2>2. worker' = worker /\ \A n \in DOMAIN job : job'[n] = job[n]
      BY <1>0, <1>4, ClientStep, RowAdded DEF IInv
    <2>3. QED
      BY <2>1, <2>2 DEF IInv, WorkIsItsOwn
  <1>5. QED
    BY <1>1, <1>2, <1>3, <1>4, WorkerStep DEF IInv

-----------------------------------------------------------------------------
LEMMA UnchangedCore ==
  ASSUME Core, UNCHANGED <<clock, last, backoff, request, event, job, worker, kills>>
  PROVE  Core'
  BY ClientSide DEF Core, EventsTypeOK

LEMMA NextIInv == ASSUME IInv, [Next]_vars PROVE IInv'
  <1>0. Core /\ WorkIsItsOwn'
    BY OwnStep DEF IInv
  <1>1. ASSUME NEW s \in Slots, Delivers(s) PROVE Core'
    BY <1>0, <1>1, TimesOutCore, CountCore, StoreCore, LookUpCore, FailsCore DEF Delivers
  <1>2. ASSUME NEW w \in Workers, Works(w) PROVE Core'
    BY <1>0, <1>2, ClaimCore, HandlerReturnsCore, HandlerRaisesCore, MarkProcessedCore,
       SettleCore, KillCore DEF Works
  <1>3. ASSUME NEW k \in OtherKeys, Post(k) PROVE Core'
    BY <1>0, <1>3, PostCore
  <1>4. ASSUME UNCHANGED vars PROVE Core'
    <2>1. UNCHANGED <<clock, last, backoff, request, event, job, worker, kills>>
      BY <1>4 DEF vars, watcher
    <2>2. QED
      BY <1>0, <2>1, UnchangedCore
  <1>5. Core'
    BY <1>0, <1>1, <1>2, <1>3, <1>4, TickCore, HandleCore, WakeUpCore DEF Next
  <1>6. QED
    BY <1>0, <1>5 DEF IInv

\* The invariant holds throughout, whatever is posted, refused, raised or killed.
THEOREM Invariance == Spec => []IInv
  <1>1. Init => IInv
    BY InitIInv
  <1>2. IInv /\ [Next]_vars => IInv'
    BY NextIInv
  <1>3. QED
    BY <1>1, <1>2, PTL DEF Spec

\* Rows, requests and workers keep their types (models.py ExternalEvent, Job).
THEOREM TypeCorrect == Spec => []EventsTypeOK
  <1>1. IInv => EventsTypeOK
    BY DEF IInv, Core
  <1>2. QED
    BY <1>1, Invariance, PTL

\* However many requests the API is in the middle of at once, clients that wait for them
\* or not, they overrun the limit by one less than they are (events.py _enforce_rate_limit, _store_and_dispatch).
THEOREM AllowanceHolds == Spec => []AllowanceIsBounded
  <1>1. IInv => AllowanceIsBounded
    <2> SUFFICES ASSUME IInv, NEW t \in 0 .. MaxTime
                 PROVE  Cardinality({i \in DOMAIN event :
                                        event[i].at <= t /\ event[i].at + Window > t})
                            <= Limit + Cardinality(Slots) - 1
      BY DEF AllowanceIsBounded
    <2>1. Cardinality(Stored(t)) <= Limit + Cardinality(Slots) - 1
      BY BudgetFinite, SlotsFinite, EventsAssumption DEF IInv, Core, Budgeted
    <2>2. QED
      BY <2>1 DEF Stored
  <1>2. QED
    BY <1>1, Invariance, PTL

\* An event nobody has processed has a job that is queued or running, or lies with all
\* its jobs in the dead letter, that of a handler that does not raise after as many kills
\* as it has attempts; however often workers are killed (events.py dispatch,
\* _store_and_dispatch, handlers.py handle_event, worker.py _settle).
THEOREM NothingPendingIsIdle == Spec => []PendingHasWork
  <1>1. IInv => PendingHasWork
    <2> SUFFICES ASSUME IInv, NEW i \in DOMAIN event, ~ event[i].processed,
                        \A h \in Handlers : job[i][h].at \notin {"queued", "running"},
                        NEW h \in Handlers
                 PROVE  /\ job[i][h].at = "dead"
                        /\ h \notin Faulty => job[i][h].lost = MaxAttempts
      BY DEF PendingHasWork
    <2>1. i \in DOMAIN job /\ job[i][h] \in Jobs
      BY DEF IInv, Core, EventsTypeOK
    <2>2. Accounted(job[i][h], h, event[i].processed)
      BY <2>1 DEF IInv, Core, JobsAccounted
    <2>3. QED
      BY <2>1, <2>2 DEF Accounted, Jobs
  <1>2. QED
    BY <1>1, Invariance, PTL

-----------------------------------------------------------------------------
(* The queue's side of it.                                                 *)

\* Every step of Events asks for work, claims it, gives it up, or is nothing to the queue.
LEMMA StepTakes ==
  ASSUME IInv, [Next]_vars
  PROVE  [Handout!Next]_(Handout!vars)
  <1>0. EventsTypeOK /\ EventsTypeOK'
    BY NextIInv DEF IInv, Core
  <1>1. ASSUME NEW w \in Workers, NEW i \in DOMAIN event, NEW h \in Handlers,
               Claim(w, i, h)
        PROVE  Handout!Next
    <2>1. worker[w].at = "idle" /\ job[i][h].at = "queued" /\ i \in DOMAIN job
      BY <1>1, ClaimChanges DEF IInv
    <2>2. PICK j, s : /\ j.at = "running" /\ s.at # "idle" /\ s.of = i /\ s.handler = h
                      /\ Changes(w, i, h, j, s)
      BY <1>1, ClaimChanges DEF IInv
    <2>3. /\ DOMAIN job' = DOMAIN job
          /\ \A n \in DOMAIN job, g \in Handlers :
                job'[n][g] = IF n = i /\ g = h THEN j ELSE job[n][g]
          /\ \A v \in Workers : worker'[v] = IF v = w THEN s ELSE worker[v]
      BY <1>0, <2>2, Changed
    <2>4. Unclaimed' = Unclaimed \ {<<i, h>>}
      <3>1. \A n \in DOMAIN job, g \in Handlers :
               job'[n][g].at = "queued" <=> job[n][g].at = "queued" /\ <<n, g>> # <<i, h>>
        BY <2>2, <2>3
      <3>2. QED
        BY <2>3, <3>1 DEF Unclaimed
    <2>5. InHands' = [InHands EXCEPT ![w] = {<<i, h>>}]
      <3>1. \A v \in Workers : InHands'[v] = IF v = w THEN {<<i, h>>} ELSE InHands[v]
        BY <2>2, <2>3 DEF InHands
      <3>2. QED
        BY <3>1 DEF InHands
    <2>6. <<i, h>> \in Unclaimed /\ <<i, h>> \in (1 .. MaxEvents) \X Handlers
      <3>1. i \in 1 .. MaxEvents
        BY <1>0, <2>1, EventsAssumption DEF EventsTypeOK
      <3>2. QED
        BY <2>1, <3>1 DEF Unclaimed
    <2>7. InHands[w] = {}
      BY <2>1 DEF InHands
    <2>8. QED
      BY <2>4, <2>5, <2>6, <2>7 DEF Handout!Next, Handout!Claim
  <1>2. ASSUME NEW w \in Workers, NEW at \in {"handled", "marked"},
               worker[w].at # "idle", job' = job,
               worker' = [worker EXCEPT ![w] = [worker[w] EXCEPT !.at = at]]
        PROVE  UNCHANGED Handout!vars
    <2> DEFINE s == [worker[w] EXCEPT !.at = at]
    <2>1. worker[w] \in Tasks
      BY <1>0 DEF EventsTypeOK
    <2>2. s.of = worker[w].of /\ s.handler = worker[w].handler /\ s.at # "idle"
      BY <2>1 DEF Tasks
    <2>3. \A v \in Workers : /\ worker'[v].of = worker[v].of
                             /\ worker'[v].handler = worker[v].handler
                             /\ worker'[v].at = "idle" <=> worker[v].at = "idle"
      BY <1>0, <1>2, <2>2 DEF EventsTypeOK
    <2>4. InHands' = InHands
      BY <2>3 DEF InHands
    <2>5. QED
      BY <1>2, <2>4 DEF Handout!vars, Unclaimed
  <1>3. ASSUME NEW w \in Workers, Ends(w)
        PROVE  Handout!Next
    <2> DEFINE i == worker[w].of
               h == worker[w].handler
    <2>1. PICK j : j.at # "running" /\ Changes(w, i, h, j, Off)
      BY <1>3 DEF Ends
    <2>2. worker[w].at # "idle" /\ job[i][h].at = "running"
      BY <1>3 DEF Ends, IInv, WorkIsItsOwn
    <2>3. /\ DOMAIN job' = DOMAIN job
          /\ \A n \in DOMAIN job, g \in Handlers :
                job'[n][g] = IF n = i /\ g = h THEN j ELSE job[n][g]
          /\ \A v \in Workers : worker'[v] = IF v = w THEN Off ELSE worker[v]
      BY <1>0, <2>1, Changed
    <2>4. Unclaimed \subseteq Unclaimed' /\ Unclaimed' \subseteq Unclaimed \cup {<<i, h>>}
      BY <2>2, <2>3 DEF Unclaimed
    <2>5. Off.at = "idle"
      BY DEF Off
    <2>6. InHands' = [v \in Workers |-> IF v \in {w} THEN {} ELSE InHands[v]]
      BY <2>3, <2>5 DEF InHands
    <2>7. Handout!Holding({w}) = {<<i, h>>}
      BY <2>2 DEF Handout!Holding, InHands
    <2>8. Handout!GiveUp({w})
      BY <2>4, <2>6, <2>7 DEF Handout!GiveUp
    <2>9. QED
      BY <2>8 DEF Handout!Next
  <1>4. CASE \A w \in Workers : ~ Works(w)
    <2>1. InHands' = InHands
      BY <1>4, ClientStep DEF IInv, InHands
    <2>2. CASE job' = job
      BY <2>1, <2>2 DEF Handout!vars, Unclaimed
    <2>3. CASE job' = Append(job, [h \in Handlers |-> Queued])
      <3>1. /\ DOMAIN job' = DOMAIN job \cup {Len(job) + 1}
            /\ Len(job) + 1 \notin DOMAIN job
            /\ \A n \in DOMAIN job : job'[n] = job[n]
        BY <1>0, <2>3, RowAdded
      <3>2. Unclaimed \subseteq Unclaimed'
        BY <3>1 DEF Unclaimed
      <3>3. Unclaimed' \ Unclaimed \subseteq {Len(job) + 1} \X Handlers
        BY <3>1 DEF Unclaimed
      <3>4. \A v \in Workers : InHands[v] \subseteq (DOMAIN job) \X Handlers
        BY <1>0 DEF InHands, EventsTypeOK
      <3>5. Handout!Holding(Workers) \subseteq (DOMAIN job) \X Handlers
        BY <3>4 DEF Handout!Holding
      <3>6. Unclaimed' \subseteq (1 .. MaxEvents) \X Handlers
        <4>1. DOMAIN job' \subseteq 1 .. MaxEvents
          BY <1>0, EventsAssumption DEF EventsTypeOK
        <4>2. QED
          BY <4>1 DEF Unclaimed
      <3>7. Handout!Ask
        BY <2>1, <3>1, <3>2, <3>3, <3>5, <3>6 DEF Handout!Ask
      <3>8. QED
        BY <3>7 DEF Handout!Next
    <2>4. QED
      BY <1>4, <2>2, <2>3, ClientStep DEF IInv
  <1>5. QED
    BY <1>1, <1>2, <1>3, <1>4, WorkerStep DEF IInv

\* The handlers' jobs go from the queue to one worker each and back or away, by that
\* worker's hands alone (job_queue.py claim, handlers.py handle_event;
\* JobQueueProofs!HandsOut).
THEOREM Takes == Spec => TakesHandout
  <1>1. Init => Handout!Init
    BY DEF Init, Handout!Init, Unclaimed, InHands, Off
  <1>2. IInv /\ [Next]_vars => [Handout!Next]_(Handout!vars)
    BY StepTakes
  <1>3. QED
    BY <1>1, <1>2, Invariance, PTL DEF Spec, TakesHandout, Handout!Spec

=============================================================================
