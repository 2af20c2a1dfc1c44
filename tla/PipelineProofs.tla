--------------------------- MODULE PipelineProofs ---------------------------
(***************************************************************************)
(* The safety of Pipeline for any number of versions, texts, workers and   *)
(* chunks.  The inductive invariant adds what a task in flight may rely on *)
(* (Tasked: what it found in an earlier transaction still holds where it   *)
(* matters) and who owes a version its normalization (Owed).               *)
(***************************************************************************)
EXTENDS Pipeline, TLAPS

\* What an earlier transaction found is still good for the one to come: a twin
\* stays normalized to the same text, and a normalization that is done has
\* left its version normalized or hidden.
Tasked ==
  \A w \in Workers :
    /\ task[w].at = "adopt" =>
         /\ task[w].from \in normed
         /\ text[task[w].from] = text[task[w].job.of]
    /\ task[w].at = "done" /\ task[w].job.kind = "normalize" =>
         task[w].job.of \in normed \cup hidden
    /\ task[w].at \in {"embed", "announce"} => task[w].job.kind = "embed"

\* A version that has not been normalized waits for it in the queue, or in the
\* hands of a worker that holds the lease and is not done, or lies in the dead
\* letter.
Owes(t, v) ==
  t # Idle /\ t.held /\ t.job = Job("normalize", v) /\ t.at # "done"

InHand(v) == \E w \in Workers : Owes(task[w], v)

Owed ==
  \A v \in 1..newest :
    \/ v \in normed \cup hidden
    \/ Job("normalize", v) \in queue \cup dead
    \/ InHand(v)

IInv ==
  /\ TypeOK
  /\ Tasked
  /\ Owed
  /\ ChunksSpeakForTheirVersion
  /\ OneChunkingPerVersion
  /\ SomethingIsIndexed

\* What the fields of a task are, by the place it is at (the local variables of
\* the two handlers).
LEMMA Fields ==
  ASSUME NEW t \in Tasks
  PROVE  /\ t = Idle \/ t.at # "idle"
         /\ t # Idle => t.job \in Jobs /\ t.held \in BOOLEAN
         /\ t.at = "adopt" => t \in Adopting
         /\ t.at = "insert" => t \in Storing
         /\ t.at = "embed" => t \in Embedding
         /\ t.at \in {"load", "parsed", "store", "announce", "done"} => t \in Plain
  BY DEF Tasks, Idle, Plain, Adopting, Storing, Embedding

\* A job of a kind and a version.
LEMMA JobType ==
  ASSUME NEW kind \in {"normalize", "embed", "extract"}, NEW v \in Versions
  PROVE  /\ Job(kind, v) \in Jobs
         /\ Job(kind, v).kind = kind /\ Job(kind, v).of = v
  BY DEF Job, Jobs

\* Before anything is ingested there is nothing to owe.
LEMMA InitIInv == Init => IInv
  <1> SUFFICES ASSUME Init
               PROVE  IInv
    OBVIOUS
  <1>1. TypeOK
    BY BoundsAssumption DEF Init, TypeOK, Tasks
  <1>2. Tasked
    BY DEF Init, Tasked, Idle
  <1>3. Owed /\ ChunksSpeakForTheirVersion /\ OneChunkingPerVersion
        /\ SomethingIsIndexed
    BY DEF Init, Owed, ChunksSpeakForTheirVersion, OneChunkingPerVersion,
       SomethingIsIndexed
  <1>4. QED
    BY <1>1, <1>2, <1>3 DEF IInv

-----------------------------------------------------------------------------
(* The steps of a worker *)

\* What a step of one worker does to the tasks and the debts, if the worker has
\* learnt what it now relies on, and if whatever it owed is still owed by
\* someone: the queue, the dead letter, or itself with its lease (worker.py _settle,
\* job_queue.py reclaim_expired).
LEMMA TaskStep ==
  ASSUME IInv, NEW w \in Workers, NEW t \in Tasks,
         task' = [task EXCEPT ![w] = t],
         UNCHANGED memories, normed \subseteq normed', dead \subseteq dead',
         t.at = "adopt" => /\ t.from \in normed'
                           /\ text[t.from] = text[t.job.of],
         t.at = "done" /\ t.job.kind = "normalize" =>
           t.job.of \in normed' \cup hidden,
         t.at \in {"embed", "announce"} => t.job.kind = "embed",
         \A v \in Versions :
           Owes(task[w], v) \/ Job("normalize", v) \in queue =>
             v \in normed' \cup hidden \/ Job("normalize", v) \in queue' \cup dead'
             \/ Owes(t, v)
  PROVE  Tasked' /\ Owed'
  <1> USE DEF IInv, memories
  <1>2. Tasked'
    <2> SUFFICES ASSUME NEW u \in Workers
                 PROVE  /\ task'[u].at = "adopt" =>
                             /\ task'[u].from \in normed'
                             /\ text[task'[u].from] = text[task'[u].job.of]
                        /\ task'[u].at = "done" /\ task'[u].job.kind = "normalize" =>
                             task'[u].job.of \in normed' \cup hidden
                        /\ task'[u].at \in {"embed", "announce"} =>
                             task'[u].job.kind = "embed"
      BY DEF Tasked
    <2>1. CASE u = w
      BY <2>1 DEF TypeOK
    <2>2. CASE u # w
      <3>1. task'[u] = task[u]
        BY <2>2 DEF TypeOK
      <3>2. QED
        BY <3>1 DEF Tasked
    <2>3. QED
      BY <2>1, <2>2
  <1>3. Owed'
    <2> SUFFICES ASSUME NEW v \in 1..newest
                 PROVE  \/ v \in normed' \cup hidden
                        \/ Job("normalize", v) \in queue' \cup dead' \/ InHand(v)'
      BY DEF Owed
    <2>0. v \in Versions
      BY BoundsAssumption DEF TypeOK, Versions
    <2>1. CASE v \in normed \cup hidden
      BY <2>1
    <2>2. CASE Job("normalize", v) \in queue \cup dead
      BY <2>0, <2>2 DEF InHand, TypeOK
    <2>3. CASE InHand(v)
      <3>1. PICK u \in Workers : Owes(task[u], v)
        BY <2>3 DEF InHand
      <3>2. CASE u = w
        BY <2>0, <3>1, <3>2 DEF InHand, TypeOK
      <3>3. CASE u # w
        <4>1. task'[u] = task[u]
          BY <3>3 DEF TypeOK
        <4>2. QED
          BY <3>1, <4>1 DEF InHand
      <3>4. QED
        BY <3>2, <3>3
    <2>4. QED
      BY <2>1, <2>2, <2>3 DEF Owed
  <1>4. QED
    BY <1>2, <1>3

\* A step of one worker that writes no memory and no chunk keeps the invariant
\* on the same conditions (the reading transactions of both handlers).
LEMMA BookkeepingStep ==
  ASSUME IInv, NEW w \in Workers, NEW t \in Tasks,
         task' = [task EXCEPT ![w] = t],
         UNCHANGED <<memories, store>>,
         queue' \in SUBSET Jobs, dead' \in SUBSET Jobs, dead \subseteq dead',
         t.at = "adopt" => /\ t.from \in normed
                           /\ text[t.from] = text[t.job.of],
         t.at = "done" /\ t.job.kind = "normalize" =>
           t.job.of \in normed \cup hidden,
         t.at \in {"embed", "announce"} => t.job.kind = "embed",
         \A v \in Versions :
           Owes(task[w], v) \/ Job("normalize", v) \in queue =>
             v \in normed \cup hidden \/ Job("normalize", v) \in queue' \cup dead'
             \/ Owes(t, v)
  PROVE  IInv'
  <1>1. TypeOK'
    BY DEF IInv, TypeOK, memories, store
  <1>2. Tasked' /\ Owed'
    BY TaskStep DEF store
  <1>3. ChunksSpeakForTheirVersion' /\ OneChunkingPerVersion'
        /\ SomethingIsIndexed'
    BY DEF IInv, ChunksSpeakForTheirVersion, OneChunkingPerVersion,
       SomethingIsIndexed, memories, store
  <1>4. QED
    BY <1>1, <1>2, <1>3 DEF IInv

\* The task a worker goes on with when it keeps its job and its lease.
LEMMA GoType ==
  ASSUME TypeOK, NEW w \in Workers, task[w] # Idle,
         NEW at \in {"load", "parsed", "store", "announce", "done"}
  PROVE  LET t == [at |-> at, job |-> task[w].job, held |-> task[w].held]
         IN  t \in Tasks /\ t # Idle
  <1>1. task[w].job \in Jobs /\ task[w].held \in BOOLEAN
    BY Fields DEF TypeOK
  <1>2. QED
    BY <1>1 DEF Tasks, Plain, Idle

-----------------------------------------------------------------------------
(* The worker around the handlers, and what the handlers read *)

\* A job that is claimed leaves the queue for the worker's hands.
LEMMA ClaimIInv ==
  ASSUME IInv, NEW w \in Workers, Claim(w)
  PROVE  IInv'
  <1>1. PICK j \in queue : /\ queue' = queue \ {j}
                           /\ Step(w, [at |-> "load", job |-> j, held |-> TRUE])
    BY DEF Claim
  <1> DEFINE t == [at |-> "load", job |-> j, held |-> TRUE]
  <1>2. t \in Tasks /\ t # Idle
    BY DEF Tasks, Plain, Idle, TypeOK, IInv
  <1>3. t.at = "load" /\ t.job = j /\ t.held
    OBVIOUS
  <1>4. task' = [task EXCEPT ![w] = t] /\ task[w] = Idle
    BY <1>1 DEF Step, Claim
  <1> HIDE DEF t
  <1>5. queue' \in SUBSET Jobs /\ dead' = dead /\ dead \in SUBSET Jobs
    BY <1>1 DEF Claim, TypeOK, IInv
  <1>6. ASSUME NEW v \in Versions, Job("normalize", v) \in queue
        PROVE  Job("normalize", v) \in queue' \/ Owes(t, v)
    BY <1>1, <1>2, <1>3, <1>6 DEF Owes
  <1>7. \A v \in Versions : ~Owes(task[w], v)
    BY <1>4 DEF Owes
  <1>8. QED
    BY <1>2, <1>3, <1>4, <1>5, <1>6, <1>7, BookkeepingStep DEF Claim

\* A run that is over owes nothing any more.
LEMMA CompleteIInv ==
  ASSUME IInv, NEW w \in Workers, Complete(w)
  PROVE  IInv'
  <1>1. /\ task' = [task EXCEPT ![w] = Idle] /\ queue' = queue /\ dead' = dead
        /\ queue \in SUBSET Jobs /\ dead \in SUBSET Jobs /\ Idle \in Tasks /\ Idle.at = "idle"
    BY DEF Complete, Step, IInv, TypeOK, Tasks, Idle
  <1>2. \A v \in Versions : ~Owes(task[w], v)
    BY DEF Owes, Complete
  <1>3. QED
    BY <1>1, <1>2, BookkeepingStep DEF Complete

\* What becomes of a job whose run ended badly (worker.py _retry_or_dead_letter).
LEMMA Settled ==
  ASSUME TypeOK, NEW j \in Jobs, TryAgainOrBury(j) \/ UNCHANGED <<queue, dead>>
  PROVE  /\ queue' \in SUBSET Jobs /\ dead' \in SUBSET Jobs
         /\ queue \subseteq queue' /\ dead \subseteq dead'
         /\ TryAgainOrBury(j) => j \in queue' \cup dead'
  BY DEF TypeOK, TryAgainOrBury

\* A run that failed is owed again by the queue, or by the dead letter.
LEMMA FailIInv ==
  ASSUME IInv, NEW w \in Workers, Fail(w)
  PROVE  IInv'
  <1>1. /\ task' = [task EXCEPT ![w] = Idle] /\ Idle \in Tasks /\ Idle.at = "idle"
    BY DEF Fail, Step, Tasks, Idle
  <1>2. task[w].job \in Jobs
    BY Fields DEF Fail, IInv, TypeOK
  <1>3. /\ queue' \in SUBSET Jobs /\ dead' \in SUBSET Jobs
        /\ queue \subseteq queue' /\ dead \subseteq dead'
        /\ task[w].held => task[w].job \in queue' \cup dead'
    BY <1>2, Settled DEF Fail, IInv
  <1>4. \A v \in Versions : Owes(task[w], v) \/ Job("normalize", v) \in queue =>
          Job("normalize", v) \in queue' \cup dead'
    BY <1>3 DEF Owes
  <1>5. QED
    BY <1>1, <1>3, <1>4, BookkeepingStep DEF Fail

\* So is one whose lease was taken away, while it goes on.
LEMMA LoseLeaseIInv ==
  ASSUME IInv, NEW w \in Workers, LoseLease(w)
  PROVE  IInv'
  <1> DEFINE t == [task[w] EXCEPT !.held = FALSE]
  <1>1. task[w] \in Tasks /\ task[w] # Idle
    BY DEF LoseLease, IInv, TypeOK
  <1>2. /\ t \in Tasks /\ t.at = task[w].at /\ t.job = task[w].job
        /\ t.at = "adopt" => t.from = task[w].from
    BY <1>1 DEF Tasks, Plain, Adopting, Storing, Embedding
  <1>3. task' = [task EXCEPT ![w] = t]
    BY <1>1 DEF LoseLease
  <1>4. /\ queue' \in SUBSET Jobs /\ dead' \in SUBSET Jobs
        /\ queue \subseteq queue' /\ dead \subseteq dead'
        /\ task[w].job \in queue' \cup dead'
    BY <1>1, Fields, Settled DEF LoseLease, IInv
  <1>5. \A v \in Versions : Owes(task[w], v) \/ Job("normalize", v) \in queue =>
          Job("normalize", v) \in queue' \cup dead'
    BY <1>4 DEF Owes
  <1>6. /\ t.at = "adopt" => t.from \in normed /\ text[t.from] = text[t.job.of]
        /\ t.at = "done" /\ t.job.kind = "normalize" => t.job.of \in normed \cup hidden
        /\ t.at \in {"embed", "announce"} => t.job.kind = "embed"
    BY <1>2 DEF IInv, Tasked
  <1>7. UNCHANGED <<memories, store>>
    BY DEF LoseLease
  <1> HIDE DEF t
  <1>8. QED
    BY <1>2, <1>3, <1>4, <1>5, <1>6, <1>7, BookkeepingStep

\* A worker that goes on to a plain place with the job and lease it has.
LEMMA GoIInv ==
  ASSUME IInv, NEW w \in Workers, task[w] # Idle,
         NEW at \in {"load", "parsed", "store", "announce", "done"},
         Go(w, at),
         UNCHANGED <<memories, store, dead>>,
         queue' \in SUBSET Jobs, queue \subseteq queue',
         at = "done" /\ task[w].job.kind = "normalize" =>
           task[w].job.of \in normed \cup hidden,
         at = "announce" => task[w].job.kind = "embed"
  PROVE  IInv'
  <1> DEFINE t == [at |-> at, job |-> task[w].job, held |-> task[w].held]
  <1>1. t \in Tasks /\ t # Idle
    BY GoType DEF IInv
  <1>2. t.at = at /\ t.job = task[w].job /\ t.held = task[w].held
    OBVIOUS
  <1>3. task' = [task EXCEPT ![w] = t]
    BY DEF Go, Step
  <1> HIDE DEF t
  <1>4. ASSUME NEW v \in Versions, Owes(task[w], v)
        PROVE  v \in normed \cup hidden \/ Owes(t, v)
    BY <1>1, <1>2, <1>4, JobType DEF Owes
  <1>5. dead \in SUBSET Jobs
    BY DEF IInv, TypeOK
  <1>6. QED
    BY <1>1, <1>2, <1>3, <1>4, <1>5, BookkeepingStep

\* A job that is queued goes into the queue, or was there or running before.
LEMMA EnqueuedType ==
  ASSUME IInv, NEW j \in Jobs
  PROVE  Enqueued(j) \in SUBSET Jobs /\ queue \subseteq Enqueued(j)
  BY DEF Enqueued, IInv, TypeOK

\* Normalization goes ahead, or finds nothing to do.
LEMMA NormalizeLoadIInv ==
  ASSUME IInv, NEW w \in Workers, NormalizeLoad(w)
  PROVE  IInv'
  <1>1. task[w] # Idle
    BY DEF NormalizeLoad, Normalizing, Idle
  <1>2. PICK at \in {"parsed", "done"} :
          /\ Go(w, at)
          /\ at = "done" => task[w].job.of \in normed \cup hidden
    BY DEF NormalizeLoad
  <1>3. QED
    BY <1>1, <1>2, GoIInv DEF NormalizeLoad, IInv, TypeOK

\* An embed job reads the chunks that are bare.
LEMMA EmbedLoadIInv ==
  ASSUME IInv, NEW w \in Workers, EmbedLoad(w)
  PROVE  IInv'
  <1> DEFINE v == task[w].job.of
             bare == {c.id : c \in {c \in ChunksOf(v) : ~c.vector}}
             t == [at |-> "embed", job |-> task[w].job,
                   held |-> task[w].held, bare |-> bare]
  <1>1. /\ task[w] # Idle /\ task[w] \in Tasks
        /\ task[w].job.kind = "embed"
    BY DEF EmbedLoad, Idle, IInv, TypeOK
  <1>2. CASE Go(w, "done")
    BY <1>1, <1>2, GoIInv DEF EmbedLoad, IInv, TypeOK
  <1>3. CASE Step(w, t)
    <2>1. bare \in SUBSET ChunkIds
      BY DEF ChunksOf, IInv, TypeOK, Chunks
    <2>2. t \in Tasks
      BY <1>1, <2>1, Fields DEF Tasks, Embedding
    <2>3. t.at = "embed" /\ t.job.kind = "embed"
      BY <1>1
    <2>4. task' = [task EXCEPT ![w] = t]
      BY <1>3 DEF Step
    <2>5. \A u \in Versions : ~Owes(task[w], u)
      BY <1>1, JobType DEF Owes
    <2> HIDE DEF t
    <2>6. QED
      BY <2>2, <2>3, <2>4, <2>5, BookkeepingStep DEF EmbedLoad, IInv, TypeOK
  <1>4. QED
    BY <1>2, <1>3 DEF EmbedLoad

\* The extraction of what has been embedded is queued.
LEMMA QueueExtractionIInv ==
  ASSUME IInv, NEW w \in Workers, QueueExtraction(w)
  PROVE  IInv'
  <1>1. task[w] # Idle /\ task[w].job \in Jobs
    BY Fields DEF QueueExtraction, Idle, IInv, TypeOK
  <1>2. Job("extract", task[w].job.of) \in Jobs
    BY <1>1 DEF Jobs, Job
  <1>3. task[w].job.kind = "embed"
    BY DEF QueueExtraction, IInv, Tasked
  <1>4. QED
    BY <1>1, <1>2, <1>3, EnqueuedType, GoIInv DEF QueueExtraction

\* A step to a task that carries what it found keeps the invariant, if what it
\* found is a twin to adopt from, or rows to delete (normalize.py).
LEMMA CarryIInv ==
  ASSUME IInv, NEW w \in Workers, task[w] # Idle, NEW t \in Tasks, t # Idle,
         task' = [task EXCEPT ![w] = t],
         t.at \in {"adopt", "insert"},
         t.job = task[w].job, t.held = task[w].held, task[w].at # "done",
         t.at = "adopt" => t.from \in normed /\ text[t.from] = text[t.job.of],
         UNCHANGED <<memories, store, queue, dead>>
  PROVE  IInv'
  <1>1. queue' \in SUBSET Jobs /\ dead' \in SUBSET Jobs
    BY DEF IInv, TypeOK
  <1>2. ASSUME NEW v \in Versions, Owes(task[w], v)
        PROVE  Owes(t, v)
    BY <1>2 DEF Owes
  <1>3. QED
    BY <1>1, <1>2, BookkeepingStep

\* What is found is a twin with chunks to adopt, or none.
LEMMA FindAdoptableIInv ==
  ASSUME IInv, NEW w \in Workers, FindAdoptable(w)
  PROVE  IInv'
  <1>1. /\ task[w] # Idle /\ task[w] \in Tasks
        /\ task[w].at = "parsed" /\ task[w].job.kind = "normalize"
    BY DEF FindAdoptable, Normalizing, Idle, IInv, TypeOK
  <1>2. task[w].job \in Jobs /\ task[w].held \in BOOLEAN
    BY <1>1, Fields
  <1>3. CASE Go(w, "store")
    BY <1>1, <1>3, GoIInv DEF FindAdoptable, IInv, TypeOK
  <1>4. ASSUME NEW u \in Adoptable(task[w].job.of),
               Step(w, [at |-> "adopt", job |-> task[w].job,
                        held |-> task[w].held, from |-> u])
        PROVE  IInv'
    <2> DEFINE t == [at |-> "adopt", job |-> task[w].job, held |-> task[w].held,
                     from |-> u]
    <2>1. u \in normed /\ text[u] = text[task[w].job.of]
      BY DEF Adoptable, Twins
    <2>2. u \in Versions
      BY <2>1 DEF IInv, TypeOK
    <2>3. t \in Tasks /\ t # Idle
      BY <1>2, <2>2 DEF Tasks, Adopting, Idle
    <2>4. /\ task' = [task EXCEPT ![w] = t]
          /\ t.at = "adopt" /\ t.job = task[w].job /\ t.held = task[w].held /\ t.from = u
      BY <1>4 DEF Step
    <2> HIDE DEF t
    <2>5. QED
      BY <1>1, <2>1, <2>3, <2>4, CarryIInv DEF FindAdoptable
  <1>5. QED
    BY <1>3, <1>4 DEF FindAdoptable

\* The delete has found its rows.
LEMMA DeleteOldIInv ==
  ASSUME IInv, NEW w \in Workers, DeleteOld(w)
  PROVE  IInv'
  <1> DEFINE t == [at |-> "insert", job |-> task[w].job, held |-> task[w].held,
                   doomed |-> {c.id : c \in chunks}]
  <1>1. /\ task[w] # Idle /\ task[w] \in Tasks
        /\ task[w].at = "store" /\ task[w].job.kind = "normalize"
    BY DEF DeleteOld, Normalizing, Idle, IInv, TypeOK
  <1>2. task[w].job \in Jobs /\ task[w].held \in BOOLEAN
    BY <1>1, Fields
  <1>3. {c.id : c \in chunks} \in SUBSET ChunkIds
    BY DEF IInv, TypeOK, Chunks
  <1>4. t \in Tasks /\ t # Idle
    BY <1>2, <1>3 DEF Tasks, Storing, Idle
  <1>5. /\ task' = [task EXCEPT ![w] = t]
        /\ t.at = "insert" /\ t.job = task[w].job /\ t.held = task[w].held
    BY DEF DeleteOld, Step
  <1> HIDE DEF t
  <1>6. QED
    BY <1>1, <1>4, <1>5, CarryIInv DEF DeleteOld

-----------------------------------------------------------------------------
(* What the handlers write *)

\* The task of a handler that is done (normalize.py __call__, embed.py __call__).
LEMMA DoneType ==
  ASSUME TypeOK, NEW w \in Workers, task[w] # Idle, NEW at \in {"announce", "done"}
  PROVE  \E t \in Tasks :
           /\ t = [at |-> at, job |-> task[w].job, held |-> task[w].held]
           /\ t.at = at /\ t.job = task[w].job
  BY GoType

\* The chunks that move do so together, to a version that had none, with the
\* same text (normalize.py _adopt_from_previous_version).
LEMMA AdoptIInv ==
  ASSUME IInv, NEW w \in Workers, Adopt(w)
  PROVE  IInv'
  <1> DEFINE v == task[w].job.of
             from == task[w].from
             move(c) == IF c.owner = from THEN [c EXCEPT !.owner = v] ELSE c
  <1>1. /\ task[w] # Idle /\ task[w] \in Tasks
        /\ task[w].at = "adopt" /\ task[w].job.kind = "normalize"
    BY DEF Adopt, Normalizing, Idle, IInv, TypeOK
  <1>2. /\ task[w].job \in Jobs /\ v \in Versions
        /\ from \in normed /\ text[from] = text[v]
    BY <1>1, Fields DEF Jobs, IInv, Tasked
  <1>3. /\ ChunksOf(from) = {} \/ ChunksOf(v) = {}
        /\ chunks' = {move(c) : c \in chunks}
        /\ normed' = normed \cup {v}
        /\ UNCHANGED <<memories, made, queue, dead>>
        /\ Go(w, "done")
    BY DEF Adopt
  <1>4. ASSUME NEW c \in chunks
        PROVE  /\ move(c) \in Chunks
               /\ move(c).text = c.text
               /\ move(c).owner = IF c.owner = from THEN v ELSE c.owner
    <2>1. c \in Chunks
      BY DEF IInv, TypeOK
    <2>2. QED
      BY <1>2, <2>1 DEF Chunks
  <1>5. PICK t \in Tasks :
          /\ task' = [task EXCEPT ![w] = t]
          /\ t.at = "done" /\ t.job = task[w].job
    BY <1>1, <1>3, DoneType DEF Go, Step, IInv
  <1>6. TypeOK'
    BY <1>2, <1>3, <1>4, <1>5 DEF IInv, TypeOK, memories
  <1>7. Tasked' /\ Owed'
    <2>1. ASSUME NEW u \in Versions, Owes(task[w], u)
          PROVE  u \in normed'
      BY <1>3, <2>1, JobType DEF Owes
    <2>2. normed \subseteq normed' /\ UNCHANGED <<memories, queue, dead>>
          /\ t.job.of \in normed'
      BY <1>3, <1>5
    <2> HIDE DEF v, from, move
    <2>3. QED
      BY <1>5, <2>1, <2>2, TaskStep
  <1>8. ChunksSpeakForTheirVersion'
    <2>1. ASSUME NEW c \in chunks
          PROVE  /\ move(c).owner \in normed'
                 /\ move(c).text = text[move(c).owner]
      <3>1. c.owner \in normed /\ c.text = text[c.owner]
        BY DEF IInv, ChunksSpeakForTheirVersion
      <3>2. QED
        BY <1>2, <1>3, <1>4, <3>1
    <2>2. text' = text
      BY <1>3 DEF memories
    <2> HIDE DEF move
    <2>3. QED
      BY <1>3, <2>1, <2>2 DEF ChunksSpeakForTheirVersion
  <1>9. OneChunkingPerVersion'
    <2>1. ASSUME NEW c \in chunks, NEW d \in chunks, move(c).owner = move(d).owner
          PROVE  c = d
      <3>1. CASE c.owner = d.owner
        BY <3>1 DEF IInv, OneChunkingPerVersion
      <3>2. CASE c.owner # d.owner
        <4>1. \/ c.owner = from /\ d.owner = v
              \/ d.owner = from /\ c.owner = v
          BY <1>4, <2>1, <3>2
        <4>2. QED
          BY <1>3, <4>1 DEF ChunksOf
      <3>3. QED
        BY <3>1, <3>2
    <2> HIDE DEF move
    <2>2. QED
      BY <1>3, <2>1 DEF OneChunkingPerVersion
  <1>10. SomethingIsIndexed'
    <2>1. PICK c \in chunks : TRUE
      BY <1>2 DEF IInv, SomethingIsIndexed
    <2>2. move(c) \in chunks'
      BY <1>3
    <2>3. QED
      BY <2>2 DEF SomethingIsIndexed
  <1>11. QED
    BY <1>6, <1>7, <1>8, <1>9, <1>10 DEF IInv

\* New chunks come only where none are left (normalize.py _store, and the unique
\* index of memory_chunks).
LEMMA StoreIInv ==
  ASSUME IInv, NEW w \in Workers, Store(w)
  PROVE  IInv'
  <1> DEFINE v == task[w].job.of
             kept == {c \in chunks : c.id \notin task[w].doomed}
             new == [id |-> made + 1, owner |-> v, text |-> text[v], vector |-> FALSE]
  <1>1. /\ task[w] # Idle /\ task[w] \in Tasks
        /\ task[w].at = "insert" /\ task[w].job.kind = "normalize"
    BY DEF Store, Normalizing, Idle, IInv, TypeOK
  <1>2. task[w].job \in Jobs /\ v \in Versions
    BY <1>1, Fields DEF Jobs
  <1>3. /\ \A c \in kept : c.owner # v
        /\ chunks' = kept \cup {new}
        /\ normed' = normed \cup {v}
        /\ queue' = Enqueued(Job("embed", v))
        /\ made' = made + 1 /\ made < MaxChunk
        /\ UNCHANGED <<memories, dead>>
        /\ Go(w, "done")
    BY DEF Store
  <1>4. new \in Chunks /\ new.owner = v /\ new.text = text[v]
    <2>1. made + 1 \in ChunkIds
      BY <1>3, BoundsAssumption DEF IInv, TypeOK, ChunkIds
    <2>2. text[v] \in Texts
      BY <1>2 DEF IInv, TypeOK
    <2>3. QED
      BY <1>2, <2>1, <2>2 DEF Chunks
  <1>5. PICK t \in Tasks :
          /\ task' = [task EXCEPT ![w] = t]
          /\ t.at = "done" /\ t.job = task[w].job
    BY <1>1, <1>3, DoneType DEF Go, Step, IInv
  <1>6. queue' \in SUBSET Jobs /\ queue \subseteq queue'
    BY <1>2, <1>3, JobType, EnqueuedType
  <1>7. TypeOK'
    <2>1. made' \in 0..MaxChunk
      BY <1>3, BoundsAssumption DEF IInv, TypeOK
    <2>2. chunks' \in SUBSET Chunks
      BY <1>3, <1>4 DEF IInv, TypeOK
    <2> HIDE DEF v, kept, new
    <2>3. QED
      BY <1>2, <1>3, <1>5, <1>6, <2>1, <2>2 DEF IInv, TypeOK, memories
  <1>8. Tasked' /\ Owed'
    <2>1. ASSUME NEW u \in Versions, Owes(task[w], u)
          PROVE  u \in normed'
      BY <1>3, <2>1, JobType DEF Owes
    <2>2. normed \subseteq normed' /\ UNCHANGED <<memories, dead>> /\ t.job.of \in normed'
      BY <1>3, <1>5
    <2> HIDE DEF v, kept, new
    <2>3. QED
      BY <1>5, <1>6, <2>1, <2>2, TaskStep
  <1>9. ChunksSpeakForTheirVersion' /\ OneChunkingPerVersion'
        /\ SomethingIsIndexed'
    <2>1. kept \subseteq chunks /\ text' = text
      BY <1>3 DEF memories
    <2> HIDE DEF v, kept, new
    <2>2. QED
      BY <1>3, <1>4, <2>1
      DEF IInv, ChunksSpeakForTheirVersion, OneChunkingPerVersion, SomethingIsIndexed
  <1>10. QED
    BY <1>7, <1>8, <1>9 DEF IInv

\* Vectors change neither a chunk's owner nor its text (embed.py _write_vectors).
LEMMA EmbedWriteIInv ==
  ASSUME IInv, NEW w \in Workers, EmbedWrite(w)
  PROVE  IInv'
  <1> DEFINE filled(c) == IF c.id \in task[w].bare
                            THEN [c EXCEPT !.vector = TRUE] ELSE c
  <1>1. /\ task[w] # Idle /\ task[w] \in Tasks /\ task[w].at = "embed"
        /\ task[w].job.kind = "embed"
    BY DEF EmbedWrite, Idle, IInv, TypeOK, Tasked
  <1>2. /\ chunks' = {filled(c) : c \in chunks}
        /\ Go(w, "announce")
        /\ UNCHANGED <<memories, normed, made, queue, dead>>
    BY DEF EmbedWrite
  <1>3. ASSUME NEW c \in chunks
        PROVE  /\ filled(c) \in Chunks
               /\ filled(c).text = c.text /\ filled(c).owner = c.owner
    <2>1. c \in Chunks
      BY DEF IInv, TypeOK
    <2>2. QED
      BY <2>1 DEF Chunks
  <1> HIDE DEF filled
  <1>4. PICK t \in Tasks :
          /\ task' = [task EXCEPT ![w] = t]
          /\ t.at = "announce" /\ t.job = task[w].job
    BY <1>1, <1>2, DoneType DEF Go, Step, IInv
  <1>5. TypeOK'
    BY <1>2, <1>3, <1>4 DEF IInv, TypeOK, memories
  <1>6. Tasked' /\ Owed'
    <2>1. \A v \in Versions : ~Owes(task[w], v)
      BY <1>1, JobType DEF Owes
    <2>2. QED
      BY <1>1, <1>2, <1>4, <2>1, TaskStep
  <1>7. ChunksSpeakForTheirVersion' /\ OneChunkingPerVersion'
        /\ SomethingIsIndexed'
    BY <1>2, <1>3
    DEF IInv, memories, ChunksSpeakForTheirVersion, OneChunkingPerVersion,
        SomethingIsIndexed
  <1>8. QED
    BY <1>5, <1>6, <1>7 DEF IInv

-----------------------------------------------------------------------------
(* The item *)

\* The job for a new version is in the transaction of the version (ingest.py).
LEMMA IngestIInv ==
  ASSUME IInv, Ingest
  PROVE  IInv'
  <1>1. /\ newest' = newest + 1 /\ newest < MaxVersion
        /\ queue' = queue \cup {Job("normalize", newest + 1)}
        /\ UNCHANGED <<text, hidden, normed, chunks, made, dead, task>>
    BY DEF Ingest, store
  <1>2. newest' \in 0..MaxVersion /\ newest + 1 \in Versions
    BY <1>1, BoundsAssumption DEF IInv, TypeOK, Versions
  <1>3. TypeOK'
    BY <1>1, <1>2, JobType DEF IInv, TypeOK
  <1>4. Owed'
    <2> SUFFICES ASSUME NEW v \in 1..newest'
                 PROVE  \/ v \in normed \cup hidden
                        \/ Job("normalize", v) \in queue' \cup dead \/ InHand(v)
      BY <1>1 DEF Owed, InHand
    <2>1. v \in 1..newest \/ v = newest + 1
      BY <1>1 DEF IInv, TypeOK
    <2>2. QED
      BY <1>1, <2>1 DEF IInv, Owed
  <1>5. Tasked' /\ ChunksSpeakForTheirVersion' /\ OneChunkingPerVersion'
        /\ SomethingIsIndexed'
    BY <1>1 DEF IInv, Tasked, ChunksSpeakForTheirVersion, OneChunkingPerVersion,
       SomethingIsIndexed
  <1>6. QED
    BY <1>3, <1>4, <1>5 DEF IInv

\* A version that is hidden is owed nothing (normalize.py __call__ on deleted_at).
LEMMA HideIInv ==
  ASSUME IInv, Hide
  PROVE  IInv'
  <1>1. /\ newest > 0 /\ hidden' = hidden \cup {newest}
        /\ UNCHANGED <<text, newest, normed, chunks, made, queue, dead, task>>
    BY DEF Hide, store
  <1>2. newest \in Versions
    BY <1>1, BoundsAssumption DEF IInv, TypeOK, Versions
  <1>3. TypeOK'
    BY <1>1, <1>2 DEF IInv, TypeOK
  <1>4. Tasked' /\ Owed'
    BY <1>1 DEF IInv, Tasked, Owed, InHand
  <1>5. ChunksSpeakForTheirVersion' /\ OneChunkingPerVersion'
        /\ SomethingIsIndexed'
    BY <1>1 DEF IInv, ChunksSpeakForTheirVersion, OneChunkingPerVersion,
       SomethingIsIndexed
  <1>6. QED
    BY <1>3, <1>4, <1>5 DEF IInv

\* The backfill only adds to the queue (backfill.py).
LEMMA BackfillIInv ==
  ASSUME IInv, Backfill
  PROVE  IInv'
  <1>1. newest \in Versions
    BY BoundsAssumption DEF Backfill, IInv, TypeOK, Versions
  <1>2. queue' \in SUBSET Jobs /\ queue \subseteq queue'
    BY <1>1, JobType, EnqueuedType DEF Backfill
  <1>3. UNCHANGED <<memories, normed, chunks, made, dead, task>>
    BY DEF Backfill, store
  <1>4. TypeOK'
    BY <1>2, <1>3 DEF IInv, TypeOK, memories
  <1>5. Tasked' /\ Owed'
    BY <1>2, <1>3 DEF IInv, Tasked, Owed, InHand, memories
  <1>6. ChunksSpeakForTheirVersion' /\ OneChunkingPerVersion'
        /\ SomethingIsIndexed'
    BY <1>3 DEF IInv, ChunksSpeakForTheirVersion, OneChunkingPerVersion,
       SomethingIsIndexed, memories
  <1>7. QED
    BY <1>4, <1>5, <1>6 DEF IInv

-----------------------------------------------------------------------------
(* The theorems *)

\* Every step of every worker, and of the item (normalize.py, embed.py,
\* ingest.py, worker.py), keeps the invariant.
LEMMA NextIInv ==
  ASSUME IInv, [Next]_vars
  PROVE  IInv'
  <1>1. CASE Ingest
    BY <1>1, IngestIInv
  <1>2. CASE Hide
    BY <1>2, HideIInv
  <1>3. CASE Backfill
    BY <1>3, BackfillIInv
  <1>4. ASSUME NEW w \in Workers,
               Claim(w) \/ Complete(w) \/ Fail(w) \/ LoseLease(w)
        PROVE  IInv'
    BY <1>4, ClaimIInv, CompleteIInv, FailIInv, LoseLeaseIInv
  <1>5. ASSUME NEW w \in Workers,
               \/ NormalizeLoad(w) \/ FindAdoptable(w) \/ Adopt(w)
               \/ DeleteOld(w) \/ Store(w)
        PROVE  IInv'
    BY <1>5, NormalizeLoadIInv, FindAdoptableIInv, AdoptIInv, DeleteOldIInv, StoreIInv
  <1>6. ASSUME NEW w \in Workers,
               EmbedLoad(w) \/ EmbedWrite(w) \/ QueueExtraction(w)
        PROVE  IInv'
    BY <1>6, EmbedLoadIInv, EmbedWriteIInv, QueueExtractionIInv
  <1>7. CASE UNCHANGED vars
    BY <1>7 DEF vars, memories, store, IInv, TypeOK, Tasked, Owed, InHand,
       ChunksSpeakForTheirVersion, OneChunkingPerVersion, SomethingIsIndexed
  <1>8. QED
    BY <1>1, <1>2, <1>3, <1>4, <1>5, <1>6, <1>7 DEF Next

\* What the transactions of normalize.py and embed.py leave to each other, for
\* any number of workers, versions and chunks.
THEOREM Invariance == Spec => []IInv
  <1>1. Init => IInv
    BY InitIInv
  <1>2. IInv /\ [Next]_vars => IInv'
    BY NextIInv
  <1>3. QED
    BY <1>1, <1>2, PTL DEF Spec

\* Rows, jobs and the locals of a running handler have their types (normalize.py,
\* embed.py, models.py MemoryChunk).
THEOREM TypeCorrect == Spec => []TypeOK
  <1>1. IInv => TypeOK
    BY DEF IInv
  <1>2. QED
    BY <1>1, Invariance, PTL

\* Adoption moves a chunk only to a version that says the same, whatever other
\* workers commit between its two transactions (normalize.py
\* _adopt_from_previous_version).
THEOREM ChunksAreTrue == Spec => []ChunksSpeakForTheirVersion
  <1>1. IInv => ChunksSpeakForTheirVersion
    BY DEF IInv
  <1>2. QED
    BY <1>1, Invariance, PTL

\* Two runs of one NORMALIZE job, one of them without its lease, leave one set
\* of chunks (normalize.py _store, models.py MemoryChunk).
THEOREM ChunkedOnce == Spec => []OneChunkingPerVersion
  <1>1. IInv => OneChunkingPerVersion
    BY DEF IInv
  <1>2. QED
    BY <1>1, Invariance, PTL

\* What is searchable is replaced, never emptied (normalize.py _store).
THEOREM NeverEmptied == Spec => []SomethingIsIndexed
  <1>1. IInv => SomethingIsIndexed
    BY DEF IInv
  <1>2. QED
    BY <1>1, Invariance, PTL

\* A normalization that failed, died or lost its lease is in the queue again, or
\* in the dead letter, until its version has been normalized or hidden (ingest.py,
\* worker.py _retry_or_dead_letter).
THEOREM NothingForgotten == Spec => []NothingIsForgotten
  <1>1. IInv => NothingIsForgotten
    <2> SUFFICES ASSUME IInv, Quiet, newest > 0
                 PROVE  newest \in normed \cup hidden \/ Job("normalize", newest) \in dead
      BY DEF NothingIsForgotten
    <2>1. newest \in 1..newest /\ newest \in Versions
      BY BoundsAssumption DEF IInv, TypeOK, Versions
    <2>2. ~InHand(newest)
      BY DEF InHand, Owes, Quiet
    <2>3. Job("normalize", newest) \notin queue
      BY <2>1, JobType DEF Quiet
    <2>4. QED
      BY <2>1, <2>2, <2>3 DEF IInv, Owed
  <1>2. QED
    BY <1>1, Invariance, PTL

-----------------------------------------------------------------------------
(* Pipeline implements JobHandout *)

\* No job is for a version that has not been ingested yet.
JobsAreOfVersions ==
  /\ \A j \in queue : j.of \in 1..newest
  /\ \A w \in Workers : task[w] # Idle => task[w].job.of \in 1..newest

HInv == IInv /\ JobsAreOfVersions

\* A worker that goes on with the job and the lease it has, to t, while at most
\* one job is queued.
GoesOn(w, t, S) ==
  /\ task[w] # Idle /\ t # Idle
  /\ t.job = task[w].job /\ t.held = task[w].held
  /\ task' = [task EXCEPT ![w] = t]
  /\ newest' = newest
  /\ queue' = queue \cup S

\* What is to be queued for the version in hand; nothing, if it waits or runs.
ToQueue(j) == IF j \in queue \/ IsRunning(j) THEN {} ELSE {j}

\* Every transaction of a handler is such a step.
LEMMA HandlerStep ==
  ASSUME IInv, NEW w \in Workers,
         \/ NormalizeLoad(w) \/ FindAdoptable(w) \/ Adopt(w) \/ DeleteOld(w) \/ Store(w)
         \/ EmbedLoad(w) \/ EmbedWrite(w) \/ QueueExtraction(w)
  PROVE  \E t : \/ GoesOn(w, t, {})
                \/ \E kind \in {"embed", "extract"} :
                     GoesOn(w, t, ToQueue(Job(kind, task[w].job.of)))
  <1>1. task[w] # Idle
    BY DEF NormalizeLoad, FindAdoptable, Adopt, DeleteOld, Store, Normalizing, EmbedLoad,
           EmbedWrite, QueueExtraction, Idle
  <1>2. ASSUME NEW at \in {"load", "parsed", "store", "announce", "done"}, Go(w, at),
               queue' = queue, newest' = newest
        PROVE  \E t : GoesOn(w, t, {})
    <2>1. [at |-> at, job |-> task[w].job, held |-> task[w].held] # Idle
      BY <1>1, GoType DEF IInv
    <2>2. QED
      BY <1>1, <1>2, <2>1 DEF GoesOn, Go, Step
  <1>3. ASSUME NEW kind \in {"embed", "extract"}, Go(w, "done"),
               queue' = Enqueued(Job(kind, task[w].job.of)), newest' = newest
        PROVE  \E t : GoesOn(w, t, ToQueue(Job(kind, task[w].job.of)))
    <2>1. [at |-> "done", job |-> task[w].job, held |-> task[w].held] # Idle
      BY <1>1, GoType DEF IInv
    <2>2. queue' = queue \cup ToQueue(Job(kind, task[w].job.of))
      BY <1>3 DEF Enqueued, ToQueue
    <2>3. QED
      BY <1>1, <1>3, <2>1, <2>2 DEF GoesOn, Go, Step
  <1>4. ASSUME NEW t, t.at # "idle", t.job = task[w].job, t.held = task[w].held,
               Step(w, t), queue' = queue, newest' = newest
        PROVE  GoesOn(w, t, {})
    BY <1>1, <1>4 DEF GoesOn, Step, Idle
  <1>5. CASE NormalizeLoad(w)
    BY <1>2, <1>5 DEF NormalizeLoad, memories
  <1>6. CASE FindAdoptable(w)
    <2>1. CASE \E u \in Adoptable(task[w].job.of) :
                 Step(w, [at |-> "adopt", job |-> task[w].job, held |-> task[w].held,
                          from |-> u])
      BY <1>4, <1>6, <2>1 DEF FindAdoptable, memories
    <2>2. CASE Go(w, "store")
      BY <1>2, <1>6, <2>2 DEF FindAdoptable, memories
    <2>3. QED
      BY <1>6, <2>1, <2>2 DEF FindAdoptable
  <1>7. CASE Adopt(w)
    BY <1>2, <1>7 DEF Adopt, memories
  <1>8. CASE Store(w)
    BY <1>3, <1>8 DEF Store, memories
  <1>9. CASE EmbedLoad(w)
    <2> DEFINE bare == {c.id : c \in {c \in ChunksOf(task[w].job.of) : ~c.vector}}
    <2>1. CASE Go(w, "done")
      BY <1>2, <1>9, <2>1 DEF EmbedLoad, memories
    <2>2. CASE Step(w, [at |-> "embed", job |-> task[w].job, held |-> task[w].held,
                        bare |-> bare])
      BY <1>4, <1>9, <2>2 DEF EmbedLoad, memories
    <2>3. QED
      BY <1>9, <2>1, <2>2 DEF EmbedLoad
  <1>10. CASE EmbedWrite(w)
    BY <1>2, <1>10 DEF EmbedWrite, memories
  <1>11. CASE QueueExtraction(w)
    BY <1>3, <1>11 DEF QueueExtraction, memories
  <1>12. CASE DeleteOld(w)
    BY <1>4, <1>12 DEF DeleteOld, memories
  <1>13. QED
    BY <1>5, <1>6, <1>7, <1>8, <1>9, <1>10, <1>11, <1>12

\* Which jobs are of versions, after a step that queues S and leaves w with t.
LEMMA JobsKept ==
  ASSUME HInv, NEW S, NEW w \in Workers, NEW t,
         task' = [task EXCEPT ![w] = t], queue' \subseteq queue \cup S,
         newest' = newest, \A j \in S : j.of \in 1..newest,
         t # Idle => t.job.of \in 1..newest
  PROVE  JobsAreOfVersions'
  BY DEF HInv, IInv, TypeOK, JobsAreOfVersions

LEMMA GoesOnKept ==
  ASSUME HInv, NEW w \in Workers, NEW t, NEW S, GoesOn(w, t, S),
         \A j \in S : j.of \in 1..newest
  PROVE  JobsAreOfVersions'
  <1>1. task[w].job.of \in 1..newest
    BY DEF GoesOn, HInv, JobsAreOfVersions
  <1>2. QED
    BY <1>1, JobsKept DEF GoesOn

\* Every step queues jobs of versions there are (ingest.py, normalize.py,
\* embed.py: the version is read, or made, in the transaction that queues).
LEMMA JobsStep ==
  ASSUME HInv, [Next]_vars
  PROVE  JobsAreOfVersions'
  <1>0. newest \in 0..MaxVersion /\ MaxVersion \in Nat
    BY BoundsAssumption DEF HInv, IInv, TypeOK
  <1>1. CASE Ingest
    <2>1. newest + 1 \in Versions
      BY <1>0, <1>1 DEF Ingest, Versions
    <2>2. Job("normalize", newest + 1).of = newest + 1
      BY <2>1, JobType
    <2>3. 1..newest \subseteq 1..newest' /\ newest + 1 \in 1..newest'
      BY <1>0, <1>1 DEF Ingest
    <2>4. QED
      BY <1>1, <2>2, <2>3 DEF Ingest, HInv, JobsAreOfVersions
  <1>2. CASE Hide
    BY <1>2 DEF Hide, HInv, JobsAreOfVersions
  <1>3. CASE Backfill
    <2>1. newest \in Versions /\ newest \in 1..newest
      BY <1>0, <1>3 DEF Backfill, Versions
    <2>2. Job("embed", newest).of = newest
      BY <2>1, JobType
    <2>3. queue' \subseteq queue \cup {Job("embed", newest)} /\ task' = task /\ newest' = newest
      BY <1>3 DEF Backfill, Enqueued, memories
    <2>4. QED
      BY <2>1, <2>2, <2>3 DEF HInv, JobsAreOfVersions
  <1>4. ASSUME NEW w \in Workers, Claim(w)
        PROVE  JobsAreOfVersions'
    <2>1. PICK j \in queue : /\ queue' = queue \ {j}
                             /\ Step(w, [at |-> "load", job |-> j, held |-> TRUE])
      BY <1>4 DEF Claim
    <2> DEFINE t == [at |-> "load", job |-> j, held |-> TRUE]
    <2>2. t.job.of \in 1..newest
      BY DEF HInv, JobsAreOfVersions
    <2>3. /\ task' = [task EXCEPT ![w] = t] /\ newest' = newest
          /\ queue' \subseteq queue
      BY <1>4, <2>1 DEF Claim, Step, memories
    <2> HIDE DEF t
    <2>4. \A i \in queue' : i.of \in 1..newest'
      BY <2>3 DEF HInv, JobsAreOfVersions
    <2>5. ASSUME NEW u \in Workers, task'[u] # Idle
          PROVE  task'[u].job.of \in 1..newest'
      <3>1. task'[u] = IF u = w THEN t ELSE task[u]
        BY <2>3 DEF HInv, IInv, TypeOK
      <3>2. CASE u = w
        BY <2>2, <2>3, <3>1, <3>2
      <3>3. CASE u # w
        BY <2>3, <2>5, <3>1, <3>3 DEF HInv, JobsAreOfVersions
      <3>4. QED
        BY <3>2, <3>3
    <2>6. QED
      BY <2>4, <2>5 DEF JobsAreOfVersions
  <1>5. ASSUME NEW w \in Workers, Complete(w) \/ Fail(w)
        PROVE  JobsAreOfVersions'
    <2>1. task[w] # Idle
      BY <1>5 DEF Complete, Fail, Idle
    <2>2. task[w].job.of \in 1..newest
      BY <2>1 DEF HInv, JobsAreOfVersions
    <2>3. /\ task' = [task EXCEPT ![w] = Idle] /\ newest' = newest
          /\ queue' \subseteq queue \cup {task[w].job}
      BY <1>5 DEF Complete, Fail, TryAgainOrBury, Step, memories
    <2>4. QED
      BY <2>2, <2>3, JobsKept
  <1>6. ASSUME NEW w \in Workers, LoseLease(w)
        PROVE  JobsAreOfVersions'
    <2> DEFINE t == [task[w] EXCEPT !.held = FALSE]
    <2>1. task[w] \in Tasks /\ task[w] # Idle
      BY <1>6 DEF LoseLease, HInv, IInv, TypeOK
    <2>2. t.job = task[w].job
      BY <2>1 DEF Tasks, Plain, Adopting, Storing, Embedding
    <2>3. task[w].job.of \in 1..newest
      BY <2>1 DEF HInv, JobsAreOfVersions
    <2>4. /\ task' = [task EXCEPT ![w] = t] /\ newest' = newest
          /\ queue' \subseteq queue \cup {task[w].job}
      BY <1>6 DEF LoseLease, TryAgainOrBury, memories
    <2> HIDE DEF t
    <2>5. QED
      BY <2>2, <2>3, <2>4, JobsKept
  <1>7. ASSUME NEW w \in Workers,
               \/ NormalizeLoad(w) \/ FindAdoptable(w) \/ Adopt(w) \/ DeleteOld(w) \/ Store(w)
               \/ EmbedLoad(w) \/ EmbedWrite(w) \/ QueueExtraction(w)
        PROVE  JobsAreOfVersions'
    <2>1. ASSUME NEW t, GoesOn(w, t, {})
          PROVE  JobsAreOfVersions'
      BY <2>1, GoesOnKept
    <2>2. ASSUME NEW t, NEW kind \in {"embed", "extract"},
                 GoesOn(w, t, ToQueue(Job(kind, task[w].job.of)))
          PROVE  JobsAreOfVersions'
      <3>1. task[w] # Idle /\ task[w].job.of \in 1..newest
        BY <2>2 DEF GoesOn, HInv, JobsAreOfVersions
      <3>2. task[w].job.of \in Versions
        BY <1>0, <3>1 DEF Versions
      <3>3. \A j \in ToQueue(Job(kind, task[w].job.of)) : j.of \in 1..newest
        BY <3>1, <3>2, JobType DEF ToQueue
      <3>4. QED
        BY <2>2, <3>3, GoesOnKept
    <2>3. QED
      BY <1>7, <2>1, <2>2, HandlerStep DEF HInv
  <1>8. CASE UNCHANGED vars
    BY <1>8 DEF vars, memories, HInv, JobsAreOfVersions
  <1>9. QED
    BY <1>1, <1>2, <1>3, <1>4, <1>5, <1>6, <1>7, <1>8 DEF Next

\* A job runs under a lease if some worker holds it.
LEMMA RunningIsHeld ==
  ASSUME NEW j
  PROVE  IsRunning(j) <=> j \in Handout!Holding(Workers)
  <1>1. \A w \in Workers : j \in Held[w] <=> task[w] # Idle /\ task[w].job = j /\ task[w].held
    BY DEF Held
  <1>2. QED
    BY <1>1 DEF IsRunning, Handout!Holding

\* A job that is queued, unless it waits or runs, is asked for.
LEMMA QueuingAsks ==
  ASSUME NEW j \in Jobs, queue' = queue \cup ToQueue(j), Held' = Held
  PROVE  Handout!Ask
  <1>1. ToQueue(j) \subseteq Jobs \ Handout!Holding(Workers)
    BY RunningIsHeld DEF ToQueue
  <1>2. QED
    BY <1>1 DEF Handout!Ask

\* Who has what, after a step that leaves w with t.
LEMMA HeldBy ==
  ASSUME TypeOK, NEW w \in Workers, NEW t, task' = [task EXCEPT ![w] = t]
  PROVE  Held' = [Held EXCEPT ![w] = IF t # Idle /\ t.held THEN {t.job} ELSE {}]
  BY DEF TypeOK, Held

\* A worker that is left without its lease has given up what it held; what was
\* not over waits again.
LEMMA GivingUp ==
  ASSUME TypeOK, NEW w \in Workers, NEW t, NEW over,
         task' = [task EXCEPT ![w] = t], t = Idle \/ ~t.held,
         queue' = queue \cup (Held[w] \ over)
  PROVE  \E W \in SUBSET Workers : Handout!GiveUp(W)
  <1>1. Held' = [Held EXCEPT ![w] = {}]
    BY HeldBy
  <1>2. Held' = [v \in Workers |-> IF v \in {w} THEN {} ELSE Held[v]]
    BY <1>1 DEF Held
  <1>3. Handout!Holding({w}) = Held[w]
    BY DEF Handout!Holding
  <1>4. Handout!GiveUp({w})
    BY <1>2, <1>3 DEF Handout!GiveUp
  <1>5. QED
    BY <1>4

\* Every step of the pipeline asks for work, claims it, gives it up, or is
\* nothing to the queue.
LEMMA StepTakes ==
  ASSUME HInv, [Next]_vars
  PROVE  [Handout!Next]_(Handout!vars)
  <1>0. TypeOK /\ newest \in 0..MaxVersion /\ MaxVersion \in Nat
    BY BoundsAssumption DEF HInv, IInv, TypeOK
  <1>1. ASSUME NEW j \in Jobs, queue' = queue \cup ToQueue(j), Held' = Held
        PROVE  Handout!Next
    BY <1>1, QueuingAsks DEF Handout!Next
  <1>2. CASE Ingest
    <2> DEFINE j == Job("normalize", newest + 1)
    <2>1. j \in Jobs /\ j.of \notin 1..newest
      BY <1>0, <1>2, JobType DEF Ingest, Versions
    <2>2. j \notin queue /\ ~IsRunning(j)
      BY <2>1 DEF HInv, JobsAreOfVersions, IsRunning
    <2>3. queue' = queue \cup ToQueue(j) /\ task' = task
      BY <1>2, <2>2 DEF Ingest, ToQueue
    <2>4. Held' = Held
      BY <2>3 DEF Held
    <2>5. QED
      BY <1>1, <2>1, <2>3, <2>4
  <1>3. CASE Hide \/ UNCHANGED vars
    <2>1. queue' = queue /\ task' = task
      BY <1>3 DEF Hide, vars
    <2>2. Held' = Held
      BY <2>1 DEF Held
    <2>3. QED
      BY <2>1, <2>2 DEF Handout!vars
  <1>4. CASE Backfill
    <2> DEFINE j == Job("embed", newest)
    <2>1. j \in Jobs
      BY <1>0, <1>4, JobType DEF Backfill, Versions
    <2>2. queue' = queue \cup ToQueue(j) /\ task' = task
      BY <1>4 DEF Backfill, Enqueued, ToQueue
    <2>3. Held' = Held
      BY <2>2 DEF Held
    <2>4. QED
      BY <1>1, <2>1, <2>2, <2>3
  <1>5. ASSUME NEW w \in Workers, Claim(w)
        PROVE  Handout!Next
    <2>1. PICK j \in queue : /\ queue' = queue \ {j}
                             /\ Step(w, [at |-> "load", job |-> j, held |-> TRUE])
      BY <1>5 DEF Claim
    <2> DEFINE t == [at |-> "load", job |-> j, held |-> TRUE]
    <2>2. t # Idle /\ t.held /\ t.job = j
      BY DEF Idle
    <2>3. task' = [task EXCEPT ![w] = t]
      BY <2>1 DEF Step
    <2> HIDE DEF t
    <2>4. Held' = [Held EXCEPT ![w] = {j}]
      BY <1>0, <2>2, <2>3, HeldBy
    <2>5. Held[w] = {}
      BY <1>5 DEF Claim, Held
    <2>6. Handout!Claim(w, j) /\ j \in Jobs
      BY <1>0, <2>1, <2>4, <2>5 DEF Handout!Claim, TypeOK
    <2>7. QED
      BY <2>6 DEF Handout!Next
  <1>6. ASSUME NEW w \in Workers, Complete(w)
        PROVE  Handout!Next
    <2>1. task' = [task EXCEPT ![w] = Idle] /\ queue' = queue \cup (Held[w] \ Held[w])
      BY <1>6 DEF Complete, Step
    <2>2. QED
      BY <1>0, <2>1, GivingUp DEF Handout!Next
  <1>7. ASSUME NEW w \in Workers, Fail(w)
        PROVE  Handout!Next
    <2>1. task' = [task EXCEPT ![w] = Idle]
      BY <1>7 DEF Fail, Step
    <2>2. \/ queue' = queue \cup (Held[w] \ {})
          \/ queue' = queue \cup (Held[w] \ Held[w])
      BY <1>7 DEF Fail, TryAgainOrBury, Held
    <2>3. QED
      BY <1>0, <2>1, <2>2, GivingUp DEF Handout!Next
  <1>8. ASSUME NEW w \in Workers, LoseLease(w)
        PROVE  Handout!Next
    <2> DEFINE t == [task[w] EXCEPT !.held = FALSE]
    <2>1. task[w] \in Tasks /\ task[w] # Idle
      BY <1>0, <1>8 DEF LoseLease, TypeOK
    <2>2. ~t.held
      BY <2>1 DEF Tasks, Plain, Adopting, Storing, Embedding
    <2>3. task' = [task EXCEPT ![w] = t]
      BY <1>8 DEF LoseLease
    <2>4. \/ queue' = queue \cup (Held[w] \ {})
          \/ queue' = queue \cup (Held[w] \ Held[w])
      BY <1>8 DEF LoseLease, TryAgainOrBury, Held
    <2> HIDE DEF t
    <2>5. QED
      BY <1>0, <2>2, <2>3, <2>4, GivingUp DEF Handout!Next
  <1>9. ASSUME NEW w \in Workers, NEW t, NEW S, GoesOn(w, t, S)
        PROVE  Held' = Held
    <2>1. Held' = [Held EXCEPT ![w] = IF t # Idle /\ t.held THEN {t.job} ELSE {}]
      BY <1>0, <1>9, HeldBy DEF GoesOn
    <2>2. Held[w] = IF t # Idle /\ t.held THEN {t.job} ELSE {}
      BY <1>9 DEF GoesOn, Held
    <2>3. QED
      BY <2>1, <2>2 DEF Held
  <1>10. ASSUME NEW w \in Workers,
                \/ NormalizeLoad(w) \/ FindAdoptable(w) \/ Adopt(w) \/ DeleteOld(w) \/ Store(w)
                \/ EmbedLoad(w) \/ EmbedWrite(w) \/ QueueExtraction(w)
         PROVE  [Handout!Next]_(Handout!vars)
    <2>1. ASSUME NEW t, GoesOn(w, t, {})
          PROVE  [Handout!Next]_(Handout!vars)
      <3>1. Held' = Held /\ queue' = queue
        BY <1>9, <2>1 DEF GoesOn
      <3>2. QED
        BY <3>1 DEF Handout!vars
    <2>2. ASSUME NEW t, NEW kind \in {"embed", "extract"},
                 GoesOn(w, t, ToQueue(Job(kind, task[w].job.of)))
          PROVE  Handout!Next
      <3>1. task[w].job.of \in Versions
        BY <1>0, <2>2 DEF GoesOn, HInv, JobsAreOfVersions, Versions
      <3>2. Job(kind, task[w].job.of) \in Jobs
        BY <3>1, JobType
      <3>3. queue' = queue \cup ToQueue(Job(kind, task[w].job.of)) /\ Held' = Held
        BY <1>9, <2>2 DEF GoesOn
      <3>4. QED
        BY <1>1, <3>2, <3>3
    <2>3. QED
      BY <1>10, <2>1, <2>2, HandlerStep DEF HInv
  <1>11. QED
    BY <1>2, <1>3, <1>4, <1>5, <1>6, <1>7, <1>8, <1>10 DEF Next

LEMMA JobsAlways == Spec => []HInv
  <1>1. Init => JobsAreOfVersions
    BY DEF Init, JobsAreOfVersions
  <1>2. HInv /\ [Next]_vars => JobsAreOfVersions'
    BY JobsStep
  <1>3. QED
    BY <1>1, <1>2, Invariance, PTL DEF Spec, HInv

\* Every step of Pipeline on the queue is one that JobHandout allows, as is every
\* step of JobQueue's (normalize.py, embed.py, job_queue.py; JobQueueProofs!HandsOut).
THEOREM Takes == Spec => TakesHandout
  <1>1. Init => Handout!Init
    BY DEF Init, Handout!Init, Held
  <1>2. HInv /\ [Next]_vars => [Handout!Next]_(Handout!vars)
    BY StepTakes
  <1>3. QED
    BY <1>1, <1>2, JobsAlways, PTL DEF Spec, TakesHandout, Handout!Spec

\* No job is in the hands of two workers that have its lease, or waits while one
\* has it, whoever lost a lease before (job_queue.py enqueue_in, reclaim_expired).
THEOREM OneLeaseEach == Spec => []Handout!Exclusive
  <1>1. Handout!Init => Handout!Exclusive
    BY DEF Handout!Init, Handout!Exclusive
  <1>2. ASSUME Handout!Exclusive, [Handout!Next]_(Handout!vars)
        PROVE  Handout!Exclusive'
    <2> USE DEF Handout!Exclusive
    <2>1. ASSUME Handout!Ask
          PROVE  Handout!Exclusive'
      <3>1. \A w \in Workers : Held[w] \subseteq Handout!Holding(Workers)
        BY DEF Handout!Holding
      <3>2. QED
        BY <1>2, <2>1, <3>1 DEF Handout!Ask
    <2>2. ASSUME NEW w \in Workers, NEW j \in Jobs, Handout!Claim(w, j)
          PROVE  Handout!Exclusive'
      <3>1. \A v \in Workers : Held'[v] = IF v = w THEN {j} ELSE Held[v]
        BY <2>2 DEF Handout!Claim, Held
      <3>2. queue' = queue \ {j} /\ j \in queue
        BY <2>2 DEF Handout!Claim
      <3>3. QED
        BY <1>2, <3>1, <3>2
    <2>3. ASSUME NEW W \in SUBSET Workers, Handout!GiveUp(W)
          PROVE  Handout!Exclusive'
      <3>1. \A v \in Workers : Held'[v] = IF v \in W THEN {} ELSE Held[v]
        BY <2>3 DEF Handout!GiveUp
      <3>2. queue' \subseteq queue \cup Handout!Holding(W)
        BY <2>3 DEF Handout!GiveUp
      <3>3. \A v \in Workers \ W : Held[v] \cap Handout!Holding(W) = {}
        BY <1>2 DEF Handout!Holding
      <3>4. QED
        BY <1>2, <3>1, <3>2, <3>3
    <2>4. CASE UNCHANGED Handout!vars
      BY <1>2, <2>4 DEF Handout!vars
    <2>5. QED
      BY <1>2, <2>1, <2>2, <2>3, <2>4 DEF Handout!Next
  <1>3. QED
    BY <1>1, <1>2, Takes, PTL DEF TakesHandout, Handout!Spec

=============================================================================
