------------------------------ MODULE Pipeline ------------------------------
(***************************************************************************)
(* What the workers make of one item: NORMALIZE_MEMORY turns a version's   *)
(* bytes into chunks (application/normalize.py), EMBED_MEMORY gives the    *)
(* chunks their vectors (application/embed.py) and queues extraction.      *)
(*                                                                         *)
(* A version is its number; the chunks of a document are made, moved and   *)
(* removed together and are one chunk here.  Each transaction is an        *)
(* action.  What a transaction has read before others committed, and does  *)
(* not look at again, is in the task of its worker: two versions share no  *)
(* row, so their transactions do not wait for each other.                  *)
(*                                                                         *)
(* Of the queue (see JobQueue) only what matters to a handler is kept: a   *)
(* job waits, in no particular order, since failures and backoff undo any; *)
(* it runs; when its run ended badly it waits again or is dead-lettered.   *)
(* Attempts are not counted: any bad end may be the last.  A worker that   *)
(* lost its lease may go on for a while beside the one that took over.     *)
(***************************************************************************)
EXTENDS Integers, FiniteSets

CONSTANTS
  MaxVersion,  \* bound: versions of the item
  Texts,       \* normalized texts (normalized_hash)
  Workers,
  MaxChunk,    \* bound: chunks made altogether
  MaxDead      \* bound: jobs dead-lettered

ASSUME BoundsAssumption ==
  /\ MaxVersion \in Nat \ {0}
  /\ MaxChunk \in Nat \ {0}
  /\ MaxDead \in Nat \ {0}

Versions == 1..MaxVersion
ChunkIds == 1..MaxChunk

VARIABLES
  text,        \* what the bytes of each version normalize to
  newest,      \* versions so far; the newest is the current one
  hidden,      \* versions with deleted_at set
  normed,      \* versions with normalized_hash set
  chunks,      \* memory_chunks
  made,        \* chunks made so far
  queue,       \* jobs pending
  dead,        \* jobs of which a row has been dead-lettered
  task         \* what each worker is doing

memories == <<text, newest, hidden>>
store == <<normed, chunks, made>>
vars == <<memories, store, queue, dead, task>>

Jobs == [kind : {"normalize", "embed", "extract"}, of : Versions]
Job(kind, v) == [kind |-> kind, of |-> v]

Chunks == [id : ChunkIds, owner : Versions, text : Texts, vector : BOOLEAN]

\* `held` is FALSE once the lease is lost.
Idle == [at |-> "idle"]
Plain == [at : {"load", "parsed", "store", "announce", "done"}, job : Jobs, held : BOOLEAN]
Adopting == [at : {"adopt"}, job : Jobs, held : BOOLEAN, from : Versions]
Storing == [at : {"insert"}, job : Jobs, held : BOOLEAN, doomed : SUBSET ChunkIds]
Embedding == [at : {"embed"}, job : Jobs, held : BOOLEAN, bare : SUBSET ChunkIds]

Tasks == {Idle} \cup Plain \cup Adopting \cup Storing \cup Embedding

TypeOK ==
  /\ text \in [Versions -> Texts]
  /\ newest \in 0..MaxVersion
  /\ hidden \in SUBSET Versions
  /\ normed \in SUBSET Versions
  /\ chunks \in SUBSET Chunks
  /\ made \in 0..MaxChunk
  /\ queue \in SUBSET Jobs
  /\ dead \in SUBSET Jobs
  /\ task \in [Workers -> Tasks]

Init ==
  /\ text \in [Versions -> Texts]
  /\ newest = 0
  /\ hidden = {}
  /\ normed = {}
  /\ chunks = {}
  /\ made = 0
  /\ queue = {}
  /\ dead = {}
  /\ task = [w \in Workers |-> Idle]

-----------------------------------------------------------------------------

ChunksOf(v) == {c \in chunks : c.owner = v}

\* Mutant: the dedupe key keeps a second one out only while the job waits.
EnqueuedBeside(j) == queue \cup {j}

\* The dedupe key of a job keeps a second one out while it waits or runs; a dead
\* row keeps none out.
IsRunning(j) == \E w \in Workers : task[w] # Idle /\ task[w].job = j /\ task[w].held
Enqueued(j) == IF IsRunning(j) THEN queue ELSE queue \cup {j}

Step(w, t) == task' = [task EXCEPT ![w] = t]
Go(w, at) == Step(w, [at |-> at, job |-> task[w].job, held |-> task[w].held])

-----------------------------------------------------------------------------
(* The item *)

\* A new version, by a sync or a restore, and its job.
Ingest ==
  /\ newest < MaxVersion
  /\ newest' = newest + 1
  /\ queue' = queue \cup {Job("normalize", newest + 1)}
  /\ UNCHANGED <<text, hidden, store, dead, task>>

Hide ==
  /\ newest > 0
  /\ newest \notin hidden
  /\ hidden' = hidden \cup {newest}
  /\ UNCHANGED <<text, newest, store, queue, dead, task>>

-----------------------------------------------------------------------------
(* Jobs *)

Claim(w) ==
  /\ task[w] = Idle
  /\ \E j \in queue :
       /\ j.kind # "extract"
       /\ queue' = queue \ {j}
       /\ Step(w, [at |-> "load", job |-> j, held |-> TRUE])
  /\ UNCHANGED <<memories, store, dead>>

\* The handler has returned.  A worker without the lease moves no row.
Complete(w) ==
  /\ task[w].at = "done"
  /\ Step(w, Idle)
  /\ UNCHANGED <<memories, store, queue, dead>>

\* Mutant: a job whose run fails is gone, as if it had been done.
GivesUp(j) == UNCHANGED <<queue, dead>>

\* A run that ended badly: the job is tried again; or it is dead-lettered, after
\* its last attempt, or at once when trying again cannot help.
TryAgainOrBury(j) ==
  \/ queue' = queue \cup {j} /\ dead' = dead
  \/ /\ Cardinality(dead \cup {j}) <= MaxDead
     /\ queue' = queue /\ dead' = dead \cup {j}

\* The handler raised, or the worker died and the sweep found its lease lapsed.
Fail(w) ==
  /\ task[w] # Idle
  /\ IF task[w].held THEN TryAgainOrBury(task[w].job) ELSE UNCHANGED <<queue, dead>>
  /\ Step(w, Idle)
  /\ UNCHANGED <<memories, store>>

\* The sweep settles the job while its worker is still at it.
LoseLease(w) ==
  /\ task[w] # Idle /\ task[w].held
  /\ TryAgainOrBury(task[w].job)
  /\ task' = [task EXCEPT ![w].held = FALSE]
  /\ UNCHANGED <<memories, store>>

-----------------------------------------------------------------------------
(* NORMALIZE_MEMORY *)

Normalizing(w, at) == task[w].at = at /\ task[w].job.kind = "normalize"

\* A tombstoned version is left alone; one whose chunks are there needs nothing.
NormalizeLoad(w) ==
  /\ Normalizing(w, "load")
  /\ LET v == task[w].job.of
     IN Go(w, IF v \in hidden \/ (v \in normed /\ ChunksOf(v) # {})
                THEN "done" ELSE "parsed")
  /\ UNCHANGED <<memories, store, queue, dead>>

\* Mutant: any other version of the item will do.
TwinsByKey(v) == normed \ {v}

\* The other versions with the same text; the newest of them has chunks to give,
\* or none of them has.
Twins(v) == {u \in normed \ {v} : text[u] = text[v]}
Adoptable(v) ==
  {u \in Twins(v) : (\A t \in Twins(v) : t <= u) /\ ChunksOf(u) # {}}

FindAdoptable(w) ==
  /\ Normalizing(w, "parsed")
  /\ \/ \E u \in Adoptable(task[w].job.of) :
          Step(w, [at |-> "adopt", job |-> task[w].job, held |-> task[w].held,
                   from |-> u])
     \/ Adoptable(task[w].job.of) = {} /\ Go(w, "store")
  /\ UNCHANGED <<memories, store, queue, dead>>

\* The chunks move, vectors and all, if nobody has taken them meanwhile.
Adopt(w) ==
  /\ Normalizing(w, "adopt")
  /\ LET v == task[w].job.of
         from == task[w].from
     IN /\ ChunksOf(from) = {} \/ ChunksOf(v) = {}
        /\ chunks' = {IF c.owner = from THEN [c EXCEPT !.owner = v] ELSE c :
                        c \in chunks}
        /\ normed' = normed \cup {v}
  /\ Go(w, "done")
  /\ UNCHANGED <<memories, made, queue, dead>>

\* Mutant: the old chunks go in a transaction before the one with the new.
ClearFirst(w) ==
  /\ Normalizing(w, "store")
  /\ Step(w, [at |-> "insert", job |-> task[w].job, held |-> task[w].held,
              doomed |-> {}])
  /\ chunks' = {}
  /\ UNCHANGED <<memories, normed, made, queue, dead>>

\* The first half of the transaction that stores: the rows that its delete finds,
\* all there are of the item by then.
DeleteOld(w) ==
  /\ Normalizing(w, "store")
  /\ Step(w, [at |-> "insert", job |-> task[w].job, held |-> task[w].held,
              doomed |-> {c.id : c \in chunks}])
  /\ UNCHANGED <<memories, store, queue, dead>>

\* Mutant: the chunks of other versions go, those of the version itself stay.
StoreBeside(w) ==
  /\ Normalizing(w, "insert")
  /\ made < MaxChunk
  /\ LET v == task[w].job.of
     IN /\ chunks' = {c \in chunks : c.id \notin task[w].doomed \/ c.owner = v}
                     \cup {[id |-> made + 1, owner |-> v, text |-> text[v],
                            vector |-> FALSE]}
        /\ normed' = normed \cup {v}
        /\ queue' = Enqueued(Job("embed", v))
  /\ made' = made + 1
  /\ Go(w, "done")
  /\ UNCHANGED <<memories, dead>>

\* The second half, and its commit: the rows that were found, wherever they have
\* moved, make room for new ones without vectors.  The unique index keeps out a
\* second set, of a run of the same job that committed in between.
Store(w) ==
  /\ Normalizing(w, "insert")
  /\ made < MaxChunk
  /\ LET v == task[w].job.of
         kept == {c \in chunks : c.id \notin task[w].doomed}
     IN /\ \A c \in kept : c.owner # v
        /\ chunks' = kept \cup {[id |-> made + 1, owner |-> v,
                                 text |-> text[v], vector |-> FALSE]}
        /\ normed' = normed \cup {v}
        /\ queue' = Enqueued(Job("embed", v))
  /\ made' = made + 1
  /\ Go(w, "done")
  /\ UNCHANGED <<memories, dead>>

-----------------------------------------------------------------------------
(* EMBED_MEMORY *)

\* The chunks without a vector are read; a version that is hidden, or has none,
\* needs nothing, and nothing is queued after it either.
EmbedLoad(w) ==
  /\ task[w].at = "load" /\ task[w].job.kind = "embed"
  /\ LET v == task[w].job.of
         bare == {c.id : c \in {c \in ChunksOf(v) : ~c.vector}}
     IN IF v \in hidden \/ bare = {}
          THEN Go(w, "done")
          ELSE Step(w, [at |-> "embed", job |-> task[w].job,
                        held |-> task[w].held, bare |-> bare])
  /\ UNCHANGED <<memories, store, queue, dead>>

\* By chunk id, whoever owns the chunk by now, if it still exists.
EmbedWrite(w) ==
  /\ task[w].at = "embed"
  /\ chunks' = {IF c.id \in task[w].bare THEN [c EXCEPT !.vector = TRUE] ELSE c :
                  c \in chunks}
  /\ Go(w, "announce")
  /\ UNCHANGED <<memories, normed, made, queue, dead>>

\* A transaction of its own.
QueueExtraction(w) ==
  /\ task[w].at = "announce"
  /\ queue' = Enqueued(Job("extract", task[w].job.of))
  /\ Go(w, "done")
  /\ UNCHANGED <<memories, store, dead>>

\* embed-backfill, by hand: the current version's chunks without a vector.
Backfill ==
  /\ newest > 0 /\ newest \notin hidden
  /\ \E c \in ChunksOf(newest) : ~c.vector
  /\ queue' = Enqueued(Job("embed", newest))
  /\ queue' # queue
  /\ UNCHANGED <<memories, store, dead, task>>

-----------------------------------------------------------------------------

Next ==
  \/ Ingest \/ Hide \/ Backfill
  \/ \E w \in Workers :
       \/ Claim(w) \/ Complete(w) \/ Fail(w) \/ LoseLease(w)
       \/ NormalizeLoad(w) \/ FindAdoptable(w) \/ Adopt(w)
       \/ DeleteOld(w) \/ Store(w)
       \/ EmbedLoad(w) \/ EmbedWrite(w) \/ QueueExtraction(w)

Spec == Init /\ [][Next]_vars

-----------------------------------------------------------------------------
(* Properties *)

\* A chunk says what its version says, also when it was made for another one
\* (normalize.py _adopt_from_previous_version).
ChunksSpeakForTheirVersion ==
  \A c \in chunks : c.owner \in normed /\ c.text = text[c.owner]

\* One set of chunks for a version, whoever normalized it how often
\* (uq_memory_chunks_memory_ordinal, normalize.py _store).
OneChunkingPerVersion ==
  \A c, d \in chunks : c.owner = d.owner => c = d

\* Normalizing again, adopting and storing side by side never leave the item
\* without chunks once it has had some (normalize.py: moved or replaced in one
\* transaction).
SomethingIsIndexed == normed # {} => chunks # {}

\* Nobody has anything left to do but extraction.
Quiet ==
  /\ \A w \in Workers : task[w] = Idle
  /\ \A j \in queue : j.kind = "extract"

\* When the queue has run dry the current version has been normalized, or it was
\* hidden before that, or the dead letter has a job of it for an operator to see:
\* no failure, lost lease or crash loses a version silently (ingest.py: the job is
\* in the transaction of the memory it is for; worker.py _retry_or_dead_letter).
NothingIsForgotten ==
  Quiet /\ newest > 0 =>
    newest \in normed \cup hidden \/ Job("normalize", newest) \in dead

\* When the queue has run dry, with nothing dead-lettered, chunks of the current
\* version are there to be found, with a vector or by the backfill (normalize.py
\* _store: "those of any superseded version of the same item").
CurrentIsIndexed ==
  Quiet /\ dead = {} /\ newest > 0 /\ newest \notin hidden => ChunksOf(newest) # {}

\* When the queue has run dry, with nothing dead-lettered, what is there of the
\* current version has its vector and is not left to the backfill (normalize.py:174
\* of chunks that are adopted: "the embedding travels with the row").
CurrentIsEmbedded ==
  Quiet /\ dead = {} /\ newest \notin hidden =>
    \A c \in chunks : c.owner = newest => c.vector

\* What each worker has the lease of.
Held == [w \in Workers |-> IF task[w] # Idle /\ task[w].held THEN {task[w].job} ELSE {}]

Handout == INSTANCE JobHandout WITH waiting <- queue, held <- Held

\* What Pipeline assumes to happen to the queue, the jobs of handlers and of the
\* backfill included, are legal steps of it: each asks for work that nobody has, or
\* claims it, or is a worker's, or a sweep's, giving up what a worker has the
\* lease of; so no job is with two workers or waits while one has its lease
\* (job_queue.py enqueue_in, claim, _owned_by, reclaim_expired).
TakesHandout == Handout!Spec

=============================================================================
