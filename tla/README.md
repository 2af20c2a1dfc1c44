# Memory OS: a TLA+ development

Memory OS (`src/src/memoryos`, Python) is a personal memory: it reads documents
from connected sources, keeps every version in an append-only log and a blob
store, turns them into searchable chunks, vectors and a knowledge graph, holds
conversations over them, and drafts the decisions it finds in them for a person
to review. Postgres is the truth and the job queue; Neo4j is a projection of it;
bytes live in a content-addressed directory. One API process, any number of
worker processes, a file watcher and the command line work on them at the same
time, and most of what can go wrong in this code goes wrong between them. This
directory models those parts in TLA+, checks them with TLC, and proves the
safety of all of them with TLAPS for all values of the constants.

Paths below are relative to `src/src/memoryos`.

## 1. Inventory

### 1.1 Modelled components

| component | state | operations | what makes it correct |
|---|---|---|---|
| **Job queue** `adapters/db/job_queue.py` | table `jobs`: status, attempts, locked_by, lease_expires_at, run_after, dedupe_key | `enqueue`, `claim`, `heartbeat`, `complete`, `reschedule`, `dead_letter`, `reclaim_expired` | one live job per piece of work; only the holder of a claim settles it; the budget bounds the tries; finished is final |
| **Worker** `application/worker.py` | the claimed row, the handler task, the heartbeat task, `lease_lost`, `_stopping` | `run`, `_run_job`, `_settle`, `_heartbeat`, `_retry_or_dead_letter`, `request_stop`, `_force_stop` | every claimed job succeeds, is retried or is dead-lettered, whatever the worker dies of |
| **Ingestion and sync** `application/sync.py`, `ingest.py`, `projection.py`, `connectors/filesystem.py`, `db/repositories.py` | the log, memories, artifacts, blobs, `sources.cursor` | full and incremental sync, `ingest_item`, the deletion sweep | the newest version is current; the cursor is never ahead of what was recorded |
| **Hide, restore, purge** `application/deletion.py` | `deleted_at`, the log, blobs, the transcript | `tombstone`, `restore`, `purge` | tombstones come from the log; no version without its bytes; what is purged stays gone |
| **Replay** `application/replay.py`, `db/shadow.py` | the derived tables or a workspace, the evidence in memory, the graph | clear, scan, apply, reprocess, swap, project, restore the evidence | what is cleared is rebuilt; what is swapped in is the log; evidence comes back |
| **Normalization** `application/normalize.py` | `memory_chunks`, `normalized_hash` | NORMALIZE_MEMORY: load, parse, adopt, store | chunks say what their version says, one set each, replaced and never just removed |
| **Embedding, backfill** `application/embed.py`, `backfill.py` | vectors, jobs | EMBED_MEMORY, `embed-backfill` | a vector belongs to the text it was computed from; jobs follow one another |
| **Entity extraction** `application/extraction.py` | `entities`, `entity_mentions`, the version marker of a memory | load, call the model, replace the mentions, mark, announce | a memory carries the findings of one extraction |
| **Entity resolution** `application/resolution.py`, `merge_admin.py` | `merged_into_id`, `entity_merges` | apply and revert a merge | mentions are on entities nothing has merged away; any merge can be undone |
| **Graph sync** `application/graph_sync.py`, `graph_projection.py`, `adapters/graph/neo4j_store.py` | SYNC_GRAPH jobs, nodes and edges | widen, read, prune, write; the wide rebuild; failure and retry | once the jobs are done the graph shows what the rows say |
| **Events and bus** `application/events.py`, `api/routes/events.py` | `events`, HANDLE_EVENT jobs | count, store and dispatch, look up a duplicate, handle, mark processed | what is pending has work queued; the allowance is bounded |
| **Watcher and debounce** `application/watcher.py`, `domain/debounce.py` | when each path last emitted, the request under way | handle a change, post, back off | |
| **Decisions and outcomes** `application/decisions.py`, `decision_suggest.py`, `outcomes.py`, `outcome_suggest.py` | decisions with options and evidence, outcomes, the two review queues | suggest, accept, reject, record, edit | accepted means recorded; the chosen option is the one flagged |
| **Chat** `application/chat.py`, `attachments.py`, `deletion.py` | sessions with `message_count`, turns, the items turns speak for | send, attach, ask, answer, correct; hide, restore, purge of an item | ordinals tell the order; the transcript and the corpus tell one story |
| **Live updates** `application/live.py`, `api/routes/chat.py`, `web/.../useLiveEvents.ts` | the ring buffer, ids, one queue per stream, the page's Last-Event-ID | publish, subscribe, replay, deliver, reconnect, restart | a page gets each event once and in order, or is told of a gap |

### 1.2 How they interact

    watcher, editor --POST--> events (count | store + HANDLE_EVENT jobs) --> worker: handlers
    connector --observe--> blob store
        |
    sync / chat / upload --ingest_item (one transaction)--> log + artifact + version + NORMALIZE + SYNC_GRAPH
        |
    worker: NORMALIZE --> chunks + EMBED job --> worker: EMBED --> vectors, then (another transaction) EXTRACT job
                                                      worker: EXTRACT --> entities, mentions, then SYNC_GRAPH
    person or resolver: merge / revert --> entities, mentions, then SYNC_GRAPH
    worker: SYNC_GRAPH --read--> Postgres, --prune, write--> Neo4j
    worker, after success: NOTIFY --> API process: LISTEN --> LiveBus --> open pages (SSE)
    API, command line: hide / restore / purge, backfill, replay --> the same tables
    suggest --> review queues --> person: accept / reject --> decisions, outcomes --evidence--> memories

Handlers and use cases share nothing in memory across processes. They meet in
rows, most of them read in one transaction and written in a later one, and in
the queue, which hands one job to one process at a time as long as leases last.

### 1.3 Behaviours that are hard

* **Lost leases.** A slow worker and its replacement run one job at the same
  time; the fence (`_owned_by`) must keep the slow one from recording anything.
* **Failure inside bookkeeping.** `complete()` may raise after its commit.
* **Death at any point.** Nobody is told; only the lease runs out. A replay that
  dies takes the evidence with it that it holds in memory.
* **Read, then write later.** The sync cursor, the deletion sweep, `tombstone`,
  the purge's question about shared blobs, normalization's look at earlier
  versions, the scope of a graph sync, the turn a correction is for, the count
  of the rate limit, the status of a suggestion: each acts on what an earlier
  transaction or statement read.
* **Two stores.** The graph cannot be written in the transaction that changes the
  rows; a sync that fails half-way has pruned what it has not written back.
* **Jobs out of order.** Backoff and lost leases run the job of an older version
  after the newer one's.
* **Undoing in another order.** Merges are reverted in any order, with later
  merges on top of them.
* **Reconnection.** A stream is opened while events are published, and its page
  may name an id of a process that is gone.

`PROJECT.json` ("hazards") lists each with its line, and the property that
covers it or the reason none does.

### 1.4 Not modelled

Each is an entry of `PROJECT.json` with its reason. In groups:

* **Read only, or a cache of what is read**: search and ranking, graph reading and
  verification, context assembly, timeline, reports, export. They change no state
  another part relies on; what they return is ranking over floating-point scores.
* **A language model in a sequential flow**: answers and citations, agent,
  relationships and change summaries, reflections, evaluation. There is no second
  actor, and what they compute is text.
* **Records edited one transaction at a time**: assumptions and their groups,
  patterns, the user model, surfacing, tags, judgements, accounts. Assumption
  suggestions go the way `Decisions` models for decisions and outcomes.
* **Conversions and I/O**: parsers, chunking, encryption, model clients, the
  command line, migrations, the web interface, the editor extension.

The modules cover about a tenth of the implementation's lines. The rest is
in the four groups above (the command line alone is 8,000 lines, the schema 3,600):
wide rather than deep, with little that interleaves.

## 2. Modules

| module | models | extends |
|---|---|---|
| `JobLifecycle` | what the queue promises those who enqueue | |
| `JobHandout` | what the queue is to the handlers: who has which work | |
| `JobQueue` | the `jobs` table and its workers | instantiates `JobLifecycle`, `JobHandout` |
| `Corpus` | log, memories, artifacts, blobs, directory; syncs, hide, restore, purge, replay of an item | |
| `Pipeline` | NORMALIZE and EMBED over the versions of one item | instantiates `JobHandout` |
| `LiveStream` | bus, streams, pages | |
| `Entities` | extraction, merges, mentions | |
| `GraphSync` | the sync jobs and the graph, composed with `Entities` | `Entities` |
| `Replay` | `ReplayCorpus` beside the running system | |
| `Decisions` | the two review queues, decisions, outcomes | |
| `Events` | watcher, event API, handlers | instantiates `JobHandout` |
| `Chat` | sessions, turns and the items they speak for | |

`MC<module>` holds the instances for TLC. `JobQueueProofs`, `CorpusProofs`,
`PipelineProofs`, `GraphProofs` (of `Entities` and, over it, `GraphSync`), `ReplayProofs`,
`DecisionsProofs`, `EventsProofs` and `ChatProofs` (of `Chat` and `LiveStream`) hold the
theorems.

An action is one committed transaction or statement, or the code between two
awaits. An operation with several transactions is several actions, and what the
code keeps in local variables between them is a field of the process's state.
`PROJECT.json` ("map") gives the lines of every definition. A definition whose
comment begins with "Mutant:" is a plausible bug of the definition after it; it
is used by no specification, and putting it in the other's place makes a
property fail, which shows that the property can.

### 2.1 JobQueue

* Rows: `status` ("absent" until the insert), `attempts`, `lockedBy`, `lease`
  (ticks until `lease_expires_at`), `wait` (ticks until `run_after`). The columns
  that never change are constants.
* Worker: `pc` is where it is in `run`/`_run_job`/`_settle`: `polling`,
  `handling` (the handler task runs), `ok`, `transient`, `permanent` (the handler
  has ended that way and its outcome is still to be recorded). `job` and
  `claimed` are the row it got from `claim`; `beating` and `lost` are the heartbeat
  task and `lease_lost`.
* `Enqueue` is `enqueue_in` with the partial unique index; `Claim` is the
  `SELECT ... FOR UPDATE SKIP LOCKED` and update, together with the lookup of the
  handler; `Close` and `Reschedule` are the fenced updates, under `Complete`,
  `DeadLetter` and `RetryOrDeadLetter` (`_settle`); `CompleteRaises` is an
  exception from `complete`, before or after its commit; `Reclaim` is the sweep
  with its limit; `Heartbeat`, `HeartbeatDies`, `AbandonLost`, `RequestStop`,
  `ForceStop`, `Exit`, `DrainExit` and `Crash` are the rest of the loop.
* `ran` is a history variable.

Left out: the order by `run_after` among equal priorities, `run_after` in the
future at enqueue time, error texts, `_announce` (a NOTIFY after success, which
`LiveStream` takes as `Publish`). What handlers write is not in this module.

`JobLifecycle` has no workers, leases or locks: a job is submitted, taken up at
most `MaxTries` times, and each try gives the job back or ends it. The refinement
mapping reads `state` off `status` and `tries` off `attempts`; a heartbeat, a
crash, a late worker's refused write or a tick is a stutter.

`JobHandout` is the other side's view: no rows, attempts or leases, only the pieces of
work that wait and what each worker has that is its to settle. Work is asked for once
while it waits or is held (`Ask`), handed to one worker (`Claim`), and given up or
taken away (`GiveUp`), after which it is over or waits again. Here a piece of work
is a class of rows with one type and key (`Work`), it waits when a row of the class is
pending, and a worker has it when the running row carries its name
(`KeepsHandout`). `Pipeline` and `Events` model only what a handler sees of the queue; each
of their steps on it is shown to be one that `JobHandout` allows as well (`TakesHandout`). That
says their idea of a queue is not at odds with `JobHandout`'s; it does not say that they allow
all that `JobHandout` does, and they do not: where they know more, 2.3 and 2.9 say what.

### 2.2 Corpus

* `log` is `ingestion_events`; `rows` are the memories of one source (a row's
  `id` is the `seq` of its event, `deleted` the `seq` of the event its tombstone
  was stamped from); `artifacts` and `blobs` are the table and the directory of
  contents; `disk` is the watched tree, with a fingerprint (mtime and size) that
  is new with every write; `cursor` is `sources.cursor["seen"]`.
* `op[a]` is what process `a` is in the middle of. `StartSync` loads the source and
  walks; `Observe` hashes a file into the blob store; `StartSweep`/`SweepItem` are the
  deletion sweep, `FinishSync` writes the cursor. `StartHide`/`FinishHide`,
  `StartRestore`, `StartPurge`/`PurgeRows`/`ShredCheck`/`ShredDelete`/`FinishPurge` are
  deletion.py. `Crash` drops an operation anywhere; `ItemFails` and `Unreadable` are
  the errors the sync survives.
* `ingest_item`, of a sync or of a restore, is four steps: the question whether there is
  anything to record (`IngestUnchanged` when not, `IngestChanged` when so, with the bytes),
  the flush of the event (`Append1`), and `Ingest`: `add_version`, which reads the current
  row over again, and the commit. A step that finds the item changed under it, or a unique
  index in its way, is `ItemFails` (`Crash`, of a restore).
* An event has its `seq` from the flush on and is seen from the commit on. In
  between, its place in `log` is a gap, which is what a transaction rolled back leaves for
  good. So two overlapping writes of an item may commit in the other order than
  they stand in the log, and the newest version (by number) may be that of the older event.
  The tombstones of a sweep or a hide and the purge go through `Append1` too.
* `Rebuild(k)` is what `replay.py` makes of one item's events: `Replayed`, a function on
  the positions of the log, applies them one after the other (`ReplayEvent`).
* `raced` is a history variable: the items on which a write has landed out of its turn. It
  stamped a version that was no longer current, or purged the versions there had been and
  left a newer one, or was committed after an event of the item that follows it in the
  log (`Overtaken`). `ReplayAgrees` is about the others.

Left out: include/exclude patterns and size limits, encodings, attachments (a
second item with the same bytes plays their part), transcripts, tags, several
sources and users. Jobs enqueued by `ingest_item` are in `Pipeline`.

### 2.3 Pipeline

* One item with versions `1..newest`. A version's text is fixed by its bytes;
  two versions may normalize to the same text. `normed` is `normalized_hash`,
  `hidden` is `deleted_at`. All chunks of a document are one chunk, with an owner,
  the text it was made from and whether it has its vector.
* `task[w]` is the handler worker `w` runs: `NormalizeLoad` and parsing,
  `FindAdoptable` (the query of the second transaction), then `Adopt`, or a transaction
  that stores: `DeleteOld` (the rows its delete finds) and `Store` (the new ones, and the
  commit); `EmbedLoad`, `EmbedWrite`, `QueueExtraction` (a transaction of its own).
* `Claim`, `Complete`, `Fail` and `LoseLease` are what a handler sees of
  `JobQueue`: a job is run, retried, or run beside a worker that lost it. They
  are steps of `JobHandout` (`TakesHandout`), with `waiting` the queue and a worker's work
  the job it has the lease of. Attempts are not counted: a run that ends badly, and
  a lease that is lost, put the job back or leave it in the dead letter (`dead`), as the
  code does after the last attempt, or at once for a `PermanentError`; a dead row
  keeps no new job out. `MaxDead` bounds `dead`.

Left out: the chunker's version and re-chunking, partial failures inside one
transaction (rolled back), the embedding cache, documents without any
text (they have no chunks, and `SomethingIsIndexed` does not speak of them), and
purges, which remove an item's chunks along with its versions.

### 2.4 LiveStream

* `buffer` and `nextId` are `LiveBus`; `stream[c]` is the generator serving page
  `c` (a gap to report, the replay still to send, the queue, `last`);
  `held[c]` is the page's Last-Event-ID.
* `Publish` is `LiveBus.publish`; `Connect` is subscribing and `since` without an
  await in between; `TellGap`, `Replay` and `Deliver` are the yields of `stream`;
  `Break` and `Restart` close streams. `owed` and `since1` are history.

Left out: keep-alive comments, the LISTEN connection's own outages, the kinds
and payloads of events.

### 2.5 Entities

* `memory` is a version's row (absent, current, superseded, hidden, purged) and
  `marker` its `entity_extractor_version`; `entity`, `merged` and `mentions` are
  `entities`, `merged_into_id` and `entity_mentions`; `merges` is `entity_merges` in
  the order they were applied.
* `extractor[w]` is a run of `ExtractEntities`: `Extract` loads and calls the model,
  then one transaction in the three steps where READ COMMITTED lets it see what
  others commit meanwhile: `DeleteMentions`, `ResolveNames` (`_upsert_entity`, with
  the pointers followed, and the marker, which locks the memory's row), `Store`;
  `AnnounceExtraction` queues the graph sync after the commit. `FindNothingThere` is a
  memory purged during the call. `GiveUp` is a model that fails or a process that
  dies, at any point; the job that tries again finds the marker and announces nothing.
* `resolver[r]` is a run of `apply` or `revert` in `ResolveEntities`. `StartMerge` follows
  the pointers of both sides (`Follow`, which gives up after eight, like `_follow`), picks
  the winner and selects the mentions to move; `FinishMerge` writes them, the loser's
  pointer and the row of the merge, and commits. `StartRevert` reads the row of the merge,
  `FinishRevert` gives the mentions back. `AbandonMerge` is a constraint that fails, or a
  process that dies in between. `AnnounceMerge` queues the sync after the commit,
  `ForgetMerge` is a process that dies before it.
* `Interleaved` says whether any other transaction may commit between two steps of an
  extraction's, a merge's or an undoing's: the code takes no lock that would stop it.

Left out: the text of chunks (a memory has one), confidence, the score and the
search for candidates (any pair may be merged), pending merge rows (nothing reads
them), deletion of entities (there is none).

### 2.6 GraphSync

* Extends `Entities`: what changes rows there queues a job here. `pending` are the
  SYNC_GRAPH jobs, each the set of ids it names, which is its dedupe key; `graphNodes`
  and `graphEdges` are Neo4j.
* `Changes` are the operations that enqueue in their transaction (ingest, hide,
  purge) and the announcements of the two that enqueue afterwards; `Unannounced`
  are the commits still to be announced; `Forgotten` is what dies in between.
* `syncer[s]` is a run of `SyncGraph`: `Claim` widens the job (`Expand`), `Read` reads
  Postgres for the scope, or for everything when it is wide, `PruneMemories`,
  `PruneEntities` (or `Clear`), `WriteNodes`, `WriteEdges` are transactions of their own
  in the other store; `SyncFails` and `Retry` are failure, death and the next attempt.
* `stray` and `untold` are history: what a failed sync had pruned and its retry no
  longer found, and what was changed by a process that died before it announced it.
* `Overlap` says whether rows change, or another sync runs, beside one.

Left out: source nodes, RELATES_TO edges, properties of nodes, dead-lettered syncs.

### 2.7 Replay

* `live` is what the derived tables hold of each item, `shadow` the workspace, `log`
  the events, `evidence` the links of decisions, outcomes and assumptions; `replay`
  is where `ReplayCorpus` is, with mode, stage, scope and `--since`, what it holds in
  memory (`kept`) and has left to do.
* `Begin` is `_preserve_evidence`; `Create`, `Clear`, `ClearGraph`, `ScanPurged`,
  `OpenLog`, `Apply`, `NormalizeOne`, `EmbedOne`, `EndOfLog` the full rebuild;
  `FindTargets`, `Reprocess`, `EndOfTargets` the partial stages; `Swap`, `Project`,
  `Restore` the end. `Fail` is an exception anywhere, `Kill` the end of the process.
* `Observe`, `Hide`, `Purge`, `Work` (a worker's normalization or embedding) and `Link`
  are the running system; `Others` says which of them go on during a replay of
  which mode. During one in place nothing is linked: a link made between
  `_preserve_evidence` and the clearing cascades away (3.2).
* `due` is what the replay found and has to leave, less what others have touched.
* `Said(k)` is what the log says of item `k`: nothing if it was purged, otherwise what
  `Told`, applied to its events in order, leaves of its versions and their tombstones.
  It is not how a replay computes them (that is `OpenLog` to `EndOfLog`, event by event with
  chunks and vectors in between); the properties compare the two.

The graph has three values: it shows what is live, is empty, or shows what is
gone. Left out: the job and embedding-cache tables, adoption of chunks (which
`Pipeline` models), blobs (missing bytes are `Fail`), measurements.

### 2.8 Decisions

* `decision` has choice, options and evidence; `outcome` and `suggestion` are their
  tables (both queues in one, told apart by `kind`); `there` says which passages'
  items are current. `Come` and `Leave` are an item that is observed, hidden or
  restored; `DeleteRows` is a purge, or a normalization that replaces the chunks, and
  takes the evidence on them from every record (`ON DELETE CASCADE`); `lost` is what a
  record has lost that way. A passage is one chunk, and evidence is linked to it; links to
  a whole item, which outlive a change of its chunks, are not told apart.
* `reader[r]` is a run of `suggest`: `FindPassages` and `FindCandidates` select,
  `Propose` asks the model, `QueueOne` writes one draft, `NextPassage` moves on.
* `person[u]` is a request. Accepting is three transactions: `AcceptRead`,
  `RecordDecision` or `RecordOutcome`, `MarkAccepted`; rejecting two; `EditRead` and
  `EditWrite` are `decisions.edit`, whose row is read without a lock. `Crash` ends a
  request between any two.
* `RecordOwn` and `RecordOwnOutcome` write a record nobody suggested; `LinkDecision` and
  `LinkOutcome` add evidence to one that is there. Each is one transaction.
* `Overlapping` says whether two edits of one decision may overlap.

Left out: assumptions of a decision, confidence and horizon, the verdict of an
outcome, the time windows.

### 2.9 Events

* `last` is `Debounce._last`; `request[s]` one of the requests the API is in the middle
  of, and whether the watcher still waits for it; `event` and `job` are `events` and the
  HANDLE_EVENT jobs of each handler; `worker[w]` runs one.
* `Handle` is a file change (debounce, then a post), `Post` a post of any other client;
  `TimesOut` is the watcher giving up after `REQUEST_TIMEOUT`, which ends nothing on the
  side of the API, `Fails` whatever else keeps a request from its answer. `Count` is the
  rate limit's query, `StoreAndDispatch` the transaction with the partial unique index on pending
  events, `LookUp` the search for the event it collided with; `HandlerReturns`,
  `MarkProcessed` and `Settle` are three transactions of a worker, `Kill` its death
  between any two. A job whose handler raises is tried again until its attempts run out,
  or is dead at once (`PermanentError`). What happens to jobs are steps a `JobHandout`
  allows (`TakesHandout`): a job leaves it by the hands of its own worker, never because
  another handler of the event has finished.

Left out: payloads, authentication, kinds nobody subscribes to, `session` summaries
(a read).

### 2.10 Chat

* `turns` are `chat_messages`, `count` is `message_count`; `mem` is the current version
  of the item a key names; `calls[c]` a request.
* `Send`, `Attach` and `Ask` append a turn and observe its item; `RecordAnswer` appends
  the answer; `StartCorrect`/`FinishCorrect` are the two transactions of `correct`;
  `StartHide`/`FinishHide`, `StartRestore`/`FinishRestore` and
  `StartPurge`/`FinishPurge` the statements of `tombstone`, `restore` and `_purge_one`
  between which something else may commit; what is hidden is the version that was read. `GiveUp` is a
  failed model, a cut stream, or death.
* `Overlap` says whether a new version of a key may be written while its restore or
  purge is half-way; hides overlap anything.
* A transaction that starts by locking the session's row is one action. Two first
  messages at once are serialised here; in the code they may open two sessions.

Left out: archiving and the thirty-minute rule (any session may be the one), titles,
attachment rows, the classification of a message, `corrects_message_id` apart from
the foreign key that stops a correction of a turn that is gone.

## 3. Runs

`CHECK_DEADLOCK FALSE` stands where the modelled system stops for good: every
job is finished, or every process has been told to stop; the log, the versions
or the merges have reached their bound. `Replay`, `Decisions`, `Events`, `Chat` and
`LiveStream` always have a next step and are checked for deadlock.

### 3.1 What each run checks

| run | instance | distinct states | shows |
|---|---|---|---|
| `queue_twins` | 2 rows for one piece of work, 3 workers, 2 tries, lease and backoff of 1 tick, sweep of 1 row | 820,989 | `NoDuplicateLiveJobs`, `RunningRowHasItsWorker`, `AttemptsWithinBudget`, `OnlyTheClaimHolderSettles`, and that the queue implements `JobLifecycle` and `JobHandout` |
| `queue_mixed` | a job type one process has no handler for, a drain that serves the other type only, fairness | 7,437 | `EveryJobSettles` |
| `corpus_races` | 1 item, 2 contents, 2 processes, 4 events, 2 writes | 3.52 M | `NewestIsCurrent`, `TombstonesAreLogged`, `ReplayAgrees`, `CursorIsHonest` |
| `corpus_alone` | 2 items, 2 contents, 1 process that may die anywhere, 4 events, 2 writes per file | 4.24 M | `EveryVersionHasItsBytes`, `SkippedIsUnchanged` |
| `live_stream` | 2 pages, a buffer of 2, 5 events, 1 restart, fairness | 111,969 | `NoSilentLossInOneProcess`, `NeverBackwards`, `StreamsDrain` |
| `pipeline` | 2 workers, 2 versions, 2 texts, 3 chunk sets, 1 dead letter | 1.87 M | `ChunksSpeakForTheirVersion`, `OneChunkingPerVersion`, `SomethingIsIndexed`, `NothingIsForgotten`, `TakesHandout` |
| `entities` | 1 memory, 3 names of which two are found at one place, 2 extractors, 2 extractor versions, 2 resolvers, 2 merges | 2.21 M | `MentionsAreOnWinners`, `OneOpinion`, `EveryMergeCanBeUndone` |
| `graph` | 2 items, 2 names, 1 extractor, 1 resolver, 1 syncer that may fail anywhere, 2 extractor versions, 1 merge, 2 rows whose change was never announced | 7.39 M | `NothingIsMissing`, `WhatLeftIsGone` |
| `replay` | 2 items of 2 sources, 3 events, 1 link, both modes, all stages and scopes, failures and kills; others hide during a replay in place, observe, purge and link during one into a workspace | 1.52 M | `WhatWasClearedIsRebuilt`, `TheWorkspaceIsTheLog`, `EvidenceComesBack` |
| `decisions` | 1 passage, 2 texts, 2 people, 1 reader, 2 decisions, 1 outcome, 1 suggestion | 1.13 M | `ChosenAgrees`, `AcceptedMeansRecorded` |
| `events` | 1 path, the watcher and other clients, 2 requests at once, 2 handlers of which one may raise, limit 1 in a window of 1, 2 tries, 1 kill, 3 events, 2 instants | 1.84 M | `AllowanceIsBounded`, `PendingHasWork`, and that the queue is used as a `JobHandout` |
| `chat` | 2 sessions, 2 keys, 2 texts, 2 requests, 5 turns, 3 versions of an item | 4.52 M | `OrdinalsTellTheOrder`, `HistoryReachesTheEnd`, `PurgedStaysGone`, `LastWordIsCurrent` |

Two runs also check a type invariant (`TypeOK` of `JobQueue` and `Corpus`); those of
all modules are theorems (section 5).

Why the bounds are enough to meet the interesting cases:

* `queue_twins`: with three workers one loses its lease, a second takes over and
  a third sweeps; with two tries a job can be put back once and exhausted once;
  with a lease of one tick a lease can end between any two steps. With two rows for one key
  an enqueue meets a twin in every status.
* `queue_mixed`: an exhausted job, a job without a handler, a drain that leaves
  retries behind, in any combination.
* `corpus_races`: four events and two writes give two versions with a tombstone or a purge
  between or after them, a restore after a hide, and any two of these with the second
  process between any two steps of the first, in either order of their commits; both
  kinds of overtaken write and of stale stamp are met, and the file may be written between
  its listing and its reading. One item is enough, since what is checked here is said of one
  item; the theorems are for any number.
* `corpus_alone`: four events and two writes give a restore after a hide after a
  change, on either of two items, which share a blob when their content is the same.
* `live_stream`: five events push the buffer of two over its limit twice.
* `pipeline`: two workers on two versions, or on one version when one of them
  has lost its lease; with three chunk sets a version can be replaced and
  replaced again; the dead letter is met at each of a job's steps. `Seen` of `MCPipeline`
  leaves out which extractions wait: nobody here claims them.
* `entities`: two merges of three entities make a chain, a fork, or a merge that is
  undone and made again the other way; chains longer than the pointers that are followed
  are out of its reach (5); two extractors with two versions finish in
  either order, before, between and after them.
* `graph`: two items and two names are the smallest neighbourhood a job does not
  name itself, so what is pruned and what is asked for differ; `Wide = 2` makes every
  scope with both memories one that may be rebuilt whole. A memory that has been looked
  at mentions one name, found anew by the second version of the extractor. An item may
  also be purged while its extraction runs. `Versioned` of `MCGraphSync` makes them two versions of
  one item instead. `Seen` leaves out of a state what nothing reads again: the marker of a
  memory that will not be extracted, an undone merge, the ids mentions had before the
  last extraction.
* `replay`: three events give every log of two items that matters to a replay:
  observed, replaced or hidden, purged in the middle. A replay may follow one that
  was killed. What others do meanwhile is chosen so that the run ends in seconds; the
  theorems of `ReplayProofs` hold whatever others do during either mode.
* `decisions`: two people are enough for a review to overtake another between any two
  of its transactions, and one suggestion for both to want it; a draft whose only
  alternative is the choice, and edits of the choice, the options, or both, are among
  the inputs; `Seen` leaves out what nobody asks of a record no suggestion names.
* `events`: two requests, one of them perhaps the watcher's or given up by it, can be
  counted beside each other, collide, and find the other's event processed before they
  look. One kill leaves the reliable handler an attempt, so the run does not meet the
  event whose every job died of kills; the theorem covers it. `Seen` identifies states
  that differ in what nothing reads any more: a pruned path, the attempts of a settled
  job, the numbers of events and requests.
* `chat`: five turns give a message, its answer, a correction and two more turns to
  purge in between; three versions a correction of a restored one.

The theorems of section 5 remove these bounds for every safety property.

### 3.2 Where the code does not do what it says

These came up while modelling. Each is a formula of a module that TLC refutes under
the stated change to a configuration of this directory (constants and the checked
property only); what holds in its place is what the runs check.

| formula | under | what happens |
|---|---|---|
| `EveryVersionHasItsBytes` | `CorpusRaces.cfg`, `Ops <- SyncAndPurge` | a purge asks whether a blob is still referenced, an ingest of the same bytes commits, the purge unlinks the blob |
| `SkippedIsUnchanged` | `CorpusRaces.cfg`, `Ops <- Incremental` | two overlapping incremental syncs: the older content is recorded last, the newer fingerprint stays in the cursor, and the file is skipped as unchanged from then on |
| `LogIsTheWholeTruth` | `CorpusRaces.cfg`, `Ops <- Incremental` | two ingests of one item overlap: the one that flushed its event first commits last, and is the current version; a replay, which reads the log in its order, makes the other one current |
| `LogIsTheWholeTruth` | `CorpusAlone.cfg`, `Ops <- SyncAndPurge` | observe, purge, sync again: the item is in the corpus, and a replay skips every event of it |
| `NoSilentLoss` | `LiveStream.cfg` | a page holding id 1 of the old process reconnects to a new one that has published nothing or one event and is told its position is good |
| `CurrentIsIndexed` | `Pipeline.cfg` | the job of an older version runs after the newer one's and takes or deletes the current version's chunks |
| `CurrentIsEmbedded` | `Pipeline.cfg` | a version adopts chunks before they have vectors ("the embedding travels with the row", normalize.py:174); adoption queues no EMBED_MEMORY, and the one queued for the old version finds no chunks: until the backfill is run by hand, the current version is not found by its vectors |
| `MentionsAreOnWinners`, `EveryMergeCanBeUndone` | `Entities.cfg`, `Interleaved = TRUE` | two merges of one pair overlap, each having read both entities before the other wrote: one entity is merged away twice, or each into the other |
| `OneOpinion` | `Entities.cfg`, `Interleaved = TRUE` | two extractions of one memory side by side both insert |
| `RetryRepairs` | `Graph.cfg`, `MaxUntold = 0` | a sync fails after pruning; its retry widens the job from what is left of the graph and no longer finds the entity only the pruned edges led to ("the retry is what makes a Neo4j that was down for a minute a pause rather than a divergence", handlers.py:99) |
| `RetryRepairs` | `Graph.cfg` | the process dies between the commit of the mentions and the enqueue of the sync; the retried job finds the marker, skips, and queues none: "the next sync" that would repair the graph (extraction.py:10) comes only if something else names the memory |
| `WhatLeftIsGone` | `Graph.cfg`, `Overlap = TRUE` | a memory is hidden while a sync that names it runs and has read it; the dedupe key of the running job drops the new one, and the sync writes the hidden memory |
| `ReplacedIsGone` | `Graph.cfg`, `Replaces <- Versioned`, no symmetry | the sync of a new version, which has no mentions yet, does not reach the node of the version it replaced ("removes the node for the version this one has just replaced", ingest.py:171) |
| `EvidenceOutlivesRebuild` | `Replay.cfg`, `Sources <- NoSource`, `Others <- Nobody`, `Kills = FALSE`, `MaxEvents = 2`, `MaxLinks = 2`, no symmetry | a decision cites an item and later a newer version of it; both links resolve to the same memory, the second insert violates `uq_decision_evidence_link`, the restore rolls back, and all evidence is gone ("evidence outlives a rebuild even though the row itself does not", models.py:1825) |
| `ChosenAgrees` | `Decisions.cfg`, `Overlapping = TRUE` | two edits overlap, one of the choice and one of the options: the second flags the choice it read before the first was written, and leaves the new choice in the row |
| `EditKeepsAnAlternative` | `Decisions.cfg` | an edit of `chosen` alone may name the one alternative there was ("an edit cannot remove the last alternative", decisions.py) |
| `PurgedStaysGone`, `LastWordIsCurrent` | `Chat.cfg`, `Overlap = TRUE` | a correction commits between the statements of a purge: its version is not among those deleted; or of a restore, which then brings the uncorrected text back |

Seen while reading, outside any formula here:

* Corpus: a tombstone that lands on a version another sync has just superseded hides the
  old version, where a replay hides the new one.
* Entities: a merge that commits between an extraction's `_upsert_entity` and its
  inserts leaves the new mention on the loser. Merges undone in another order than they were made can give a mention to
  an entity it was never found for. `graph_projection.py:449` calls a chain of two
  merges "data corruption", but merging A into B and B into C makes one. Pending merge
  rows are never resolved when their pair is merged otherwise.
* Replay: a process killed during a replay loses the evidence, which it holds in
  memory only. `--since n` in place empties everything and replays the tail. What is
  synced during a rebuild into a workspace is lost when it is swapped in, and a purge
  after the scan is undone by it. A partial replay into a workspace is refused only
  after the evidence has been deleted. Evidence linked between `_preserve_evidence`
  and an in-place clearing cascades away.
* Decisions: two acceptances of one suggestion, or one that dies between recording and
  marking and is tried again, make two decisions. A rejected pair is not kept out of
  the next run of outcome suggestions, though the docstring says so.
* Events: when every handler's job of an event ends in the dead letter, by errors or
  because the worker died as often as the job may be tried, the event is pending for
  good and the dedupe index turns its successors away: the exception `PendingHasWork`
  spells out. A client that gives up on a post may post again while the first is still
  being stored, so the allowance is overrun by as many as are under way, not by as many
  as there are clients. A duplicate that arrives after the handler
  has returned and before `mark_processed` is dropped without a run of its own. A post
  that is refused or fails has used up the debounce window.
* Chat: `message_count` goes on counting purged turns; corrections of one original by
  two people both succeed; correcting a hidden item brings it back; a purge of an
  uploaded file leaves its `chat_attachments` row, which keeps the blob.

## 4. Fairness

* `JobQueue`. Time passes (`Tick`); a started process gets the processor, so it
  sweeps, claims and notices a stop (`Reclaim`, `Claim`, `Exit`; `worker.py` `run` is a
  loop without other exits); a handler ends (`HandlerReturns`, an
  assumption about handlers: the worker puts no limit on one, and its heartbeat keeps
  the lease of one that hangs); and what has ended is recorded (`Settle`). Not assumed:
  enqueues, heartbeats, that handlers succeed, that a stop or a crash comes.
  Processes are restarted by whoever runs them: `Replaced` keeps a process that
  may stop or crash from being the last that is not a drain. Without that
  assumption nobody is left to run a job and `EveryJobSettles` is no property of this code.
* `LiveStream`. An open stream goes on to its next yield. Neither publishing nor
  connecting nor breaking is assumed.

The other modules are checked for safety only: a stopped worker, an unfinished
sync or an abandoned review is a legal end of theirs, and what they promise
"when the jobs are done" is stated as an invariant of the states where they are.

## 5. Proofs

The theorems hold for all values of the constants that satisfy the named
assumptions of each module, in particular for sets of jobs, workers, items,
requests and pages of any size, and for logs of any length. Each module has an
invariant with the facts its properties do not say, a lemma per action, and a theorem
`Invariance` (for `LiveStream`, `LiveInvariance`; for `GraphSync`, the lemma `SInvariance`)
from which the properties follow.

**JobQueue** (`JobQueueProofs`). The properties are not inductive: that a late worker's
`RetryOrDeadLetter` is harmless depends on what the row and the worker can know
about each other. `IInv` adds `Bookkeeping`, which ties the two
together: a worker that is at work holds a job, and if the row is still running
under its name then the worker's count of attempts is the row's, so no later claim has
happened; a worker that is not at work holds nothing; a handler that returned
normally has been run; a job never inserted has no attempts. `TypeCorrect`,
`Deduplication`, `Accounting`, `Budget`, `LossIsReal` and `SuccessIsReal` follow.
`Fencing` and `Finality` are action properties; both come from `RowStep`, a lemma that
classifies what a step may do to one row: keep it, insert it, claim it, settle it by
its claim's holder, or sweep it. `Refinement` shows `Spec => Lifecycle!Spec`: initial
states map to initial states; an enqueue is a `Submit`, a claim a `Take` (the budget
gives its guard), a settling a `Release` of one job, a sweep a `Release` of many, all
else a stutter. `HandsOut` shows `Spec => Handout!Spec`. It needs one fact more,
`OneRowEach`: a worker's name is in one running row at most, since one that polls
has none left (`PollingOwnsNothing`) and one that is gone claims nothing. An enqueue asks for
work no live row stands for, which is what the dedupe index is for; a claim hands over
what no other pending row stands for (`LiveWork`); a settling or a sweep of any number of
rows is one `GiveUp` (`GiveUpStep`).

**Corpus** (`CorpusProofs`). `RowsInv` ties the rows to the log: every row was made from
the event it is named after, the version of an item that is numbered last and no other is
current, only a purge takes rows away, and a tombstone carries the number of a tombstone event.
A process that holds rows it read earlier (`op`) holds rows that were logged
(`TargetsAreLogged`). An open transaction that has flushed its event holds a gap in the
log and no two hold the same (`SeqsAreHeld`), so that a commit fills what nobody else
fills. And what a purge half-way has not seen of its item is newer than all
it has (`PurgesTheOlder`), so what it leaves still has its newest version current.
`TheNewestIsCurrent` and `EveryTombstoneIsLogged` follow. `TheCursorIsHonest` adds `FilesInv`:
no cursor, in the table or in the hands of a sync, and no listing is newer than the files,
and where it is as new, the content has been observed. `TheLogRebuildsTheRows`
(`ReplayAgrees`) is about a function defined by recursion on the log. What that function
returns cannot be had from the induction theorems, so it is made part of the invariant:
`Determined` says that exactly one function satisfies the recursion on the log there is
(`UniqueRuns`: on every log of its length), and a flush extends it by a gap, which a replay
passes over (`OneMoreEvent`). A commit that no later event of the item has overtaken
fills a gap; the function that replays it as the last event of all satisfies the recursion
as well, so it is the one (`OneCommit`). Each action does to the rows what the event it
commits does in a replay, on items no write has raced for (`AgreeStep`). These hold for any number of processes. `BytesAreThere` and `SkippingIsSafe`
have the hypothesis that there is at most one process, which `BytesInHand` and
`CursorsAreCurrent` need: with two, TLC refutes both (3.2).

**Pipeline** (`PipelineProofs`). `IInv` adds two conjuncts. `Tasked`: what a task in
flight found in an earlier transaction still holds where it matters; the version it
will adopt from is still normalized to the same text, and a normalization that is done
has left its version normalized or hidden. `Owed`: a version neither normalized nor
hidden has its job in the queue, in the dead letter, or in the hands of a worker that
holds the lease and is not done. `NothingForgotten` follows from `Owed`; `NeverEmptied`, `ChunkedOnce`
and `ChunksAreTrue` are conjuncts. `Takes` shows `Spec => Handout!Spec`; it adds
`JobsAreOfVersions` (whatever is queued or in hand is of a version there is, so that a new
version's job is new work). A worker that goes on without its lease changes nothing
here but by what it queues. `OneLeaseEach` is what a `JobHandout` gives back: no job is held under two
leases, or waits while one holds it.

**LiveStream** (`ChatProofs`, second part). What waits for a
page (the replay still to be sent, then what the queue holds past it) is an unbroken run of ids that ends at the newest
(`Runs`, `StreamOK`); with what the page has been sent (`PageOK`, `Before`) and the ring
buffer being such a run as well (`BusOK`) this gives `NothingIsLostInOneProcess`,
`NeverGoesBack` and `HandoverIsSeamless` for any buffer size.

**Entities** (`GraphProofs`, first part). `TInv` (types, and that what is being undone is in
the log of merges) holds whatever runs side by side. The rest is for transactions one after
the other (`~Interleaved`) and rests on `XInv`: what a transaction in the middle has read is
still so. An extraction's doomed mentions are those of its memory; a merge's two
entities differ, neither is merged away, and it moves all the mentions of the loser; the
row that is being undone is applied. So a merge makes a pointer from an entity without one
to another without one, and no cycle closes (`NoCycles`, `ChainsEnd`), for any number
of merges. With `Undoable` (an entity is merged away by exactly one applied merge) this
gives `MergesAreUndone`. `OpinionsAreOne` follows from `XInv` alone. `MentionsStayOnWinners` is of
behaviours in which no chain gets longer than the nine pointers `_follow_merge` sees through
(`[]ChainsAreShort`): past them the code does file a mention on an entity that has been merged
away, as its comment says ("a too-deep chain should cost a misfiled mention").

**GraphSync** (`GraphProofs`, second part). `SInv` is an account of what is owed.
Whatever the graph should show and does not is named by a waiting job, by something
still to be announced, by the job of the sync at work, by what that sync has taken out
or is about to, or is in `stray` or `untold`; whatever it shows and should not is still
to be pruned by that sync, or named in the same way. Each step of a sync moves an
entry from one column to another, and the last closes the account; changes of rows add
entries (`Covered`). When all is settled only `stray` and `untold` are left, which is
`NothingIsLost` and `NothingStaysThatLeft`, while rows are at rest beside a sync
(`~Overlap`).

**Replay** (`ReplayProofs`). Nothing is assumed of `Others`, `Kills` or the bounds.
`Shape` says what a replay at each place of its course has in hand. `Determinate` is, as in
`Corpus`, that the log tells one story of each item, told in the order of the log. `PromiseInv` is about the items that nobody else has touched
since the replay began; it says for each place what is owed. Before anything
is cleared, the item is as it was found (`AsFound`). While the tables or the workspace are
rebuilt, its rows are what the log tells up to the position reached, with chunks and
vectors for all but the event in hand (`Rebuilds`). During a partial stage its rows are as the
log says and its chunks are still as found, or done, or still a target (`Redoes`). At the end it
is as the log says and has at least the chunks it had (`Fulfilled`). Each of
the replay's actions takes an item from one of these to the next; an action of others makes
an item touched or leaves it alone. `ClearedIsRebuilt` and `TheSwapIsTheLog` are what it says
of the last two places. `EvidenceInv` says of each link due that the process remembers
one it can be made from, which gives `TheEvidenceComesBack`.

**Decisions** (`DecisionsProofs`). `AllHonest`: an accepted suggestion, and a request
between recording and marking, name a record of the right kind; `RecordedRests`: it was
given the passage, since rows are never deleted and evidence leaves one only for `lost`
(`Extended`);
`EditsAlone`: under `~Overlapping` what an edit read is what is there. `AcceptanceIsHonest` is unconditional, `ChoiceAgrees` needs `~Overlapping`.

**Events** (`EventsProofs`). `Budgeted` counts, for every moment, the events stored and
the requests admitted in its window together: at most the limit and one for each other
request under way. `JobsAccounted` says that the job of a handler which does not raise
loses attempts to kills only (`lost` counts them, job by job) and that a job is done only
when its event is stamped, `MarkedIsProcessed` that a stamped event stays so. They give
`AllowanceHolds` and `NothingPendingIsIdle`, for any number of kills and any handlers.
`Takes` shows `Spec => Handout!Spec` from `WorkIsItsOwn`: a worker at work has a running
job, and no other worker has the same.

**Chat** (`ChatProofs`, first part). `Structure` follows from the lock on the session's row, whatever
requests do: ids and ordinals agree and stay below the count (`OrdinalsAreTheOrder`,
`HistoryIsWhole`). `Story` says what each key's turns and versions tell (`Told`) and what
a request half-way knows about them (`Known`); under `~Overlap` it gives `PurgeIsFinal`
and `LastWordCounts`.

Only model-checked: liveness (`EveryJobSettles`, `StreamsDrain`), which rests on fairness
and ENABLED and is out of the prover's reach. Everything else the runs check is a theorem.
What a recursive definition computes for every input cannot be proved here by induction on
the input; `Determined` and `Determinate` go round that by induction over the behaviour, in
which the log grows one event at a time. Not proved, because it is false, is what 3.2 lists.

## 6. Abstractions that matter to what is shown

* Transactions are atomic, as Postgres makes them; READ COMMITTED shows in the
  split of an operation into several actions where a later statement does not
  look again at what an earlier one read. Where such a split is switched off
  (`Interleaved`, `Overlap`, `Overlapping` false), the run shows what holds of
  transactions one after the other, and 3.2 what the split breaks.
* A lease or a delay is a small number of ticks; any step may happen between
  two ticks, so the relative speed of processes is unconstrained.
* Contents, texts, keys and types are values that are only compared.
* A language model returns any of a small set of answers, or fails.
* `Pipeline` and `Events` see of the job queue what `JobQueueProofs` shows of it (`JobHandout`):
  a job runs, is tried again or dead-lettered, or (in `Pipeline`) runs beside a worker that
  lost it. `GraphSync` has the dedupe key and the retry in its own terms. Nothing takes a
  job out of the dead letter but an operator.

## 7. Plan

Done: the queue, the corpus, live updates, the pipeline, entities, the graph, replay,
decisions, events and chat, with proofs of every safety property the runs check.

Next, by what it would add:

1. **Items touched during a replay**: `due` drops them; what a replay still owes them is unstated.
2. **Refinement**: `Decisions` and `Replay` each as an implementation of a small
   abstract specification, as `JobQueue` is of `JobLifecycle`; for `Replay` that a
   completed rebuild is one step from what was there to what the log says.
3. **Queue and handlers composed in time**: with fairness in `JobHandout`, "every version is normalized in the end" could be stated. The
   gap between vectors and extraction.
4. **Assumptions and groups**, with the direction in which groups are merged, and the
   measure and time window of outcomes.
5. **The LISTEN connection** of live updates, and its outages.
