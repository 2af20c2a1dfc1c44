----------------------------- MODULE GraphSync -----------------------------
(***************************************************************************)
(* The graph in Neo4j as a projection of the rows of Entities              *)
(* (application/graph_sync.py, graph_projection.py, neo4j_store.py): what  *)
(* changes rows queues a job that names a memory or two entities, and a    *)
(* worker reads both stores, prunes a neighbourhood and writes it anew.    *)
(*                                                                         *)
(* A job is the set of ids it names, which is its dedupe key.  Pruning and *)
(* writing are transactions of their own in another store; the upserts of  *)
(* one kind are one action.  Overlap says whether rows change, or another  *)
(* job runs, while a job does.  Sources and the edges between entities     *)
(* are left out.                                                           *)
(***************************************************************************)
EXTENDS Entities

CONSTANTS
  Syncers,     \* workers with the SYNC_GRAPH handler
  Wide,        \* memories of a scope from which on it may stand for
               \* WIDE_SCOPE_MEMORIES of them
  Overlap,     \* whether a job runs beside others and beside changes
  MaxUntold    \* bound: memories and entities in untold

ASSUME GraphAssumption ==
  /\ Memories \cap Names = {}
  /\ Wide \in Nat \ {0}
  /\ Overlap \in BOOLEAN
  /\ MaxUntold \in Nat

VARIABLES
  pending,     \* SYNC_GRAPH jobs waiting, by what they name
  syncer,      \* what each worker is in the middle of
  graphNodes,  \* memories and entities the graph has a node for
  graphEdges,  \* its MENTIONS edges
  stray,       \* history: what a sync that failed had pruned, its retry did
               \* not take up again, and no other has since
  untold       \* history: what was changed by a process that died before it
               \* queued the sync, and has not been named by one since

graph == <<graphNodes, graphEdges>>
history == <<stray, untold>>
graphVars == <<entityVars, pending, syncer, graph, history>>

Ended == [at |-> "idle"]
Scopes == SUBSET (Memories \cup Names)
Edges == Memories \X Names

\* A job, the scope it was widened to, and what was read for that scope.
Jobs == [at : {"expanded", "failed", "read", "wide", "cleared", "pruned", "nodes"},
         job : Scopes, scope : Scopes, nodes : Scopes, edges : SUBSET Edges]

GraphInit ==
  /\ Init
  /\ pending = {}
  /\ syncer = [s \in Syncers |-> Ended]
  /\ graphNodes = {}
  /\ graphEdges = {}
  /\ stray = {}
  /\ untold = {}

Running == {syncer[s].job : s \in {t \in Syncers : syncer[t] # Ended}}
Quiet == Overlap \/ Running = {}

\* The dedupe index covers pending and running jobs.
Enqueue(job) ==
  pending' = IF job \in Running THEN pending ELSE pending \cup {job}
-----------------------------------------------------------------------------
(* What Postgres implies, and the part of it that is in a scope. *)

Projected(edge) ==
  /\ memory[edge[1]] = "current"
  /\ merged[edge[2]] = None
  /\ \E r \in mentions : r.id.mem = edge[1] /\ r.ent = edge[2]

\* The whole corpus is the scope of everything.
Everything == Memories \cup Names

InScope(edge, scope) == edge[1] \in scope \/ edge[2] \in scope

EdgesOf(scope) == {e \in Edges : Projected(e) /\ InScope(e, scope)}

NodesOf(scope) ==
  {m \in Memories \cap scope : memory[m] = "current"}
    \cup {n \in Names : \E e \in EdgesOf(scope) : e[2] = n}

\* Entities these memories mention, one merge followed.
EntitiesOf(ms) == {Hop(r.ent) : r \in {q \in mentions : q.id.mem \in ms}}
MemoriesOf(es) == {r.id.mem : r \in {q \in mentions : q.ent \in es}}

Expand(job) ==
  LET claimed == {e \in graphEdges : InScope(e, job)}
      known == job \cup UNION {{e[1], e[2]} : e \in claimed}
      entities == (known \cap Names) \cup EntitiesOf(known \cap Memories)
  IN known \cup entities \cup MemoriesOf(entities)
-----------------------------------------------------------------------------
(* SyncGraph *)

Still == UNCHANGED entityVars

Expanded(job) == [at |-> "expanded", job |-> job, scope |-> Expand(job),
                  nodes |-> {}, edges |-> {}]

\* Claims a job and widens it: one query to the graph, two to Postgres.
Claim(s, job) ==
  /\ Quiet
  /\ syncer[s] = Ended
  /\ job \in pending
  /\ pending' = pending \ {job}
  /\ syncer' = [syncer EXCEPT ![s] = Expanded(job)]
  /\ untold' = untold \ job
  /\ Still /\ UNCHANGED <<graph, stray>>

MayBeWide(scope) == Cardinality(scope \cap Memories) >= Wide

\* Of a wide scope everything is read.
WhatToRead(scope, wide) == IF wide THEN Everything ELSE scope

\* Mutant: what is read is what was asked for, not what will be pruned.
ReadAsked(s) ==
  /\ syncer[s].at = "expanded"
  /\ syncer' = [syncer EXCEPT ![s].at = "read",
       ![s].nodes = NodesOf(syncer[s].job), ![s].edges = EdgesOf(syncer[s].job)]
  /\ Still /\ UNCHANGED <<pending, graph, history>>

Read(s) ==
  /\ syncer[s].at = "expanded"
  /\ \E wide \in BOOLEAN :
       /\ wide => MayBeWide(syncer[s].scope)
       /\ LET scope == WhatToRead(syncer[s].scope, wide)
          IN syncer' = [syncer EXCEPT ![s].at = IF wide THEN "wide" ELSE "read",
               ![s].scope = scope, ![s].nodes = NodesOf(scope),
               ![s].edges = EdgesOf(scope)]
  /\ Still /\ UNCHANGED <<pending, graph, history>>

Detach(gone) ==
  /\ graphNodes' = graphNodes \ gone
  /\ graphEdges' = {e \in graphEdges : e[1] \notin gone /\ e[2] \notin gone}

\* A wide scope is a rebuild: the whole graph is cleared.
Clear(s) ==
  /\ syncer[s].at = "wide"
  /\ Detach(Everything)
  /\ syncer' = [syncer EXCEPT ![s].at = "pruned"]
  /\ Still /\ UNCHANGED <<pending, history>>

PruneMemories(s) ==
  /\ syncer[s].at = "read"
  /\ Detach(syncer[s].scope \cap Memories)
  /\ syncer' = [syncer EXCEPT ![s].at = "cleared"]
  /\ Still /\ UNCHANGED <<pending, history>>

PruneEntities(s) ==
  /\ syncer[s].at = "cleared"
  /\ Detach(syncer[s].scope \cap Names)
  /\ syncer' = [syncer EXCEPT ![s].at = "pruned"]
  /\ Still /\ UNCHANGED <<pending, history>>

WriteNodes(s) ==
  /\ syncer[s].at = "pruned"
  /\ graphNodes' = graphNodes \cup syncer[s].nodes
  /\ syncer' = [syncer EXCEPT ![s].at = "nodes"]
  /\ Still /\ UNCHANGED <<pending, graphEdges, history>>

\* An edge brings the nodes it joins with it.
WriteEdges(s) ==
  /\ syncer[s].at = "nodes"
  /\ graphEdges' = graphEdges \cup syncer[s].edges
  /\ graphNodes' = graphNodes \cup UNION {{e[1], e[2]} : e \in syncer[s].edges}
  /\ syncer' = [syncer EXCEPT ![s] = Ended]
  /\ stray' = stray \ syncer[s].scope
  /\ Still /\ UNCHANGED <<pending, untold>>

\* What a sync has taken out of the graph and not written back yet.
Pruned(s) ==
  IF syncer[s].at \in {"cleared", "pruned", "nodes", "failed"} THEN syncer[s].scope ELSE {}

\* Neo4j cannot be reached, or the worker dies: the job waits to be retried,
\* by this worker or by the next to have its place.
SyncFails(s) ==
  /\ syncer[s] # Ended
  /\ syncer' = [syncer EXCEPT ![s] = [Expanded(syncer[s].job) EXCEPT
       !.at = "failed", !.scope = Pruned(s)]]
  /\ Still /\ UNCHANGED <<pending, graph, history>>

\* The retry widens the job anew, from what is left of the graph.
Retry(s) ==
  /\ syncer[s].at = "failed"
  /\ syncer' = [syncer EXCEPT ![s] = Expanded(syncer[s].job)]
  /\ stray' = stray \cup (syncer[s].scope \ Expand(syncer[s].job))
  /\ Still /\ UNCHANGED <<pending, graph, untold>>
-----------------------------------------------------------------------------
(* What changes rows, with the job it queues. *)

Changes ==
  \/ \E m \in Memories : (Ingest(m) \/ Hide(m)) /\ Enqueue({m})
  \/ \E m \in Memories : Purge(m) /\ Enqueue({x \in ItemOf(m) : HasRow(x)})
  \/ \E w \in Extractors : AnnounceExtraction(w) /\ Enqueue({extractor[w].mem})
  \/ \E r \in Resolvers : AnnounceMerge(r) /\ Enqueue(resolver[r].pair)

\* What dies with its process before it is announced.
Forgotten ==
  \/ \E w \in Extractors :
       /\ GiveUp(w)
       /\ untold' = untold \cup
            IF extractor[w].at = "announcing" THEN {extractor[w].mem} ELSE {}
       /\ Cardinality(untold') <= MaxUntold
  \/ \E r \in Resolvers :
       /\ ForgetMerge(r)
       /\ untold' = untold \cup resolver[r].pair
       /\ Cardinality(untold') <= MaxUntold

\* What the sync learns of only when it is announced.
Unannounced ==
  \/ Upgrade
  \/ \E w \in Extractors, m \in Memories : Extract(w, m)
  \/ \E w \in Extractors :
       \/ DeleteMentions(w) \/ Store(w) \/ FindNothingThere(w)
       \/ \E found \in Findings : ResolveNames(w, found)
  \/ \E r \in Resolvers :
       \/ \E left, right \in entity : StartMerge(r, left, right)
       \/ \E i \in DOMAIN merges : StartRevert(r, i)
       \/ FinishMerge(r) \/ FinishRevert(r) \/ AbandonMerge(r)

Sync(s) ==
  \/ \E job \in pending : Claim(s, job)
  \/ Retry(s)
  \/ Read(s) \/ Clear(s) \/ PruneMemories(s) \/ PruneEntities(s)
  \/ WriteNodes(s) \/ WriteEdges(s)

GraphNext ==
  \/ Quiet /\ Changes /\ UNCHANGED <<syncer, graph, history>>
  \/ Quiet /\ Unannounced /\ UNCHANGED <<pending, syncer, graph, history>>
  \/ Quiet /\ Forgotten /\ UNCHANGED <<pending, syncer, graph, stray>>
  \/ \E s \in Syncers : Sync(s) \/ SyncFails(s)

GraphSpec == GraphInit /\ [][GraphNext]_graphVars
-----------------------------------------------------------------------------
\* The queue, the workers and the graph hold what they may.
GraphTypeOK ==
  /\ EntitiesTypeOK
  /\ pending \subseteq Scopes
  /\ syncer \in [Syncers -> {Ended} \cup Jobs]
  /\ graphNodes \subseteq Everything
  /\ graphEdges \subseteq Edges
  /\ stray \subseteq Everything
  /\ untold \subseteq Everything

\* Nothing is queued, running, or committed and not yet announced.
Settled ==
  /\ pending = {}
  /\ Running = {}
  /\ \A r \in Resolvers : resolver[r].at # "telling"
  /\ \A w \in Extractors : extractor[w].at # "announcing"

\* What Postgres implies of the rows whose changes were announced.
ToldMemories == {m \in Memories : memory[m] = "current"} \ untold
ToldEdges == {e \in EdgesOf(Everything) : e[1] \notin untold /\ e[2] \notin untold}

\* When the jobs are done, all that Postgres implies is in the graph
\* (graph_sync.py: expand closes the scope before anything is pruned): pruning
\* a neighbourhood takes nothing with it that is not written back, by the sync
\* itself or, of what it still finds, by the retry of one that failed.  What a
\* process died over before it queued the sync may be behind.
NothingIsMissing ==
  Settled => /\ (ToldMemories \cup {e[2] : e \in ToldEdges}) \ stray \subseteq graphNodes
             /\ {e \in ToldEdges : e[1] \notin stray /\ e[2] \notin stray}
                  \subseteq graphEdges

\* The same of all that is in Postgres: "the retry is what makes a Neo4j that
\* was down for a minute a pause rather than a divergence" (handlers.py:99).
RetryRepairs ==
  Settled => NodesOf(Everything) \subseteq graphNodes
             /\ EdgesOf(Everything) \subseteq graphEdges

\* When the jobs are done, what was hidden, purged or merged away has left the
\* graph (deletion.py, sync.py and resolution.py queue a sync that names it),
\* but for a merge whose process died before it queued the sync.
WhatLeftIsGone ==
  Settled => /\ \A m \in graphNodes \cap Memories : memory[m] \in {"current", "old"}
             /\ \A n \in graphNodes \cap Names : merged[n] = None \/ n \in untold

\* ingest.py:171 of the version a new one replaces: "re-projecting this
\* memory's neighbourhood removes the node for the version this one has just
\* replaced."
ReplacedIsGone ==
  Settled /\ (\A m \in Memories : memory[m] = "current" => marker[m] = version)
    => \A m \in graphNodes \cap Memories : memory[m] # "old"
=============================================================================
