------------------------------- MODULE Replay -------------------------------
(***************************************************************************)
(* ReplayCorpus (application/replay.py): the derived tables are emptied    *)
(* and rebuilt from the log, in place or in a workspace that is swapped in *)
(* (adapters/db/shadow.py), and the evidence people have linked to         *)
(* memories is carried across in the memory of the process.                *)
(*                                                                         *)
(* A version of an item is known by the event that recorded it; what is    *)
(* current is last.  The chunks of a version are one chunk, absent, bare   *)
(* or embedded.  The graph is told apart only by whether it shows memories *)
(* that are there.  Every transaction is an action; what the rest of the   *)
(* system does to the live tables meanwhile is Others.                     *)
(***************************************************************************)
EXTENDS Integers, FiniteSets, Sequences, SequencesExt

CONSTANTS
  Keys,        \* items
  Sources,     \* the items of each source
  Owners,      \* decisions, outcomes, assumptions that cite items
  None,
  Modes,       \* "place", "shadow"
  Afters,      \* log positions `--since` may name
  Others,      \* what others do during a replay of either mode
  Kills,       \* whether the process may be killed
  MaxEvents,   \* bound: events in the log
  MaxLinks     \* bound: links at a time

ASSUME ReplayAssumption ==
  /\ Sources \subseteq SUBSET Keys /\ Keys \notin Sources
  /\ None \notin Keys \cup {"none", "bare", "full"}
  /\ Modes \subseteq {"place", "shadow"}
  /\ 0 \in Afters /\ Afters \subseteq Nat
  /\ Kills \in BOOLEAN
  /\ MaxEvents \in Nat
  /\ MaxLinks \in Nat

VARIABLES
  log,         \* ingestion_events
  live,        \* memories and memory_chunks in the live schema
  shadow,      \* those in the workspace, or None
  evidence,    \* decision_evidence, outcome_evidence, assumption_evidence
  graph,       \* what the projection shows
  replay,      \* where the replay is
  due          \* what it found and, as nobody has touched it, has to leave

vars == <<log, live, shadow, evidence, graph, replay, due>>

Seqs == 1..MaxEvents
Events == [type : {"observed", "deleted", "purged"}, key : Keys]
Rows == [seq : Seqs, hidden : BOOLEAN, chunk : {"none", "bare", "full"}]
Corpora == [Keys -> Seq(Rows)]
Empty == [k \in Keys |-> <<>>]

\* A link to a version, or to its chunk.
Links == [owner : Owners, key : Keys, ver : Seqs, chunk : BOOLEAN]

Stages == {"all", "normalize", "embed"}
Ended == {"idle", "done", "undone", "lost", "killed"}
Running == {"create", "clear", "cleargraph", "scan", "open", "apply",
            "normalize", "embed", "target", "rechunk", "retarget", "reembed",
            "swap", "project", "restore", "unwind"}

Replays == [at : Ended \cup Running, mode : {"place", "shadow"}, stage : Stages,
            scope : Sources \cup {Keys}, after : Afters, kept : SUBSET Links,
            purged : SUBSET Keys, pos : Nat, upto : 0..MaxEvents,
            todo : SUBSET (Keys \X Seqs)]

Idle == [at |-> "idle", mode |-> "place", stage |-> "all", scope |-> Keys,
         after |-> 0, kept |-> {}, purged |-> {}, pos |-> 0, upto |-> 0, todo |-> {}]
Nothing == [chunk |-> [k \in Keys |-> None], links |-> {}]

Init ==
  /\ log = <<>>
  /\ live = Empty
  /\ shadow = None
  /\ evidence = {}
  /\ graph = "shows"
  /\ replay = Idle
  /\ due = Nothing

At(p) == replay.at = p
Under(p) == replay' = [replay EXCEPT !.at = p]
Complete == replay.stage = "all" /\ replay.scope = Keys /\ replay.after = 0
InPlace == replay.mode = "place"

\* Of a replay that is over only how it went is left.
Over(p) == replay' = [Idle EXCEPT !.at = p, !.mode = replay.mode, !.after = replay.after]

\* The tables the rebuild writes.
Target == IF InPlace THEN live ELSE shadow
-----------------------------------------------------------------------------
(* Items: versions, chunks, and the links that hang off them *)

Current(c, k) == Last(c[k])
Shown(c, k) == c[k] # <<>> /\ ~Current(c, k).hidden
IsThere(c, k, s) == \E i \in DOMAIN c[k] : c[k][i].seq = s

AddVersion(c, k, s) ==
  [c EXCEPT ![k] = Append(@, [seq |-> s, hidden |-> FALSE, chunk |-> "none"])]

HideCurrent(c, k) ==
  IF c[k] = <<>> THEN c ELSE [c EXCEPT ![k][Len(c[k])].hidden = TRUE]

\* normalize.py: a version without chunks gets them, and no other version of the
\* item keeps its own; a hidden one is left alone.
Normalized(c, k, s) ==
  IF \E i \in DOMAIN c[k] :
       c[k][i].seq = s /\ (c[k][i].hidden \/ c[k][i].chunk # "none")
  THEN c
  ELSE [c EXCEPT ![k] = [i \in DOMAIN c[k] |->
          [c[k][i] EXCEPT !.chunk = IF c[k][i].seq = s THEN "bare" ELSE "none"]]]

\* embed.py
Embedded(c, k, s) ==
  [c EXCEPT ![k] = [i \in DOMAIN c[k] |->
     IF c[k][i].seq = s /\ ~c[k][i].hidden /\ c[k][i].chunk = "bare"
       THEN [c[k][i] EXCEPT !.chunk = "full"] ELSE c[k][i]]]

\* ON DELETE CASCADE: what is left of the links once the tables are c.
Surviving(links, c) ==
  {l \in links : \E i \in DOMAIN c[l.key] :
                   c[l.key][i].seq = l.ver /\ (l.chunk => c[l.key][i].chunk # "none")}

\* A link by natural key can be made: the item is shown, and so is its chunk.
Citable(c, l) ==
  Shown(c, l.key) /\ (l.chunk => Current(c, l.key).chunk # "none")

Relinked(c, l) == [l EXCEPT !.ver = Current(c, l.key).seq]

SetLive(c) == live' = c /\ evidence' = Surviving(evidence, c)

\* What one event, the n-th, makes of an item's versions, hidden or not.
Told(vs, n, e) ==
  CASE e.type = "observed" -> Append(vs, <<n, FALSE>>)
    [] e.type = "deleted" /\ vs # <<>> -> [vs EXCEPT ![Len(vs)] = <<@[1], TRUE>>]
    [] OTHER -> vs

Purged(k) == \E i \in DOMAIN log : log[i].key = k /\ log[i].type = "purged"

\* What is left of an item after each event of a log.
Telling(k, events) ==
  LET after[n \in 0..Len(events)] ==
        IF n = 0 THEN <<>>
        ELSE IF events[n].key = k THEN Told(after[n - 1], n, events[n])
        ELSE after[n - 1]
  IN  after

\* What the log says of an item.
Said(k) == IF Purged(k) THEN <<>> ELSE Telling(k, log)[Len(log)]

Versions(rows) == [i \in DOMAIN rows |-> <<rows[i].seq, rows[i].hidden>>]

AsLogged(k) == Versions(live[k]) = Said(k)
ChunkOf(k) == IF live[k] = <<>> THEN "none" ELSE Current(live, k).chunk
-----------------------------------------------------------------------------
(* The rest of the system *)

Free(act) == replay.at \in Ended \/ act \in Others[replay.mode]

\* How the last replay went is forgotten with the first thing that happens.
Touch(k) ==
  IF replay.at \in Ended
    THEN replay' = Idle /\ due' = Nothing
    ELSE /\ due' = [chunk |-> [due.chunk EXCEPT ![k] = None],
                    links |-> {l \in due.links : l.key # k}]
         /\ UNCHANGED replay

Log(type, k) ==
  /\ Len(log) < MaxEvents
  /\ log' = Append(log, [type |-> type, key |-> k])

Observe(k) ==
  /\ Free("observe")
  /\ Log("observed", k)
  /\ SetLive(AddVersion(live, k, Len(log) + 1))
  /\ Touch(k)
  /\ UNCHANGED <<shadow, graph>>

Hide(k) ==
  /\ Free("hide")
  /\ Shown(live, k)
  /\ Log("deleted", k)
  /\ SetLive(HideCurrent(live, k))
  /\ Touch(k)
  /\ UNCHANGED <<shadow, graph>>

Purge(k) ==
  /\ Free("purge")
  /\ live[k] # <<>>
  /\ Log("purged", k)
  /\ SetLive([live EXCEPT ![k] = <<>>])
  /\ Touch(k)
  /\ UNCHANGED <<shadow, graph>>

\* The pipeline, or rechunk and embed-backfill, on the current version.
Work(k) ==
  /\ Free("work")
  /\ Shown(live, k)
  /\ LET s == Current(live, k).seq
     IN \/ SetLive(Normalized(live, k, s))
        \/ SetLive(Embedded(live, k, s))
  /\ live' # live
  /\ Touch(k)
  /\ UNCHANGED <<log, shadow, graph>>

\* _link_one: the natural key is resolved to ids now.
Link(o, k, chunk) ==
  /\ Free("link")
  /\ Cardinality(evidence) < MaxLinks
  /\ LET l == [owner |-> o, key |-> k, ver |-> 1, chunk |-> chunk]
     IN /\ Citable(live, l)
        /\ Relinked(live, l) \notin evidence
        /\ evidence' = evidence \cup {Relinked(live, l)}
  /\ Touch(k)
  /\ UNCHANGED <<log, live, shadow, graph>>
-----------------------------------------------------------------------------
(* The replay *)

\* _preserve_evidence: the links are read and deleted, first of all.
Begin(mode, stage, scope, after) ==
  /\ replay.at \in Ended
  /\ replay' = [at |-> IF mode = "shadow" THEN "create" ELSE "clear",
                mode |-> mode, stage |-> stage, scope |-> scope,
                after |-> after, kept |-> evidence, purged |-> {}, pos |-> 0,
                upto |-> 0, todo |-> {}]
  /\ evidence' = {}
  /\ due' = [chunk |-> [k \in Keys |-> IF AsLogged(k) THEN ChunkOf(k) ELSE None],
             links |-> {Relinked(live, l) :
                          l \in {x \in evidence : AsLogged(x.key) /\ Citable(live, x)}}]
  /\ UNCHANGED <<log, live, shadow, graph>>

\* Only a complete scope gets a workspace; any other is refused, see Fail.
Create ==
  /\ At("create") /\ Complete
  /\ shadow' = Empty
  /\ Under("clear")
  /\ UNCHANGED <<log, live, evidence, graph, due>>

Reprocessed(k) == k \in replay.scope /\ Shown(live, k)

WithChunk(c, k, chunk) == [c[k] EXCEPT ![Len(c[k])].chunk = chunk]

\* Mutant: the chunks of every item in scope go, shown or not.
ClearedInScope ==
  [k \in Keys |->
     CASE replay.stage = "all" /\ k \in replay.scope -> <<>>
       [] replay.stage # "all" /\ k \in replay.scope /\ live[k] # <<>> ->
            WithChunk(live, k, IF replay.stage = "embed" /\ Current(live, k).chunk # "none"
                                 THEN "bare" ELSE "none")
       [] OTHER -> live[k]]

\* All of it, whatever position the scope starts from; or the memories of a
\* source; or chunks or vectors of the current versions that are shown.
Cleared ==
  [k \in Keys |->
     CASE replay.stage = "all" /\ k \in replay.scope -> <<>>
       [] replay.stage = "normalize" /\ Reprocessed(k) -> WithChunk(live, k, "none")
       [] replay.stage = "embed" /\ Reprocessed(k)
            /\ Current(live, k).chunk # "none" -> WithChunk(live, k, "bare")
       [] OTHER -> live[k]]

AfterClearing == CASE replay.stage = "all" -> "scan"
                   [] replay.stage = "normalize" -> "target"
                   [] replay.stage = "embed" -> "retarget"

\* What vanishes from under the graph makes it dangle.
Clear ==
  /\ At("clear")
  /\ IF InPlace
       THEN /\ SetLive(Cleared)
            /\ graph' = IF replay.stage = "all" /\ live # Cleared THEN "dangles" ELSE graph
            /\ UNCHANGED shadow
       ELSE /\ shadow' = Empty
            /\ UNCHANGED <<live, evidence, graph>>
  /\ Under(IF InPlace /\ Complete THEN "cleargraph" ELSE AfterClearing)
  /\ UNCHANGED <<log, due>>

ClearGraph ==
  /\ At("cleargraph")
  /\ graph' = "empty"
  /\ Under(IF InPlace THEN "scan" ELSE "project")
  /\ UNCHANGED <<log, live, shadow, evidence, due>>
\* Mutant: a purge suppresses nothing that came before it.
ScanNothing ==
  /\ At("scan")
  /\ Under("open")
  /\ UNCHANGED <<log, live, shadow, evidence, graph, due>>

\* _purged_keys: what a purge later in the log suppresses.
ScanPurged ==
  /\ At("scan")
  /\ replay' = [replay EXCEPT !.at = "open",
       !.purged = {k \in replay.scope :
                     \E i \in DOMAIN log : i > replay.after /\ log[i].type = "purged"
                                           /\ log[i].key = k}]
  /\ UNCHANGED <<log, live, shadow, evidence, graph, due>>

\* The cursor sees the log as it is now.
OpenLog ==
  /\ At("open")
  /\ replay' = [replay EXCEPT !.at = "apply", !.pos = replay.after,
                              !.upto = Len(log)]
  /\ UNCHANGED <<log, live, shadow, evidence, graph, due>>

SetTarget(c) ==
  IF InPlace THEN SetLive(c) /\ UNCHANGED shadow
             ELSE shadow' = c /\ UNCHANGED <<live, evidence>>

\* One event, one transaction.
Apply ==
  /\ At("apply") /\ replay.pos < replay.upto
  /\ LET s == replay.pos + 1
         e == log[s]
         skipped == e.key \notin replay.scope \/ e.key \in replay.purged
                    \/ e.type = "purged"
         c == CASE skipped -> Target
                [] ~skipped /\ e.type = "observed" -> AddVersion(Target, e.key, s)
                [] ~skipped /\ e.type = "deleted" -> HideCurrent(Target, e.key)
     IN /\ SetTarget(c)
        /\ replay' = [replay EXCEPT !.pos = s,
             !.at = IF ~skipped /\ e.type = "observed" THEN "normalize" ELSE "apply"]
  /\ UNCHANGED <<log, graph, due>>

\* What the event produced goes through the pipeline before the next one; a
\* version that has vanished meanwhile makes it raise, see Fail.
NormalizeOne ==
  /\ At("normalize")
  /\ IsThere(Target, log[replay.pos].key, replay.pos)
  /\ SetTarget(Normalized(Target, log[replay.pos].key, replay.pos))
  /\ Under("embed")
  /\ UNCHANGED <<log, graph, due>>

EmbedOne ==
  /\ At("embed")
  /\ IsThere(Target, log[replay.pos].key, replay.pos)
  /\ SetTarget(Embedded(Target, log[replay.pos].key, replay.pos))
  /\ Under("apply")
  /\ UNCHANGED <<log, graph, due>>

EndOfLog ==
  /\ At("apply") /\ replay.pos >= replay.upto
  /\ Under(CASE ~InPlace -> "swap"
              [] InPlace /\ Complete -> "project"
              [] OTHER -> "restore")
  /\ UNCHANGED <<log, live, shadow, evidence, graph, due>>

\* _targets, read once for each stage.
FindTargets ==
  /\ replay.at \in {"target", "retarget"}
  /\ replay' = [replay EXCEPT
       !.at = IF At("target") THEN "rechunk" ELSE "reembed",
       !.todo = {<<k, Current(live, k).seq>> : k \in {x \in Keys : Reprocessed(x)}}]
  /\ UNCHANGED <<log, live, shadow, evidence, graph, due>>

Reprocess(k, s) ==
  /\ <<k, s>> \in replay.todo
  /\ IsThere(live, k, s)
  /\ \/ At("rechunk") /\ SetLive(Normalized(live, k, s))
     \/ At("reembed") /\ SetLive(Embedded(live, k, s))
  /\ replay' = [replay EXCEPT !.todo = @ \ {<<k, s>>}]
  /\ UNCHANGED <<log, shadow, graph, due>>

EndOfTargets ==
  /\ replay.at \in {"rechunk", "reembed"} /\ replay.todo = {}
  /\ Under(IF At("rechunk") THEN "retarget" ELSE "restore")
  /\ UNCHANGED <<log, live, shadow, evidence, graph, due>>

\* swap_in, one transaction: the foreign keys of the evidence tables are put
\* back, which a link to the live memories would not let happen.
Swap ==
  /\ At("swap")
  /\ evidence = {}
  /\ live' = shadow
  /\ shadow' = None
  /\ graph' = IF live = Empty THEN graph ELSE "dangles"
  /\ Under("cleargraph")
  /\ UNCHANGED <<log, evidence, due>>

Project ==
  /\ At("project")
  /\ graph' = "shows"
  /\ Under("restore")
  /\ UNCHANGED <<log, live, shadow, evidence, due>>

\* Anything may raise: bytes that are missing, a scope no workspace can hold, a
\* memory that has vanished, a link that blocks the swap, a database that is
\* gone.  A workspace is discarded.
Fail ==
  /\ replay.at \in Running \ {"restore", "unwind"}
  /\ shadow' = IF InPlace \/ At("create") THEN shadow ELSE None
  /\ replay' = [Idle EXCEPT !.at = "unwind", !.mode = replay.mode,
                            !.after = replay.after, !.kept = replay.kept]
  /\ due' = IF InPlace THEN Nothing ELSE due
  /\ UNCHANGED <<log, live, evidence, graph>>

Restorable == {l \in replay.kept : Citable(live, l)}

\* One statement per owner, memory and chunk: uq_decision_evidence_link.
Collides ==
  \/ \E l \in Restorable : Relinked(live, l) \in evidence
  \/ \E l, m \in Restorable : l # m /\ Relinked(live, l) = Relinked(live, m)

\* Mutant: only what resolves to the same version comes back.
RestoreSameVersion ==
  /\ replay.at \in {"restore", "unwind"}
  /\ evidence' = evidence \cup {l \in Restorable : Relinked(live, l) = l}
  /\ Over(IF At("restore") THEN "done" ELSE "undone")
  /\ UNCHANGED <<log, live, shadow, graph, due>>

\* _restore_evidence, one transaction, after success and after failure alike.
Restore ==
  /\ replay.at \in {"restore", "unwind"}
  /\ IF Collides
       THEN Over("lost") /\ UNCHANGED evidence
       ELSE /\ evidence' = evidence \cup {Relinked(live, l) : l \in Restorable}
            /\ Over(IF At("restore") THEN "done" ELSE "undone")
  /\ UNCHANGED <<log, live, shadow, graph, due>>

\* What is left of a workspace is dropped by the next replay before it is read.
Kill ==
  /\ Kills
  /\ replay.at \in Running
  /\ shadow' = None
  /\ Over("killed")
  /\ due' = Nothing
  /\ UNCHANGED <<log, live, evidence, graph>>

ReplayStep ==
  \/ \E mode \in Modes, stage \in Stages, scope \in Sources \cup {Keys},
       after \in Afters : Begin(mode, stage, scope, after)
  \/ Create \/ Clear \/ ClearGraph \/ ScanPurged \/ OpenLog
  \/ Apply \/ NormalizeOne \/ EmbedOne \/ EndOfLog
  \/ FindTargets \/ EndOfTargets
  \/ \E k \in Keys, s \in Seqs : Reprocess(k, s)
  \/ Swap \/ Project \/ Fail \/ Restore \/ Kill

Next ==
  \/ ReplayStep
  \/ \E k \in Keys : Observe(k) \/ Hide(k) \/ Purge(k) \/ Work(k)
  \/ \E o \in Owners, k \in Keys, chunk \in BOOLEAN : Link(o, k, chunk)

Spec == Init /\ [][Next]_vars
-----------------------------------------------------------------------------
(* Properties *)

ReplayTypeOK ==
  /\ log \in Seq(Events) /\ Len(log) <= MaxEvents
  /\ live \in Corpora
  /\ shadow \in Corpora \cup {None}
  /\ evidence \in SUBSET Links
  /\ graph \in {"shows", "empty", "dangles"}
  /\ replay \in Replays
  /\ due.chunk \in [Keys -> {"none", "bare", "full", None}]
  /\ due.links \in SUBSET Links

Rank(chunk) == CASE chunk = "none" -> 0 [] chunk = "bare" -> 1 [] chunk = "full" -> 2

\* A replay that has finished has rebuilt what it cleared, whatever its mode,
\* stage and scope, and whatever happened to other items meanwhile (replay.py
\* _reprocessed, "what a partial replay clears must be exactly what it is going
\* to rebuild, or the difference is destroyed").
WhatWasClearedIsRebuilt ==
  At("done") /\ replay.after = 0 =>
    \A k \in Keys :
      due.chunk[k] # None => AsLogged(k) /\ Rank(ChunkOf(k)) >= Rank(due.chunk[k])

\* What is swapped in is a rebuild of the whole log as it was read, and of
\* nothing else, also after a replay that was killed half-way (shadow.py
\* create, "half of one replay and half of another").
TheWorkspaceIsTheLog ==
  At("swap") =>
    \A k \in Keys : due.chunk[k] # None => Versions(shadow[k]) = Said(k)

\* Every link that was found is there, to the version that is current by now.
Brought == \A l \in due.links : Relinked(live, l) \in evidence

\* A replay that finished has brought the evidence back, and one into a
\* workspace that failed as well, unless a link could not be written (replay.py
\* __call__, "putting them back is a complete rollback").
EvidenceComesBack ==
  (At("done") /\ replay.after = 0) \/ (At("undone") /\ ~InPlace) => Brought

\* Evidence outlives a rebuild (models.py DecisionEvidence, "evidence outlives a
\* rebuild even though the row itself does not").
EvidenceOutlivesRebuild ==
  (At("done") \/ At("lost")) /\ replay.after = 0 => Brought

=============================================================================
