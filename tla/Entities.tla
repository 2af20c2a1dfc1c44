------------------------------ MODULE Entities ------------------------------
(***************************************************************************)
(* What the corpus is about: entities found in memories by a language      *)
(* model (application/extraction.py), merged and un-merged by a person or  *)
(* by the resolver (application/resolution.py), and the mentions that tie  *)
(* the two together.                                                       *)
(*                                                                         *)
(* A memory has one chunk.  An entity is named by its canonical name and   *)
(* type, and At is the place in the text where a name is found; names at   *)
(* one place are the same sighting once their entities are merged.         *)
(*                                                                         *)
(* The transactions of an extraction, of a merge and of its undoing are    *)
(* several actions each: under READ COMMITTED they read, without a lock,   *)
(* what another may change before they write.  Interleaved says whether    *)
(* any other transaction commits during one of them.                       *)
(***************************************************************************)
EXTENDS Integers, FiniteSets, Sequences

CONSTANTS
  Memories,     \* versions of items
  Replaces,     \* the version a memory supersedes, or None
  Names,        \* entities, by canonical name and type
  At,           \* where in a text a name is found
  Findings,     \* the sets of names the model may find in a text
  None,
  Extractors,   \* workers and command lines running ExtractEntities
  Resolvers,    \* people and command lines running ResolveEntities
  Interleaved,  \* whether other transactions run during one of these
  MaxVersion,   \* bound: extractor versions deployed
  MaxMerges     \* bound: merges applied

ASSUME EntitiesAssumption ==
  /\ None \notin Memories \cup Names
  /\ Replaces \in [Memories -> Memories \cup {None}]
  /\ At \in [Names -> Nat]
  /\ Findings \subseteq SUBSET Names
  /\ Interleaved \in BOOLEAN
  /\ MaxVersion \in Nat \ {0}
  /\ MaxMerges \in Nat

VARIABLES
  memory,       \* memories: is_current, deleted_at, or no row
  marker,       \* memories.entity_extractor_version, 0 for NULL
  entity,       \* the entities that have a row
  merged,       \* entities.merged_into_id
  mentions,     \* entity_mentions
  merges,       \* entity_merges, in the order they were applied
  extractor,    \* where each extraction is
  resolver,     \* where each merge or its undoing is
  version       \* the extractor version in use

rows == <<memory, marker, entity, merged, mentions, merges>>
entityVars == <<rows, extractor, resolver, version>>

States == {"absent", "current", "old", "hidden", "purged"}
HasRow(m) == memory[m] \in {"current", "old", "hidden"}
Versions == 1..MaxVersion

\* A mention's id is the memory, the extraction and the name that made it.
Ids == [mem : Memories, of : Names, ver : Versions]
Mentions == [id : Ids, ent : Names]
MergeRows == [winner : Names, loser : Names, applied : BOOLEAN,
              moved : SUBSET Ids]

Idle == [at |-> "idle"]
Calling == [at : {"calling"}, mem : Memories, ver : Versions]
Deleting == [at : {"deleting"}, mem : Memories, ver : Versions,
             doomed : SUBSET Mentions]
Storing == [at : {"storing"}, mem : Memories, ver : Versions,
            doomed : SUBSET Mentions, found : Findings,
            target : [Names -> Names]]
Announcing == [at : {"announcing"}, mem : Memories]
Extractions == {Idle} \cup Calling \cup Deleting \cup Storing \cup Announcing

Spots == [mem : Memories, at : Nat]
Merging == [at : {"merging"}, winner : Names, loser : Names,
            moving : SUBSET Ids, places : SUBSET Spots]
Undoing == [at : {"undoing"}, row : 1..MaxMerges]
Telling == [at : {"telling"}, pair : SUBSET Names]
Resolutions == {Idle} \cup Merging \cup Undoing \cup Telling

Init ==
  /\ memory = [m \in Memories |-> "absent"]
  /\ marker = [m \in Memories |-> 0]
  /\ entity = {}
  /\ merged = [n \in Names |-> None]
  /\ mentions = {}
  /\ merges = <<>>
  /\ extractor = [w \in Extractors |-> Idle]
  /\ resolver = [r \in Resolvers |-> Idle]
  /\ version = 1

\* Where pointers lead from an entity, one at a time.
Hop(n) == IF merged[n] = None THEN n ELSE merged[n]
FourHops(n) == Hop(Hop(Hop(Hop(n))))

\* resolution._follow: what is not reached within eight rows is given up on.
Follow(n) ==
  LET end == Hop(Hop(Hop(FourHops(n))))
  IN IF merged[end] = None THEN end ELSE None

\* extraction._follow_merge, from the row the name has: up to nine pointers,
\* and of a longer chain the entity that was reached.
Upserted(n) == Hop(FourHops(FourHops(n)))

InTransaction(w) == extractor[w].at \in {"deleting", "storing"}
Resolving(r) == resolver[r].at \in {"merging", "undoing"}
Free ==
  \/ Interleaved
  \/ /\ \A w \in Extractors : ~InTransaction(w)
     /\ \A r \in Resolvers : ~Resolving(r)

\* The rows an extraction has deleted are locked until it ends.
Unlocked(ids) ==
  \A w \in Extractors : InTransaction(w) =>
    \A d \in extractor[w].doomed : d.id \notin ids

\* The row lock that marking the memory as extracted takes.
Locked(m) == \E w \in Extractors : extractor[w].at = "storing" /\ extractor[w].mem = m
-----------------------------------------------------------------------------
(* Memories come and go: ingest, tombstone, purge of an item's versions. *)

Ingest(m) ==
  /\ Free
  /\ memory[m] = "absent"
  /\ Replaces[m] # None => memory[Replaces[m]] # "absent"
  /\ memory' = [x \in Memories |->
                  CASE x = m -> "current"
                    [] x = Replaces[m] /\ HasRow(x) -> "old"
                    [] OTHER -> memory[x]]
  /\ UNCHANGED <<marker, entity, merged, mentions, merges, extractor, resolver, version>>

Hide(m) ==
  /\ Free
  /\ memory[m] = "current"
  /\ memory' = [memory EXCEPT ![m] = "hidden"]
  /\ UNCHANGED <<marker, entity, merged, mentions, merges, extractor, resolver, version>>

ItemOf(m) == {m} \cup {x \in Memories : x = Replaces[m] \/ Replaces[x] = m}

\* The cascade takes the mentions; entities stay.
Purge(m) ==
  /\ Free
  /\ memory[m] \in {"current", "hidden"}
  /\ \A x \in ItemOf(m) : ~Locked(x)
  /\ memory' = [x \in Memories |->
                  IF x \in ItemOf(m) /\ HasRow(x) THEN "purged" ELSE memory[x]]
  /\ mentions' = {r \in mentions : r.id.mem \notin ItemOf(m)}
  /\ UNCHANGED <<marker, entity, merged, merges, extractor, resolver, version>>

\* A deployment whose extractor has another version: everything is stale again.
Upgrade ==
  /\ Free
  /\ version < MaxVersion
  /\ version' = version + 1
  /\ UNCHANGED <<rows, extractor, resolver>>
-----------------------------------------------------------------------------
(* ExtractEntities *)

\* Loads the memory and its chunks and asks the model.
Extract(w, m) ==
  /\ Free
  /\ extractor[w] = Idle
  /\ memory[m] \in {"current", "old"}
  /\ marker[m] # version
  /\ extractor' = [extractor EXCEPT ![w] =
                     [at |-> "calling", mem |-> m, ver |-> version]]
  /\ UNCHANGED <<rows, resolver, version>>

\* The answer is there: the transaction starts by deleting the old mentions.
DeleteMentions(w) ==
  /\ Free
  /\ extractor[w].at = "calling"
  /\ extractor' = [extractor EXCEPT ![w] =
                     [at |-> "deleting", mem |-> @.mem, ver |-> @.ver,
                      doomed |-> {r \in mentions : r.id.mem = @.mem}]]
  /\ UNCHANGED <<rows, resolver, version>>

\* Marks the memory, which locks its row, and finds the entity of each name.
\* Mutant: the row a name has is used as it is, without following merges.
ResolveNamesAsFound(w, found) ==
  /\ extractor[w].at = "deleting"
  /\ HasRow(extractor[w].mem)
  /\ ~Locked(extractor[w].mem)
  /\ extractor' = [extractor EXCEPT ![w] =
                     [at |-> "storing", mem |-> @.mem, ver |-> @.ver,
                      doomed |-> @.doomed, found |-> found,
                      target |-> [n \in Names |-> n]]]
  /\ UNCHANGED <<rows, resolver, version>>

ResolveNames(w, found) ==
  /\ extractor[w].at = "deleting"
  /\ HasRow(extractor[w].mem)
  /\ ~Locked(extractor[w].mem)
  /\ extractor' = [extractor EXCEPT ![w] =
                     [at |-> "storing", mem |-> @.mem, ver |-> @.ver,
                      doomed |-> @.doomed, found |-> found,
                      target |-> [n \in Names |-> Upserted(n)]]]
  /\ UNCHANGED <<rows, resolver, version>>

\* One mention per entity and place: of the names that come to the same, one
\* is inserted, and none where another transaction's mention already is.
Sighting(m, ent, n) == [mem |-> m, ent |-> ent, at |-> At[n]]
Sightings(set) == {Sighting(r.id.mem, r.ent, r.id.of) : r \in set}

Inserted(e, kept, left) ==
  LET S(n) == Sighting(e.mem, e.target[n], n)
  IN /\ \A n \in kept : S(n) \notin Sightings(left)
     /\ \A n, o \in kept : S(n) = S(o) => n = o
     /\ \A n \in e.found : S(n) \in Sightings(left) \cup {S(o) : o \in kept}

\* Mutant: the old mentions are left where they are.
StoreAddingTo(w) ==
  LET e == extractor[w]
  IN /\ e.at = "storing"
     /\ \E kept \in SUBSET e.found :
          /\ Inserted(e, kept, mentions)
          /\ mentions' = mentions \cup
               {[id |-> [mem |-> e.mem, of |-> n, ver |-> e.ver],
                 ent |-> e.target[n]] : n \in kept}
     /\ entity' = entity \cup e.found
     /\ marker' = [marker EXCEPT ![e.mem] = e.ver]
     /\ extractor' = [extractor EXCEPT ![w] = [at |-> "announcing", mem |-> e.mem]]
     /\ UNCHANGED <<memory, merged, merges, resolver, version>>

Store(w) ==
  LET e == extractor[w]
      left == mentions \ e.doomed
  IN /\ e.at = "storing"
     /\ \E kept \in SUBSET e.found :
          /\ Inserted(e, kept, left)
          /\ mentions' = left \cup
               {[id |-> [mem |-> e.mem, of |-> n, ver |-> e.ver],
                 ent |-> e.target[n]] : n \in kept}
     /\ entity' = entity \cup e.found
     /\ marker' = [marker EXCEPT ![e.mem] = e.ver]
     /\ extractor' = [extractor EXCEPT ![w] = [at |-> "announcing", mem |-> e.mem]]
     /\ UNCHANGED <<memory, merged, merges, resolver, version>>

\* The memory was purged during the call: its chunks are gone, a foreign key
\* fails and the transaction is rolled back.
FindNothingThere(w) ==
  /\ extractor[w].at = "deleting"
  /\ ~HasRow(extractor[w].mem)
  /\ extractor' = [extractor EXCEPT ![w] = Idle]
  /\ UNCHANGED <<rows, resolver, version>>

\* After the commit: the graph sync of this memory is queued.
AnnounceExtraction(w) ==
  /\ extractor[w].at = "announcing"
  /\ extractor' = [extractor EXCEPT ![w] = Idle]
  /\ UNCHANGED <<rows, resolver, version>>

\* The model fails or the process dies.  What was not committed was not written;
\* of what was, a job that is tried again skips the memory and announces nothing.
GiveUp(w) ==
  /\ extractor[w] # Idle
  /\ extractor' = [extractor EXCEPT ![w] = Idle]
  /\ UNCHANGED <<rows, resolver, version>>
-----------------------------------------------------------------------------
(* ResolveEntities *)

MentionsOf(n) == {x \in mentions : x.ent = n}
Place(id) == [mem |-> id.mem, at |-> At[id.of]]

\* Mutant: the winner is decided without following the pointers first.
Unfollowed(left, right, winner, loser) ==
  /\ {winner, loser} = {left, right}
  /\ winner # loser
  /\ Cardinality(MentionsOf(winner)) >= Cardinality(MentionsOf(loser))

\* Both sides are followed to what they are now; the more mentioned one wins,
\* and a tie is broken by age, which is any order here.
Applicable(left, right, winner, loser) ==
  /\ {winner, loser} = {Follow(left), Follow(right)}
  /\ winner # loser
  /\ Cardinality(MentionsOf(winner)) >= Cardinality(MentionsOf(loser))

\* A merge reads what it will move and what the winner has already ...
StartMerge(r, left, right) ==
  /\ Free
  /\ resolver[r] = Idle
  /\ \E winner, loser \in Names :
       /\ Applicable(left, right, winner, loser)
       /\ resolver' = [resolver EXCEPT ![r] =
            [at |-> "merging", winner |-> winner, loser |-> loser,
             moving |-> {x.id : x \in MentionsOf(loser)},
             places |-> {Place(x.id) : x \in MentionsOf(winner)}]]
  /\ UNCHANGED <<rows, extractor, version>>

\* Moves what the winner had not been seen at the same place, drops the rest.
Moved(e) == {x \in mentions : x.id \in e.moving /\ Place(x.id) \notin e.places}
Repointed(e) ==
  {x \in mentions : x.id \notin e.moving}
    \cup {[x EXCEPT !.ent = e.winner] : x \in Moved(e)}

\* One entity is mentioned once at a place (uq_entity_mentions_span).
AllDiffer(set) == Cardinality(Sightings(set)) = Cardinality(set)

\* Mutant: the sync that is queued names the winner only.
FinishMergeForWinner(r) ==
  LET e == resolver[r]
  IN /\ e.at = "merging"
     /\ Unlocked(e.moving)
     /\ Len(merges) < MaxMerges
     /\ AllDiffer(Repointed(e))
     /\ mentions' = Repointed(e)
     /\ merged' = [merged EXCEPT ![e.loser] = e.winner]
     /\ merges' = Append(merges, [winner |-> e.winner, loser |-> e.loser,
                                  applied |-> TRUE,
                                  moved |-> {x.id : x \in Moved(e)}])
     /\ resolver' = [resolver EXCEPT ![r] = [at |-> "telling", pair |-> {e.winner}]]
     /\ UNCHANGED <<memory, marker, entity, extractor, version>>

\* ... and writes it: the mentions, the loser's pointer, the row of the merge.
FinishMerge(r) ==
  LET e == resolver[r]
  IN /\ e.at = "merging"
     /\ Unlocked(e.moving)
     /\ Len(merges) < MaxMerges
     /\ AllDiffer(Repointed(e))
     /\ mentions' = Repointed(e)
     /\ merged' = [merged EXCEPT ![e.loser] = e.winner]
     /\ merges' = Append(merges, [winner |-> e.winner, loser |-> e.loser,
                                  applied |-> TRUE,
                                  moved |-> {x.id : x \in Moved(e)}])
     /\ resolver' = [resolver EXCEPT ![r] =
                       [at |-> "telling", pair |-> {e.winner, e.loser}]]
     /\ UNCHANGED <<memory, marker, entity, extractor, version>>

\* revert() reads the row of the merge, which must be applied ...
StartRevert(r, i) ==
  /\ Free
  /\ resolver[r] = Idle
  /\ merges[i].applied
  /\ resolver' = [resolver EXCEPT ![r] = [at |-> "undoing", row |-> i]]
  /\ UNCHANGED <<rows, extractor, version>>

Returned(row) ==
  {IF x.id \in row.moved THEN [x EXCEPT !.ent = row.loser] ELSE x : x \in mentions}

\* ... and gives back what it moved, which may not land on a mention the loser
\* has at the same place.
FinishRevert(r) ==
  /\ resolver[r].at = "undoing"
  /\ LET i == resolver[r].row
         row == merges[i]
     IN /\ Unlocked(row.moved)
        /\ AllDiffer(Returned(row))
        /\ mentions' = Returned(row)
        /\ merged' = [merged EXCEPT ![row.loser] = None]
        /\ merges' = [merges EXCEPT ![i].applied = FALSE]
        /\ resolver' = [resolver EXCEPT ![r] =
                          [at |-> "telling", pair |-> {row.winner, row.loser}]]
  /\ UNCHANGED <<memory, marker, entity, extractor, version>>

\* A constraint fails, or the process dies: the transaction is rolled back.
AbandonMerge(r) ==
  /\ Resolving(r)
  /\ resolver' = [resolver EXCEPT ![r] = Idle]
  /\ UNCHANGED <<rows, extractor, version>>

\* After the commit: the graph sync of both entities is queued.
AnnounceMerge(r) ==
  /\ resolver[r].at = "telling"
  /\ resolver' = [resolver EXCEPT ![r] = Idle]
  /\ UNCHANGED <<rows, extractor, version>>

\* The process dies before: the merge, or its undoing, is not announced.
ForgetMerge(r) ==
  /\ resolver[r].at = "telling"
  /\ resolver' = [resolver EXCEPT ![r] = Idle]
  /\ UNCHANGED <<rows, extractor, version>>
-----------------------------------------------------------------------------
EntityNext ==
  \/ \E m \in Memories : Ingest(m) \/ Hide(m) \/ Purge(m)
  \/ Upgrade
  \/ \E w \in Extractors, m \in Memories : Extract(w, m)
  \/ \E w \in Extractors :
       \/ DeleteMentions(w) \/ Store(w) \/ FindNothingThere(w)
       \/ \E found \in Findings : ResolveNames(w, found)
       \/ AnnounceExtraction(w) \/ GiveUp(w)
  \/ \E r \in Resolvers :
       \/ \E left, right \in entity : StartMerge(r, left, right)
       \/ \E i \in DOMAIN merges : StartRevert(r, i)
       \/ FinishMerge(r) \/ FinishRevert(r) \/ AbandonMerge(r)
       \/ AnnounceMerge(r) \/ ForgetMerge(r)

EntitySpec == Init /\ [][EntityNext]_entityVars
-----------------------------------------------------------------------------
\* Rows and processes hold what the schema and the code let them hold.
EntitiesTypeOK ==
  /\ memory \in [Memories -> States]
  /\ marker \in [Memories -> 0..MaxVersion]
  /\ entity \subseteq Names
  /\ merged \in [Names -> Names \cup {None}]
  /\ mentions \subseteq Mentions
  /\ merges \in Seq(MergeRows)
  /\ Len(merges) <= MaxMerges
  /\ extractor \in [Extractors -> Extractions]
  /\ resolver \in [Resolvers -> Resolutions]
  /\ version \in Versions

\* A mention is on an entity that has not been merged away (extraction.py's
\* _upsert_entity, resolution.py's _repoint and revert): what a merge took off
\* an entity no later extraction puts back, nor does undoing merges in any
\* order leave a mention behind on a row the projection does not read.  It
\* holds while no chain of pointers is longer than the nine _follow_merge
\* follows ("a too-deep chain should cost a misfiled mention"), and for
\* transactions that run alone.
MentionsAreOnWinners == \A r \in mentions : merged[r.ent] = None

\* A memory carries the findings of one extraction only, the one its marker
\* names (extraction.py's _store): whichever of two calls to the model comes
\* back last, with whichever version, no count over mentions counts twice.
OneOpinion == \A r \in mentions : r.id.ver = marker[r.id.mem]

\* An entity is merged away exactly when an applied merge says so, which is
\* then the only one: undoing that merge is enough to bring it back.  Nothing
\* locks what a merge has read, so it is claimed of merges that run alone.
EveryMergeCanBeUndone ==
  \A n \in Names :
    LET took == {i \in DOMAIN merges : merges[i].applied /\ merges[i].loser = n}
    IN /\ merged[n] # None <=> took # {}
       /\ \A i \in took : took = {i} /\ merges[i].winner = merged[n]
=============================================================================
