------------------------------ MODULE GraphProofs ------------------------------
(***************************************************************************)
(* The safety of Entities and of GraphSync, which extends it, for any      *)
(* number of memories, names, extractors and workers.                      *)
(*                                                                         *)
(* Entities.  Types hold whatever runs side by side.  The rest holds for   *)
(* transactions that do not run beside one another, and rests on what one  *)
(* in the middle has read being still so (XInv): two entities without a    *)
(* pointer, an applied merge, the mentions an extraction replaces.         *)
(*                                                                         *)
(* GraphSync.  When rows are at rest while a sync runs, what has left      *)
(* Postgres leaves the graph, and what is in Postgres is in the graph, but *)
(* for what a failed sync had pruned and its retry no longer found, and    *)
(* what a process died over before it queued a sync.  Both follow from an  *)
(* account of what is owed: whatever is wrong in the graph is named by a   *)
(* job, waiting or at work, by something that is still to be announced, or *)
(* by the scope of the sync at work.                                       *)
(***************************************************************************)
EXTENDS GraphSync, TLAPS
-----------------------------------------------------------------------------
(* Entities *)

\* What is being undone is a row of the log of merges.
RowsThere ==
  \A r \in Resolvers : resolver[r].at = "undoing" => resolver[r].row \in DOMAIN merges

TInv == EntitiesTypeOK /\ RowsThere

\* What the fields of an extraction are, by the place it is at.
LEMMA Fields ==
  ASSUME NEW e \in Extractions
  PROVE  /\ e = Idle \/ e.at # "idle"
         /\ e.at = "calling" => e \in Calling
         /\ e.at = "deleting" => e \in Deleting
         /\ e.at = "storing" => e \in Storing
         /\ e.at = "announcing" => e \in Announcing
  BY DEF Extractions, Idle, Calling, Deleting, Storing, Announcing

\* And of a merge or its undoing.
LEMMA MergeFields ==
  ASSUME NEW e \in Resolutions
  PROVE  /\ e.at = "merging" => e \in Merging
         /\ e.at = "undoing" => e \in Undoing
         /\ e.at = "telling" => e \in Telling
  BY DEF Resolutions, Idle, Merging, Undoing, Telling

LEMMA InitTInv == Init => TInv
  <1> SUFFICES ASSUME Init PROVE TInv
    OBVIOUS
  <1> USE DEF Init
  <1>1. EntitiesTypeOK
    BY EntitiesAssumption
       DEF EntitiesTypeOK, States, Extractions, Resolutions, Versions
  <1>2. RowsThere
    BY DEF RowsThere, Idle
  <1>3. QED
    BY <1>1, <1>2 DEF TInv

LEMMA HopType ==
  ASSUME EntitiesTypeOK, NEW n \in Names
  PROVE  Hop(n) \in Names
  BY DEF Hop, EntitiesTypeOK

\* A name belongs to a name.
LEMMA UpsertedType ==
  ASSUME EntitiesTypeOK, NEW n \in Names
  PROVE  Upserted(n) \in Names
  BY HopType DEF Upserted, FourHops

\* What the resolver follows a name to has no pointer, or is None.
LEMMA FollowEnds ==
  ASSUME NEW n, Follow(n) \in Names
  PROVE  merged[Follow(n)] = None
  BY EntitiesAssumption DEF Follow

-----------------------------------------------------------------------------
\* Memories, versions and who is at what: the rows of entities stay.
LEMMA RowsStay ==
  ASSUME TInv,
         memory' \in [Memories -> States], mentions' \subseteq mentions,
         extractor' \in [Extractors -> Extractions], version' \in Versions,
         UNCHANGED <<marker, entity, merged, merges, resolver>>
  PROVE  TInv'
  <1>1. EntitiesTypeOK'
    BY DEF TInv, EntitiesTypeOK
  <1>2. RowsThere'
    BY DEF TInv, RowsThere
  <1>3. QED
    BY <1>1, <1>2 DEF TInv

LEMMA MemoriesTInv ==
  ASSUME TInv, NEW m \in Memories, Ingest(m) \/ Hide(m) \/ Purge(m)
  PROVE  TInv'
  <1>1. memory' \in [Memories -> States]
    BY DEF Ingest, Hide, Purge, TInv, EntitiesTypeOK, States
  <1>2. mentions' \subseteq mentions
    BY DEF Ingest, Hide, Purge
  <1>3. QED
    BY <1>1, <1>2, RowsStay DEF Ingest, Hide, Purge, TInv, EntitiesTypeOK

LEMMA UpgradeTInv == ASSUME TInv, Upgrade PROVE TInv'
  <1>1. version' \in Versions
    BY EntitiesAssumption DEF Upgrade, Versions, TInv, EntitiesTypeOK
  <1>2. QED
    BY <1>1, RowsStay DEF Upgrade, rows, TInv, EntitiesTypeOK

\* A step of one extractor that writes no row.
LEMMA ExtractorStep ==
  ASSUME TInv, NEW w \in Extractors, NEW e \in Extractions,
         extractor' = [extractor EXCEPT ![w] = e],
         UNCHANGED <<rows, resolver, version>>
  PROVE  TInv'
  <1>1. extractor' \in [Extractors -> Extractions]
    BY DEF TInv, EntitiesTypeOK
  <1>2. QED
    BY <1>1, RowsStay DEF rows, TInv, EntitiesTypeOK

LEMMA ExtractTInv ==
  ASSUME TInv, NEW w \in Extractors, NEW m \in Memories, Extract(w, m)
  PROVE  TInv'
  <1>1. [at |-> "calling", mem |-> m, ver |-> version] \in Extractions
    BY DEF Extractions, Calling, TInv, EntitiesTypeOK
  <1>2. QED
    BY <1>1, ExtractorStep DEF Extract

LEMMA DeleteMentionsTInv ==
  ASSUME TInv, NEW w \in Extractors, DeleteMentions(w)
  PROVE  TInv'
  <1> DEFINE e == extractor[w]
             f == [at |-> "deleting", mem |-> e.mem, ver |-> e.ver,
                   doomed |-> {x \in mentions : x.id.mem = e.mem}]
  <1>1. e \in Calling
    BY Fields DEF DeleteMentions, TInv, EntitiesTypeOK
  <1>2. {x \in mentions : x.id.mem = e.mem} \subseteq Mentions
    BY DEF TInv, EntitiesTypeOK
  <1>3. f \in Extractions
    BY <1>1, <1>2 DEF Extractions, Calling, Deleting
  <1>4. extractor' = [extractor EXCEPT ![w] = f] /\ UNCHANGED <<rows, resolver, version>>
    BY DEF DeleteMentions
  <1>5. QED
    BY <1>3, <1>4, ExtractorStep

LEMMA ResolveNamesTInv ==
  ASSUME TInv, NEW w \in Extractors, NEW found \in Findings, ResolveNames(w, found)
  PROVE  TInv'
  <1> DEFINE e == extractor[w]
             f == [at |-> "storing", mem |-> e.mem, ver |-> e.ver, doomed |-> e.doomed,
                   found |-> found, target |-> [n \in Names |-> Upserted(n)]]
  <1>1. e \in Deleting
    BY Fields DEF ResolveNames, TInv, EntitiesTypeOK
  <1>2. [n \in Names |-> Upserted(n)] \in [Names -> Names]
    BY UpsertedType DEF TInv
  <1>3. f \in Storing
    BY <1>1, <1>2 DEF Deleting, Storing
  <1>4. extractor' = [extractor EXCEPT ![w] = f] /\ UNCHANGED <<rows, resolver, version>>
    BY DEF ResolveNames
  <1>5. f \in Extractions
    BY <1>3 DEF Extractions
  <1>6. QED
    BY <1>4, <1>5, ExtractorStep

LEMMA IdleTInv ==
  ASSUME TInv, NEW w \in Extractors, FindNothingThere(w) \/ AnnounceExtraction(w) \/ GiveUp(w)
  PROVE  TInv'
  <1>1. Idle \in Extractions
    BY DEF Extractions
  <1>2. QED
    BY <1>1, ExtractorStep DEF FindNothingThere, AnnounceExtraction, GiveUp

LEMMA StoreTInv ==
  ASSUME TInv, NEW w \in Extractors, Store(w)
  PROVE  TInv'
  <1> DEFINE e == extractor[w]
             new(kept) == {[id |-> [mem |-> e.mem, of |-> n, ver |-> e.ver],
                            ent |-> e.target[n]] : n \in kept}
  <1>1. e \in Storing
    BY Fields DEF Store, TInv, EntitiesTypeOK
  <1>2. /\ e.mem \in Memories /\ e.ver \in Versions
        /\ e.found \subseteq Names /\ e.target \in [Names -> Names]
    BY <1>1, EntitiesAssumption DEF Storing
  <1>3. PICK kept \in SUBSET e.found : mentions' = (mentions \ e.doomed) \cup new(kept)
    BY DEF Store
  <1>4. ASSUME NEW n \in kept
        PROVE  [id |-> [mem |-> e.mem, of |-> n, ver |-> e.ver],
                ent |-> e.target[n]] \in Mentions
    BY <1>2 DEF Mentions, Ids
  <1>5. mentions' \subseteq Mentions
    <2>1. new(kept) \subseteq Mentions
      BY <1>4
    <2>2. QED
      BY <1>3, <2>1 DEF TInv, EntitiesTypeOK
  <1>6. entity' \subseteq Names
    BY <1>2 DEF Store, TInv, EntitiesTypeOK
  <1>7. marker' \in [Memories -> 0..MaxVersion]
    BY <1>2, EntitiesAssumption DEF Store, TInv, EntitiesTypeOK, Versions
  <1>8. extractor' \in [Extractors -> Extractions]
    <2>1. [at |-> "announcing", mem |-> e.mem] \in Extractions
      BY <1>2 DEF Extractions, Announcing
    <2>2. QED
      BY <2>1 DEF Store, TInv, EntitiesTypeOK
  <1>9. EntitiesTypeOK'
    BY <1>5, <1>6, <1>7, <1>8 DEF Store, TInv, EntitiesTypeOK
  <1>10. RowsThere'
    BY DEF Store, TInv, RowsThere
  <1>11. QED
    BY <1>9, <1>10 DEF TInv
-----------------------------------------------------------------------------
(* Merges and their undoing *)

\* A step of one resolver that writes no row.
LEMMA ResolverStep ==
  ASSUME TInv, NEW r \in Resolvers, NEW e \in Resolutions,
         e.at = "undoing" => e.row \in DOMAIN merges,
         resolver' = [resolver EXCEPT ![r] = e],
         UNCHANGED <<rows, extractor, version>>
  PROVE  TInv'
  <1>1. \A q \in Resolvers : resolver'[q] = IF q = r THEN e ELSE resolver[q]
    BY DEF TInv, EntitiesTypeOK
  <1>2. EntitiesTypeOK'
    BY DEF rows, TInv, EntitiesTypeOK
  <1>3. RowsThere'
    BY <1>1 DEF rows, TInv, RowsThere
  <1>4. QED
    BY <1>2, <1>3 DEF TInv

\* What a merge reads.
LEMMA MergeReads ==
  ASSUME TInv, NEW r \in Resolvers, NEW left \in entity, NEW right \in entity,
         StartMerge(r, left, right)
  PROVE  \E e \in Merging :
           /\ resolver' = [resolver EXCEPT ![r] = e]
           /\ e.at = "merging"
           /\ e.winner # e.loser
           /\ merged[e.winner] = None /\ merged[e.loser] = None
           /\ e.moving = {x.id : x \in MentionsOf(e.loser)}
  <1>1. PICK winner, loser \in Names :
          /\ Applicable(left, right, winner, loser)
          /\ resolver' = [resolver EXCEPT ![r] =
               [at |-> "merging", winner |-> winner, loser |-> loser,
                moving |-> {x.id : x \in MentionsOf(loser)},
                places |-> {Place(x.id) : x \in MentionsOf(winner)}]]
    BY DEF StartMerge
  <1> DEFINE moving == {x.id : x \in MentionsOf(loser)}
             places == {Place(x.id) : x \in MentionsOf(winner)}
             e == [at |-> "merging", winner |-> winner, loser |-> loser,
                   moving |-> moving, places |-> places]
  <1>2. moving \subseteq Ids
    BY DEF MentionsOf, Mentions, TInv, EntitiesTypeOK
  <1>3. places \subseteq Spots
    <2>1. \A x \in MentionsOf(winner) : x.id \in Ids
      BY DEF MentionsOf, Mentions, TInv, EntitiesTypeOK
    <2>2. \A i \in Ids : Place(i) \in Spots
      BY EntitiesAssumption DEF Ids, Place, Spots
    <2>3. QED
      BY <2>1, <2>2
  <1> HIDE DEF moving, places
  <1>4. e \in Merging
    BY <1>2, <1>3 DEF Merging
  <1>5. merged[winner] = None /\ merged[loser] = None /\ winner # loser
    BY <1>1, FollowEnds DEF Applicable
  <1>6. /\ e.at = "merging" /\ e.winner = winner /\ e.loser = loser
        /\ e.moving = moving
    OBVIOUS
  <1>7. resolver' = [resolver EXCEPT ![r] = e]
    BY <1>1 DEF moving, places
  <1>8. moving = {x.id : x \in MentionsOf(loser)}
    BY DEF moving
  <1> HIDE DEF e
  <1>9. QED
    BY <1>4, <1>5, <1>6, <1>7, <1>8

LEMMA StartMergeTInv ==
  ASSUME TInv, NEW r \in Resolvers, NEW left \in entity, NEW right \in entity,
         StartMerge(r, left, right)
  PROVE  TInv'
  <1>1. PICK e \in Merging : resolver' = [resolver EXCEPT ![r] = e]
                             /\ e.at = "merging"
    BY MergeReads
  <1>2. e \in Resolutions
    BY <1>1 DEF Resolutions
  <1>3. QED
    BY <1>1, <1>2, ResolverStep DEF StartMerge

\* The moved mentions are mentions, now the winner's; of the rest none was to
\* be moved.
LEMMA RepointType ==
  ASSUME EntitiesTypeOK, NEW e \in Merging
  PROVE  /\ {x.id : x \in Moved(e)} \subseteq Ids
         /\ Repointed(e) \subseteq Mentions
         /\ \A x \in Repointed(e) :
              /\ x.ent = e.winner \/ (x \in mentions /\ x.id \notin e.moving)
              /\ \E q \in mentions : q.id = x.id
  <1> DEFINE moved == {[x EXCEPT !.ent = e.winner] : x \in Moved(e)}
  <1>1. Moved(e) \subseteq mentions /\ mentions \subseteq Mentions
    BY DEF Moved, EntitiesTypeOK
  <1>2. e.winner \in Names
    BY DEF Merging
  <1>3. Repointed(e) = {x \in mentions : x.id \notin e.moving} \cup moved
    BY DEF Repointed
  <1>4. ASSUME NEW x \in Moved(e)
        PROVE  /\ x.id \in Ids
               /\ [x EXCEPT !.ent = e.winner] \in Mentions
               /\ [x EXCEPT !.ent = e.winner].ent = e.winner
               /\ [x EXCEPT !.ent = e.winner].id = x.id
    BY <1>1, <1>2, <1>4 DEF Mentions
  <1>5. moved \subseteq Mentions
    BY <1>4
  <1>6. ASSUME NEW x \in moved
        PROVE  x.ent = e.winner /\ \E q \in mentions : q.id = x.id
    BY <1>1, <1>4
  <1> HIDE DEF moved
  <1>7. Repointed(e) \subseteq Mentions
    BY <1>1, <1>3, <1>5
  <1>8. \A x \in Repointed(e) :
          /\ x.ent = e.winner \/ (x \in mentions /\ x.id \notin e.moving)
          /\ \E q \in mentions : q.id = x.id
    BY <1>3, <1>6
  <1>9. QED
    BY <1>4, <1>7, <1>8

\* The step that merges, by its parts.
LEMMA MergeWrites ==
  ASSUME TInv, NEW r \in Resolvers, FinishMerge(r)
  PROVE  /\ resolver[r] \in Merging
         /\ resolver[r].winner \in Names /\ resolver[r].loser \in Names
         /\ mentions' = Repointed(resolver[r])
         /\ merged' = [merged EXCEPT ![resolver[r].loser] = resolver[r].winner]
         /\ \E row \in MergeRows :
              /\ row.winner = resolver[r].winner
              /\ row.loser = resolver[r].loser /\ row.applied
              /\ merges' = Append(merges, row)
         /\ \E f \in Telling :
              /\ f.at = "telling"
              /\ f.pair = {resolver[r].winner, resolver[r].loser}
              /\ resolver' = [resolver EXCEPT ![r] = f]
  <1> DEFINE e == resolver[r]
             row == [winner |-> e.winner, loser |-> e.loser, applied |-> TRUE,
                     moved |-> {x.id : x \in Moved(e)}]
             f == [at |-> "telling", pair |-> {e.winner, e.loser}]
  <1>1. e \in Resolutions /\ e.at = "merging"
    BY DEF FinishMerge, TInv, EntitiesTypeOK
  <1>2. e \in Merging
    BY <1>1, MergeFields
  <1>3. e.winner \in Names /\ e.loser \in Names
    BY <1>2 DEF Merging
  <1>4. /\ mentions' = Repointed(e)
        /\ merged' = [merged EXCEPT ![e.loser] = e.winner]
        /\ merges' = Append(merges, row)
        /\ resolver' = [resolver EXCEPT ![r] = f]
    BY DEF FinishMerge
  <1>5. {x.id : x \in Moved(e)} \subseteq Ids
    BY <1>2, RepointType DEF TInv
  <1> HIDE DEF e
  <1>6. row \in MergeRows
    BY <1>3, <1>5 DEF MergeRows
  <1>7. row.winner = e.winner /\ row.loser = e.loser /\ row.applied
    OBVIOUS
  <1>8. f \in Telling /\ f.at = "telling" /\ f.pair = {e.winner, e.loser}
    BY <1>3 DEF Telling
  <1> HIDE DEF row, f
  <1>9. \E rw \in MergeRows :
          /\ rw.winner = e.winner /\ rw.loser = e.loser /\ rw.applied
          /\ merges' = Append(merges, rw)
    BY <1>4, <1>6, <1>7
  <1>10. \E g \in Telling :
           /\ g.at = "telling" /\ g.pair = {e.winner, e.loser}
           /\ resolver' = [resolver EXCEPT ![r] = g]
    BY <1>4, <1>8
  <1>11. QED
    BY <1>2, <1>3, <1>4, <1>9, <1>10 DEF e

LEMMA FinishMergeTInv ==
  ASSUME TInv, NEW r \in Resolvers, FinishMerge(r)
  PROVE  TInv'
  <1>1. /\ resolver[r] \in Merging
        /\ resolver[r].winner \in Names /\ resolver[r].loser \in Names
        /\ mentions' = Repointed(resolver[r])
        /\ merged' = [merged EXCEPT ![resolver[r].loser] = resolver[r].winner]
    BY MergeWrites
  <1>2. PICK row \in MergeRows : merges' = Append(merges, row)
    BY MergeWrites
  <1>3. PICK f \in Telling : f.at = "telling"
                             /\ resolver' = [resolver EXCEPT ![r] = f]
    BY MergeWrites
  <1>4. merges \in Seq(MergeRows) /\ Len(merges) < MaxMerges
    BY DEF FinishMerge, TInv, EntitiesTypeOK
  <1>5. /\ merges' \in Seq(MergeRows)
        /\ Len(merges') <= MaxMerges
        /\ DOMAIN merges \subseteq DOMAIN merges'
    BY <1>2, <1>4, EntitiesAssumption
  <1>6. f \in Resolutions
    BY DEF Resolutions
  <1>7. resolver' \in [Resolvers -> Resolutions]
    BY <1>3, <1>6 DEF TInv, EntitiesTypeOK
  <1>8. mentions' \subseteq Mentions
    BY <1>1, RepointType DEF TInv
  <1>9. merged' \in [Names -> Names \cup {None}]
    BY <1>1 DEF TInv, EntitiesTypeOK
  <1>10. EntitiesTypeOK'
    BY <1>5, <1>7, <1>8, <1>9 DEF FinishMerge, TInv, EntitiesTypeOK
  <1>11. \A q \in Resolvers : resolver'[q] = IF q = r THEN f ELSE resolver[q]
    BY <1>3 DEF TInv, EntitiesTypeOK
  <1>12. RowsThere'
    BY <1>3, <1>5, <1>11 DEF TInv, RowsThere
  <1>13. QED
    BY <1>10, <1>12 DEF TInv

LEMMA StartRevertTInv ==
  ASSUME TInv, NEW r \in Resolvers, NEW i \in DOMAIN merges, StartRevert(r, i)
  PROVE  TInv'
  <1>1. i \in 1..MaxMerges
    BY EntitiesAssumption DEF TInv, EntitiesTypeOK
  <1>2. [at |-> "undoing", row |-> i] \in Resolutions
    BY <1>1 DEF Resolutions, Undoing
  <1>3. QED
    BY <1>2, ResolverStep DEF StartRevert

\* What undoing a merge leaves of mentions: the same ids, on the same entity
\* or back on the loser.
LEMMA ReturnedType ==
  ASSUME EntitiesTypeOK, NEW row \in MergeRows
  PROVE  /\ Returned(row) \subseteq Mentions
         /\ \A x \in Returned(row) : \E q \in mentions :
              /\ q.id = x.id
              /\ x = q \/ x.ent = row.loser
  <1>1. row.loser \in Names
    BY DEF MergeRows
  <1>2. ASSUME NEW q \in mentions
        PROVE  /\ q \in Mentions /\ [q EXCEPT !.ent = row.loser] \in Mentions
               /\ [q EXCEPT !.ent = row.loser].ent = row.loser
               /\ [q EXCEPT !.ent = row.loser].id = q.id
    BY <1>1, <1>2 DEF EntitiesTypeOK, Mentions
  <1>3. QED
    BY <1>2 DEF Returned

\* The step that undoes a merge, by its parts.
LEMMA RevertWrites ==
  ASSUME TInv, NEW r \in Resolvers, FinishRevert(r)
  PROVE  \E i \in DOMAIN merges :
           /\ resolver[r].at = "undoing" /\ resolver[r].row = i
           /\ merges[i] \in MergeRows
           /\ merges[i].winner \in Names /\ merges[i].loser \in Names
           /\ mentions' = Returned(merges[i])
           /\ merged' = [merged EXCEPT ![merges[i].loser] = None]
           /\ merges' = [merges EXCEPT ![i].applied = FALSE]
           /\ \E f \in Telling :
                /\ f.at = "telling"
                /\ f.pair = {merges[i].winner, merges[i].loser}
                /\ resolver' = [resolver EXCEPT ![r] = f]
  <1> DEFINE i == resolver[r].row
  <1>1. resolver[r].at = "undoing" /\ i \in DOMAIN merges
    BY DEF FinishRevert, TInv, RowsThere
  <1>2. merges[i] \in MergeRows
    BY <1>1 DEF TInv, EntitiesTypeOK
  <1>3. merges[i].winner \in Names /\ merges[i].loser \in Names
    BY <1>2 DEF MergeRows
  <1> DEFINE f == [at |-> "telling", pair |-> {merges[i].winner, merges[i].loser}]
  <1>4. f \in Telling /\ f.at = "telling"
        /\ f.pair = {merges[i].winner, merges[i].loser}
    BY <1>3 DEF Telling
  <1>5. /\ mentions' = Returned(merges[i])
        /\ merged' = [merged EXCEPT ![merges[i].loser] = None]
        /\ merges' = [merges EXCEPT ![i].applied = FALSE]
        /\ resolver' = [resolver EXCEPT ![r] = f]
    BY DEF FinishRevert
  <1>6. resolver[r].row = i
    OBVIOUS
  <1> HIDE DEF i, f
  <1>7. QED
    BY <1>1, <1>2, <1>3, <1>4, <1>5, <1>6

LEMMA FinishRevertTInv ==
  ASSUME TInv, NEW r \in Resolvers, FinishRevert(r)
  PROVE  TInv'
  <1>1. PICK i \in DOMAIN merges :
           /\ merges[i] \in MergeRows
           /\ merges[i].loser \in Names
           /\ mentions' = Returned(merges[i])
           /\ merged' = [merged EXCEPT ![merges[i].loser] = None]
           /\ merges' = [merges EXCEPT ![i].applied = FALSE]
           /\ \E f \in Telling : f.at = "telling"
                                 /\ resolver' = [resolver EXCEPT ![r] = f]
    BY RevertWrites
  <1>2. PICK f \in Telling : f.at = "telling"
                             /\ resolver' = [resolver EXCEPT ![r] = f]
    BY <1>1
  <1>3. /\ merges' \in Seq(MergeRows) /\ Len(merges') = Len(merges)
        /\ DOMAIN merges' = DOMAIN merges
    <2>1. [merges[i] EXCEPT !.applied = FALSE] \in MergeRows
      BY <1>1 DEF MergeRows
    <2>2. QED
      BY <1>1, <2>1 DEF TInv, EntitiesTypeOK
  <1>4. mentions' \subseteq Mentions
    BY <1>1, ReturnedType DEF TInv
  <1>5. merged' \in [Names -> Names \cup {None}]
    BY <1>1 DEF TInv, EntitiesTypeOK
  <1>6. f \in Resolutions
    BY DEF Resolutions
  <1>7. resolver' \in [Resolvers -> Resolutions]
    BY <1>2, <1>6 DEF TInv, EntitiesTypeOK
  <1>8. EntitiesTypeOK'
    BY <1>3, <1>4, <1>5, <1>7 DEF FinishRevert, TInv, EntitiesTypeOK
  <1>9. \A q \in Resolvers : resolver'[q] = IF q = r THEN f ELSE resolver[q]
    BY <1>2 DEF TInv, EntitiesTypeOK
  <1>10. RowsThere'
    BY <1>2, <1>3, <1>9 DEF TInv, RowsThere
  <1>11. QED
    BY <1>8, <1>10 DEF TInv

LEMMA RestTInv ==
  ASSUME TInv, NEW r \in Resolvers,
         AbandonMerge(r) \/ AnnounceMerge(r) \/ ForgetMerge(r)
  PROVE  TInv'
  <1>1. Idle \in Resolutions /\ Idle.at # "undoing"
    BY DEF Resolutions, Idle
  <1>2. QED
    BY <1>1, ResolverStep DEF AbandonMerge, AnnounceMerge, ForgetMerge

LEMMA NextTInv == TInv /\ [EntityNext]_entityVars => TInv'
  <1> SUFFICES ASSUME TInv, [EntityNext]_entityVars PROVE TInv'
    OBVIOUS
  <1>1. CASE \E m \in Memories : Ingest(m) \/ Hide(m) \/ Purge(m)
    BY <1>1, MemoriesTInv
  <1>2. CASE Upgrade
    BY <1>2, UpgradeTInv
  <1>3. CASE \E w \in Extractors, m \in Memories : Extract(w, m)
    BY <1>3, ExtractTInv
  <1>4. CASE \E w \in Extractors : DeleteMentions(w)
    BY <1>4, DeleteMentionsTInv
  <1>5. CASE \E w \in Extractors : Store(w)
    BY <1>5, StoreTInv
  <1>6. CASE \E w \in Extractors : FindNothingThere(w) \/ AnnounceExtraction(w) \/ GiveUp(w)
    BY <1>6, IdleTInv
  <1>7. CASE \E w \in Extractors, found \in Findings : ResolveNames(w, found)
    BY <1>7, ResolveNamesTInv
  <1>8. CASE \E r \in Resolvers, left, right \in entity : StartMerge(r, left, right)
    BY <1>8, StartMergeTInv
  <1>9. CASE \E r \in Resolvers, i \in DOMAIN merges : StartRevert(r, i)
    BY <1>9, StartRevertTInv
  <1>10. CASE \E r \in Resolvers : FinishMerge(r) \/ FinishRevert(r)
    BY <1>10, FinishMergeTInv, FinishRevertTInv
  <1>11. CASE \E r \in Resolvers : AbandonMerge(r) \/ AnnounceMerge(r) \/ ForgetMerge(r)
    BY <1>11, RestTInv
  <1>12. CASE UNCHANGED entityVars
    BY <1>12, RowsStay DEF entityVars, rows, TInv, EntitiesTypeOK
  <1>13. QED
    BY <1>1, <1>2, <1>3, <1>4, <1>5, <1>6, <1>7, <1>8, <1>9, <1>10, <1>11, <1>12
       DEF EntityNext

\* EntitiesTypeOK, for every set of memories, names, extractors and resolvers,
\* run side by side or not: what the statements of extraction.py and
\* resolution.py write fits their columns.
THEOREM TypeCorrect == EntitySpec => []EntitiesTypeOK
  <1>1. TInv => EntitiesTypeOK
    BY DEF TInv
  <1>2. QED
    BY <1>1, InitTInv, NextTInv, PTL DEF EntitySpec
-----------------------------------------------------------------------------
(* Transactions that run alone: what one has read stays true until it ends. *)

ExtractionRead(w) ==
  InTransaction(w) =>
    extractor[w].doomed = {q \in mentions : q.id.mem = extractor[w].mem}

MergeRead(r) ==
  LET e == resolver[r]
  IN /\ e.at = "merging" =>
          /\ e.winner # e.loser
          /\ merged[e.winner] = None /\ merged[e.loser] = None
          /\ e.moving = {x.id : x \in MentionsOf(e.loser)}
     /\ e.at = "undoing" => merges[e.row].applied

OneAtATime ==
  /\ \A v, w \in Extractors : InTransaction(v) /\ InTransaction(w) => v = w
  /\ \A q, r \in Resolvers : Resolving(q) /\ Resolving(r) => q = r
  /\ \A w \in Extractors, r \in Resolvers : ~(InTransaction(w) /\ Resolving(r))

XInv ==
  /\ TInv
  /\ \A w \in Extractors : ExtractionRead(w)
  /\ \A r \in Resolvers : MergeRead(r)
  /\ OneAtATime

Nobody ==
  /\ \A w \in Extractors : ~InTransaction(w)
  /\ \A r \in Resolvers : ~Resolving(r)

\* Where no transaction is open, there is nothing it might have read.
LEMMA NobodyReads ==
  ASSUME TInv, Nobody
  PROVE  XInv
  BY DEF XInv, Nobody, ExtractionRead, MergeRead, OneAtATime, Resolving

LEMMA FreeIsNobody == ASSUME ~Interleaved, Free PROVE Nobody
  BY DEF Free, Nobody

\* A transaction that goes on, or ends, having written nothing.
LEMMA ExtractorGoesOn ==
  ASSUME XInv, TInv', NEW w \in Extractors, NEW e,
         extractor' = [extractor EXCEPT ![w] = e],
         UNCHANGED <<mentions, merged, merges, resolver>>,
         e.at \in {"deleting", "storing"} =>
           /\ InTransaction(w)
           /\ e.doomed = extractor[w].doomed /\ e.mem = extractor[w].mem
  PROVE  XInv'
  <1>1. \A v \in Extractors : extractor'[v] = IF v = w THEN e ELSE extractor[v]
    BY DEF XInv, TInv, EntitiesTypeOK
  <1>2. \A v \in Extractors : InTransaction(v)' => InTransaction(v)
    BY <1>1 DEF InTransaction
  <1>3. \A v \in Extractors : ExtractionRead(v)'
    BY <1>1 DEF XInv, ExtractionRead, InTransaction
  <1>4. \A r \in Resolvers : MergeRead(r)' /\ (Resolving(r)' <=> Resolving(r))
    BY DEF XInv, MergeRead, MentionsOf, Resolving
  <1>5. OneAtATime'
    BY <1>2, <1>4 DEF XInv, OneAtATime
  <1>6. QED
    BY <1>3, <1>4, <1>5 DEF XInv

LEMMA ResolverRests ==
  ASSUME XInv, TInv', NEW r \in Resolvers, NEW e,
         resolver' = [resolver EXCEPT ![r] = e],
         UNCHANGED <<mentions, merged, merges, extractor>>,
         e.at \notin {"merging", "undoing"}
  PROVE  XInv'
  <1>1. \A q \in Resolvers : resolver'[q] = IF q = r THEN e ELSE resolver[q]
    BY DEF XInv, TInv, EntitiesTypeOK
  <1>2. \A q \in Resolvers : Resolving(q)' => Resolving(q) /\ q # r
    BY <1>1 DEF Resolving
  <1>3. \A w \in Extractors : ExtractionRead(w)' /\ (InTransaction(w)' <=> InTransaction(w))
    BY DEF XInv, ExtractionRead, InTransaction
  <1>4. \A q \in Resolvers : MergeRead(q)'
    BY <1>1 DEF XInv, MergeRead, MentionsOf
  <1>5. OneAtATime'
    BY <1>2, <1>3 DEF XInv, OneAtATime
  <1>6. QED
    BY <1>3, <1>4, <1>5 DEF XInv

\* An extraction that starts its transaction, or a resolver.
LEMMA DeleteMentionsReads ==
  ASSUME XInv, TInv', ~Interleaved, NEW w \in Extractors, DeleteMentions(w)
  PROVE  XInv'
  <1> DEFINE f == [at |-> "deleting", mem |-> extractor[w].mem, ver |-> extractor[w].ver,
                   doomed |-> {x \in mentions : x.id.mem = extractor[w].mem}]
  <1>1. \A v \in Extractors : extractor'[v] = IF v = w THEN f ELSE extractor[v]
    BY DEF DeleteMentions, XInv, TInv, EntitiesTypeOK
  <1>2. UNCHANGED <<mentions, merged, merges, resolver>>
    BY DEF DeleteMentions, rows
  <1>3. Nobody
    BY FreeIsNobody DEF DeleteMentions
  <1>4. f.mem = extractor[w].mem
        /\ f.doomed = {x \in mentions : x.id.mem = extractor[w].mem}
    OBVIOUS
  <1> HIDE DEF f
  <1>5. \A v \in Extractors : InTransaction(v)' => v = w
    BY <1>1, <1>3 DEF InTransaction, Nobody
  <1>6. \A v \in Extractors : ExtractionRead(v)'
    BY <1>1, <1>2, <1>4, <1>5 DEF ExtractionRead
  <1>7. \A r \in Resolvers : ~Resolving(r)' /\ MergeRead(r)'
    BY <1>2, <1>3 DEF Nobody, Resolving, MergeRead
  <1>8. OneAtATime'
    BY <1>5, <1>7 DEF OneAtATime
  <1>9. QED
    BY <1>6, <1>7, <1>8 DEF XInv

LEMMA ResolverStarts ==
  ASSUME XInv, TInv', Nobody, NEW r \in Resolvers, NEW e,
         resolver' = [resolver EXCEPT ![r] = e], MergeRead(r)',
         UNCHANGED <<extractor, mentions, merged, merges>>
  PROVE  XInv'
  <1>1. \A q \in Resolvers : resolver'[q] = IF q = r THEN e ELSE resolver[q]
    BY DEF XInv, TInv, EntitiesTypeOK
  <1>2. \A w \in Extractors : ~InTransaction(w)' /\ ExtractionRead(w)'
    BY DEF Nobody, InTransaction, ExtractionRead
  <1>3. \A q \in Resolvers : Resolving(q)' => q = r
    BY <1>1 DEF Nobody, Resolving
  <1>4. \A q \in Resolvers : MergeRead(q)'
    BY <1>1 DEF Nobody, Resolving, MergeRead
  <1>5. OneAtATime'
    BY <1>2, <1>3 DEF OneAtATime
  <1>6. QED
    BY <1>2, <1>4, <1>5 DEF XInv

LEMMA StartMergeReads ==
  ASSUME XInv, TInv', ~Interleaved, NEW r \in Resolvers,
         NEW left \in entity, NEW right \in entity, StartMerge(r, left, right)
  PROVE  XInv'
  <1>1. PICK e \in Merging :
           /\ resolver' = [resolver EXCEPT ![r] = e]
           /\ e.at = "merging"
           /\ e.winner # e.loser
           /\ merged[e.winner] = None /\ merged[e.loser] = None
           /\ e.moving = {x.id : x \in MentionsOf(e.loser)}
    BY MergeReads DEF XInv
  <1>2. UNCHANGED <<extractor, mentions, merged, merges>> /\ Nobody
    BY FreeIsNobody DEF StartMerge, rows
  <1>3. resolver'[r] = e
    BY <1>1 DEF XInv, TInv, EntitiesTypeOK
  <1>4. MergeRead(r)'
    BY <1>1, <1>2, <1>3 DEF MergeRead, MentionsOf
  <1>5. QED
    BY <1>1, <1>2, <1>4, ResolverStarts

LEMMA StartRevertReads ==
  ASSUME XInv, TInv', ~Interleaved, NEW r \in Resolvers, NEW i \in DOMAIN merges,
         StartRevert(r, i)
  PROVE  XInv'
  <1> DEFINE e == [at |-> "undoing", row |-> i]
  <1>1. resolver' = [resolver EXCEPT ![r] = e] /\ merges[i].applied
    BY DEF StartRevert
  <1>2. UNCHANGED <<extractor, mentions, merged, merges>> /\ Nobody
    BY FreeIsNobody DEF StartRevert, rows
  <1>3. e.at = "undoing" /\ e.row = i
    OBVIOUS
  <1> HIDE DEF e
  <1>4. resolver'[r] = e
    BY <1>1 DEF XInv, TInv, EntitiesTypeOK
  <1>5. MergeRead(r)'
    BY <1>1, <1>2, <1>3, <1>4 DEF MergeRead
  <1>6. QED
    BY <1>1, <1>2, <1>5, ResolverStarts

\* One that commits was the only one.
LEMMA StoreEnds ==
  ASSUME XInv, TInv', NEW w \in Extractors, Store(w)
  PROVE  XInv'
  <1> DEFINE e == [at |-> "announcing", mem |-> extractor[w].mem]
  <1>1. \A v \in Extractors : extractor'[v] = IF v = w THEN e ELSE extractor[v]
    BY DEF Store, XInv, TInv, EntitiesTypeOK
  <1>2. InTransaction(w) /\ resolver' = resolver
    BY DEF Store, InTransaction
  <1>3. e.at = "announcing"
    OBVIOUS
  <1> HIDE DEF e
  <1>4. \A v \in Extractors : ~InTransaction(v)'
    BY <1>1, <1>2, <1>3 DEF XInv, OneAtATime, InTransaction
  <1>5. \A r \in Resolvers : ~Resolving(r)'
    BY <1>2 DEF XInv, OneAtATime, Resolving
  <1>6. Nobody'
    BY <1>4, <1>5 DEF Nobody
  <1>7. TInv' /\ Nobody' => XInv'
    BY DEF XInv, Nobody, ExtractionRead, MergeRead, OneAtATime, Resolving
  <1>8. QED
    BY <1>6, <1>7

LEMMA ResolverEnds ==
  ASSUME XInv, TInv', NEW r \in Resolvers, Resolving(r), NEW e,
         e.at = "telling", resolver' = [resolver EXCEPT ![r] = e],
         UNCHANGED extractor
  PROVE  XInv'
  <1>1. \A q \in Resolvers : resolver'[q] = IF q = r THEN e ELSE resolver[q]
    BY DEF XInv, TInv, EntitiesTypeOK
  <1>2. \A q \in Resolvers : ~Resolving(q)'
    BY <1>1 DEF XInv, OneAtATime, Resolving
  <1>3. \A w \in Extractors : ~InTransaction(w)'
    BY DEF XInv, OneAtATime, InTransaction
  <1>4. Nobody'
    BY <1>2, <1>3 DEF Nobody
  <1>5. TInv' /\ Nobody' => XInv'
    BY DEF XInv, Nobody, ExtractionRead, MergeRead, OneAtATime, Resolving
  <1>6. QED
    BY <1>4, <1>5

LEMMA MergeEnds ==
  ASSUME XInv, TInv', NEW r \in Resolvers, FinishMerge(r) \/ FinishRevert(r)
  PROVE  XInv'
  <1>1. Resolving(r) /\ UNCHANGED extractor
    BY DEF FinishMerge, FinishRevert, Resolving
  <1>2. PICK e : e.at = "telling" /\ resolver' = [resolver EXCEPT ![r] = e]
    <2>1. CASE FinishMerge(r)
      BY <2>1, MergeWrites DEF XInv
    <2>2. CASE FinishRevert(r)
      BY <2>2, RevertWrites DEF XInv
    <2>3. QED
      BY <2>1, <2>2
  <1>3. QED
    BY <1>1, <1>2, ResolverEnds

LEMMA NextXInv == ASSUME ~Interleaved, XInv, [EntityNext]_entityVars PROVE XInv'
  <1>1. TInv'
    BY NextTInv DEF XInv
  <1>2. CASE Free /\ UNCHANGED <<extractor, resolver>>
    <2>1. Nobody'
      BY <1>2, FreeIsNobody DEF Nobody, InTransaction, Resolving
    <2>2. TInv' /\ Nobody' => XInv'
      BY DEF XInv, Nobody, ExtractionRead, MergeRead, OneAtATime, Resolving
    <2>3. QED
      BY <1>1, <2>1, <2>2
  <1>3. CASE \E w \in Extractors, m \in Memories : Extract(w, m)
    <2>1. PICK w \in Extractors, m \in Memories : Extract(w, m)
      BY <1>3
    <2>2. /\ extractor' = [extractor EXCEPT ![w] =
                             [at |-> "calling", mem |-> m, ver |-> version]]
          /\ UNCHANGED <<mentions, merged, merges, resolver>>
      BY <2>1 DEF Extract, rows
    <2>3. QED
      BY <1>1, <2>2, ExtractorGoesOn
  <1>4. CASE \E w \in Extractors : DeleteMentions(w)
    BY <1>1, <1>4, DeleteMentionsReads
  <1>5. CASE \E w \in Extractors : Store(w)
    BY <1>1, <1>5, StoreEnds
  <1>6. CASE \E w \in Extractors : FindNothingThere(w) \/ AnnounceExtraction(w) \/ GiveUp(w)
    <2>1. PICK w \in Extractors : FindNothingThere(w) \/ AnnounceExtraction(w) \/ GiveUp(w)
      BY <1>6
    <2>2. /\ extractor' = [extractor EXCEPT ![w] = Idle]
          /\ UNCHANGED <<mentions, merged, merges, resolver>>
      BY <2>1 DEF FindNothingThere, AnnounceExtraction, GiveUp, rows
    <2>3. Idle.at = "idle"
      BY DEF Idle
    <2>4. QED
      BY <1>1, <2>2, <2>3, ExtractorGoesOn
  <1>7. CASE \E w \in Extractors, found \in Findings : ResolveNames(w, found)
    <2>1. PICK w \in Extractors, found \in Findings : ResolveNames(w, found)
      BY <1>7
    <2> DEFINE e == [at |-> "storing", mem |-> extractor[w].mem,
                     ver |-> extractor[w].ver, doomed |-> extractor[w].doomed,
                     found |-> found, target |-> [n \in Names |-> Upserted(n)]]
    <2>2. /\ extractor' = [extractor EXCEPT ![w] = e] /\ InTransaction(w)
          /\ UNCHANGED <<mentions, merged, merges, resolver>>
      BY <2>1 DEF ResolveNames, InTransaction, rows
    <2>3. e.doomed = extractor[w].doomed /\ e.mem = extractor[w].mem
      OBVIOUS
    <2> HIDE DEF e
    <2>4. QED
      BY <1>1, <2>2, <2>3, ExtractorGoesOn
  <1>8. CASE \E r \in Resolvers, left, right \in entity : StartMerge(r, left, right)
    BY <1>1, <1>8, StartMergeReads
  <1>9. CASE \E r \in Resolvers, i \in DOMAIN merges : StartRevert(r, i)
    BY <1>1, <1>9, StartRevertReads
  <1>10. CASE \E r \in Resolvers : FinishMerge(r) \/ FinishRevert(r)
    BY <1>1, <1>10, MergeEnds
  <1>11. CASE \E r \in Resolvers : AbandonMerge(r) \/ AnnounceMerge(r) \/ ForgetMerge(r)
    <2>1. PICK r \in Resolvers : AbandonMerge(r) \/ AnnounceMerge(r) \/ ForgetMerge(r)
      BY <1>11
    <2>2. /\ resolver' = [resolver EXCEPT ![r] = Idle]
          /\ UNCHANGED <<mentions, merged, merges, extractor>>
      BY <2>1 DEF AbandonMerge, AnnounceMerge, ForgetMerge, rows
    <2>3. Idle.at = "idle"
      BY DEF Idle
    <2>4. QED
      BY <1>1, <2>2, <2>3, ResolverRests
  <1>12. CASE UNCHANGED entityVars
    <2>1. UNCHANGED <<mentions, merged, merges, resolver, extractor>>
      BY <1>12 DEF entityVars, rows
    <2>2. \A w \in Extractors : ExtractionRead(w)' /\ (InTransaction(w)' <=> InTransaction(w))
      BY <2>1 DEF XInv, ExtractionRead, InTransaction
    <2>3. \A r \in Resolvers : MergeRead(r)' /\ (Resolving(r)' <=> Resolving(r))
      BY <2>1 DEF XInv, MergeRead, MentionsOf, Resolving
    <2>4. OneAtATime'
      BY <2>2, <2>3 DEF XInv, OneAtATime
    <2>5. QED
      BY <1>1, <2>2, <2>3, <2>4 DEF XInv
  <1>13. (\E m \in Memories : Ingest(m) \/ Hide(m) \/ Purge(m)) \/ Upgrade
           => Free /\ UNCHANGED <<extractor, resolver>>
    BY DEF Ingest, Hide, Purge, Upgrade
  <1>14. QED
    BY <1>2, <1>3, <1>4, <1>5, <1>6, <1>7, <1>8, <1>9, <1>10, <1>11, <1>12, <1>13
       DEF EntityNext

LEMMA XInvariance == ASSUME ~Interleaved PROVE EntitySpec => []XInv
  <1>1. XInv /\ [EntityNext]_entityVars => XInv'
    BY NextXInv
  <1>2. Init => XInv
    BY InitTInv, NobodyReads
       DEF Init, Nobody, InTransaction, Resolving, Idle
  <1>3. QED
    BY <1>1, <1>2, PTL DEF EntitySpec
-----------------------------------------------------------------------------
(* Merges: what the log of merges says of the pointers. *)

\* The steps that write entities, mentions or merges, and the rest.
LEMMA Writers ==
  ASSUME [EntityNext]_entityVars
  PROVE  \/ (\E w \in Extractors : Store(w)) /\ UNCHANGED <<merged, merges>>
         \/ UNCHANGED marker /\ \E r \in Resolvers : FinishMerge(r)
         \/ UNCHANGED marker /\ \E r \in Resolvers : FinishRevert(r)
         \/ UNCHANGED <<marker, merged, merges>> /\ mentions' \subseteq mentions
  <1> DEFINE Rest == UNCHANGED <<marker, merged, merges>> /\ mentions' \subseteq mentions
  <1>1. CASE UNCHANGED entityVars
    BY <1>1 DEF entityVars, rows
  <1>2. ASSUME NEW m \in Memories, Ingest(m) \/ Hide(m) \/ Purge(m)
        PROVE  Rest
    BY <1>2 DEF Ingest, Hide, Purge, rows
  <1>3. CASE Upgrade
    BY <1>3 DEF Upgrade, rows
  <1>4. ASSUME NEW w \in Extractors, NEW m \in Memories, Extract(w, m)
        PROVE  Rest
    BY <1>4 DEF Extract, rows
  <1>5. ASSUME NEW w \in Extractors,
               \/ DeleteMentions(w) \/ FindNothingThere(w)
               \/ \E found \in Findings : ResolveNames(w, found)
               \/ AnnounceExtraction(w) \/ GiveUp(w)
        PROVE  Rest
    BY <1>5 DEF DeleteMentions, FindNothingThere, ResolveNames, AnnounceExtraction,
                GiveUp, rows
  <1>6. ASSUME NEW w \in Extractors, Store(w)
        PROVE  UNCHANGED <<merged, merges>>
    BY <1>6 DEF Store, rows
  <1>7. ASSUME NEW r \in Resolvers,
               \/ \E left, right \in entity : StartMerge(r, left, right)
               \/ \E i \in DOMAIN merges : StartRevert(r, i)
               \/ AbandonMerge(r) \/ AnnounceMerge(r) \/ ForgetMerge(r)
        PROVE  Rest
    BY <1>7 DEF StartMerge, StartRevert, AbandonMerge, AnnounceMerge, ForgetMerge, rows
  <1>8. ASSUME NEW r \in Resolvers, FinishMerge(r) \/ FinishRevert(r)
        PROVE  UNCHANGED marker
    BY <1>8 DEF FinishMerge, FinishRevert, rows
  <1> HIDE DEF Rest
  <1>9. CASE EntityNext
    <2>1. CASE \E m \in Memories : Ingest(m) \/ Hide(m) \/ Purge(m)
      BY <1>2, <2>1 DEF Rest
    <2>2. CASE Upgrade
      BY <1>3, <2>2 DEF Rest
    <2>3. CASE \E w \in Extractors, m \in Memories : Extract(w, m)
      BY <1>4, <2>3 DEF Rest
    <2>4. CASE \E w \in Extractors :
                 \/ DeleteMentions(w) \/ Store(w) \/ FindNothingThere(w)
                 \/ \E found \in Findings : ResolveNames(w, found)
                 \/ AnnounceExtraction(w) \/ GiveUp(w)
      BY <1>5, <1>6, <2>4 DEF Rest
    <2>5. CASE \E r \in Resolvers :
                 \/ \E left, right \in entity : StartMerge(r, left, right)
                 \/ \E i \in DOMAIN merges : StartRevert(r, i)
                 \/ FinishMerge(r) \/ FinishRevert(r) \/ AbandonMerge(r)
                 \/ AnnounceMerge(r) \/ ForgetMerge(r)
      BY <1>7, <1>8, <2>5 DEF Rest
    <2>6. QED
      BY <1>9, <2>1, <2>2, <2>3, <2>4, <2>5 DEF EntityNext
  <1>10. QED
    BY <1>1, <1>9

\* Pointers lead down, to an entity that has none: they form no cycle.
LeadDown(rank, to) == \A n \in Names : to[n] # None => rank[to[n]] < rank[n]

NoCycles == \E rank \in [Names -> Nat] : LeadDown(rank, merged)

\* One more pointer, between two entities that had none.
LEMMA MergeLeadsDown ==
  ASSUME XInv, NoCycles, NEW r \in Resolvers, FinishMerge(r)
  PROVE  NoCycles'
  <1> DEFINE winner == resolver[r].winner
             loser == resolver[r].loser
  <1>1. /\ winner \in Names /\ loser \in Names
        /\ merged' = [merged EXCEPT ![loser] = winner]
    BY MergeWrites DEF XInv
  <1>2. winner # loser /\ merged[winner] = None /\ merged[loser] = None
    BY DEF FinishMerge, XInv, MergeRead
  <1> HIDE DEF winner, loser
  <1>3. PICK rank \in [Names -> Nat] : LeadDown(rank, merged)
    BY DEF NoCycles
  <1> DEFINE q == [n \in Names |-> IF merged'[n] = None THEN 0 ELSE rank[n] + 1]
  <1>4. q \in [Names -> Nat]
    OBVIOUS
  <1>5. \A n \in Names : /\ merged'[n] = IF n = loser THEN winner ELSE merged[n]
                         /\ merged[n] \in Names \cup {None}
    BY <1>1 DEF XInv, TInv, EntitiesTypeOK
  <1>6. ASSUME NEW n \in Names, merged'[n] # None PROVE q[merged'[n]] < q[n]
    <2>1. merged'[n] \in Names /\ q[n] = rank[n] + 1
      BY <1>1, <1>5, <1>6
    <2>2. CASE merged'[merged'[n]] = None
      <3>1. q[merged'[n]] = 0
        BY <2>1, <2>2
      <3>2. QED
        BY <1>3, <2>1, <3>1
    <2>3. CASE merged'[merged'[n]] # None
      <3>1. n # loser
        BY <1>1, <1>2, <1>5, <2>3
      <3>2. merged'[n] = merged[n] /\ merged[n] # None
        BY <1>5, <1>6, <3>1
      <3>3. rank[merged'[n]] < rank[n]
        BY <1>3, <3>2 DEF LeadDown
      <3>4. q[merged'[n]] = rank[merged'[n]] + 1
        BY <2>1, <2>3
      <3>5. QED
        BY <1>3, <2>1, <3>3, <3>4
    <2>4. QED
      BY <2>2, <2>3
  <1> HIDE DEF q
  <1>7. LeadDown(q, merged')
    BY <1>6 DEF LeadDown
  <1>8. QED
    BY <1>4, <1>7 DEF NoCycles

LEMMA NextNoCycles ==
  ASSUME XInv, NoCycles, [EntityNext]_entityVars
  PROVE  NoCycles'
  <1>1. CASE UNCHANGED merged
    BY <1>1 DEF NoCycles, LeadDown
  <1>2. CASE \E r \in Resolvers : FinishMerge(r)
    BY <1>2, MergeLeadsDown
  <1>3. CASE \E r \in Resolvers : FinishRevert(r)
    <2>1. PICK i \in DOMAIN merges :
            merges[i].loser \in Names /\ merged' = [merged EXCEPT ![merges[i].loser] = None]
      BY <1>3, RevertWrites DEF XInv
    <2>2. PICK rank \in [Names -> Nat] : LeadDown(rank, merged)
      BY DEF NoCycles
    <2>3. \A n \in Names : merged'[n] # None => merged'[n] = merged[n]
      BY <2>1 DEF XInv, TInv, EntitiesTypeOK
    <2>4. LeadDown(rank, merged')
      BY <2>2, <2>3 DEF LeadDown
    <2>5. QED
      BY <2>2, <2>4 DEF NoCycles
  <1>4. QED
    BY <1>1, <1>2, <1>3, Writers

\* Where merges run one after the other, chains of merged_into_id end
\* (resolution.py's apply and revert, of which _follow says "a chain is data
\* and data can be wrong"), for any number of merges and undoings.
THEOREM ChainsEnd ==
  ASSUME ~Interleaved
  PROVE  EntitySpec => []NoCycles
  <1>1. Init => NoCycles
    <2> SUFFICES ASSUME Init PROVE NoCycles
      OBVIOUS
    <2>1. \A n \in Names : merged[n] = None
      BY DEF Init
    <2>2. LeadDown([n \in Names |-> 0], merged)
      BY <2>1 DEF LeadDown
    <2>3. [n \in Names |-> 0] \in [Names -> Nat]
      OBVIOUS
    <2>4. QED
      BY <2>2, <2>3 DEF NoCycles
  <1>2. XInv /\ NoCycles /\ [EntityNext]_entityVars => NoCycles'
    BY NextNoCycles
  <1>3. QED
    BY <1>1, <1>2, XInvariance, PTL DEF EntitySpec
\* The applied row that took n.
Took(log, i, n) == log[i].applied /\ log[i].loser = n

Undoable(to, log) ==
  /\ \A i \in DOMAIN log : log[i].applied => to[log[i].loser] = log[i].winner
  /\ \A i, j \in DOMAIN log :
       log[i].applied /\ log[j].applied /\ log[i].loser = log[j].loser => i = j
  /\ \A n \in Names : to[n] # None => \E i \in DOMAIN log : Took(log, i, n)

MInv == XInv /\ Undoable(merged, merges)

LEMMA LogTypes ==
  ASSUME TInv, NEW i \in DOMAIN merges
  PROVE  /\ merges[i].winner \in Names /\ merges[i].loser \in Names
         /\ merges[i].applied \in BOOLEAN
         /\ merges[i].winner # None
  <1>1. merges[i] \in MergeRows
    BY DEF TInv, EntitiesTypeOK
  <1>2. QED
    BY <1>1, EntitiesAssumption DEF MergeRows

\* Both sides of a merge had no pointer, so no applied row had taken its loser.
LEMMA MergeUndoable ==
  ASSUME MInv, NEW r \in Resolvers, FinishMerge(r)
  PROVE  Undoable(merged', merges')
  <1> DEFINE winner == resolver[r].winner
             loser == resolver[r].loser
  <1>1. TInv
    BY DEF MInv, XInv
  <1>2. /\ winner \in Names /\ loser \in Names
        /\ merged' = [merged EXCEPT ![loser] = winner]
    BY <1>1, MergeWrites
  <1>3. PICK row \in MergeRows :
           /\ row.winner = winner /\ row.loser = loser /\ row.applied
           /\ merges' = Append(merges, row)
    BY <1>1, MergeWrites
  <1>4. winner # loser /\ merged[winner] = None /\ merged[loser] = None
    BY DEF FinishMerge, MInv, XInv, MergeRead
  <1> HIDE DEF winner, loser
  <1> DEFINE last == Len(merges) + 1
  <1>5. /\ Len(merges) \in Nat /\ DOMAIN merges = 1..Len(merges)
        /\ DOMAIN merges' = 1..last
        /\ \A i \in DOMAIN merges : merges'[i] = merges[i]
        /\ merges'[last] = row
    BY <1>1, <1>3 DEF TInv, EntitiesTypeOK
  <1>6. \A n \in Names : merged'[n] = IF n = loser THEN winner ELSE merged[n]
    BY <1>1, <1>2 DEF TInv, EntitiesTypeOK
  <1>7. ASSUME NEW i \in DOMAIN merges, merges[i].applied
        PROVE  merges[i].loser # loser
    BY <1>1, <1>4, <1>7, LogTypes DEF MInv, Undoable
  <1>8. \A i \in DOMAIN merges' : i \in DOMAIN merges \/ i = last
    BY <1>5
  <1>9. ASSUME NEW i \in DOMAIN merges', merges'[i].applied
        PROVE  merged'[merges'[i].loser] = merges'[i].winner
    <2>1. CASE i = last
      <3>1. merges'[i].loser = loser /\ merges'[i].winner = winner
        BY <1>3, <1>5, <2>1
      <3>2. merged'[loser] = winner
        BY <1>2, <1>6
      <3>3. QED
        BY <3>1, <3>2
    <2>2. CASE i \in DOMAIN merges
      <3>1. merges'[i] = merges[i] /\ merges[i].loser \in Names
        BY <1>1, <1>5, <2>2, LogTypes
      <3>2. merges[i].loser # loser /\ merged[merges[i].loser] = merges[i].winner
        BY <1>7, <1>9, <2>2, <3>1 DEF MInv, Undoable
      <3>3. QED
        BY <1>6, <3>1, <3>2
    <2>3. QED
      BY <1>8, <2>1, <2>2
  <1>10. ASSUME NEW i \in DOMAIN merges', NEW j \in DOMAIN merges',
                merges'[i].applied, merges'[j].applied,
                merges'[i].loser = merges'[j].loser
         PROVE  i = j
    <2>1. CASE i \in DOMAIN merges /\ j \in DOMAIN merges
      <3>1. merges'[i] = merges[i] /\ merges'[j] = merges[j]
        BY <1>5, <2>1
      <3>2. QED
        BY <1>10, <2>1, <3>1 DEF MInv, Undoable
    <2>2. CASE i = last \/ j = last
      BY <1>3, <1>5, <1>7, <1>8, <1>10, <2>2
    <2>3. QED
      BY <1>8, <2>1, <2>2
  <1>11. ASSUME NEW n \in Names, merged'[n] # None
         PROVE  \E i \in DOMAIN merges' : Took(merges', i, n)
    <2>1. CASE n = loser
      <3>1. last \in DOMAIN merges'
        BY <1>5
      <3>2. QED
        BY <1>3, <1>5, <2>1, <3>1 DEF Took
    <2>2. CASE n # loser
      <3>1. PICK i \in DOMAIN merges : Took(merges, i, n)
        BY <1>6, <1>11, <2>2 DEF MInv, Undoable
      <3>2. i \in DOMAIN merges' /\ merges'[i] = merges[i]
        BY <1>5
      <3>3. QED
        BY <3>1, <3>2 DEF Took
    <2>3. QED
      BY <2>1, <2>2
  <1>12. QED
    BY <1>9, <1>10, <1>11 DEF Undoable

\* The applied row that is undone was the only one that took its loser.
LEMMA RevertUndoable ==
  ASSUME MInv, NEW r \in Resolvers, FinishRevert(r)
  PROVE  Undoable(merged', merges')
  <1>1. TInv
    BY DEF MInv, XInv
  <1>0. PICK i \in DOMAIN merges :
          /\ resolver[r].at = "undoing" /\ resolver[r].row = i
          /\ merged' = [merged EXCEPT ![merges[i].loser] = None]
          /\ merges' = [merges EXCEPT ![i].applied = FALSE]
    BY <1>1, RevertWrites
  <1> DEFINE loser == merges[i].loser
  <1>2. loser \in Names /\ merges[i].applied
    BY <1>0, <1>1, LogTypes DEF MInv, XInv, MergeRead
  <1>3. \A n \in Names : merged'[n] = IF n = loser THEN None ELSE merged[n]
    BY <1>0, <1>1, <1>2 DEF TInv, EntitiesTypeOK
  <1>4. /\ DOMAIN merges' = DOMAIN merges
        /\ \A j \in DOMAIN merges : j # i => merges'[j] = merges[j]
    BY <1>0, <1>1 DEF TInv, EntitiesTypeOK
  <1>5. ~merges'[i].applied
    <2>1. merges[i] \in MergeRows
      BY <1>1 DEF TInv, EntitiesTypeOK
    <2>2. merges'[i] = [merges[i] EXCEPT !.applied = FALSE]
      BY <1>0, <1>1 DEF TInv, EntitiesTypeOK
    <2>3. QED
      BY <2>1, <2>2 DEF MergeRows
  <1> HIDE DEF loser
  <1>6. ASSUME NEW j \in DOMAIN merges', merges'[j].applied
        PROVE  j # i /\ j \in DOMAIN merges /\ merges'[j] = merges[j]
    BY <1>4, <1>5, <1>6
  <1>7. ASSUME NEW j \in DOMAIN merges', merges'[j].applied
        PROVE  merges[j].loser # loser
    BY <1>2, <1>6, <1>7 DEF MInv, Undoable, loser
  <1>8. ASSUME NEW j \in DOMAIN merges', merges'[j].applied
        PROVE  merged'[merges'[j].loser] = merges'[j].winner
    <2>1. j \in DOMAIN merges /\ merges'[j] = merges[j] /\ merges[j].loser # loser
      BY <1>6, <1>7, <1>8
    <2>2. merges[j].loser \in Names /\ merged[merges[j].loser] = merges[j].winner
      BY <1>1, <1>8, <2>1, LogTypes DEF MInv, Undoable
    <2>3. QED
      BY <1>3, <2>1, <2>2
  <1>9. ASSUME NEW j \in DOMAIN merges', NEW k \in DOMAIN merges',
               merges'[j].applied, merges'[k].applied,
               merges'[j].loser = merges'[k].loser
        PROVE  j = k
    <2>1. /\ j \in DOMAIN merges /\ merges'[j] = merges[j]
          /\ k \in DOMAIN merges /\ merges'[k] = merges[k]
      BY <1>6, <1>9
    <2>2. QED
      BY <1>9, <2>1 DEF MInv, Undoable
  <1>10. ASSUME NEW n \in Names, merged'[n] # None
         PROVE  \E j \in DOMAIN merges' : Took(merges', j, n)
    <2>1. n # loser /\ merged[n] # None
      BY <1>3, <1>10
    <2>2. PICK j \in DOMAIN merges : Took(merges, j, n)
      BY <2>1 DEF MInv, Undoable
    <2>3. j # i
      BY <2>1, <2>2 DEF Took, loser
    <2>4. QED
      BY <1>4, <2>2, <2>3 DEF Took
  <1>11. QED
    BY <1>8, <1>9, <1>10 DEF Undoable

LEMMA UndoableMeans == MInv => EveryMergeCanBeUndone
  <1> SUFFICES ASSUME MInv, NEW n \in Names
               PROVE  LET took == {i \in DOMAIN merges : merges[i].applied /\ merges[i].loser = n}
                      IN /\ merged[n] # None <=> took # {}
                         /\ \A i \in took : took = {i} /\ merges[i].winner = merged[n]
    BY DEF EveryMergeCanBeUndone
  <1> DEFINE took == {i \in DOMAIN merges : merges[i].applied /\ merges[i].loser = n}
  <1>1. \A i \in took : merged[n] = merges[i].winner /\ merges[i].winner # None
    BY LogTypes DEF MInv, XInv, Undoable
  <1>2. \A i, j \in took : i = j
    BY DEF MInv, Undoable
  <1>3. merged[n] # None => \E i \in DOMAIN merges : Took(merges, i, n)
    BY DEF MInv, Undoable
  <1>4. merged[n] # None => took # {}
    BY <1>3 DEF Took
  <1> HIDE DEF took
  <1>5. \A i \in took : took = {i}
    BY <1>2
  <1>6. QED
    BY <1>1, <1>4, <1>5 DEF took

LEMMA NextMInv == ASSUME ~Interleaved, MInv, [EntityNext]_entityVars PROVE MInv'
  <1>1. XInv'
    BY NextXInv DEF MInv
  <1>2. CASE \E r \in Resolvers : FinishMerge(r)
    BY <1>1, <1>2, MergeUndoable DEF MInv
  <1>3. CASE \E r \in Resolvers : FinishRevert(r)
    BY <1>1, <1>3, RevertUndoable DEF MInv
  <1>4. CASE UNCHANGED <<merged, merges>>
    BY <1>1, <1>4 DEF MInv, Undoable, Took
  <1>5. QED
    BY <1>2, <1>3, <1>4, Writers

\* Undoing one merge is enough to bring the entity back, however many were
\* applied and undone before, for any number of entities and however long the
\* chains (resolution.py's apply and revert): a merge takes only an entity
\* nothing has taken, since _follow gives up rather than stop half-way.  Merges
\* and extractions run one after the other: nothing locks what one has read.
THEOREM MergesAreUndone ==
  ASSUME ~Interleaved
  PROVE  EntitySpec => []EveryMergeCanBeUndone
  <1>1. Init => MInv
    <2>1. Init => Undoable(merged, merges)
      BY DEF Init, Undoable
    <2>2. Init => XInv
      BY InitTInv, NobodyReads
         DEF Init, Nobody, InTransaction, Resolving, Idle
    <2>3. QED
      BY <2>1, <2>2 DEF MInv
  <1>2. MInv /\ [EntityNext]_entityVars => MInv'
    BY NextMInv
  <1>3. QED
    BY <1>1, <1>2, UndoableMeans, PTL DEF EntitySpec
-----------------------------------------------------------------------------
(* What mentions say when transactions run alone. *)

\* What a store keeps belongs to other memories; what it adds is of its own
\* memory, by its own extraction, on an entity a name was followed to.
LEMMA StoreWrites ==
  ASSUME XInv, NEW w \in Extractors, Store(w), NEW r \in mentions'
  PROVE  LET e == extractor[w]
         IN \/ r \in mentions /\ r.id.mem # e.mem
            \/ /\ r.id.mem = e.mem /\ r.id.ver = e.ver
               /\ \E n \in Names : r.ent = e.target[n]
  <1> DEFINE e == extractor[w]
             one(n) == [id |-> [mem |-> e.mem, of |-> n, ver |-> e.ver],
                        ent |-> e.target[n]]
  <1>1. e.at = "storing" /\ e \in Storing
    BY Fields DEF Store, XInv, TInv, EntitiesTypeOK
  <1>2. e.doomed = {q \in mentions : q.id.mem = e.mem}
    BY <1>1 DEF XInv, ExtractionRead, InTransaction
  <1>4. PICK kept \in SUBSET e.found :
          mentions' = (mentions \ e.doomed) \cup {one(n) : n \in kept}
    BY DEF Store
  <1>5. CASE r \in mentions \ e.doomed
    BY <1>2, <1>5
  <1>6. CASE r \in {one(n) : n \in kept}
    <2>1. PICK n \in kept : r = one(n)
      BY <1>6
    <2>2. n \in Names
      BY <1>1, EntitiesAssumption DEF Storing
    <2>3. r.id.mem = e.mem /\ r.id.ver = e.ver /\ r.ent = e.target[n]
      BY <2>1
    <2>4. QED
      BY <2>2, <2>3
  <1>7. QED
    BY <1>4, <1>5, <1>6

LEMMA OpinionKept ==
  ASSUME XInv, OneOpinion, [EntityNext]_entityVars
  PROVE  OneOpinion'
  <1>1. TInv /\ \A q \in mentions : q.id.ver = marker[q.id.mem]
    BY DEF XInv, OneOpinion
  <1>2. SUFFICES ASSUME NEW r \in mentions' PROVE r.id.ver = marker'[r.id.mem]
    BY DEF OneOpinion
  <1>3. CASE \E w \in Extractors : Store(w)
    <2>1. PICK w \in Extractors : Store(w)
      BY <1>3
    <2> DEFINE e == extractor[w]
    <2>2. e \in Storing
      BY <1>1, <2>1, Fields DEF Store, TInv, EntitiesTypeOK
    <2>3. /\ e.mem \in Memories
          /\ marker' = [marker EXCEPT ![e.mem] = e.ver]
          /\ marker \in [Memories -> 0..MaxVersion]
      BY <1>1, <2>1, <2>2 DEF Store, Storing, TInv, EntitiesTypeOK
    <2>4. r \in Mentions
      BY <1>1, <2>1, StoreTInv DEF TInv, EntitiesTypeOK
    <2>5. r.id.mem \in Memories
      BY <2>4 DEF Mentions, Ids
    <2>6. \/ r \in mentions /\ r.id.mem # e.mem
          \/ r.id.mem = e.mem /\ r.id.ver = e.ver
      BY <2>1, StoreWrites
    <2>7. QED
      BY <1>1, <2>3, <2>5, <2>6
  <1>4. CASE UNCHANGED marker /\ \E w \in Resolvers : FinishMerge(w)
    <2>1. PICK w \in Resolvers : FinishMerge(w)
      BY <1>4
    <2>2. resolver[w] \in Merging /\ mentions' = Repointed(resolver[w])
      BY <1>1, <2>1, MergeWrites
    <2>3. \E q \in mentions : q.id = r.id
      BY <1>1, <2>2, RepointType DEF TInv
    <2>4. QED
      BY <1>1, <1>4, <2>3
  <1>5. CASE UNCHANGED marker /\ \E w \in Resolvers : FinishRevert(w)
    <2>1. PICK i \in DOMAIN merges :
            merges[i] \in MergeRows /\ mentions' = Returned(merges[i])
      BY <1>1, <1>5, RevertWrites
    <2>2. \E q \in mentions : q.id = r.id
      BY <1>1, <2>1, ReturnedType DEF TInv
    <2>3. QED
      BY <1>1, <1>5, <2>2
  <1>6. CASE UNCHANGED <<marker, merged, merges>> /\ mentions' \subseteq mentions
    BY <1>1, <1>6
  <1>7. QED
    BY <1>3, <1>4, <1>5, <1>6, Writers

\* A memory carries one extraction's findings (extraction.py's _store), for any
\* number of extractors and versions, when no transaction runs inside
\* another: calls to the model may overlap in any way.
THEOREM OpinionsAreOne ==
  ASSUME ~Interleaved
  PROVE  EntitySpec => []OneOpinion
  <1>1. Init => OneOpinion
    BY DEF Init, OneOpinion
  <1>2. XInv /\ OneOpinion /\ [EntityNext]_entityVars => OneOpinion'
    BY OpinionKept
  <1>3. QED
    BY <1>1, <1>2, XInvariance, PTL DEF EntitySpec

\* No name is more than the nine pointers of _follow_merge away from where it
\* belongs.
ChainsAreShort == \A n \in Names : merged[Upserted(n)] = None

\* What an extraction is about to mention has not been merged away.
TargetsAreWinners ==
  \A w \in Extractors : extractor[w].at = "storing" =>
    \A n \in Names : merged[extractor[w].target[n]] = None

WInv == MentionsAreOnWinners /\ TargetsAreWinners

LEMMA WinnersKept ==
  ASSUME XInv, MentionsAreOnWinners, TargetsAreWinners, [EntityNext]_entityVars
  PROVE  MentionsAreOnWinners'
  <1>1. TInv /\ \A q \in mentions : q \in Mentions /\ merged[q.ent] = None
    BY DEF XInv, TInv, EntitiesTypeOK, MentionsAreOnWinners
  <1>2. SUFFICES ASSUME NEW x \in mentions' PROVE merged'[x.ent] = None
    BY DEF MentionsAreOnWinners
  <1>3. CASE \E w \in Extractors : Store(w)
    <2>1. PICK w \in Extractors : Store(w)
      BY <1>3
    <2>2. x \in mentions \/ merged[x.ent] = None
      <3>1. extractor[w].at = "storing"
        BY <2>1 DEF Store
      <3>2. x \in mentions \/ \E n \in Names : x.ent = extractor[w].target[n]
        BY <2>1, StoreWrites
      <3>3. QED
        BY <3>1, <3>2 DEF TargetsAreWinners
    <2>3. QED
      BY <1>1, <2>1, <2>2 DEF Store
  <1>4. CASE \E r \in Resolvers : FinishMerge(r)
    <2>1. PICK r \in Resolvers : FinishMerge(r)
      BY <1>4
    <2> DEFINE e == resolver[r]
    <2>2. /\ e \in Merging /\ e.winner \in Names /\ e.loser \in Names
          /\ mentions' = Repointed(e)
          /\ merged' = [merged EXCEPT ![e.loser] = e.winner]
      BY <1>1, <2>1, MergeWrites
    <2>3. /\ e.winner # e.loser /\ merged[e.winner] = None
          /\ e.moving = {y.id : y \in MentionsOf(e.loser)}
      BY <2>1 DEF FinishMerge, XInv, MergeRead
    <2> HIDE DEF e
    <2>4. x.ent = e.winner \/ (x \in mentions /\ x.id \notin e.moving)
      BY <1>1, <2>2, RepointType DEF TInv
    <2>5. x.ent = e.winner \/ (x \in mentions /\ x.ent # e.loser)
      BY <2>3, <2>4 DEF MentionsOf
    <2>6. x.ent \in Names /\ merged[x.ent] = None /\ x.ent # e.loser
      BY <1>1, <2>2, <2>3, <2>5 DEF Mentions
    <2>7. QED
      BY <1>1, <2>2, <2>6 DEF TInv, EntitiesTypeOK
  <1>5. CASE \E r \in Resolvers : FinishRevert(r)
    <2>1. PICK i \in DOMAIN merges :
            /\ merges[i] \in MergeRows /\ merges[i].loser \in Names
            /\ mentions' = Returned(merges[i])
            /\ merged' = [merged EXCEPT ![merges[i].loser] = None]
      BY <1>1, <1>5, RevertWrites
    <2>2. PICK q \in mentions : x = q \/ x.ent = merges[i].loser
      BY <1>1, <2>1, ReturnedType DEF TInv
    <2>3. q.ent \in Names /\ merged[q.ent] = None
      BY <1>1 DEF Mentions
    <2>4. QED
      BY <1>1, <2>1, <2>2, <2>3 DEF TInv, EntitiesTypeOK
  <1>6. CASE UNCHANGED <<marker, merged, merges>> /\ mentions' \subseteq mentions
    BY <1>1, <1>6
  <1>7. QED
    BY <1>3, <1>4, <1>5, <1>6, Writers

\* A merge runs beside no extraction, so what one has followed stays good.
LEMMA TargetsKept ==
  ASSUME ~Interleaved, XInv, ChainsAreShort, TargetsAreWinners,
         [EntityNext]_entityVars
  PROVE  TargetsAreWinners'
  <1>0. XInv /\ XInv' /\ TInv /\ TInv'
    BY NextXInv DEF XInv
  <1>1. CASE \E r \in Resolvers : FinishMerge(r) \/ FinishRevert(r)
    <2>1. PICK r \in Resolvers : FinishMerge(r) \/ FinishRevert(r)
      BY <1>1
    <2>2. Resolving(r) /\ UNCHANGED extractor
      BY <2>1 DEF FinishMerge, FinishRevert, Resolving
    <2>3. \A w \in Extractors : extractor[w].at # "storing"
      BY <2>2 DEF XInv, OneAtATime, InTransaction
    <2>4. QED
      BY <2>2, <2>3 DEF TargetsAreWinners
  <1>2. CASE \E w \in Extractors, found \in Findings : ResolveNames(w, found)
    <2>1. PICK w \in Extractors, found \in Findings : ResolveNames(w, found)
      BY <1>2
    <2>2. merged' = merged
      BY <2>1 DEF ResolveNames, rows
    <2> DEFINE target == [n \in Names |-> Upserted(n)]
               e == [at |-> "storing", mem |-> extractor[w].mem,
                     ver |-> extractor[w].ver, doomed |-> extractor[w].doomed,
                     found |-> found, target |-> target]
    <2>3. \A v \in Extractors : extractor'[v] = IF v = w THEN e ELSE extractor[v]
      BY <1>0, <2>1 DEF ResolveNames, TInv, EntitiesTypeOK
    <2>4. \A n \in Names : merged[e.target[n]] = None
      BY DEF ChainsAreShort
    <2> HIDE DEF e
    <2>5. QED
      BY <2>2, <2>3, <2>4 DEF TargetsAreWinners
  <1>3. CASE /\ merged' = merged
             /\ \A w \in Extractors : \/ extractor'[w] = extractor[w]
                                       \/ extractor'[w].at # "storing"
    BY <1>3 DEF TargetsAreWinners
  <1>4. ASSUME NEW w \in Extractors, NEW e, merged' = merged,
               extractor' = [extractor EXCEPT ![w] = e], e.at # "storing"
        PROVE  TargetsAreWinners'
    <2>1. \A v \in Extractors : extractor'[v] = IF v = w THEN e ELSE extractor[v]
      BY <1>0, <1>4 DEF TInv, EntitiesTypeOK
    <2>2. QED
      BY <1>4, <2>1 DEF TargetsAreWinners
  <1>5. CASE \E w \in Extractors : \/ DeleteMentions(w) \/ Store(w)
                                   \/ FindNothingThere(w)
                                   \/ AnnounceExtraction(w) \/ GiveUp(w)
                                   \/ \E m \in Memories : Extract(w, m)
    <2>1. PICK w \in Extractors : \/ DeleteMentions(w) \/ Store(w)
                                   \/ FindNothingThere(w)
                                   \/ AnnounceExtraction(w) \/ GiveUp(w)
                                   \/ \E m \in Memories : Extract(w, m)
      BY <1>5
    <2>2. merged' = merged
      BY <2>1 DEF DeleteMentions, Store, FindNothingThere, AnnounceExtraction,
                  GiveUp, Extract, rows
    <2>3. CASE DeleteMentions(w)
      BY <1>4, <2>2, <2>3 DEF DeleteMentions
    <2>4. CASE Store(w)
      <3> DEFINE f == [at |-> "announcing", mem |-> extractor[w].mem]
      <3>1. extractor' = [extractor EXCEPT ![w] = f]
        BY <2>4 DEF Store
      <3>2. f.at # "storing"
        OBVIOUS
      <3> HIDE DEF f
      <3>3. QED
        BY <1>4, <2>2, <3>1, <3>2
    <2>5. CASE FindNothingThere(w) \/ AnnounceExtraction(w) \/ GiveUp(w)
      BY <1>4, <2>2, <2>5 DEF FindNothingThere, AnnounceExtraction, GiveUp, Idle
    <2>6. CASE \E m \in Memories : Extract(w, m)
      <3>1. PICK m \in Memories : Extract(w, m)
        BY <2>6
      <3> DEFINE f == [at |-> "calling", mem |-> m, ver |-> version]
      <3>2. extractor' = [extractor EXCEPT ![w] = f]
        BY <3>1 DEF Extract
      <3>3. f.at # "storing"
        OBVIOUS
      <3> HIDE DEF f
      <3>4. QED
        BY <1>4, <2>2, <3>2, <3>3
    <2>7. QED
      BY <2>1, <2>3, <2>4, <2>5, <2>6
  <1>6. \/ \E r \in Resolvers : FinishMerge(r) \/ FinishRevert(r)
        \/ \E w \in Extractors, found \in Findings : ResolveNames(w, found)
        \/ \E w \in Extractors : \/ DeleteMentions(w) \/ Store(w)
                                 \/ FindNothingThere(w)
                                 \/ AnnounceExtraction(w) \/ GiveUp(w)
                                 \/ \E m \in Memories : Extract(w, m)
        \/ UNCHANGED <<merged, extractor>>
    BY DEF EntityNext, Ingest, Hide, Purge, Upgrade, StartMerge, StartRevert,
           AbandonMerge, AnnounceMerge, ForgetMerge, entityVars, rows
  <1>7. QED
    BY <1>1, <1>2, <1>3, <1>5, <1>6

\* Mentions are on entities nothing has merged away (extraction.py's
\* _upsert_entity, resolution.py's apply, revert and _repoint), when
\* transactions run one after the other and as long as no chain of pointers is
\* longer than the nine _follow_merge sees through ("a too-deep chain should
\* cost a misfiled mention").
THEOREM MentionsStayOnWinners ==
  ASSUME ~Interleaved
  PROVE  EntitySpec /\ []ChainsAreShort => []MentionsAreOnWinners
  <1>1. Init => WInv
    BY DEF Init, WInv, MentionsAreOnWinners, TargetsAreWinners, Idle
  <1>2. XInv /\ WInv /\ ChainsAreShort /\ [EntityNext]_entityVars => WInv'
    BY WinnersKept, TargetsKept DEF WInv
  <1>3. WInv => MentionsAreOnWinners
    BY DEF WInv
  <1>4. QED
    BY <1>1, <1>2, <1>3, XInvariance, PTL DEF EntitySpec
-----------------------------------------------------------------------------
(* GraphSync *)

GInv == TInv /\ GraphTypeOK

\* What a worker with a sync at hand holds, by the place it is at.
LEMMA JobFields ==
  ASSUME GInv, NEW s \in Syncers
  PROVE  syncer[s] = Ended \/ (syncer[s] # Ended /\ syncer[s] \in Jobs /\ syncer[s].at # "idle")
  BY DEF GInv, GraphTypeOK, Jobs, Ended

\* Every step is one of Entities' or leaves its rows and processes alone.
LEMMA StepOfEntities == [GraphNext]_graphVars => [EntityNext]_entityVars
  BY DEF GraphNext, Changes, Unannounced, EntityNext, Sync, SyncFails, Claim, Retry, Read,
         Clear, PruneMemories, PruneEntities, WriteNodes, WriteEdges, Still, Forgotten, graphVars

LEMMA InitGInv == GraphInit => GInv
  BY InitTInv DEF GraphInit, GInv, GraphTypeOK, TInv, Scopes, Everything

\* The scope a job is widened to is one.
LEMMA ExpandType ==
  ASSUME GInv, NEW job \in Scopes
  PROVE  Expand(job) \in Scopes /\ job \subseteq Expand(job)
  <1> DEFINE claimed == {e \in graphEdges : InScope(e, job)}
             known == job \cup UNION {{e[1], e[2]} : e \in claimed}
             entities == (known \cap Names) \cup EntitiesOf(known \cap Memories)
  <1>1. ASSUME NEW e \in claimed PROVE e[1] \in Memories /\ e[2] \in Names
    BY DEF GInv, GraphTypeOK, Edges
  <1>2. known \subseteq Memories \cup Names
    BY <1>1 DEF Scopes
  <1>3. \A n \in Names : Hop(n) \in Names
    BY DEF Hop, GInv, TInv, EntitiesTypeOK
  <1>4. \A r \in mentions : r.ent \in Names /\ r.id.mem \in Memories
    BY DEF GInv, TInv, EntitiesTypeOK, Mentions, Ids
  <1> HIDE DEF known
  <1>5. entities \subseteq Names
    BY <1>3, <1>4 DEF EntitiesOf
  <1> HIDE DEF entities
  <1>6. MemoriesOf(entities) \subseteq Memories
    BY <1>4 DEF MemoriesOf
  <1>7. Expand(job) = known \cup entities \cup MemoriesOf(entities)
    BY DEF Expand, known, entities
  <1>8. job \subseteq known
    BY DEF known
  <1>9. QED
    BY <1>2, <1>5, <1>6, <1>7, <1>8 DEF Scopes

LEMMA ExpandedType ==
  ASSUME GInv, NEW job \in Scopes
  PROVE  Expanded(job) \in Jobs
  BY ExpandType DEF Expanded, Jobs, Scopes

\* What is read for a scope: current memories, edges, and the names at their ends.
LEMMA ReadType ==
  ASSUME NEW scope
  PROVE  NodesOf(scope) \in Scopes /\ EdgesOf(scope) \subseteq Edges
  BY DEF NodesOf, EdgesOf, Scopes

\* One worker's step.
LEMMA SyncerStep ==
  ASSUME GInv, NEW s \in Syncers, NEW y \in {Ended} \cup Jobs,
         syncer' = [syncer EXCEPT ![s] = y],
         pending' \subseteq Scopes, graphNodes' \subseteq Everything,
         graphEdges' \subseteq Edges, stray' \subseteq Everything,
         untold' \subseteq untold, UNCHANGED entityVars
  PROVE  GInv'
  <1>1. TInv'
    BY NextTInv DEF GInv
  <1>2. syncer' \in [Syncers -> {Ended} \cup Jobs]
    BY DEF GInv, GraphTypeOK
  <1>3. QED
    BY <1>1, <1>2 DEF GInv, GraphTypeOK, TInv

LEMMA ClaimGInv ==
  ASSUME GInv, NEW s \in Syncers, NEW job \in pending, Claim(s, job)
  PROVE  GInv'
  <1>1. job \in Scopes
    BY DEF GInv, GraphTypeOK
  <1>2. Expanded(job) \in Jobs
    BY <1>1, ExpandedType
  <1>3. QED
    BY <1>2, SyncerStep DEF Claim, Still, history, graph, GInv, GraphTypeOK

LEMMA ReadGInv ==
  ASSUME GInv, NEW s \in Syncers, Read(s)
  PROVE  GInv'
  <1>1. PICK wide \in BOOLEAN :
          LET scope == WhatToRead(syncer[s].scope, wide)
          IN syncer' = [syncer EXCEPT ![s].at = IF wide THEN "wide" ELSE "read",
               ![s].scope = scope, ![s].nodes = NodesOf(scope),
               ![s].edges = EdgesOf(scope)]
    BY DEF Read
  <1>2. syncer[s] \in Jobs
    BY JobFields DEF Read, Ended
  <1> DEFINE scope == WhatToRead(syncer[s].scope, wide)
             y == [syncer[s] EXCEPT !.at = IF wide THEN "wide" ELSE "read",
                     !.scope = scope, !.nodes = NodesOf(scope), !.edges = EdgesOf(scope)]
  <1>3. scope \in Scopes
    BY <1>2 DEF WhatToRead, Scopes, Everything, Jobs
  <1>4. NodesOf(scope) \in Scopes /\ EdgesOf(scope) \in SUBSET Edges
    BY ReadType
  <1> HIDE DEF scope
  <1>5. y \in Jobs
    BY <1>2, <1>3, <1>4 DEF Jobs
  <1>6. syncer' = [syncer EXCEPT ![s] = y]
    BY <1>1 DEF GInv, GraphTypeOK, scope
  <1>7. QED
    BY <1>5, <1>6, SyncerStep DEF Read, Still, history, graph, GInv, GraphTypeOK

LEMMA PruneGInv ==
  ASSUME GInv, NEW s \in Syncers, Clear(s) \/ PruneMemories(s) \/ PruneEntities(s)
  PROVE  GInv'
  <1>1. syncer[s] \in Jobs
    BY JobFields DEF Clear, PruneMemories, PruneEntities, Ended
  <1>2. PICK at \in {"cleared", "pruned"} : syncer' = [syncer EXCEPT ![s].at = at]
    BY DEF Clear, PruneMemories, PruneEntities
  <1>3. [syncer[s] EXCEPT !.at = at] \in Jobs
    BY <1>1 DEF Jobs
  <1>4. syncer' = [syncer EXCEPT ![s] = [syncer[s] EXCEPT !.at = at]]
    BY <1>2 DEF GInv, GraphTypeOK
  <1>5. graphNodes' \subseteq graphNodes /\ graphEdges' \subseteq graphEdges
    BY DEF Clear, PruneMemories, PruneEntities, Detach
  <1>6. QED
    BY <1>3, <1>4, <1>5, SyncerStep
       DEF Clear, PruneMemories, PruneEntities, Still, history, GInv, GraphTypeOK

LEMMA WriteGInv ==
  ASSUME GInv, NEW s \in Syncers, WriteNodes(s) \/ WriteEdges(s)
  PROVE  GInv'
  <1>1. syncer[s] \in Jobs
    BY JobFields DEF WriteNodes, WriteEdges, Ended
  <1>2. CASE WriteNodes(s)
    <2>1. [syncer[s] EXCEPT !.at = "nodes"] \in Jobs
      BY <1>1 DEF Jobs
    <2>2. syncer' = [syncer EXCEPT ![s] = [syncer[s] EXCEPT !.at = "nodes"]]
      BY <1>2 DEF WriteNodes, GInv, GraphTypeOK
    <2>3. graphNodes' \subseteq Everything
      BY <1>1, <1>2 DEF WriteNodes, GInv, GraphTypeOK, Jobs, Scopes, Everything
    <2>4. QED
      BY <1>2, <2>1, <2>2, <2>3, SyncerStep DEF WriteNodes, Still, history, GInv, GraphTypeOK
  <1>3. CASE WriteEdges(s)
    <2>1. syncer[s].edges \subseteq Edges
      BY <1>1 DEF Jobs
    <2>2. graphEdges' \subseteq Edges
      BY <1>3, <2>1 DEF WriteEdges, GInv, GraphTypeOK
    <2>3. \A e \in syncer[s].edges : e[1] \in Everything /\ e[2] \in Everything
      BY <2>1 DEF Edges, Everything
    <2>4. graphNodes' \subseteq Everything
      BY <1>3, <2>3 DEF WriteEdges, GInv, GraphTypeOK
    <2>5. QED
      BY <1>3, <2>2, <2>4, SyncerStep DEF WriteEdges, Still, history, GInv, GraphTypeOK
  <1>4. QED
    BY <1>2, <1>3

LEMMA RetryGInv ==
  ASSUME GInv, NEW s \in Syncers, SyncFails(s) \/ Retry(s)
  PROVE  GInv'
  <1>1. syncer[s] \in Jobs
    BY JobFields DEF SyncFails, Retry, Ended
  <1>2. /\ syncer[s].job \in Scopes /\ syncer[s].scope \in Scopes
        /\ Pruned(s) \in Scopes
    BY <1>1 DEF Jobs, Scopes, Pruned
  <1>3. Expanded(syncer[s].job) \in Jobs
    BY <1>2, ExpandedType
  <1>4. CASE SyncFails(s)
    <2>1. [Expanded(syncer[s].job) EXCEPT !.at = "failed", !.scope = Pruned(s)] \in Jobs
      BY <1>2, <1>3 DEF Jobs
    <2>2. QED
      BY <1>4, <2>1, SyncerStep DEF SyncFails, Still, history, graph, GInv, GraphTypeOK
  <1>5. CASE Retry(s)
    <2>1. stray' \subseteq Everything
      BY <1>2, <1>5 DEF Retry, GInv, GraphTypeOK, Scopes, Everything
    <2>2. QED
      BY <1>3, <1>5, <2>1, SyncerStep DEF Retry, Still, history, graph, GInv, GraphTypeOK
  <1>6. QED
    BY <1>4, <1>5

\* What changes rows queues at most one scope, or leaves one untold.
LEMMA ChangesGInv ==
  ASSUME GInv, [EntityNext]_entityVars, UNCHANGED <<syncer, graph, stray>>,
         \/ Changes /\ UNCHANGED untold
         \/ Unannounced /\ UNCHANGED <<pending, untold>>
         \/ Forgotten /\ UNCHANGED pending
  PROVE  GInv'
  <1>1. TInv'
    BY NextTInv DEF GInv
  <1>2. ASSUME NEW job \in Scopes, Enqueue(job) PROVE pending' \subseteq Scopes
    BY <1>2 DEF Enqueue, GInv, GraphTypeOK
  <1>3. pending' \subseteq Scopes
    <2>1. CASE \E m \in Memories : Enqueue({m}) \/ Enqueue({x \in ItemOf(m) : HasRow(x)})
      <3>1. PICK m \in Memories : Enqueue({m}) \/ Enqueue({x \in ItemOf(m) : HasRow(x)})
        BY <2>1
      <3>2. {m} \in Scopes /\ {x \in ItemOf(m) : HasRow(x)} \in Scopes
        BY DEF Scopes, ItemOf
      <3>3. QED
        BY <1>2, <3>1, <3>2
    <2>2. CASE \E w \in Extractors : AnnounceExtraction(w) /\ Enqueue({extractor[w].mem})
      <3>1. PICK w \in Extractors : AnnounceExtraction(w) /\ Enqueue({extractor[w].mem})
        BY <2>2
      <3>2. extractor[w] \in Announcing
        BY <3>1, Fields DEF AnnounceExtraction, GInv, TInv, EntitiesTypeOK
      <3>3. {extractor[w].mem} \in Scopes
        BY <3>2 DEF Announcing, Scopes
      <3>4. QED
        BY <1>2, <3>1, <3>3
    <2>3. CASE \E r \in Resolvers : AnnounceMerge(r) /\ Enqueue(resolver[r].pair)
      <3>1. PICK r \in Resolvers : AnnounceMerge(r) /\ Enqueue(resolver[r].pair)
        BY <2>3
      <3>2. resolver[r] \in Telling
        BY <3>1, MergeFields DEF AnnounceMerge, GInv, TInv, EntitiesTypeOK
      <3>3. resolver[r].pair \in Scopes
        BY <3>2 DEF Telling, Scopes
      <3>4. QED
        BY <1>2, <3>1, <3>3
    <2>4. CASE UNCHANGED pending
      BY <2>4 DEF GInv, GraphTypeOK
    <2>5. QED
      BY <2>1, <2>2, <2>3, <2>4 DEF Changes
  <1>4. untold' \subseteq Everything
    <2>1. CASE Forgotten
      <3>1. \A w \in Extractors : extractor[w].at = "announcing" => extractor[w].mem \in Memories
        BY Fields DEF GInv, TInv, EntitiesTypeOK, Announcing
      <3>2. \A r \in Resolvers : resolver[r].at = "telling" => resolver[r].pair \subseteq Names
        BY MergeFields DEF GInv, TInv, EntitiesTypeOK, Telling
      <3>3. CASE \E w \in Extractors : untold' = untold \cup
                   IF extractor[w].at = "announcing" THEN {extractor[w].mem} ELSE {}
        BY <3>1, <3>3 DEF GInv, GraphTypeOK, Everything
      <3>4. CASE \E r \in Resolvers : ForgetMerge(r) /\ untold' = untold \cup resolver[r].pair
        BY <3>2, <3>4 DEF ForgetMerge, GInv, GraphTypeOK, Everything
      <3>5. QED
        BY <2>1, <3>3, <3>4 DEF Forgotten
    <2>2. QED
      BY <2>1 DEF GInv, GraphTypeOK
  <1>5. QED
    BY <1>1, <1>3, <1>4 DEF GInv, GraphTypeOK, TInv, graph

LEMMA NextGInv == GInv /\ [GraphNext]_graphVars => GInv'
  <1> SUFFICES ASSUME GInv, [GraphNext]_graphVars PROVE GInv'
    OBVIOUS
  <1>1. CASE \/ Changes /\ UNCHANGED <<syncer, graph, history>>
             \/ Unannounced /\ UNCHANGED <<pending, syncer, graph, history>>
             \/ Forgotten /\ UNCHANGED <<pending, syncer, graph, stray>>
    BY <1>1, StepOfEntities, ChangesGInv DEF history
  <1>2. ASSUME NEW s \in Syncers, Sync(s) \/ SyncFails(s) PROVE GInv'
    BY <1>2, ClaimGInv, ReadGInv, PruneGInv, WriteGInv, RetryGInv DEF Sync
  <1>3. CASE UNCHANGED graphVars
    <2>1. TInv'
      BY <1>3, NextTInv DEF GInv, graphVars
    <2>2. QED
      BY <1>3, <2>1 DEF GInv, GraphTypeOK, TInv, graphVars, graph, history
  <1>4. QED
    BY <1>1, <1>2, <1>3 DEF GraphNext

\* GraphTypeOK for every corpus: jobs, scopes, nodes and edges are of memories and
\* entities, and edges lead from the first to the second (graph_sync.py).
THEOREM GraphTypeCorrect == GraphSpec => []GraphTypeOK
  <1>1. GInv => GraphTypeOK
    BY DEF GInv
  <1>2. QED
    BY <1>1, InitGInv, NextGInv, PTL DEF GraphSpec

-----------------------------------------------------------------------------
(* What is owed.  One sync y at most is at work; its job widens to `wider`. *)

Shown == {m \in Memories : memory[m] = "current"}
Linked == {e \in Edges : Projected(e)}
Gone == {m \in Memories : memory[m] \notin {"current", "old"}}
          \cup {n \in Names : merged[n] # None}

\* Named by a job that waits, about to be, or never to be.
Extracted == {extractor[w].mem : w \in {v \in Extractors : extractor[v].at = "announcing"}}
Paired == {n \in Names : \E r \in Resolvers :
             resolver[r].at = "telling" /\ n \in resolver[r].pair}
Waiting == UNION pending
Named == Waiting \cup Paired \cup Extracted \cup untold

\* Those of them that may have left Postgres: no extraction takes a memory away.
Leaving == Waiting \cup Paired \cup (untold \cap Names)

\* What y has still to prune of what its job names, ...
Unpruned(y) == {x \in y.job : \/ y.at \in {"expanded", "failed", "read", "wide"}
                              \/ y.at = "cleared" /\ x \in Names}

\* ... what its job names, and what it or a try before it may have pruned.
Asked(y) == {x \in y.job : y.at # "idle"}
Taken(y, wider) ==
  {x \in y.scope : y.at \in {"cleared", "pruned", "nodes", "failed"}}
    \cup {x \in wider : y.at \in {"expanded", "read", "wide", "failed"}}

EdgesIn(links, scope) == {e \in links : InScope(e, scope)}
NodesIn(shown, links, scope) ==
  (shown \cap scope) \cup {e[2] : e \in EdgesIn(links, scope)}

\* What y has read is what there is, and what it has written is there.
Reading(y, wider, shown, links, nodes) ==
  /\ y.at \in {"expanded", "read"} => y.scope = wider
  /\ y.at = "wide" => y.scope = Everything
  /\ y.at \in {"read", "wide", "cleared", "pruned", "nodes"} =>
       y.nodes = NodesIn(shown, links, y.scope) /\ y.edges = EdgesIn(links, y.scope)
  /\ y.at \in {"cleared", "pruned", "nodes"} => y.job \subseteq y.scope
  /\ y.at = "nodes" => y.nodes \subseteq nodes

\* What the graph shows and should not, some job will prune, or nobody was told.
NoneStays(y, gone, leaving, nodes) ==
  \A x \in nodes : x \in gone => x \in leaving \cup Unpruned(y)

\* What the graph should show and does not, some job will write.
NoneLost(y, wider, shown, links, named, nodes, edges, lost) ==
  LET owed == named \cup Asked(y) \cup Taken(y, wider) \cup lost
  IN /\ \A e \in edges : e[1] \in nodes /\ e[2] \in nodes
     /\ \A m \in shown : m \in nodes \cup owed
     /\ \A e \in links : e \in edges \/ e[1] \in owed \/ e[2] \in owed
     /\ \A e \in links : \/ e[2] \in nodes \cup owed
                         \/ e[1] \in named \cup Asked(y)

Core(y, wider, shown, links, gone, named, leaving, nodes, edges, lost) ==
  /\ Reading(y, wider, shown, links, nodes)
  /\ NoneStays(y, gone, leaving, nodes)
  /\ NoneLost(y, wider, shown, links, named, nodes, edges, lost)

Owing(y, wider) ==
  Core(y, wider, Shown, Linked, Gone, Named, Leaving, graphNodes, graphEdges, stray)

\* One sync at a time, and what is owed of it or, when none runs, of nobody.
SInv ==
  /\ GInv
  /\ \A s, t \in Syncers : syncer[s] # Ended /\ syncer[t] # Ended => s = t
  /\ \A s \in Syncers : syncer[s] # Ended => Owing(syncer[s], Expand(syncer[s].job))
  /\ (\A s \in Syncers : syncer[s] = Ended) => Owing(Ended, {})

\* What a sync reads, in these terms.
LEMMA WhatIsRead ==
  ASSUME NEW scope
  PROVE  /\ EdgesOf(scope) = EdgesIn(Linked, scope)
         /\ NodesOf(scope) = NodesIn(Shown, Linked, scope)
  <1>1. EdgesOf(scope) = EdgesIn(Linked, scope)
    BY DEF EdgesOf, EdgesIn, Linked
  <1>2. \A e \in EdgesOf(scope) : e[2] \in Names
    BY DEF EdgesOf, Edges
  <1>3. NodesOf(scope) = NodesIn(Shown, Linked, scope)
    BY <1>1, <1>2 DEF NodesOf, NodesIn, Shown
  <1>4. QED
    BY <1>1, <1>3

\* What is linked and shown has not gone.
LEMMA ShownIsNotGone ==
  /\ Shown \cap Gone = {} /\ Shown \subseteq Memories
  /\ \A e \in Linked : /\ e[1] \in Shown /\ e[1] \notin Gone
                       /\ e[2] \in Names /\ e[2] \notin Gone
  BY GraphAssumption DEF Shown, Gone, Linked, Projected, Edges

\* While a sync works, rows and announcements are what they were.
LEMMA AtRest ==
  ASSUME UNCHANGED entityVars
  PROVE  /\ Shown' = Shown /\ Linked' = Linked /\ Gone' = Gone
         /\ UNCHANGED <<pending, untold>> => Named' = Named /\ Leaving' = Leaving
  BY DEF entityVars, rows, Shown, Linked, Projected, Gone, Named, Leaving, Extracted, Paired,
         Waiting

\* What a sync would be widened to depends on mentions, redirects and edges only.
LEMMA SameExpand ==
  ASSUME NEW job, UNCHANGED <<mentions, merged, graphEdges>>
  PROVE  Expand(job)' = Expand(job)
  BY DEF Expand, InScope, EntitiesOf, MemoriesOf, Hop

\* A step to z of the one sync at work, or of the one that starts.
LEMMA OneStep ==
  ASSUME GInv, GInv', NEW s \in Syncers, NEW z, NEW w,
         \A t \in Syncers \ {s} : syncer[t] = Ended, syncer' = [syncer EXCEPT ![s] = z],
         z # Ended => w = Expand(z.job)', z = Ended => w = {},
         Core(z, w, Shown', Linked', Gone', Named', Leaving', graphNodes', graphEdges', stray')
  PROVE  SInv'
  <1>1. \A t \in Syncers : syncer'[t] = IF t = s THEN z ELSE Ended
    BY DEF GInv, GraphTypeOK
  <1>2. CASE z # Ended
    <2>1. \A t \in Syncers : syncer'[t] # Ended => t = s /\ syncer'[t] = z
      BY <1>1
    <2>2. syncer'[s] = z /\ w = Expand(syncer[s].job)'
      BY <1>1, <1>2
    <2>3. Owing(syncer[s], Expand(syncer[s].job))'
      BY <2>2 DEF Owing
    <2>4. ASSUME NEW t \in Syncers, syncer'[t] # Ended
          PROVE  Owing(syncer[t], Expand(syncer[t].job))'
      <3>1. t = s
        BY <2>1, <2>4
      <3>2. QED
        BY <2>3, <3>1
    <2>5. ASSUME NEW t \in Syncers, NEW u \in Syncers, syncer'[t] # Ended, syncer'[u] # Ended
          PROVE  t = u
      BY <2>1, <2>5
    <2>6. ~ \A t \in Syncers : syncer'[t] = Ended
      BY <1>1, <1>2
    <2>7. QED
      BY <2>4, <2>5, <2>6 DEF SInv
  <1>3. CASE z = Ended
    <2>1. Owing(Ended, {})'
      BY <1>3 DEF Owing
    <2>2. QED
      BY <1>1, <1>3, <2>1 DEF SInv
  <1>4. QED
    BY <1>2, <1>3

\* Where one sync is at work, no other is.
LEMMA Others ==
  ASSUME SInv, NEW s \in Syncers, syncer[s] # Ended
  PROVE  /\ \A t \in Syncers \ {s} : syncer[t] = Ended
         /\ Owing(syncer[s], Expand(syncer[s].job))
         /\ syncer[s] \in Jobs
         /\ syncer[s].job \subseteq Expand(syncer[s].job)
  <1>1. syncer[s] \in Jobs
    BY JobFields DEF SInv
  <1>2. QED
    BY <1>1, ExpandType DEF SInv, Jobs

\* With nothing at work a job is taken from the queue.
LEMMA NothingRuns ==
  ASSUME SInv, ~Overlap, Quiet
  PROVE  /\ \A t \in Syncers : syncer[t] = Ended
         /\ Owing(Ended, {})
  BY DEF Quiet, Running, SInv

LEMMA ClaimSInv ==
  ASSUME SInv, GInv', ~Overlap, NEW s \in Syncers, NEW job \in pending, Claim(s, job)
  PROVE  SInv'
  <1> DEFINE z == Expanded(job)
             w == Expand(job)
  <1>1. \A t \in Syncers : syncer[t] = Ended
    BY NothingRuns DEF Claim
  <1>2. Owing(Ended, {})
    BY NothingRuns DEF Claim
  <1>3. /\ UNCHANGED <<entityVars, graph, stray>>
        /\ syncer' = [syncer EXCEPT ![s] = z] /\ untold' = untold \ job
    BY DEF Claim, Still
  <1>4. Expand(job)' = w
    <2>1. UNCHANGED <<mentions, merged, graphEdges>>
      BY <1>3 DEF entityVars, rows, graph
    <2>2. QED
      BY <2>1, SameExpand
  <1>5. Named \subseteq Named' \cup job /\ Leaving \subseteq Leaving' \cup job
    <2>1. UNCHANGED <<Extracted, Paired>>
      BY <1>3 DEF Extracted, Paired, entityVars
    <2>2. Waiting \subseteq Waiting' \cup job
      BY DEF Claim, Waiting
    <2>3. QED
      BY <1>3, <2>1, <2>2 DEF Named, Leaving
  <1>6. Shown' = Shown /\ Linked' = Linked /\ Gone' = Gone
    BY <1>3, AtRest DEF history
  <1>7. /\ z.at = "expanded" /\ z.job = job /\ z.scope = w /\ z # Ended
        /\ job \subseteq w
    <2>1. job \in Scopes
      BY DEF SInv, GInv, GraphTypeOK
    <2>2. QED
      BY <2>1, ExpandType DEF Expanded, Ended, SInv
  <1>8. Unpruned(z) = job /\ Asked(z) = job /\ Taken(z, w) = w
    BY <1>7 DEF Unpruned, Asked, Taken
  <1>9. Unpruned(Ended) = {} /\ Asked(Ended) = {} /\ Taken(Ended, {}) = {}
    BY DEF Unpruned, Asked, Taken, Ended
  <1> HIDE DEF z, w
  <1>10. Reading(z, w, Shown, Linked, graphNodes)
    BY <1>7 DEF Reading
  <1>11. NoneStays(z, Gone, Leaving', graphNodes)
    BY <1>2, <1>5, <1>8, <1>9 DEF Owing, Core, NoneStays
  <1>12. NoneLost(z, w, Shown, Linked, Named', graphNodes, graphEdges, stray)
    BY <1>2, <1>5, <1>8, <1>9 DEF Owing, Core, NoneLost
  <1>13. Core(z, w, Shown', Linked', Gone', Named', Leaving', graphNodes', graphEdges', stray')
    BY <1>3, <1>6, <1>10, <1>11, <1>12 DEF Core, graph
  <1>14. QED
    BY <1>1, <1>3, <1>4, <1>7, <1>13, OneStep DEF SInv, w

\* A step of the sync at work that leaves the graph alone.
LEMMA ReadSInv ==
  ASSUME SInv, GInv', NEW s \in Syncers, Read(s)
  PROVE  SInv'
  <1>1. PICK wide \in BOOLEAN :
          LET scope == WhatToRead(syncer[s].scope, wide)
          IN syncer' = [syncer EXCEPT ![s].at = IF wide THEN "wide" ELSE "read",
               ![s].scope = scope, ![s].nodes = NodesOf(scope),
               ![s].edges = EdgesOf(scope)]
    BY DEF Read
  <1> DEFINE scope == WhatToRead(syncer[s].scope, wide)
  <1> PICK y : y = syncer[s]
    OBVIOUS
  <1> PICK w : w = Expand(y.job)
    OBVIOUS
  <1> PICK z : z = [y EXCEPT !.at = IF wide THEN "wide" ELSE "read",
                      !.scope = scope, !.nodes = NodesOf(scope), !.edges = EdgesOf(scope)]
    OBVIOUS
  <1>2. y # Ended /\ y.at = "expanded"
    BY DEF Read, Ended
  <1>3. /\ \A t \in Syncers \ {s} : syncer[t] = Ended
        /\ Owing(y, w)
        /\ y \in Jobs
    BY <1>2, Others
  <1>4. UNCHANGED <<entityVars, pending, graph, history>> /\ syncer' = [syncer EXCEPT ![s] = z]
    BY <1>1 DEF Read, Still, SInv, GInv, GraphTypeOK
  <1>5. Expand(y.job)' = Expand(y.job)
    <2>1. UNCHANGED <<mentions, merged, graphEdges>>
      BY <1>4 DEF entityVars, rows, graph
    <2>2. QED
      BY <2>1, SameExpand
  <1>6. /\ Shown' = Shown /\ Linked' = Linked /\ Gone' = Gone
        /\ Named' = Named /\ Leaving' = Leaving
    BY <1>4, AtRest DEF history
  <1>7. /\ z.at \in {"read", "wide"} /\ z.job = y.job /\ z.scope = scope
        /\ z.nodes = NodesIn(Shown, Linked, scope) /\ z.edges = EdgesIn(Linked, scope)
        /\ z.at = "read" => scope = y.scope
        /\ z.at = "wide" => scope = Everything
    BY <1>3, WhatIsRead DEF Jobs, WhatToRead
  <1>8. z # Ended
    BY <1>7 DEF Ended
  <1> HIDE DEF scope
  <1>9. Unpruned(z) = Unpruned(y) /\ Asked(z) = Asked(y) /\ Taken(z, w) = Taken(y, w)
    BY <1>2, <1>7 DEF Unpruned, Asked, Taken
  <1>10. y.scope = w
    BY <1>2, <1>3 DEF Owing, Core, Reading
  <1>11. Reading(z, w, Shown, Linked, graphNodes)
    BY <1>7, <1>10 DEF Reading
  <1>12. Core(z, w, Shown', Linked', Gone', Named', Leaving', graphNodes', graphEdges', stray')
    BY <1>3, <1>4, <1>6, <1>9, <1>11 DEF Owing, Core, NoneStays, NoneLost, graph, history
  <1>13. Expand(z.job)' = w
    BY <1>5, <1>7
  <1>14. QED
    BY <1>3, <1>4, <1>8, <1>12, <1>13, OneStep DEF SInv

\* Taking nodes out of the graph that the sync is to write back.
LEMMA CorePrune ==
  ASSUME NEW y, NEW z, NEW w, NEW v, NEW shown, NEW links, NEW gone, NEW named, NEW leaving,
         NEW nodes, NEW edges, NEW lost, NEW out, NEW left,
         left = {e \in edges : e[1] \notin out /\ e[2] \notin out},
         Core(y, w, shown, links, gone, named, leaving, nodes, edges, lost),
         Reading(z, v, shown, links, nodes \ out),
         Asked(y) \subseteq Asked(z), Taken(y, w) \subseteq Taken(z, v),
         out \subseteq Taken(z, v), Unpruned(y) \ out \subseteq Unpruned(z)
  PROVE  Core(z, v, shown, links, gone, named, leaving, nodes \ out, left, lost)
  <1>1. NoneStays(z, gone, leaving, nodes \ out)
    BY DEF Core, NoneStays
  <1>2. NoneLost(z, v, shown, links, named, nodes \ out, left, lost)
    BY DEF Core, NoneLost
  <1>3. QED
    BY <1>1, <1>2 DEF Core

LEMMA PruneSInv ==
  ASSUME SInv, GInv', NEW s \in Syncers, Clear(s) \/ PruneMemories(s) \/ PruneEntities(s)
  PROVE  SInv'
  <1> PICK y : y = syncer[s]
    OBVIOUS
  <1> PICK w : w = Expand(y.job)
    OBVIOUS
  <1> DEFINE at == IF y.at = "read" THEN "cleared" ELSE "pruned"
             out == CASE y.at = "wide" -> Everything
                      [] y.at = "read" -> y.scope \cap Memories
                      [] OTHER -> y.scope \cap Names
  <1> PICK z : z = [y EXCEPT !.at = at]
    OBVIOUS
  <1> PICK v : v = Expand(z.job)'
    OBVIOUS
  <1>1. y # Ended /\ y.at \in {"wide", "read", "cleared"}
    BY DEF Clear, PruneMemories, PruneEntities, Ended
  <1>2. /\ \A t \in Syncers \ {s} : syncer[t] = Ended
        /\ Owing(y, w)
        /\ y \in Jobs /\ y.job \subseteq w
    BY <1>1, Others
  <1>3. /\ UNCHANGED <<entityVars, pending, history>>
        /\ syncer' = [syncer EXCEPT ![s] = z]
        /\ Detach(out)
    BY DEF Clear, PruneMemories, PruneEntities, Still, SInv, GInv, GraphTypeOK
  <1>4. /\ Shown' = Shown /\ Linked' = Linked /\ Gone' = Gone
        /\ Named' = Named /\ Leaving' = Leaving
    BY <1>3, AtRest DEF history
  <1>5. /\ z.at = at /\ z.job = y.job /\ z.scope = y.scope
        /\ z.nodes = y.nodes /\ z.edges = y.edges
    BY <1>2 DEF Jobs
  <1>6. z # Ended
    BY <1>1, <1>5 DEF Ended
  <1>7. /\ y.at = "read" => y.scope = w
        /\ y.at = "wide" => y.scope = Everything
        /\ y.at = "cleared" => y.job \subseteq y.scope
        /\ y.nodes = NodesIn(Shown, Linked, y.scope) /\ y.edges = EdgesIn(Linked, y.scope)
    BY <1>1, <1>2 DEF Owing, Core, Reading
  <1>8. y.job \subseteq y.scope /\ y.job \subseteq Everything /\ w \subseteq Everything
    <2>1. y.job \in Scopes
      BY <1>2 DEF Jobs
    <2>2. w \in Scopes
      BY <2>1, ExpandType DEF SInv
    <2>3. QED
      BY <1>1, <1>2, <1>7, <2>1, <2>2 DEF Scopes, Everything
  <1>9. Asked(z) = Asked(y)
    BY <1>1, <1>5 DEF Asked
  <1>10. Taken(z, v) = y.scope /\ Taken(y, w) \subseteq y.scope
    BY <1>1, <1>5, <1>7, <1>8 DEF Taken
  <1>11. out \subseteq y.scope
    BY <1>1, <1>7
  <1>12. Unpruned(y) \ out \subseteq Unpruned(z)
    BY <1>1, <1>5, <1>8 DEF Unpruned, Everything
  <1>13. Reading(z, v, Shown, Linked, graphNodes \ out)
    BY <1>1, <1>5, <1>7, <1>8 DEF Reading
  <1> HIDE DEF out, at
  <1>14. Core(z, v, Shown, Linked, Gone, Named, Leaving, graphNodes \ out, graphEdges', stray)
    <2>1. Core(y, w, Shown, Linked, Gone, Named, Leaving, graphNodes, graphEdges, stray)
      BY <1>2 DEF Owing
    <2>2. graphEdges' = {e \in graphEdges : e[1] \notin out /\ e[2] \notin out}
      BY <1>3 DEF Detach
    <2>3. /\ Asked(y) \subseteq Asked(z) /\ Taken(y, w) \subseteq Taken(z, v)
          /\ out \subseteq Taken(z, v)
      BY <1>9, <1>10, <1>11
    <2> PICK left : left = graphEdges'
      OBVIOUS
    <2> PICK o : o = out
      OBVIOUS
    <2>4. Core(z, v, Shown, Linked, Gone, Named, Leaving, graphNodes \ o, left, stray)
      BY <1>12, <1>13, <2>1, <2>2, <2>3, CorePrune
    <2>5. QED
      BY <2>4
  <1>15. Core(z, v, Shown', Linked', Gone', Named', Leaving', graphNodes', graphEdges', stray')
    BY <1>3, <1>4, <1>14 DEF Detach, history
  <1>16. QED
    BY <1>2, <1>3, <1>6, <1>15, OneStep DEF SInv

LEMMA WriteNodesSInv ==
  ASSUME SInv, GInv', NEW s \in Syncers, WriteNodes(s)
  PROVE  SInv'
  <1> PICK y : y = syncer[s]
    OBVIOUS
  <1> PICK w : w = Expand(y.job)
    OBVIOUS
  <1> PICK z : z = [y EXCEPT !.at = "nodes"]
    OBVIOUS
  <1> PICK v : v = Expand(z.job)'
    OBVIOUS
  <1>1. y # Ended /\ y.at = "pruned"
    BY DEF WriteNodes, Ended
  <1>2. /\ \A t \in Syncers \ {s} : syncer[t] = Ended
        /\ Owing(y, w)
        /\ y \in Jobs
    BY <1>1, Others
  <1>3. /\ UNCHANGED <<entityVars, pending, graphEdges, history>>
        /\ syncer' = [syncer EXCEPT ![s] = z]
        /\ graphNodes' = graphNodes \cup y.nodes
    BY DEF WriteNodes, Still, SInv, GInv, GraphTypeOK
  <1>4. /\ Shown' = Shown /\ Linked' = Linked /\ Gone' = Gone
        /\ Named' = Named /\ Leaving' = Leaving
    BY <1>3, AtRest DEF history
  <1>5. /\ z.at = "nodes" /\ z.job = y.job /\ z.scope = y.scope
        /\ z.nodes = y.nodes /\ z.edges = y.edges
    BY <1>2 DEF Jobs
  <1>6. z # Ended
    BY <1>5 DEF Ended
  <1>7. Unpruned(z) = {} /\ Unpruned(y) = {} /\ Asked(z) = Asked(y) /\ Taken(z, v) = Taken(y, w)
    BY <1>1, <1>5 DEF Unpruned, Asked, Taken
  <1>8. /\ y.nodes = NodesIn(Shown, Linked, y.scope) /\ y.edges = EdgesIn(Linked, y.scope)
        /\ y.job \subseteq y.scope
    BY <1>1, <1>2 DEF Owing, Core, Reading
  <1>9. y.nodes \cap Gone = {}
    BY <1>8, ShownIsNotGone DEF NodesIn, EdgesIn
  <1>10. Reading(z, v, Shown, Linked, graphNodes')
    BY <1>3, <1>5, <1>8 DEF Reading
  <1>11. NoneStays(z, Gone, Leaving, graphNodes')
    BY <1>2, <1>3, <1>7, <1>9 DEF Owing, Core, NoneStays
  <1>12. NoneLost(z, v, Shown, Linked, Named, graphNodes', graphEdges, stray)
    BY <1>2, <1>3, <1>7 DEF Owing, Core, NoneLost
  <1>13. Core(z, v, Shown', Linked', Gone', Named', Leaving', graphNodes', graphEdges', stray')
    BY <1>3, <1>4, <1>10, <1>11, <1>12 DEF Core, history
  <1>14. QED
    BY <1>2, <1>3, <1>6, <1>13, OneStep DEF SInv

\* The sync is done: nothing of what it owed is owed any more.
LEMMA WriteEdgesSInv ==
  ASSUME SInv, GInv', NEW s \in Syncers, WriteEdges(s)
  PROVE  SInv'
  <1> PICK y : y = syncer[s]
    OBVIOUS
  <1> PICK w : w = Expand(y.job)
    OBVIOUS
  <1>1. y # Ended /\ y.at = "nodes"
    BY DEF WriteEdges, Ended
  <1>2. /\ \A t \in Syncers \ {s} : syncer[t] = Ended
        /\ Owing(y, w)
        /\ y \in Jobs
    BY <1>1, Others
  <1>3. /\ UNCHANGED <<entityVars, pending, untold>>
        /\ syncer' = [syncer EXCEPT ![s] = Ended]
        /\ graphEdges' = graphEdges \cup y.edges
        /\ graphNodes' = graphNodes \cup UNION {{e[1], e[2]} : e \in y.edges}
        /\ stray' = stray \ y.scope
    BY DEF WriteEdges, Still, SInv, GInv, GraphTypeOK
  <1>4. /\ Shown' = Shown /\ Linked' = Linked /\ Gone' = Gone
        /\ Named' = Named /\ Leaving' = Leaving
    BY <1>3, AtRest DEF history
  <1>5. Unpruned(y) = {} /\ Asked(y) = y.job /\ Taken(y, w) = y.scope
    BY <1>1 DEF Unpruned, Asked, Taken
  <1>6. Unpruned(Ended) = {} /\ Asked(Ended) = {} /\ Taken(Ended, {}) = {}
    BY DEF Unpruned, Asked, Taken, Ended
  <1>7. /\ y.nodes = NodesIn(Shown, Linked, y.scope) /\ y.edges = EdgesIn(Linked, y.scope)
        /\ y.job \subseteq y.scope /\ y.nodes \subseteq graphNodes
    BY <1>1, <1>2 DEF Owing, Core, Reading
  <1>8. /\ \A e \in y.edges : e \in Linked
        /\ \A e \in Linked : e[1] \in y.scope \/ e[2] \in y.scope => e \in y.edges /\ e[2] \in y.nodes
        /\ \A m \in Shown : m \in y.scope => m \in y.nodes
    BY <1>7 DEF NodesIn, EdgesIn, InScope
  <1>9. Reading(Ended, {}, Shown, Linked, graphNodes')
    BY DEF Reading, Ended
  <1>10. NoneStays(Ended, Gone, Leaving, graphNodes')
    <2>1. \A x \in graphNodes' : x \in graphNodes \/ x \notin Gone
      BY <1>3, <1>8, ShownIsNotGone
    <2>2. QED
      BY <1>2, <1>5, <2>1 DEF Owing, Core, NoneStays
  <1>11. NoneLost(Ended, {}, Shown, Linked, Named, graphNodes', graphEdges', stray')
    <2> DEFINE owed == Named \cup stray'
    <2>1. /\ \A e \in graphEdges : e[1] \in graphNodes /\ e[2] \in graphNodes
          /\ \A m \in Shown : m \in graphNodes \cup (Named \cup y.job \cup y.scope \cup stray)
          /\ \A e \in Linked : \/ e \in graphEdges
                               \/ e[1] \in Named \cup y.job \cup y.scope \cup stray
                               \/ e[2] \in Named \cup y.job \cup y.scope \cup stray
          /\ \A e \in Linked : \/ e[2] \in graphNodes \cup (Named \cup y.job \cup y.scope \cup stray)
                               \/ e[1] \in Named \cup y.job
      BY <1>2, <1>5 DEF Owing, Core, NoneLost
    <2>2. \A e \in graphEdges' : e[1] \in graphNodes' /\ e[2] \in graphNodes'
      BY <1>3, <2>1
    <2>3. \A m \in Shown : m \in graphNodes' \cup owed
      BY <1>3, <1>7, <1>8, <2>1
    <2>4. \A e \in Linked : e \in graphEdges' \/ e[1] \in owed \/ e[2] \in owed
      BY <1>3, <1>7, <1>8, <2>1
    <2>5. \A e \in Linked : e[2] \in graphNodes' \cup owed \/ e[1] \in Named
      BY <1>3, <1>7, <1>8, <2>1
    <2>6. QED
      BY <1>6, <2>2, <2>3, <2>4, <2>5 DEF NoneLost
  <1>12. Core(Ended, {}, Shown', Linked', Gone', Named', Leaving', graphNodes', graphEdges', stray')
    BY <1>4, <1>9, <1>10, <1>11 DEF Core
  <1>13. QED
    BY <1>2, <1>3, <1>12, OneStep DEF SInv

\* A failed sync keeps its job; its retry widens it to what it still finds.
LEMMA FailsSInv ==
  ASSUME SInv, GInv', NEW s \in Syncers, SyncFails(s)
  PROVE  SInv'
  <1> PICK y : y = syncer[s]
    OBVIOUS
  <1> PICK w : w = Expand(y.job)
    OBVIOUS
  <1> PICK z : z = [Expanded(y.job) EXCEPT !.at = "failed", !.scope = Pruned(s)]
    OBVIOUS
  <1>1. y # Ended
    BY DEF SyncFails
  <1>2. /\ \A t \in Syncers \ {s} : syncer[t] = Ended
        /\ Owing(y, w)
        /\ y \in Jobs
    BY <1>1, Others
  <1>3. /\ UNCHANGED <<entityVars, pending, graph, history>>
        /\ syncer' = [syncer EXCEPT ![s] = z]
    BY DEF SyncFails, Still
  <1>4. Expand(y.job)' = w
    <2>1. UNCHANGED <<mentions, merged, graphEdges>>
      BY <1>3 DEF entityVars, rows, graph
    <2>2. QED
      BY <2>1, SameExpand
  <1>5. /\ Shown' = Shown /\ Linked' = Linked /\ Gone' = Gone
        /\ Named' = Named /\ Leaving' = Leaving
    BY <1>3, AtRest DEF history
  <1>6. z.at = "failed" /\ z.job = y.job /\ z.scope = Pruned(s)
    BY DEF Expanded
  <1>7. z # Ended
    BY <1>6 DEF Ended
  <1>8. Pruned(s) = IF y.at \in {"cleared", "pruned", "nodes", "failed"} THEN y.scope ELSE {}
    BY DEF Pruned
  <1>9. y.at \in {"expanded", "failed", "read", "wide", "cleared", "pruned", "nodes"}
    BY <1>2 DEF Jobs
  <1>10. /\ Unpruned(y) \subseteq Unpruned(z) /\ Asked(y) \subseteq Asked(z)
         /\ Taken(y, w) \subseteq Taken(z, w)
    BY <1>6, <1>8, <1>9 DEF Unpruned, Asked, Taken
  <1>11. Reading(z, w, Shown, Linked, graphNodes)
    BY <1>6 DEF Reading
  <1>12. Core(z, w, Shown', Linked', Gone', Named', Leaving', graphNodes', graphEdges', stray')
    BY <1>2, <1>3, <1>5, <1>10, <1>11 DEF Owing, Core, NoneStays, NoneLost, graph, history
  <1>13. Expand(z.job)' = w
    BY <1>4, <1>6
  <1>14. QED
    BY <1>2, <1>3, <1>7, <1>12, <1>13, OneStep DEF SInv

LEMMA RetrySInv ==
  ASSUME SInv, GInv', NEW s \in Syncers, Retry(s)
  PROVE  SInv'
  <1> PICK y : y = syncer[s]
    OBVIOUS
  <1> PICK w : w = Expand(y.job)
    OBVIOUS
  <1> PICK z : z = Expanded(y.job)
    OBVIOUS
  <1>1. y # Ended /\ y.at = "failed"
    BY DEF Retry, Ended
  <1>2. /\ \A t \in Syncers \ {s} : syncer[t] = Ended
        /\ Owing(y, w)
        /\ y \in Jobs
    BY <1>1, Others
  <1>3. /\ UNCHANGED <<entityVars, pending, graph, untold>>
        /\ syncer' = [syncer EXCEPT ![s] = z]
        /\ stray' = stray \cup (y.scope \ w)
    BY DEF Retry, Still
  <1>4. Expand(y.job)' = w
    <2>1. UNCHANGED <<mentions, merged, graphEdges>>
      BY <1>3 DEF entityVars, rows, graph
    <2>2. QED
      BY <2>1, SameExpand
  <1>5. /\ Shown' = Shown /\ Linked' = Linked /\ Gone' = Gone
        /\ Named' = Named /\ Leaving' = Leaving
    <2>1. UNCHANGED entityVars /\ UNCHANGED <<pending, untold>>
      BY <1>3
    <2>2. QED
      BY <2>1, AtRest
  <1>6. z.at = "expanded" /\ z.job = y.job /\ z.scope = w
    BY DEF Expanded
  <1>7. z # Ended
    BY <1>6 DEF Ended
  <1>8. /\ Unpruned(y) = Unpruned(z) /\ Asked(y) = Asked(z)
        /\ Taken(y, w) \cup stray \subseteq Taken(z, w) \cup stray'
    BY <1>1, <1>3, <1>6 DEF Unpruned, Asked, Taken
  <1>9. Reading(z, w, Shown, Linked, graphNodes)
    BY <1>6 DEF Reading
  <1>10. Core(z, w, Shown', Linked', Gone', Named', Leaving', graphNodes', graphEdges', stray')
    BY <1>2, <1>3, <1>5, <1>8, <1>9 DEF Owing, Core, NoneStays, NoneLost, graph
  <1>11. Expand(z.job)' = w
    BY <1>4, <1>6
  <1>12. QED
    BY <1>2, <1>3, <1>7, <1>10, <1>11, OneStep DEF SInv

-----------------------------------------------------------------------------
(* Changes of rows, when nothing runs. *)

\* What changes is named by what waits afterwards.
Covered(shown, links, gone, named, leaving) ==
  /\ Named \subseteq named /\ Leaving \subseteq leaving
  /\ \A m \in shown : m \in Shown \cup named
  /\ \A x \in gone : x \in Gone \cup leaving
  /\ \A e \in links : e \in Linked \/ e[1] \in named \/ e[2] \in named

LEMMA ChangeSInv ==
  ASSUME SInv, GInv', ~Overlap, Quiet, UNCHANGED <<syncer, graph, stray>>,
         Covered(Shown', Linked', Gone', Named', Leaving')
  PROVE  SInv'
  <1>1. \A t \in Syncers : syncer[t] = Ended /\ syncer'[t] = Ended
    BY NothingRuns
  <1>2. Owing(Ended, {})
    BY NothingRuns
  <1>3. Unpruned(Ended) = {} /\ Asked(Ended) = {} /\ Taken(Ended, {}) = {}
    BY DEF Unpruned, Asked, Taken, Ended
  <1>4. Reading(Ended, {}, Shown', Linked', graphNodes)
    BY DEF Reading, Ended
  <1>5. NoneStays(Ended, Gone', Leaving', graphNodes)
    BY <1>2, <1>3 DEF Owing, Core, NoneStays, Covered
  <1>6. NoneLost(Ended, {}, Shown', Linked', Named', graphNodes, graphEdges, stray)
    BY <1>2, <1>3 DEF Owing, Core, NoneLost, Covered
  <1>7. Owing(Ended, {})'
    BY <1>4, <1>5, <1>6 DEF Owing, Core, graph
  <1>8. QED
    BY <1>1, <1>7 DEF SInv

LEMMA OneMore ==
  ASSUME NEW jobs, NEW job
  PROVE  UNION (jobs \cup {job}) = (UNION jobs) \cup job
  BY Zenon

\* With nothing at work a job that is queued waits.
LEMMA Queued ==
  ASSUME ~Overlap, Quiet, NEW job, Enqueue(job)
  PROVE  /\ Waiting' = Waiting \cup job
         /\ UNCHANGED <<extractor, resolver, untold>> =>
              Named' = Named \cup job /\ Leaving' = Leaving \cup job
  <1>1. pending' = pending \cup {job}
    BY DEF Enqueue, Quiet
  <1>2. UNION (pending \cup {job}) = (UNION pending) \cup job
    BY OneMore
  <1>3. Waiting' = Waiting \cup job
    BY <1>1, <1>2 DEF Waiting
  <1>4. ASSUME UNCHANGED <<extractor, resolver, untold>>
        PROVE  Named' = Named \cup job /\ Leaving' = Leaving \cup job
    <2>1. UNCHANGED <<Extracted, Paired>>
      BY <1>4 DEF Extracted, Paired
    <2>2. QED
      BY <1>3, <1>4, <2>1 DEF Named, Leaving
  <1>5. QED
    BY <1>3, <1>4

\* What one extractor, or one resolver, has to announce.
LEMMA OneExtractor ==
  ASSUME GInv, NEW w \in Extractors, \A v \in Extractors \ {w} : extractor'[v] = extractor[v]
  PROVE  Extracted \subseteq Extracted' \cup
           {x \in {extractor[w].mem} : extractor[w].at = "announcing"}
  BY DEF Extracted

LEMMA OneResolver ==
  ASSUME GInv, NEW r \in Resolvers, NEW f, resolver' = [resolver EXCEPT ![r] = f]
  PROVE  /\ Paired \subseteq Paired' \cup
               {x \in resolver[r].pair : resolver[r].at = "telling"}
         /\ f.at = "telling" => {n \in Names : n \in f.pair} \subseteq Paired'
  <1>1. resolver'[r] = f /\ \A q \in Resolvers \ {r} : resolver'[q] = resolver[q]
    BY DEF GInv, TInv, EntitiesTypeOK
  <1>2. QED
    BY <1>1 DEF Paired

\* Where only memories change, what was linked and is not named stays so.
LEMMA MemoriesCovered ==
  ASSUME ~Overlap, Quiet, NEW job, Enqueue(job),
         UNCHANGED <<extractor, resolver, merged, untold>>, mentions' \subseteq mentions,
         \A m \in Memories : memory'[m] = "current" => memory[m] = "current" \/ m \in job,
         \A m \in Memories : memory[m] \in {"current", "old"} =>
           memory'[m] \in {"current", "old"} \/ m \in job
  PROVE  Covered(Shown', Linked', Gone', Named', Leaving')
  <1>1. Named' = Named \cup job /\ Leaving' = Leaving \cup job
    BY Queued
  <1>2. \A m \in Shown' : m \in Shown \cup Named'
    BY <1>1 DEF Shown
  <1>3. \A x \in Gone' : x \in Gone \cup Leaving'
    BY <1>1 DEF Gone
  <1>4. \A e \in Linked' : e \in Linked \/ e[1] \in Named'
    BY <1>1 DEF Linked, Projected, Edges
  <1>5. QED
    BY <1>1, <1>2, <1>3, <1>4 DEF Covered

LEMMA ChangesCovered ==
  ASSUME GInv, ~Overlap, Quiet, Changes, UNCHANGED untold
  PROVE  Covered(Shown', Linked', Gone', Named', Leaving')
  <1>0. memory \in [Memories -> States]
    BY DEF GInv, TInv, EntitiesTypeOK
  <1>1. ASSUME NEW m \in Memories, Ingest(m) \/ Hide(m), Enqueue({m})
        PROVE  Covered(Shown', Linked', Gone', Named', Leaving')
    <2>1. /\ \A x \in Memories : memory'[x] = "current" => memory[x] = "current" \/ x = m
          /\ \A x \in Memories : memory[x] \in {"current", "old"} =>
               memory'[x] \in {"current", "old"} \/ x = m
      BY <1>0, <1>1 DEF Ingest, Hide
    <2>2. UNCHANGED <<extractor, resolver, merged, mentions>>
      BY <1>1 DEF Ingest, Hide
    <2>3. QED
      BY <1>1, <2>1, <2>2, MemoriesCovered
  <1>2. ASSUME NEW m \in Memories, Purge(m), Enqueue({x \in ItemOf(m) : HasRow(x)})
        PROVE  Covered(Shown', Linked', Gone', Named', Leaving')
    <2> PICK job : job = {x \in ItemOf(m) : HasRow(x)}
      OBVIOUS
    <2>1. \A x \in Memories : memory'[x] = memory[x] \/ (memory'[x] = "purged" /\ x \in job)
      BY <1>0, <1>2 DEF Purge
    <2>2. UNCHANGED <<extractor, resolver, merged>> /\ mentions' \subseteq mentions
      BY <1>2 DEF Purge
    <2>3. Enqueue(job)
      BY <1>2
    <2>4. QED
      BY <2>1, <2>2, <2>3, MemoriesCovered
  <1>3. ASSUME UNCHANGED rows, Named \subseteq Named', Leaving \subseteq Leaving'
        PROVE  Covered(Shown', Linked', Gone', Named', Leaving')
    BY <1>3 DEF Covered, rows, Shown, Linked, Projected, Gone
  <1>4. ASSUME NEW w \in Extractors, AnnounceExtraction(w), Enqueue({extractor[w].mem})
        PROVE  Covered(Shown', Linked', Gone', Named', Leaving')
    <2>1. Waiting' = Waiting \cup {extractor[w].mem}
      BY <1>4, Queued
    <2>2. \A v \in Extractors : v # w => extractor'[v] = extractor[v]
      BY <1>4 DEF AnnounceExtraction, GInv, TInv, EntitiesTypeOK
    <2>3. Extracted \subseteq Extracted' \cup {extractor[w].mem}
      BY <2>2, OneExtractor
    <2>4. UNCHANGED Paired
      BY <1>4 DEF AnnounceExtraction, Paired
    <2>5. Named \subseteq Named' /\ Leaving \subseteq Leaving'
      BY <2>1, <2>3, <2>4 DEF Named, Leaving
    <2>6. QED
      BY <1>3, <1>4, <2>5 DEF AnnounceExtraction
  <1>5. ASSUME NEW r \in Resolvers, AnnounceMerge(r), Enqueue(resolver[r].pair)
        PROVE  Covered(Shown', Linked', Gone', Named', Leaving')
    <2>1. Waiting' = Waiting \cup resolver[r].pair
      BY <1>5, Queued
    <2>2. Paired \subseteq Paired' \cup resolver[r].pair
      BY <1>5, OneResolver DEF AnnounceMerge
    <2>3. UNCHANGED Extracted
      BY <1>5 DEF AnnounceMerge, Extracted
    <2>4. Named \subseteq Named' /\ Leaving \subseteq Leaving'
      BY <2>1, <2>2, <2>3 DEF Named, Leaving
    <2>5. QED
      BY <1>3, <1>5, <2>4 DEF AnnounceMerge
  <1>6. QED
    BY <1>1, <1>2, <1>4, <1>5 DEF Changes

-----------------------------------------------------------------------------
(* What is announced later: until then what it changed is named. *)

\* Where only mentions and pointers change.
LEMMA MentionsCovered ==
  ASSUME UNCHANGED memory, Named \subseteq Named', Leaving \subseteq Leaving',
         \A n \in Names : merged'[n] # None => merged[n] # None \/ n \in Leaving',
         \A e \in Linked' : e \in Linked \/ e[1] \in Named' \/ e[2] \in Named'
  PROVE  Covered(Shown', Linked', Gone', Named', Leaving')
  BY DEF Covered, Shown, Gone

LEMMA ExtractionCovered ==
  ASSUME GInv, UNCHANGED <<pending, untold>>, NEW w \in Extractors,
         \/ \E m \in Memories : Extract(w, m)
         \/ DeleteMentions(w) \/ FindNothingThere(w)
         \/ \E found \in Findings : ResolveNames(w, found)
  PROVE  Covered(Shown', Linked', Gone', Named', Leaving')
  <1>0. UNCHANGED Waiting
    BY DEF Waiting
  <1>1. extractor \in [Extractors -> Extractions]
    BY DEF GInv, TInv, EntitiesTypeOK
  <1>2. \A v \in Extractors \ {w} : extractor'[v] = extractor[v]
    BY <1>1 DEF Extract, DeleteMentions, FindNothingThere, ResolveNames
  <1>3. extractor[w].at # "announcing"
    BY DEF Extract, DeleteMentions, FindNothingThere, ResolveNames, Idle
  <1>4. UNCHANGED rows /\ UNCHANGED resolver
    BY DEF Extract, DeleteMentions, FindNothingThere, ResolveNames
  <1>5. Extracted \subseteq Extracted' /\ UNCHANGED Paired
    BY <1>2, <1>3, <1>4, OneExtractor DEF Paired
  <1>6. Named \subseteq Named' /\ Leaving \subseteq Leaving'
    BY <1>0, <1>5 DEF Named, Leaving
  <1>7. QED
    BY <1>4, <1>6, MentionsCovered DEF rows, Linked, Projected

LEMMA StoreCovered ==
  ASSUME GInv, UNCHANGED <<pending, untold>>, NEW w \in Extractors, Store(w)
  PROVE  Covered(Shown', Linked', Gone', Named', Leaving')
  <1> PICK e : e = extractor[w]
    OBVIOUS
  <1>0. UNCHANGED Waiting
    BY DEF Waiting
  <1>1. e.at = "storing" /\ UNCHANGED <<memory, merged, resolver>>
    BY DEF Store
  <1>2. extractor' = [extractor EXCEPT ![w] = [at |-> "announcing", mem |-> e.mem]]
    BY DEF Store
  <1>3. PICK kept \in SUBSET e.found :
          mentions' = (mentions \ e.doomed) \cup
            {[id |-> [mem |-> e.mem, of |-> n, ver |-> e.ver],
              ent |-> e.target[n]] : n \in kept}
    BY DEF Store
  <1>4. \A r \in mentions' : r \in mentions \/ r.id.mem = e.mem
    BY <1>3
  <1>5. extractor \in [Extractors -> Extractions]
    BY DEF GInv, TInv, EntitiesTypeOK
  <1>6. /\ \A v \in Extractors \ {w} : extractor'[v] = extractor[v]
        /\ extractor'[w].at = "announcing" /\ extractor'[w].mem = e.mem
    BY <1>2, <1>5
  <1>7. Extracted \subseteq Extracted' /\ e.mem \in Extracted' /\ UNCHANGED Paired
    <2>1. Extracted \subseteq Extracted'
      BY <1>1, <1>6, OneExtractor
    <2>2. e.mem \in Extracted'
      BY <1>6 DEF Extracted
    <2>3. QED
      BY <1>1, <2>1, <2>2 DEF Paired
  <1>8. Named \subseteq Named' /\ e.mem \in Named' /\ Leaving \subseteq Leaving'
    BY <1>0, <1>1, <1>7 DEF Named, Leaving
  <1>9. \A l \in Linked' : l \in Linked \/ l[1] \in Named'
    BY <1>1, <1>4, <1>8 DEF Linked, Projected
  <1>10. QED
    BY <1>1, <1>8, <1>9, MentionsCovered

\* A merge, and its undoing, is named until it is announced.
LEMMA ResolverTells ==
  ASSUME GInv, UNCHANGED <<pending, untold, extractor>>, NEW r \in Resolvers, NEW f \in Telling,
         f.at = "telling", resolver[r].at # "telling",
         resolver' = [resolver EXCEPT ![r] = f]
  PROVE  /\ Named \subseteq Named' /\ Leaving \subseteq Leaving'
         /\ f.pair \subseteq Named' /\ f.pair \subseteq Leaving'
  <1>1. Paired \subseteq Paired' /\ f.pair \subseteq Paired'
    <2>1. f.pair = {n \in Names : n \in f.pair}
      BY DEF Telling
    <2>2. QED
      BY <2>1, OneResolver
  <1>2. UNCHANGED <<Extracted, Waiting>>
    BY DEF Extracted, Waiting
  <1>3. QED
    BY <1>1, <1>2 DEF Named, Leaving

LEMMA FinishMergeCovered ==
  ASSUME GInv, UNCHANGED <<pending, untold>>, NEW r \in Resolvers, FinishMerge(r)
  PROVE  Covered(Shown', Linked', Gone', Named', Leaving')
  <1> PICK e : e = resolver[r]
    OBVIOUS
  <1>1. /\ e \in Merging /\ e.winner \in Names /\ e.loser \in Names
        /\ mentions' = Repointed(e)
        /\ merged' = [merged EXCEPT ![e.loser] = e.winner]
    BY MergeWrites DEF GInv
  <1>2. PICK f \in Telling :
          /\ f.at = "telling" /\ f.pair = {e.winner, e.loser}
          /\ resolver' = [resolver EXCEPT ![r] = f]
    BY MergeWrites DEF GInv
  <1>3. UNCHANGED <<memory, extractor>> /\ e.at = "merging"
    BY DEF FinishMerge
  <1>4. \A x \in mentions' : x.ent = e.winner \/ x \in mentions
    BY <1>1, RepointType DEF GInv, TInv
  <1>5. merged'[e.loser] # None /\ \A n \in Names : n # e.loser => merged'[n] = merged[n]
    BY <1>1, EntitiesAssumption DEF GInv, TInv, EntitiesTypeOK
  <1>6. /\ Named \subseteq Named' /\ Leaving \subseteq Leaving'
        /\ f.pair \subseteq Named' /\ f.pair \subseteq Leaving'
    BY <1>2, <1>3, ResolverTells
  <1>7. e.winner \in Named' /\ e.loser \in Named' /\ e.loser \in Leaving'
    BY <1>2, <1>6
  <1>8. \A l \in Linked' : l \in Linked \/ l[2] \in Named'
    BY <1>3, <1>4, <1>5, <1>7 DEF Linked, Projected, Edges
  <1>9. QED
    BY <1>3, <1>5, <1>6, <1>7, <1>8, MentionsCovered

LEMMA FinishRevertCovered ==
  ASSUME GInv, UNCHANGED <<pending, untold>>, NEW r \in Resolvers, FinishRevert(r)
  PROVE  Covered(Shown', Linked', Gone', Named', Leaving')
  <1>1. PICK i \in DOMAIN merges :
           /\ resolver[r].at = "undoing"
           /\ merges[i] \in MergeRows
           /\ merges[i].winner \in Names /\ merges[i].loser \in Names
           /\ mentions' = Returned(merges[i])
           /\ merged' = [merged EXCEPT ![merges[i].loser] = None]
           /\ \E f \in Telling :
                /\ f.at = "telling"
                /\ f.pair = {merges[i].winner, merges[i].loser}
                /\ resolver' = [resolver EXCEPT ![r] = f]
    <2>1. TInv
      BY DEF GInv
    <2>2. QED
      BY <2>1, RevertWrites
  <1> PICK row : row = merges[i]
    OBVIOUS
  <1>2. PICK f \in Telling :
          /\ f.at = "telling" /\ f.pair = {row.winner, row.loser}
          /\ resolver' = [resolver EXCEPT ![r] = f]
    BY <1>1
  <1>3. UNCHANGED <<memory, extractor>>
    BY DEF FinishRevert
  <1>4. \A x \in mentions' : x \in mentions \/ x.ent = row.loser
    BY <1>1, ReturnedType DEF GInv, TInv
  <1>5. \A n \in Names : merged'[n] = merged[n] \/ (n = row.loser /\ merged'[n] = None)
    BY <1>1 DEF GInv, TInv, EntitiesTypeOK
  <1>6. /\ Named \subseteq Named' /\ Leaving \subseteq Leaving'
        /\ f.pair \subseteq Named'
    BY <1>1, <1>2, <1>3, ResolverTells
  <1>7. row.loser \in Named'
    BY <1>2, <1>6
  <1>8. \A l \in Linked' : l \in Linked \/ l[2] \in Named'
    BY <1>3, <1>4, <1>5, <1>7 DEF Linked, Projected, Edges
  <1>9. QED
    BY <1>3, <1>5, <1>6, <1>8, MentionsCovered

\* What is begun or given up has changed nothing.
LEMMA BegunCovered ==
  ASSUME GInv, UNCHANGED <<pending, untold>>, NEW r \in Resolvers,
         \/ \E left, right \in entity : StartMerge(r, left, right)
         \/ \E i \in DOMAIN merges : StartRevert(r, i)
         \/ AbandonMerge(r)
  PROVE  Covered(Shown', Linked', Gone', Named', Leaving')
  <1>1. UNCHANGED <<rows, extractor>> /\ resolver[r].at # "telling"
    BY DEF StartMerge, StartRevert, AbandonMerge, Resolving, Idle
  <1>2. PICK f : resolver' = [resolver EXCEPT ![r] = f]
    BY DEF StartMerge, StartRevert, AbandonMerge
  <1>3. Paired \subseteq Paired'
    BY <1>1, <1>2, OneResolver
  <1>4. UNCHANGED <<Extracted, Waiting>>
    BY <1>1 DEF Extracted, Waiting
  <1>5. Named \subseteq Named' /\ Leaving \subseteq Leaving'
    BY <1>3, <1>4 DEF Named, Leaving
  <1>6. QED
    BY <1>1, <1>5, MentionsCovered DEF rows, Linked, Projected

LEMMA UnannouncedCovered ==
  ASSUME GInv, UNCHANGED <<pending, untold>>, Unannounced
  PROVE  Covered(Shown', Linked', Gone', Named', Leaving')
  <1>1. CASE Upgrade
    <2>1. UNCHANGED rows /\ UNCHANGED <<extractor, resolver>>
      BY <1>1 DEF Upgrade
    <2>2. UNCHANGED <<Extracted, Paired, Waiting>>
      BY <2>1 DEF Extracted, Paired, Waiting
    <2>3. QED
      BY <2>1, <2>2, MentionsCovered DEF rows, Linked, Projected, Named, Leaving
  <1>2. QED
    BY <1>1, ExtractionCovered, StoreCovered, FinishMergeCovered, FinishRevertCovered,
       BegunCovered DEF Unannounced

\* What dies before it is announced changes no row, and is named in untold.
LEMMA ForgottenCovered ==
  ASSUME GInv, UNCHANGED pending, Forgotten
  PROVE  Covered(Shown', Linked', Gone', Named', Leaving')
  <1>0. UNCHANGED Waiting
    BY DEF Waiting
  <1>1. UNCHANGED rows
    BY DEF Forgotten, GiveUp, ForgetMerge
  <1>2. Named \subseteq Named' /\ Leaving \subseteq Leaving'
    <2>1. ASSUME NEW w \in Extractors, GiveUp(w), untold' = untold \cup
                   IF extractor[w].at = "announcing" THEN {extractor[w].mem} ELSE {}
          PROVE  Named \subseteq Named' /\ Leaving \subseteq Leaving'
      <3>1. \A v \in Extractors \ {w} : extractor'[v] = extractor[v]
        BY <2>1 DEF GiveUp, GInv, TInv, EntitiesTypeOK
      <3>2. Extracted \subseteq Extracted' \cup untold'
        BY <2>1, <3>1, OneExtractor
      <3>3. UNCHANGED Paired /\ untold \subseteq untold'
        BY <2>1 DEF GiveUp, Paired
      <3>4. QED
        BY <1>0, <3>2, <3>3 DEF Named, Leaving
    <2>2. ASSUME NEW r \in Resolvers, ForgetMerge(r), untold' = untold \cup resolver[r].pair
          PROVE  Named \subseteq Named' /\ Leaving \subseteq Leaving'
      <3>1. resolver[r].pair \subseteq Names
        BY <2>2, MergeFields DEF ForgetMerge, GInv, TInv, EntitiesTypeOK, Telling
      <3>2. Paired \subseteq Paired' \cup resolver[r].pair
        BY <2>2, OneResolver DEF ForgetMerge
      <3>3. UNCHANGED Extracted
        BY <2>2 DEF ForgetMerge, Extracted
      <3>4. QED
        BY <1>0, <2>2, <3>1, <3>2, <3>3 DEF Named, Leaving
    <2>3. QED
      BY <2>1, <2>2 DEF Forgotten
  <1>3. QED
    BY <1>1, <1>2, MentionsCovered DEF rows, Linked, Projected

-----------------------------------------------------------------------------
LEMMA NextSInv == ASSUME ~Overlap, SInv, [GraphNext]_graphVars PROVE SInv'
  <1>1. GInv'
    BY NextGInv DEF SInv
  <1>2. CASE Quiet /\ Changes /\ UNCHANGED <<syncer, graph, history>>
    BY <1>1, <1>2, ChangesCovered, ChangeSInv DEF SInv, history
  <1>3. CASE Quiet /\ Unannounced /\ UNCHANGED <<pending, syncer, graph, history>>
    BY <1>1, <1>3, UnannouncedCovered, ChangeSInv DEF SInv, history
  <1>4. CASE Quiet /\ Forgotten /\ UNCHANGED <<pending, syncer, graph, stray>>
    BY <1>1, <1>4, ForgottenCovered, ChangeSInv DEF SInv
  <1>5. ASSUME NEW s \in Syncers, Sync(s) \/ SyncFails(s) PROVE SInv'
    BY <1>1, <1>5, ClaimSInv, RetrySInv, ReadSInv, PruneSInv, WriteNodesSInv, WriteEdgesSInv,
       FailsSInv DEF Sync
  <1>6. CASE UNCHANGED graphVars
    <2>1. UNCHANGED <<entityVars, pending, syncer, graph, stray, untold>>
      BY <1>6 DEF graphVars, history
    <2>2. /\ Shown' = Shown /\ Linked' = Linked /\ Gone' = Gone
          /\ Named' = Named /\ Leaving' = Leaving
      BY <2>1, AtRest
    <2>3. \A job : Expand(job)' = Expand(job)
      <3>1. UNCHANGED <<mentions, merged, graphEdges>>
        BY <2>1 DEF entityVars, rows, graph
      <3>2. QED
        BY <3>1, SameExpand
    <2>4. \A s \in Syncers : syncer[s] # Ended => Owing(syncer[s], Expand(syncer[s].job))'
      BY <2>1, <2>2, <2>3 DEF SInv, Owing, graph
    <2>5. (\A s \in Syncers : syncer[s] = Ended) => Owing(Ended, {})'
      BY <2>1, <2>2 DEF SInv, Owing, graph
    <2>6. QED
      BY <1>1, <2>1, <2>4, <2>5 DEF SInv
  <1>7. QED
    BY <1>2, <1>3, <1>4, <1>5, <1>6 DEF GraphNext

LEMMA InitSInv == GraphInit => SInv
  <1> SUFFICES ASSUME GraphInit PROVE SInv
    OBVIOUS
  <1>1. GInv
    BY InitGInv
  <1>2. Shown = {} /\ Linked = {} /\ graphNodes = {} /\ graphEdges = {}
    BY DEF GraphInit, Init, Shown, Linked, Projected
  <1>3. \A s \in Syncers : syncer[s] = Ended
    BY DEF GraphInit
  <1>4. Owing(Ended, {})
    BY <1>2 DEF Owing, Core, Reading, NoneStays, NoneLost, Ended
  <1>5. QED
    BY <1>1, <1>3, <1>4 DEF SInv

\* When all is settled only what nobody was told of is owed.
LEMMA InOrder ==
  ASSUME SInv, Settled
  PROVE  /\ \A x \in graphNodes : x \in Gone => x \in untold \cap Names
         /\ \A m \in Shown : m \in graphNodes \cup stray \cup untold
         /\ \A e \in Linked : \/ e \in graphEdges
                              \/ e[1] \in stray \cup untold
                              \/ e[2] \in stray \cup untold
         /\ \A e \in Linked : e[2] \in graphNodes \cup stray \cup untold \/ e[1] \in untold
  <1>1. \A s \in Syncers : syncer[s] = Ended
    BY DEF Settled, Running
  <1>2. Owing(Ended, {})
    BY <1>1 DEF SInv
  <1>3. Named = untold /\ Leaving = untold \cap Names
    BY DEF Settled, Named, Leaving, Extracted, Paired, Waiting
  <1>4. Unpruned(Ended) = {} /\ Asked(Ended) = {} /\ Taken(Ended, {}) = {}
    BY DEF Unpruned, Asked, Taken, Ended
  <1>5. QED
    BY <1>2, <1>3, <1>4 DEF Owing, Core, NoneStays, NoneLost

LEMMA SInvariance == ASSUME ~Overlap PROVE GraphSpec => []SInv
  <1>1. SInv /\ [GraphNext]_graphVars => SInv'
    BY NextSInv
  <1>2. QED
    BY <1>1, InitSInv, PTL DEF GraphSpec

\* WhatLeftIsGone for every corpus: once the queued syncs are done, the graph has
\* no node of a memory that was hidden or purged (deletion.py, sync.py), nor of an
\* entity that was merged away (resolution.py), but for a merge whose process died
\* before it queued its sync.
THEOREM NothingStaysThatLeft ==
  ASSUME ~Overlap
  PROVE  GraphSpec => []WhatLeftIsGone
  <1>1. SInv => WhatLeftIsGone
    <2> SUFFICES ASSUME SInv, Settled PROVE WhatLeftIsGone
      BY DEF WhatLeftIsGone
    <2>1. \A x \in graphNodes : x \in Gone => x \in untold \cap Names
      BY InOrder
    <2>2. QED
      BY <2>1, GraphAssumption DEF Gone, WhatLeftIsGone
  <1>2. QED
    BY <1>1, SInvariance, PTL

\* NothingIsMissing for every corpus: what SyncGraph prunes it writes back, so once
\* the queued syncs are done only what a failed one had pruned, and its retry did
\* not find again (graph_sync.py's _scope and _prune), or what a process died over
\* before it queued a sync, is missing.
THEOREM NothingIsLost ==
  ASSUME ~Overlap
  PROVE  GraphSpec => []NothingIsMissing
  <1>1. SInv => NothingIsMissing
    <2> SUFFICES ASSUME SInv, Settled
                 PROVE  /\ (ToldMemories \cup {e[2] : e \in ToldEdges}) \ stray
                             \subseteq graphNodes
                        /\ {e \in ToldEdges : e[1] \notin stray /\ e[2] \notin stray}
                             \subseteq graphEdges
      BY DEF NothingIsMissing
    <2>1. EdgesOf(Everything) \subseteq Linked
      BY WhatIsRead DEF EdgesIn
    <2>2. ToldMemories \subseteq Shown \ untold
      BY DEF ToldMemories, Shown
    <2>3. \A e \in ToldEdges : e \in Linked /\ e[1] \notin untold /\ e[2] \notin untold
      BY <2>1 DEF ToldEdges
    <2>4. QED
      BY <2>2, <2>3, InOrder
  <1>2. QED
    BY <1>1, SInvariance, PTL
=============================================================================
