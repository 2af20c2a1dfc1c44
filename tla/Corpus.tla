------------------------------- MODULE Corpus -------------------------------
(***************************************************************************)
(* The corpus of one source: the append-only log, the memories projected   *)
(* from it, the blob store, and everything that writes them: syncs of a    *)
(* directory (application/sync.py, ingest.py, connectors/filesystem.py),   *)
(* and hiding, restoring and purging an item (application/deletion.py).    *)
(*                                                                         *)
(* Several processes do so at once: the API, workers, the command line.     *)
(* What a statement reads is read in an action of its own, and other       *)
(* actors may step in before the transaction goes on.  So does an event:   *)
(* the flush gives it its seq, and no one sees it before the commit.  Two  *)
(* transactions may commit in the other order than they took their seqs,   *)
(* and one rolled back leaves a gap.  A commit is one action with the      *)
(* statement it follows: add_version reads the current row over again, and *)
(* the locks and unique indexes on it keep others away until then.         *)
(*                                                                         *)
(* A memory's id is the sequence number of the event it was made from.     *)
(***************************************************************************)
EXTENDS Integers, FiniteSets, Sequences

CONSTANTS
  Items,       \* external keys
  Hashes,      \* contents a file may have
  Gone,        \* no file at this key
  Actors,      \* processes: workers, API requests, the command line
  Ops,         \* the operations the instance exercises
  MaxEvents,   \* bound: the length of the log
  MaxEdits     \* bound: how often one file is written

ASSUME BoundsAssumption ==
  /\ Gone \notin Hashes
  /\ Ops \subseteq {"full", "incremental", "hide", "restore", "purge"}
  /\ MaxEvents \in Nat
  /\ MaxEdits \in Nat

VARIABLES
  log,         \* ingestion_events, by seq, and the seqs that are gaps
  rows,        \* memories
  artifacts,   \* raw_artifacts
  blobs,       \* what the blob store holds
  disk,        \* the files: content, and a fingerprint new with every write
  cursor,      \* sources.cursor[seen]: fingerprint per key, 0 for none
  op,          \* what each actor is in the middle of
  raced        \* history: keys a write has landed on out of its turn

corpus == <<log, rows, artifacts>>
vars == <<corpus, blobs, disk, cursor, op, raced>>

Seqs == 1..MaxEvents

\* A gap is a seq that was given out and that no committed event has.
Events == [seq : Seqs, type : {"observed", "deleted", "purged", "gap"},
           key : Items \cup {Gone}, hash : Hashes \cup {Gone}]

\* `deleted` is the seq of the event deleted_at was stamped from, 0 for NULL.
Rows == [id : Seqs, key : Items, version : Nat \ {0}, hash : Hashes,
         current : BOOLEAN, deleted : 0..MaxEvents]

NoFile == [hash |-> Gone, fp |-> 0]
Files == [hash : Hashes \cup {Gone}, fp : 0..MaxEdits]

\* What an operation keeps in its local variables between two statements: `seq`
\* is the event its open transaction has flushed, 0 for none, and an item that is
\* `changed` is to be recorded.
Idle == [at |-> "idle"]
Observed == [key : Items, hash : Hashes, changed : BOOLEAN]
Walking == [at : {"walk"}, seq : 0..MaxEvents, full : BOOLEAN,
            todo : SUBSET Items, seen : SUBSET Items,
            listing : [Items -> 0..MaxEdits], cursor : [Items -> 0..MaxEdits],
            item : Observed \cup {Gone}]
Sweeping == [at : {"sweep"}, seq : 0..MaxEvents, known : SUBSET Rows,
             seen : SUBSET Items, cursor : [Items -> 0..MaxEdits]]
Hiding == [at : {"hide"}, seq : 0..MaxEvents, target : Rows]
Restoring == [at : {"restore"}, seq : 0..MaxEvents, item : Observed]
Purging == [at : {"purge"}, seq : 0..MaxEvents, key : Items,
            targets : SUBSET Rows]
Shredding == [at : {"shred"}, todo : SUBSET Hashes,
              doomed : Hashes \cup {Gone}]
Operations == {Idle} \cup Walking \cup Sweeping \cup Hiding \cup Restoring
                \cup Purging \cup Shredding

TypeOK ==
  /\ log \in Seq(Events)
  /\ rows \in SUBSET Rows
  /\ artifacts \in SUBSET Hashes
  /\ blobs \in SUBSET Hashes
  /\ disk \in [Items -> Files]
  /\ cursor \in [Items -> 0..MaxEdits]
  /\ op \in [Actors -> Operations]
  /\ raced \in SUBSET Items

Init ==
  /\ log = <<>>
  /\ rows = {}
  /\ artifacts = {}
  /\ blobs = {}
  /\ disk = [k \in Items |-> NoFile]
  /\ cursor = [k \in Items |-> 0]
  /\ op = [a \in Actors |-> Idle]
  /\ raced = {}

-----------------------------------------------------------------------------
(* The projection: what one event makes of the rows *)

VersionsOf(k, rs) == {r \in rs : r.key = k}
CurrentOf(k, rs) == {r \in rs : r.key = k /\ r.current}

\* Mutant: the version it replaces keeps is_current.
AddBeside(k, h, seq, rs) ==
  rs \cup {[id |-> seq, key |-> k, version |-> 1 + Cardinality(VersionsOf(k, rs)),
            hash |-> h, current |-> TRUE, deleted |-> 0]}

\* memory_from_event and add_version: the current version steps down, and the
\* next one is numbered after it.
AddVersion(k, h, seq, rs) ==
  LET old == CurrentOf(k, rs)
      next == IF old = {} THEN 1 ELSE 1 + (CHOOSE r \in old : TRUE).version
  IN  (rs \ old) \cup {[r EXCEPT !.current = FALSE] : r \in old}
        \cup {[id |-> seq, key |-> k, version |-> next, hash |-> h,
               current |-> TRUE, deleted |-> 0]}

\* The update of deleted_at: by id, whatever has become of the row.
Tombstone(id, seq, rs) ==
  {IF r.id = id THEN [r EXCEPT !.deleted = seq] ELSE r : r \in rs}

\* One event, replayed: an observation adds a version, and a deletion stamps the
\* version that is current by then.
ReplayEvent(rs, e) ==
  CASE e.type = "observed" -> AddVersion(e.key, e.hash, e.seq, rs)
    [] e.type = "deleted" ->
         UNION {Tombstone(r.id, e.seq, rs) : r \in CurrentOf(e.key, rs)}
    [] OTHER -> rs

\* The events of one item, replayed one after the other ...
Replayed(k, events) ==
  LET after[n \in 0..Len(events)] ==
        IF n = 0 THEN {}
        ELSE IF events[n].key = k THEN ReplayEvent(after[n - 1], events[n])
        ELSE after[n - 1]
  IN  after[Len(events)]

EventsOf(k, type) == {i \in DOMAIN log : log[i].key = k /\ log[i].type = type}

\* ... but for an item with a purge anywhere in the log, which is skipped from the
\* first event on.
Rebuild(k) ==
  IF EventsOf(k, "purged") # {} THEN {}
  ELSE Replayed(k, log)

-----------------------------------------------------------------------------
(* Writing *)

Become(a, state) == op' = [op EXCEPT ![a] = state]

\* The seq the actor's open transaction has taken, and the item it records.
SeqOf(a) ==
  IF op[a].at \in {"walk", "sweep", "hide", "restore", "purge"}
  THEN op[a].seq ELSE 0
ItemOf(a) == IF op[a].at \in {"walk", "restore"} THEN op[a].item ELSE Gone

HasEventToWrite(a) ==
  \/ op[a].at \in {"walk", "restore"} /\ op[a].item # Gone /\ op[a].item.changed
  \/ op[a].at = "sweep" /\ op[a].known # {}
  \/ op[a].at \in {"hide", "purge"}

\* EventLog.append: the flush, which takes the next seq.
Append1(a) ==
  /\ HasEventToWrite(a) /\ SeqOf(a) = 0
  /\ Len(log) < MaxEvents
  /\ log' = Append(log, [seq |-> Len(log) + 1, type |-> "gap", key |-> Gone,
                         hash |-> Gone])
  /\ Become(a, [op[a] EXCEPT !.seq = Len(log) + 1])
  /\ UNCHANGED <<rows, artifacts, blobs, disk, cursor, raced>>

\* The commit, after which the event is there for everyone.
Commit(n, type, k, h) ==
  log' = [log EXCEPT ![n] = [seq |-> n, type |-> type, key |-> k, hash |-> h]]

\* A later event of the item was committed first.
Overtaken(k, n) ==
  \E i \in DOMAIN log : n < i /\ log[i].type # "gap" /\ log[i].key = k

\* ingest_item asks whether the content is current already; its artifact row is
\* only written when there is none, and another's insert of it waits for that.
IsCurrent(k, h) ==
  /\ h \in artifacts
  /\ \E r \in CurrentOf(k, rows) : r.hash = h /\ r.deleted = 0

Inserting(h) ==
  \E b \in Actors : ItemOf(b) # Gone /\ ItemOf(b).changed /\ ItemOf(b).hash = h

\* The actor is done with its item: a sync notes the fingerprint of the walk.
Recorded(a) ==
  IF op[a].at = "restore" THEN Idle
  ELSE [op[a] EXCEPT !.seq = 0, !.item = Gone,
                     !.cursor[op[a].item.key] = op[a].listing[op[a].item.key]]

\* Nothing to record: a sync counts the item, a restore raises.
IngestUnchanged(a) ==
  /\ ItemOf(a) # Gone /\ ~ItemOf(a).changed
  /\ IsCurrent(ItemOf(a).key, ItemOf(a).hash)
  /\ Become(a, Recorded(a))
  /\ UNCHANGED <<corpus, blobs, disk, cursor, raced>>

\* Something to record.  Bytes before the row that promises them; content the
\* artifact table knows is taken to be in the blob store.
IngestChanged(a) ==
  /\ ItemOf(a) # Gone /\ ~ItemOf(a).changed
  /\ ~IsCurrent(ItemOf(a).key, ItemOf(a).hash)
  /\ LET h == ItemOf(a).hash
     IN /\ h \in artifacts \/ ~Inserting(h)
        /\ blobs' = IF h \in artifacts THEN blobs ELSE blobs \cup {h}
  /\ Become(a, [op[a] EXCEPT !.item.changed = TRUE])
  /\ UNCHANGED <<corpus, disk, cursor, raced>>

\* The version, on top of whichever is current by now.
Ingest(a) ==
  /\ ItemOf(a) # Gone /\ SeqOf(a) # 0
  /\ LET k == ItemOf(a).key
         h == ItemOf(a).hash
         n == SeqOf(a)
     IN /\ Commit(n, "observed", k, h)
        /\ rows' = AddVersion(k, h, n, rows)
        /\ artifacts' = artifacts \cup {h}
        /\ raced' = IF Overtaken(k, n) THEN raced \cup {k} ELSE raced
  /\ Become(a, Recorded(a))
  /\ UNCHANGED <<blobs, disk, cursor>>

\* Mutant: deleted_at is read off the clock, which is past the event's time.
DeleteRowByClock(target, n) ==
  /\ Commit(n, "deleted", target.key, Gone)
  /\ rows' = Tombstone(target.id, n + 1, rows)
  /\ raced' = IF Overtaken(target.key, n) THEN raced \cup {target.key} ELSE raced
  /\ UNCHANGED <<artifacts, blobs>>

\* An ITEM_DELETED for the row an earlier read found.
DeleteRow(target, n) ==
  /\ Commit(n, "deleted", target.key, Gone)
  /\ rows' = Tombstone(target.id, n, rows)
  /\ raced' = IF \/ Overtaken(target.key, n)
                 \/ \E r \in rows : r.id = target.id /\ ~r.current
              THEN raced \cup {target.key} ELSE raced
  /\ UNCHANGED <<artifacts, blobs>>

-----------------------------------------------------------------------------
(* The directory *)

WriteFile(k, h) ==
  /\ disk[k].fp < MaxEdits
  /\ disk' = [disk EXCEPT ![k] = [hash |-> h, fp |-> @.fp + 1]]
  /\ UNCHANGED <<corpus, blobs, cursor, op, raced>>

RemoveFile(k) ==
  /\ disk[k].hash # Gone
  /\ disk' = [disk EXCEPT ![k].hash = Gone]
  /\ UNCHANGED <<corpus, blobs, cursor, op, raced>>

-----------------------------------------------------------------------------
(* A sync *)

\* The source row is loaded, cursor and all, and the tree is walked; an
\* incremental sync leaves out what the cursor knows.
StartSync(a, full) ==
  /\ (IF full THEN "full" ELSE "incremental") \in Ops
  /\ op[a] = Idle
  /\ Become(a, [at |-> "walk", seq |-> 0, full |-> full,
                todo |-> {k \in Items : /\ disk[k].hash # Gone
                                        /\ full \/ cursor[k] # disk[k].fp},
                seen |-> {},
                listing |-> [k \in Items |-> disk[k].fp],
                cursor |-> cursor,
                item |-> Gone])
  /\ UNCHANGED <<corpus, blobs, disk, cursor, raced>>

\* The connector hashes a file on its way into the blob store.
Observe(a, k) ==
  /\ op[a].at = "walk" /\ op[a].item = Gone
  /\ k \in op[a].todo
  /\ disk[k].hash # Gone
  /\ blobs' = blobs \cup {disk[k].hash}
  /\ Become(a, [op[a] EXCEPT !.todo = @ \ {k}, !.seen = @ \cup {k},
                             !.item = [key |-> k, hash |-> disk[k].hash,
                                      changed |-> FALSE]])
  /\ UNCHANGED <<corpus, disk, cursor, raced>>

\* OSError: the file has gone since the walk, or cannot be read.
Unreadable(a, k) ==
  /\ op[a].at = "walk" /\ op[a].item = Gone
  /\ k \in op[a].todo
  /\ Become(a, [op[a] EXCEPT !.todo = @ \ {k}])
  /\ UNCHANGED <<corpus, blobs, disk, cursor, raced>>

\* Mutant: the fingerprint goes into the cursor before the item is recorded.
ItemFailsAfterCursor(a) ==
  /\ op[a].at = "walk" /\ op[a].item # Gone
  /\ LET k == op[a].item.key
     IN Become(a, [op[a] EXCEPT !.seq = 0, !.item = Gone,
                                !.cursor[k] = op[a].listing[k]])
  /\ UNCHANGED <<corpus, blobs, disk, cursor, raced>>

\* The item's transaction is rolled back; the walk goes on without it.
ItemFails(a) ==
  /\ op[a].at = "walk" /\ op[a].item # Gone
  /\ Become(a, [op[a] EXCEPT !.seq = 0, !.item = Gone])
  /\ UNCHANGED <<corpus, blobs, disk, cursor, raced>>

\* A full sync compares what it saw with what is there, once.
StartSweep(a) ==
  /\ op[a].at = "walk" /\ op[a].item = Gone /\ op[a].todo = {}
  /\ op[a].full
  /\ Become(a, [at |-> "sweep", seq |-> 0, seen |-> op[a].seen,
                cursor |-> op[a].cursor,
                known |-> {r \in rows : /\ r.current /\ r.deleted = 0
                                        /\ r.key \notin op[a].seen}])
  /\ UNCHANGED <<corpus, blobs, disk, cursor, raced>>

\* One missing item, one transaction, and the id from that comparison.
SweepItem(a) ==
  /\ op[a].at = "sweep" /\ op[a].seq # 0
  /\ \E r \in op[a].known :
       /\ DeleteRow(r, op[a].seq)
       /\ Become(a, [op[a] EXCEPT !.seq = 0, !.known = @ \ {r}])
  /\ UNCHANGED <<disk, cursor>>

\* _finish writes the whole cursor, over whatever another sync has written.
FinishSync(a) ==
  /\ \/ /\ op[a].at = "walk" /\ op[a].item = Gone /\ op[a].todo = {}
        /\ ~op[a].full
        /\ cursor' = op[a].cursor
     \/ /\ op[a].at = "sweep" /\ op[a].known = {}
        /\ cursor' = [k \in Items |->
                        IF k \in op[a].seen THEN op[a].cursor[k] ELSE 0]
  /\ Become(a, Idle)
  /\ UNCHANGED <<corpus, blobs, disk, raced>>

-----------------------------------------------------------------------------
(* Hide, restore, purge *)

\* tombstone() finds the current version ...
StartHide(a, k) ==
  /\ "hide" \in Ops
  /\ op[a] = Idle
  /\ \E r \in CurrentOf(k, rows) :
       /\ r.deleted = 0
       /\ Become(a, [at |-> "hide", seq |-> 0, target |-> r])
  /\ UNCHANGED <<corpus, blobs, disk, cursor, raced>>

\* ... and stamps that one.
FinishHide(a) ==
  /\ op[a].at = "hide" /\ op[a].seq # 0
  /\ DeleteRow(op[a].target, op[a].seq)
  /\ Become(a, Idle)
  /\ UNCHANGED <<disk, cursor>>

\* restore() finds the version that is hidden, and its bytes, and observes them
\* once more.
StartRestore(a, k) ==
  /\ "restore" \in Ops
  /\ op[a] = Idle
  /\ \E r \in CurrentOf(k, rows) :
       /\ r.deleted # 0
       /\ r.hash \in blobs
       /\ Become(a, [at |-> "restore", seq |-> 0,
                     item |-> [key |-> k, hash |-> r.hash, changed |-> FALSE]])
  /\ UNCHANGED <<corpus, blobs, disk, cursor, raced>>

\* _purge_one collects the versions there are ...
StartPurge(a, k) ==
  /\ "purge" \in Ops
  /\ op[a] = Idle
  /\ VersionsOf(k, rows) # {}
  /\ Become(a, [at |-> "purge", seq |-> 0, key |-> k,
                targets |-> VersionsOf(k, rows)])
  /\ UNCHANGED <<corpus, blobs, disk, cursor, raced>>

\* Mutant: the purge is carried out but leaves no event behind.
PurgeRowsUnlogged(a) ==
  /\ op[a].at = "purge" /\ op[a].seq # 0
  /\ LET ids == {r.id : r \in op[a].targets}
     IN rows' = {r \in rows : r.id \notin ids}
  /\ Become(a, [at |-> "shred", todo |-> {r.hash : r \in op[a].targets},
                doomed |-> Gone])
  /\ UNCHANGED <<log, artifacts, blobs, disk, cursor, raced>>

\* ... and deletes those.
PurgeRows(a) ==
  /\ op[a].at = "purge" /\ op[a].seq # 0
  /\ LET k == op[a].key
         ids == {r.id : r \in op[a].targets}
     IN /\ Commit(op[a].seq, "purged", k, Gone)
        /\ rows' = {r \in rows : r.id \notin ids}
        /\ raced' = IF VersionsOf(k, rows') # {} THEN raced \cup {k} ELSE raced
        /\ Become(a, [at |-> "shred", todo |-> {r.hash : r \in op[a].targets},
                      doomed |-> Gone])
  /\ UNCHANGED <<artifacts, blobs, disk, cursor>>

\* Mutant: the bytes go without asking who else refers to them.
ShredUnasked(a, h) ==
  /\ op[a].at = "shred" /\ op[a].doomed = Gone
  /\ h \in op[a].todo
  /\ Become(a, [op[a] EXCEPT !.todo = @ \ {h}, !.doomed = h])
  /\ UNCHANGED <<corpus, blobs, disk, cursor, raced>>

\* _still_referenced, asked of the corpus for one hash ...
ShredCheck(a, h) ==
  /\ op[a].at = "shred" /\ op[a].doomed = Gone
  /\ h \in op[a].todo
  /\ Become(a, [op[a] EXCEPT
                  !.todo = @ \ {h},
                  !.doomed = IF \E r \in rows : r.hash = h THEN Gone ELSE h])
  /\ UNCHANGED <<corpus, blobs, disk, cursor, raced>>

\* ... before its file is unlinked.
ShredDelete(a) ==
  /\ op[a].at = "shred" /\ op[a].doomed # Gone
  /\ blobs' = blobs \ {op[a].doomed}
  /\ Become(a, [op[a] EXCEPT !.doomed = Gone])
  /\ UNCHANGED <<corpus, disk, cursor, raced>>

FinishPurge(a) ==
  /\ op[a].at = "shred" /\ op[a].doomed = Gone /\ op[a].todo = {}
  /\ Become(a, Idle)
  /\ UNCHANGED <<corpus, blobs, disk, cursor, raced>>

\* The process dies, or the operation raises; an open transaction is rolled back.
Crash(a) ==
  /\ op[a] # Idle
  /\ Become(a, Idle)
  /\ UNCHANGED <<corpus, blobs, disk, cursor, raced>>

-----------------------------------------------------------------------------

Next ==
  \/ \E k \in Items, h \in Hashes : WriteFile(k, h)
  \/ \E k \in Items : RemoveFile(k)
  \/ \E a \in Actors :
       \/ \E full \in BOOLEAN : StartSync(a, full)
       \/ \E k \in Items : Observe(a, k) \/ Unreadable(a, k)
       \/ Append1(a)
       \/ IngestUnchanged(a) \/ IngestChanged(a) \/ Ingest(a)
       \/ ItemFails(a)
       \/ StartSweep(a) \/ SweepItem(a) \/ FinishSync(a)
       \/ \E k \in Items :
            StartHide(a, k) \/ StartRestore(a, k) \/ StartPurge(a, k)
       \/ FinishHide(a)
       \/ PurgeRows(a)
       \/ \E h \in Hashes : ShredCheck(a, h)
       \/ ShredDelete(a) \/ FinishPurge(a)
       \/ Crash(a)

Spec == Init /\ [][Next]_vars

-----------------------------------------------------------------------------
(* Properties *)

\* An item with any version has exactly one current one, and it is the one
\* numbered last, also when versions are added, hidden and purged at the same
\* time (repositories.py add_version, and the partial unique index it is written
\* around).
NewestIsCurrent ==
  \A r \in rows :
    /\ Cardinality(CurrentOf(r.key, rows)) = 1
    /\ \A c \in CurrentOf(r.key, rows) : r.version <= c.version

\* Every tombstone is stamped from a deletion in the log that came after the
\* version it hides, and of the same item (repositories.py tombstone).
TombstonesAreLogged ==
  \A r \in rows :
    r.deleted # 0 =>
      /\ r.deleted \in DOMAIN log /\ r.id < r.deleted
      /\ log[r.deleted].type = "deleted" /\ log[r.deleted].key = r.key

\* An item on which no write has landed out of its turn (a stamp on a version
\* that was no longer current, a purge that missed one, a commit that a later
\* event had overtaken), and that was not observed again after a purge.
Quiet(k) ==
  /\ k \notin raced
  /\ \A i \in EventsOf(k, "purged"), j \in EventsOf(k, "observed") : j < i

\* The corpus is a projection of the log: for every quiet item, replaying the
\* log yields the very rows that are there (replay.py, deletion.py).
ReplayAgrees == \A k \in Items : Quiet(k) => VersionsOf(k, rows) = Rebuild(k)

\* A file the next incremental sync will skip has been observed with the
\* content it has: the cursor never runs ahead of the log, whatever failed in
\* between and whichever of two syncs wrote it (sync.py __call__, where the
\* fingerprint follows the item, and filesystem.py, where it is older than the
\* bytes).
Skipped(k) == disk[k].hash # Gone /\ cursor[k] = disk[k].fp

CursorIsHonest ==
  \A k \in Items :
    Skipped(k) => \E i \in EventsOf(k, "observed") : log[i].hash = disk[k].hash

\* Bytes no sync will fetch again are there for every version that refers to
\* them: for normalization, for a restore, for a replay (ingest.py, "bytes
\* before the row that promises them"; deletion.py, "only when no surviving
\* memory or attachment still references those bytes").
EveryVersionHasItsBytes == \A r \in rows : r.hash \in blobs

\* What the next incremental sync will skip it may skip: when no operation is
\* under way, the item's current version has the content of the file
\* (filesystem.py observe, "unchanged by the cheap filter, so not worth
\* reading").
SkippedIsUnchanged ==
  (\A a \in Actors : op[a] = Idle) =>
    \A k \in Items :
      Skipped(k) => \A r \in CurrentOf(k, rows) : r.hash = disk[k].hash

\* Log and blobs are the whole truth: replaying the log yields the very rows
\* that are there, whatever has happened (replay.py, opening paragraph).
LogIsTheWholeTruth == \A k \in Items : VersionsOf(k, rows) = Rebuild(k)

=============================================================================
