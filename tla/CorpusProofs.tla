---------------------------- MODULE CorpusProofs ----------------------------
(***************************************************************************)
(* The safety of Corpus for any number of items, contents, processes and   *)
(* events.                                                                 *)
(***************************************************************************)
EXTENDS Corpus, FiniteSetTheorems, TLAPS

\* The log numbers its events.
Numbered ==
  /\ Len(log) <= MaxEvents
  /\ \A i \in DOMAIN log : log[i].seq = i

\* A row, of now or of some time ago, was made from the event it names.
Logged(r) ==
  /\ r.id \in DOMAIN log
  /\ log[r.id].type = "observed"
  /\ log[r.id].key = r.key
  /\ log[r.id].hash = r.hash

RowsAreLogged == \A r \in rows : Logged(r)

RowsAreDistinct == \A r, s \in rows : r.id = s.id => r = s

\* Among the versions of an item the last one, and no other, is current.
HeadIsNewest ==
  \A r \in rows : \E c \in rows :
    CurrentOf(r.key, rows) = {c} /\ r.version <= c.version

\* Only a purge takes rows away.
ObservedIsThere ==
  \A i \in DOMAIN log :
    log[i].type = "observed" =>
      (\E r \in rows : r.id = i) \/ EventsOf(log[i].key, "purged") # {}

\* The rows an operation has read and will write to.
TargetsOf(o) == CASE o.at = "hide" -> {o.target}
                  [] o.at = "sweep" -> o.known
                  [] o.at = "purge" -> o.targets
                  [] OTHER -> {}

TargetsAreLogged == \A a \in Actors : \A r \in TargetsOf(op[a]) : Logged(r)

\* What a purge has not seen of its item is numbered after what is left of what it
\* has seen.
Seen(ts, r) == \E t \in ts : t.id = r.id

PurgesTheOlder ==
  \A a \in Actors : op[a].at = "purge" =>
    /\ \A t \in op[a].targets : t.key = op[a].key
    /\ \A q, r \in VersionsOf(op[a].key, rows) :
         Seen(op[a].targets, q) /\ ~Seen(op[a].targets, r) => q.version < r.version

\* The seq of an open transaction is still a gap, is its own, and came after what
\* the transaction will write to.
SeqIn(o) ==
  IF o.at \in {"walk", "sweep", "hide", "restore", "purge"} THEN o.seq ELSE 0

SeqsAreHeld ==
  \A a \in Actors : SeqIn(op[a]) # 0 =>
    /\ SeqIn(op[a]) \in DOMAIN log /\ log[SeqIn(op[a])].type = "gap"
    /\ \A t \in TargetsOf(op[a]) : t.id < SeqIn(op[a])
    /\ \A b \in Actors : SeqIn(op[b]) = SeqIn(op[a]) => b = a

RowsInv ==
  /\ log \in Seq(Events)
  /\ rows \in SUBSET Rows
  /\ Numbered
  /\ RowsAreLogged
  /\ RowsAreDistinct
  /\ HeadIsNewest
  /\ ObservedIsThere
  /\ TombstonesAreLogged

LogInv ==
  /\ TypeOK
  /\ RowsInv
  /\ TargetsAreLogged
  /\ PurgesTheOlder
  /\ SeqsAreHeld

\* A cursor is no newer than the files, and where it is as new, the content has been observed.
Honest(c) ==
  \A k \in Items :
    /\ c[k] <= disk[k].fp
    /\ disk[k].hash # Gone /\ c[k] = disk[k].fp =>
         \E i \in EventsOf(k, "observed") : log[i].hash = disk[k].hash

CursorsAreHonest ==
  /\ \A k \in Items : disk[k].hash # Gone => disk[k].fp > 0
  /\ Honest(cursor)
  /\ \A a \in Actors : op[a].at \in {"walk", "sweep"} => Honest(op[a].cursor)

\* What a walk has listed is no newer than the files, and the bytes it has just read are those of
\* a file that is still as it was listed.
ListingsAreOld ==
  \A a \in Actors : op[a].at = "walk" =>
    /\ \A k \in Items : op[a].listing[k] <= disk[k].fp
    /\ LET i == op[a].item
       IN  i # Gone /\ disk[i.key].hash # Gone /\ op[a].listing[i.key] = disk[i.key].fp
             => i.hash = disk[i.key].hash

FilesInv == CursorsAreHonest /\ ListingsAreOld

BytesInHand ==
  /\ \A r \in rows : r.hash \in blobs
  /\ \A a \in Actors :
       /\ op[a].at \in {"walk", "restore"} /\ op[a].item # Gone => op[a].item.hash \in blobs
       /\ op[a].at = "shred" /\ op[a].doomed # Gone => \A r \in rows : r.hash # op[a].doomed

Unchanged(c) ==
  \A k \in Items :
    disk[k].hash # Gone /\ c[k] = disk[k].fp =>
      \A r \in CurrentOf(k, rows) : r.hash = disk[k].hash

CursorsAreCurrent ==
  /\ Unchanged(cursor)
  /\ \A a \in Actors :
       /\ op[a].at \in {"walk", "sweep"} => Unchanged(op[a].cursor)
       /\ op[a].at = "walk" =>
            \A k \in Items : cursor[k] <= op[a].listing[k] /\ op[a].cursor[k] <= op[a].listing[k]
       /\ op[a].at = "restore" =>
            \E q \in CurrentOf(op[a].item.key, rows) : q.hash = op[a].item.hash
-----------------------------------------------------------------------------
(* What is done to rows changes some of their fields and keeps the others. *)

\* The current version of k steps down.
Stepped(r, k) == IF r.key = k THEN [r EXCEPT !.current = FALSE] ELSE r
Stamped(r, id, seq) == IF r.id = id THEN [r EXCEPT !.deleted = seq] ELSE r

NextVersion(k, rs) ==
  LET old == CurrentOf(k, rs)
  IN  IF old = {} THEN 1 ELSE 1 + (CHOOSE r \in old : TRUE).version

Newest(k, h, seq, rs) ==
  [id |-> seq, key |-> k, version |-> NextVersion(k, rs), hash |-> h,
   current |-> TRUE, deleted |-> 0]

LEMMA SteppedRow ==
  ASSUME NEW r \in Rows, NEW k
  PROVE  /\ Stepped(r, k) \in Rows
         /\ Stepped(r, k).id = r.id /\ Stepped(r, k).key = r.key
         /\ Stepped(r, k).version = r.version /\ Stepped(r, k).hash = r.hash
         /\ Stepped(r, k).deleted = r.deleted
         /\ Stepped(r, k).current <=> (r.current /\ r.key # k)
  <1>1. CASE r.key = k
    BY <1>1 DEF Stepped, Rows
  <1>2. CASE r.key # k
    BY <1>2 DEF Stepped, Rows
  <1>3. QED
    BY <1>1, <1>2

LEMMA StampedRow ==
  ASSUME NEW r \in Rows, NEW id, NEW seq \in Seqs
  PROVE  /\ Stamped(r, id, seq) \in Rows
         /\ Stamped(r, id, seq).id = r.id /\ Stamped(r, id, seq).key = r.key
         /\ Stamped(r, id, seq).version = r.version /\ Stamped(r, id, seq).hash = r.hash
         /\ Stamped(r, id, seq).deleted = (IF r.id = id THEN seq ELSE r.deleted)
         /\ Stamped(r, id, seq).current = r.current
  <1>1. CASE r.id = id
    BY <1>1, BoundsAssumption DEF Stamped, Rows, Seqs
  <1>2. CASE r.id # id
    BY <1>2 DEF Stamped, Rows
  <1>3. QED
    BY <1>1, <1>2

\* A version that is added is one row more; the others step down or stay.
LEMMA AddedRows ==
  ASSUME NEW rs \in SUBSET Rows, NEW k, NEW h, NEW seq
  PROVE  AddVersion(k, h, seq, rs) =
           {Stepped(r, k) : r \in rs} \cup {Newest(k, h, seq, rs)}
  <1>1. ASSUME NEW r \in rs, r \notin CurrentOf(k, rs)
        PROVE  Stepped(r, k) = r
    <2>1. CASE r.key = k
      <3>1. r.current = FALSE
        BY <1>1, <2>1 DEF CurrentOf, Rows
      <3>2. QED
        BY <2>1, <3>1 DEF Stepped, Rows
    <2>2. CASE r.key # k
      BY <2>2 DEF Stepped
    <2>3. QED
      BY <2>1, <2>2
  <1>2. ASSUME NEW r \in CurrentOf(k, rs)
        PROVE  r \in rs /\ Stepped(r, k) = [r EXCEPT !.current = FALSE]
    BY <1>2 DEF CurrentOf, Stepped
  <1>3. (rs \ CurrentOf(k, rs)) \cup {[r EXCEPT !.current = FALSE] : r \in CurrentOf(k, rs)}
          = {Stepped(r, k) : r \in rs}
    BY <1>1, <1>2
  <1>4. AddVersion(k, h, seq, rs) =
          (rs \ CurrentOf(k, rs)) \cup {[r EXCEPT !.current = FALSE] : r \in CurrentOf(k, rs)}
            \cup {Newest(k, h, seq, rs)}
    BY DEF AddVersion, Newest, NextVersion
  <1>5. QED
    BY <1>3, <1>4

LEMMA StampedRows ==
  ASSUME NEW rs, NEW id, NEW seq
  PROVE  Tombstone(id, seq, rs) = {Stamped(r, id, seq) : r \in rs}
  BY DEF Tombstone, Stamped

\* What the steps of Next do to the log and the rows.
Event(n, type, k, h) == [seq |-> n, type |-> type, key |-> k, hash |-> h]

Rests == UNCHANGED <<log, rows, raced>>

Takes ==
  /\ Len(log) < MaxEvents
  /\ log' = Append(log, Event(Len(log) + 1, "gap", Gone, Gone))
  /\ rows' = rows /\ raced' = raced

Adds(k, h, n) ==
  /\ log' = [log EXCEPT ![n] = Event(n, "observed", k, h)]
  /\ rows' = AddVersion(k, h, n, rows)
  /\ raced' = IF Overtaken(k, n) THEN raced \cup {k} ELSE raced

Stamps(t, n) ==
  /\ log' = [log EXCEPT ![n] = Event(n, "deleted", t.key, Gone)]
  /\ rows' = Tombstone(t.id, n, rows)
  /\ raced' = IF Overtaken(t.key, n) \/ \E r \in rows : r.id = t.id /\ ~r.current
              THEN raced \cup {t.key} ELSE raced

Removes(k, ts, n) ==
  /\ log' = [log EXCEPT ![n] = Event(n, "purged", k, Gone)]
  /\ rows' = {r \in rows : r.id \notin {t.id : t \in ts}}
  /\ raced' = IF VersionsOf(k, rows') # {} THEN raced \cup {k} ELSE raced

\* A transaction that commits gives up its seq, and it alone moves.
Closes(a) ==
  /\ SeqIn(op[a]) # 0
  /\ SeqIn(op'[a]) = 0
  /\ \A b \in Actors \ {a} : op'[b] = op[b]

-----------------------------------------------------------------------------
(* The steps *)

\* What an operation holds, by the place it is at.
LEMMA Fields ==
  ASSUME NEW o \in Operations
  PROVE  /\ o.at \in {"idle", "walk", "sweep", "hide", "restore", "purge", "shred"}
         /\ o.at = "idle" => o = Idle
         /\ o.at = "walk" => o \in Walking
         /\ o.at = "sweep" => o \in Sweeping
         /\ o.at = "hide" => o \in Hiding
         /\ o.at = "restore" => o \in Restoring
         /\ o.at = "purge" => o \in Purging
         /\ o.at = "shred" => o \in Shredding
  BY DEF Operations, Idle, Walking, Sweeping, Hiding, Restoring, Purging, Shredding

LEMMA TargetsAreRows ==
  ASSUME NEW o \in Operations
  PROVE  TargetsOf(o) \in SUBSET Rows
  BY Fields DEF TargetsOf, Sweeping, Hiding, Purging

LEMMA SeqsAreIn ==
  ASSUME NEW a
  PROVE  SeqOf(a) = SeqIn(op[a])
  BY DEF SeqOf, SeqIn

\* The item an operation is at, and what is left of the operation after it.
LEMMA ItemsAreObserved ==
  ASSUME TypeOK, NEW a \in Actors, ItemOf(a) # Gone
  PROVE  /\ op[a].at \in {"walk", "restore"}
         /\ ItemOf(a) = op[a].item /\ op[a].item \in Observed
         /\ op[a].at = "walk" => op[a] \in Walking
         /\ op[a].at = "restore" => op[a] \in Restoring
  <1>1. op[a].at \in {"walk", "restore"} /\ ItemOf(a) = op[a].item
    BY DEF ItemOf
  <1>2. CASE op[a].at = "walk"
    BY <1>1, <1>2, Fields DEF TypeOK, Walking
  <1>3. CASE op[a].at = "restore"
    BY <1>1, <1>3, Fields DEF TypeOK, Restoring
  <1>4. QED
    BY <1>1, <1>2, <1>3

LEMMA RecordedLeft ==
  ASSUME TypeOK, NEW a \in Actors, ItemOf(a) # Gone
  PROVE  /\ op[a].at = "restore" => Recorded(a) = Idle
         /\ op[a].at = "walk" =>
              /\ Recorded(a) \in Walking
              /\ Recorded(a).at = "walk"
              /\ Recorded(a).seq = 0
              /\ Recorded(a).item = Gone
              /\ Recorded(a).listing = op[a].listing
              /\ Recorded(a).cursor =
                   [op[a].cursor EXCEPT ![op[a].item.key] = op[a].listing[op[a].item.key]]
         /\ SeqIn(Recorded(a)) = 0
  <1>1. CASE op[a].at = "restore"
    BY <1>1 DEF Recorded, SeqIn, Idle
  <1>2. CASE op[a].at = "walk"
    <2>1. op[a] \in Walking /\ op[a].item.key \in Items
      BY <1>2, ItemsAreObserved DEF Observed
    <2>2. PICK k, n : k = op[a].item.key /\ n = op[a].listing[k] /\ n \in 0..MaxEdits
      BY <2>1 DEF Walking
    <2>3. PICK c : c = [op[a].cursor EXCEPT ![k] = n]
      OBVIOUS
    <2>4. c \in [Items -> 0..MaxEdits]
      BY <2>1, <2>2, <2>3 DEF Walking
    <2>5. Recorded(a) = [op[a] EXCEPT !.seq = 0, !.item = Gone, !.cursor = c]
      BY <1>2, <2>1, <2>2, <2>3 DEF Recorded, Walking
    <2>6. PICK o : o = [op[a] EXCEPT !.seq = 0, !.item = Gone, !.cursor = c]
      OBVIOUS
    <2>7. /\ o \in Walking /\ o.at = "walk" /\ o.seq = 0 /\ o.item = Gone
          /\ o.listing = op[a].listing /\ o.cursor = c
      <3>1. 0 \in 0..MaxEvents /\ Gone \in Observed \cup {Gone}
        BY BoundsAssumption
      <3>2. QED
        BY <2>1, <2>4, <2>6, <3>1 DEF Walking
    <2>8. QED
      BY <1>2, <2>2, <2>3, <2>5, <2>6, <2>7 DEF SeqIn
  <1>3. QED
    BY <1>1, <1>2, ItemsAreObserved

\* An ingest adds a version, and its operation goes on or ends.
LEMMA IngestKinds ==
  ASSUME TypeOK, NEW a \in Actors, Ingest(a)
  PROVE  /\ \E k \in Items, h \in Hashes : Adds(k, h, SeqIn(op[a]))
         /\ Closes(a)
  <1>1. /\ ItemOf(a).key \in Items /\ ItemOf(a).hash \in Hashes
    BY ItemsAreObserved DEF Ingest, Observed
  <1>2. Adds(ItemOf(a).key, ItemOf(a).hash, SeqIn(op[a]))
    BY SeqsAreIn DEF Ingest, Adds, Commit, Event
  <1>3. op' = [op EXCEPT ![a] = Recorded(a)] /\ SeqIn(op[a]) # 0 /\ SeqIn(Recorded(a)) = 0
    BY SeqsAreIn, RecordedLeft DEF Ingest, Become
  <1>4. Closes(a)
    BY <1>3 DEF Closes, TypeOK
  <1>5. QED
    BY <1>1, <1>2, <1>4

LEMMA DeleteKinds ==
  ASSUME NEW t, NEW n, DeleteRow(t, n)
  PROVE  Stamps(t, n)
  BY DEF DeleteRow, Stamps, Commit, Event

LEMMA Kinds ==
  ASSUME TypeOK, [Next]_vars
  PROVE  \/ Rests
         \/ Takes
         \/ \E a \in Actors :
              /\ Closes(a)
              /\ \/ \E k \in Items, h \in Hashes : Adds(k, h, SeqIn(op[a]))
                 \/ \E t \in TargetsOf(op[a]) : Stamps(t, SeqIn(op[a]))
                 \/ op[a].at = "purge" /\ Removes(op[a].key, op[a].targets, SeqIn(op[a]))
  <1> USE DEF Rests, corpus
  <1>1. CASE UNCHANGED vars
    BY <1>1 DEF vars
  <1>2. CASE \E k \in Items, h \in Hashes : WriteFile(k, h)
    BY <1>2 DEF WriteFile
  <1>3. CASE \E k \in Items : RemoveFile(k)
    BY <1>3 DEF RemoveFile
  <1>4. ASSUME NEW a \in Actors, NEW full \in BOOLEAN, StartSync(a, full) PROVE Rests
    BY <1>4 DEF StartSync
  <1>5. ASSUME NEW a \in Actors, NEW k \in Items, Observe(a, k) \/ Unreadable(a, k) PROVE Rests
    BY <1>5 DEF Observe, Unreadable
  <1>6. ASSUME NEW a \in Actors, IngestUnchanged(a) \/ IngestChanged(a) PROVE Rests
    BY <1>6 DEF IngestUnchanged, IngestChanged
  <1>7. ASSUME NEW a \in Actors,
               ItemFails(a) \/ StartSweep(a) \/ FinishSync(a) \/ FinishPurge(a) \/ Crash(a)
                 \/ ShredDelete(a)
        PROVE  Rests
    BY <1>7 DEF ItemFails, StartSweep, FinishSync, FinishPurge, Crash, ShredDelete
  <1>8. ASSUME NEW a \in Actors, SweepItem(a)
        PROVE  Closes(a) /\ \E t \in TargetsOf(op[a]) : Stamps(t, SeqIn(op[a]))
    <2>1. PICK r \in op[a].known : /\ DeleteRow(r, op[a].seq)
                                   /\ Become(a, [op[a] EXCEPT !.seq = 0, !.known = @ \ {r}])
      BY <1>8, Zenon DEF SweepItem
    <2>2. op[a] \in Sweeping /\ op[a].at = "sweep" /\ op[a].seq # 0
      BY <1>8, Fields DEF SweepItem, TypeOK
    <2>3. SeqIn(op[a]) = op[a].seq /\ r \in TargetsOf(op[a])
      BY <2>1, <2>2 DEF SeqIn, TargetsOf
    <2>4. op'[a].at = "sweep" /\ op'[a].seq = 0
      BY <2>1, <2>2 DEF Become, TypeOK, Sweeping
    <2>5. Closes(a)
      BY <2>1, <2>2, <2>3, <2>4 DEF Closes, Become, TypeOK, SeqIn
    <2>6. QED
      BY <2>1, <2>3, <2>5, DeleteKinds
  <1>9. ASSUME NEW a \in Actors, FinishHide(a)
        PROVE  Closes(a) /\ \E t \in TargetsOf(op[a]) : Stamps(t, SeqIn(op[a]))
    <2>1. op[a].target \in TargetsOf(op[a]) /\ SeqIn(op[a]) = op[a].seq
      BY <1>9 DEF FinishHide, TargetsOf, SeqIn
    <2>2. Closes(a)
      BY <1>9, <2>1 DEF FinishHide, Closes, Become, TypeOK, SeqIn, Idle
    <2>3. QED
      BY <1>9, <2>1, <2>2, DeleteKinds DEF FinishHide
  <1>10. ASSUME NEW a \in Actors, NEW k \in Items,
                StartHide(a, k) \/ StartRestore(a, k) \/ StartPurge(a, k)
         PROVE  Rests
    BY <1>10 DEF StartHide, StartRestore, StartPurge
  <1>11. ASSUME NEW a \in Actors, Append1(a) PROVE Takes
    BY <1>11 DEF Append1, Takes, Event
  <1>12. ASSUME NEW a \in Actors, PurgeRows(a)
         PROVE  Closes(a) /\ op[a].at = "purge"
                  /\ Removes(op[a].key, op[a].targets, SeqIn(op[a]))
    <2>1. SeqIn(op[a]) = op[a].seq
      BY <1>12 DEF PurgeRows, SeqIn
    <2>2. Removes(op[a].key, op[a].targets, op[a].seq)
      BY <1>12 DEF PurgeRows, Removes, Commit, Event
    <2>3. Closes(a)
      BY <1>12, <2>1 DEF PurgeRows, Closes, Become, TypeOK, SeqIn
    <2>4. QED
      BY <1>12, <2>1, <2>2, <2>3 DEF PurgeRows
  <1>13. ASSUME NEW a \in Actors, NEW h \in Hashes, ShredCheck(a, h) PROVE Rests
    BY <1>13 DEF ShredCheck
  <1>14. ASSUME NEW a \in Actors, Ingest(a)
         PROVE  Closes(a) /\ \E k \in Items, h \in Hashes : Adds(k, h, SeqIn(op[a]))
    BY <1>14, IngestKinds
  <1>15. QED
    BY <1>1, <1>2, <1>3, <1>4, <1>5, <1>6, <1>7, <1>8, <1>9, <1>10, <1>11, <1>12, <1>13, <1>14
       DEF Next

\* One operation moves at a time.
LEMMA OneMoves ==
  ASSUME TypeOK, [Next]_vars
  PROVE  \E a : \A b \in Actors : b = a \/ op'[b] = op[b]
  <1> DEFINE Only(a) == \A b \in Actors : b = a \/ op'[b] = op[b]
  <1>1. ASSUME NEW a \in Actors, NEW o, Become(a, o) PROVE Only(a)
    BY <1>1 DEF Become, TypeOK
  <1>2. ASSUME op' = op PROVE \A a : Only(a)
    BY <1>2
  <1> HIDE DEF Only
  <1>3. ASSUME NEW a \in Actors, NEW full \in BOOLEAN, StartSync(a, full) PROVE Only(a)
    BY <1>1, <1>3 DEF StartSync
  <1>4. ASSUME NEW a \in Actors, NEW k \in Items,
               \/ Observe(a, k) \/ Unreadable(a, k)
               \/ StartHide(a, k) \/ StartRestore(a, k) \/ StartPurge(a, k)
        PROVE  Only(a)
    BY <1>1, <1>4 DEF Observe, Unreadable, StartHide, StartRestore, StartPurge
  <1>5. ASSUME NEW a \in Actors,
               Append1(a) \/ IngestUnchanged(a) \/ IngestChanged(a) \/ Ingest(a) \/ ItemFails(a)
        PROVE  Only(a)
    BY <1>1, <1>5 DEF Append1, IngestUnchanged, IngestChanged, Ingest, ItemFails
  <1>6. ASSUME NEW a \in Actors,
               \/ StartSweep(a) \/ SweepItem(a) \/ FinishSync(a) \/ FinishHide(a)
               \/ PurgeRows(a) \/ ShredDelete(a) \/ FinishPurge(a) \/ Crash(a)
        PROVE  Only(a)
    BY <1>1, <1>6 DEF StartSweep, SweepItem, FinishSync, FinishHide, PurgeRows, ShredDelete,
                      FinishPurge, Crash
  <1>7. ASSUME NEW a \in Actors, NEW h \in Hashes, ShredCheck(a, h) PROVE Only(a)
    BY <1>1, <1>7 DEF ShredCheck
  <1>8. \E a : Only(a)
    <2>1. CASE UNCHANGED vars
      BY <1>2, <2>1 DEF vars
    <2>2. ASSUME NEW k \in Items, NEW h \in Hashes, WriteFile(k, h) \/ RemoveFile(k)
          PROVE  op' = op
      BY <2>2 DEF WriteFile, RemoveFile
    <2>3. CASE \E k \in Items, h \in Hashes : WriteFile(k, h)
      BY <1>2, <2>2, <2>3
    <2>4. ASSUME NEW k \in Items, RemoveFile(k) PROVE op' = op
      BY <2>4 DEF RemoveFile
    <2>5. QED
      BY <1>2, <1>3, <1>4, <1>5, <1>6, <1>7, <2>1, <2>3, <2>4 DEF Next
  <1>9. QED
    BY <1>8 DEF Only

\* An operation keeps what it holds, or reads it off the rows that are there; and it
\* keeps its seq, or takes the next one.
LEMMA HeldSteps ==
  ASSUME TypeOK, [Next]_vars, NEW b \in Actors
  PROVE  /\ op'[b] \in Operations
         /\ TargetsOf(op'[b]) \subseteq TargetsOf(op[b]) \cup rows
         /\ SeqIn(op'[b]) # 0 =>
              /\ TargetsOf(op'[b]) \subseteq TargetsOf(op[b])
              /\ SeqIn(op'[b]) = SeqIn(op[b]) \/ (Takes /\ SeqIn(op'[b]) = Len(log) + 1)
         /\ op'[b].at = "purge" =>
              \/ /\ op[b].at = "purge"
                 /\ op'[b].key = op[b].key /\ op'[b].targets = op[b].targets
              \/ op'[b].targets = VersionsOf(op'[b].key, rows) /\ Rests
  <1> DEFINE Holds(o) ==
               /\ o \in Operations
               /\ TargetsOf(o) \subseteq TargetsOf(op[b]) \cup rows
               /\ SeqIn(o) # 0 =>
                    /\ TargetsOf(o) \subseteq TargetsOf(op[b])
                    /\ SeqIn(o) = SeqIn(op[b]) \/ (Takes /\ SeqIn(o) = Len(log) + 1)
               /\ o.at = "purge" =>
                    \/ op[b].at = "purge" /\ o.key = op[b].key /\ o.targets = op[b].targets
                    \/ o.targets = VersionsOf(o.key, rows) /\ Rests
  <1>1. Holds(op[b])
    BY DEF TypeOK
  <1>2. Holds(Idle)
    BY DEF Idle, Operations, TargetsOf, SeqIn
  <1>3. ASSUME NEW o \in Walking \cup Restoring \cup Shredding,
               SeqIn(o) = 0 \/ SeqIn(o) = SeqIn(op[b])
        PROVE  Holds(o)
    BY <1>3 DEF Walking, Restoring, Shredding, Operations, TargetsOf
  <1>4. ASSUME NEW a \in Actors, NEW o, Become(a, o), a = b => Holds(o)
        PROVE  Holds(op'[b])
    BY <1>1, <1>4 DEF Become, TypeOK
  <1> HIDE DEF Holds
  <1>5. ASSUME op' = op PROVE Holds(op'[b])
    <2>1. op'[b] = op[b]
      BY <1>5
    <2>2. QED
      BY <1>1, <2>1
  <1>6. ASSUME NEW a \in Actors, op[a].at = "walk", NEW o \in Walking,
               o.seq = 0 \/ o.seq = op[a].seq, Become(a, o)
        PROVE  Holds(op'[b])
    <2>1. SeqIn(o) = o.seq /\ SeqIn(op[a]) = op[a].seq
      BY <1>6 DEF SeqIn, Walking
    <2>2. QED
      BY <1>3, <1>4, <1>6, <2>1
  <1>7. ASSUME NEW a \in Actors, NEW full \in BOOLEAN, StartSync(a, full) PROVE Holds(op'[b])
    <2> DEFINE o == [at |-> "walk", seq |-> 0, full |-> full,
                todo |-> {k \in Items : /\ disk[k].hash # Gone
                                        /\ full \/ cursor[k] # disk[k].fp},
                seen |-> {},
                listing |-> [k \in Items |-> disk[k].fp],
                cursor |-> cursor,
                item |-> Gone]
    <2>1. o \in Walking /\ SeqIn(o) = 0
      BY BoundsAssumption DEF TypeOK, Walking, Files, SeqIn
    <2>2. QED
      BY <1>3, <1>4, <1>7, <2>1 DEF StartSync
  <1>8. ASSUME NEW a \in Actors, NEW k \in Items, Observe(a, k) PROVE Holds(op'[b])
    <2>1. disk[k].hash \in Hashes /\ op[a] \in Walking /\ op[a].at = "walk"
      BY <1>8, Fields DEF Observe, TypeOK, Files
    <2> DEFINE o == [op[a] EXCEPT !.todo = @ \ {k}, !.seen = @ \cup {k},
                                  !.item = [key |-> k, hash |-> disk[k].hash, changed |-> FALSE]]
    <2>2. [key |-> k, hash |-> disk[k].hash, changed |-> FALSE] \in Observed \cup {Gone}
      BY <2>1 DEF Observed
    <2>3. o \in Walking /\ o.seq = op[a].seq
      BY <2>1, <2>2 DEF Walking
    <2>4. Become(a, o)
      BY <1>8 DEF Observe
    <2>5. QED
      BY <1>6, <2>1, <2>3, <2>4
  <1>9. ASSUME NEW a \in Actors, NEW k \in Items, Unreadable(a, k) PROVE Holds(op'[b])
    <2> DEFINE o == [op[a] EXCEPT !.todo = @ \ {k}]
    <2>1. op[a].at = "walk" /\ o \in Walking /\ o.seq = op[a].seq /\ Become(a, o)
      BY <1>9, Fields DEF Unreadable, TypeOK, Walking
    <2>2. QED
      BY <1>6, <2>1
  <1>10. ASSUME NEW a \in Actors, IngestUnchanged(a) \/ Ingest(a) PROVE Holds(op'[b])
    <2>1. Become(a, Recorded(a)) /\ ItemOf(a) # Gone
      BY <1>10 DEF IngestUnchanged, Ingest
    <2>2. CASE op[a].at = "restore"
      BY <1>2, <1>4, <2>1, <2>2, RecordedLeft
    <2>3. CASE op[a].at = "walk"
      BY <1>3, <1>4, <2>1, <2>3, RecordedLeft
    <2>4. QED
      BY <2>1, <2>2, <2>3, ItemsAreObserved
  <1>11. ASSUME NEW a \in Actors, IngestChanged(a) PROVE Holds(op'[b])
    <2>1. PICK i : i = [op[a].item EXCEPT !.changed = TRUE]
      OBVIOUS
    <2>2. ItemOf(a) # Gone /\ Become(a, [op[a] EXCEPT !.item = i])
      BY <1>11, <2>1 DEF IngestChanged
    <2>3. i \in Observed
      BY <2>1, <2>2, ItemsAreObserved DEF Observed
    <2> DEFINE o == [op[a] EXCEPT !.item = i]
    <2>4. CASE op[a].at = "restore"
      <3>1. op[a] \in Restoring
        BY <2>2, <2>4, ItemsAreObserved
      <3>2. o \in Restoring /\ o.at = op[a].at /\ o.seq = op[a].seq
        BY <2>3, <3>1 DEF Restoring
      <3>3. SeqIn(o) = SeqIn(op[a])
        BY <3>2 DEF SeqIn
      <3>4. QED
        BY <1>3, <1>4, <2>2, <3>2, <3>3
    <2>5. CASE op[a].at = "walk"
      <3>1. op[a] \in Walking
        BY <2>2, <2>5, ItemsAreObserved
      <3>2. o \in Walking /\ o.seq = op[a].seq
        BY <2>3, <3>1 DEF Walking
      <3>3. QED
        BY <1>6, <2>2, <2>5, <3>2
    <2>6. QED
      BY <2>2, <2>4, <2>5, ItemsAreObserved
  <1>12. ASSUME NEW a \in Actors, ItemFails(a) PROVE Holds(op'[b])
    <2> DEFINE o == [op[a] EXCEPT !.seq = 0, !.item = Gone]
    <2>1. op[a].at = "walk" /\ op[a] \in Walking /\ Become(a, o)
      BY <1>12, Fields DEF ItemFails, TypeOK
    <2>2. o \in Walking /\ o.seq = 0
      <3>1. 0 \in 0..MaxEvents /\ Gone \in Observed \cup {Gone}
        BY BoundsAssumption
      <3>2. QED
        BY <2>1, <3>1 DEF Walking
    <2>3. QED
      BY <1>6, <2>1, <2>2
  <1>13. ASSUME NEW a \in Actors, Append1(a) PROVE Holds(op'[b])
    <2>1. PICK n : n = Len(log) + 1
      OBVIOUS
    <2> DEFINE o == [op[a] EXCEPT !.seq = n]
    <2>2. /\ Takes /\ Become(a, o) /\ n \in 0..MaxEvents
          /\ op[a].at \in {"walk", "sweep", "hide", "restore", "purge"}
      <3>1. Takes /\ Become(a, o)
        BY <1>13, <2>1 DEF Append1, Takes, Event
      <3>2. n \in 0..MaxEvents
        BY <2>1, <3>1, BoundsAssumption DEF Takes, TypeOK
      <3>3. QED
        BY <1>13, <3>1, <3>2 DEF Append1, HasEventToWrite
    <2>3. CASE op[a].at = "walk"
      <3>1. op[a] \in Walking
        BY <2>3, Fields DEF TypeOK
      <3>2. o \in Walking /\ o.at = "walk" /\ o.seq = n
        BY <2>2, <3>1 DEF Walking
      <3>3. Holds(o)
        BY <2>1, <2>2, <3>2 DEF Holds, Operations, SeqIn, TargetsOf
      <3>4. QED
        BY <1>4, <2>2, <3>3
    <2>4. CASE op[a].at = "sweep"
      <3>1. op[a] \in Sweeping
        BY <2>4, Fields DEF TypeOK
      <3>2. o \in Sweeping /\ o.at = "sweep" /\ o.seq = n /\ o.known = op[a].known
        BY <2>2, <3>1 DEF Sweeping
      <3>3. a = b => Holds(o)
        BY <2>1, <2>2, <2>4, <3>2 DEF Holds, Operations, SeqIn, TargetsOf
      <3>4. QED
        BY <1>4, <2>2, <3>3
    <2>5. CASE op[a].at = "hide"
      <3>1. op[a] \in Hiding
        BY <2>5, Fields DEF TypeOK
      <3>2. o \in Hiding /\ o.at = "hide" /\ o.seq = n /\ o.target = op[a].target
        BY <2>2, <3>1 DEF Hiding
      <3>3. a = b => Holds(o)
        BY <2>1, <2>2, <2>5, <3>2 DEF Holds, Operations, SeqIn, TargetsOf
      <3>4. QED
        BY <1>4, <2>2, <3>3
    <2>6. CASE op[a].at = "restore"
      <3>1. op[a] \in Restoring
        BY <2>6, Fields DEF TypeOK
      <3>2. o \in Restoring /\ o.at = "restore" /\ o.seq = n
        BY <2>2, <3>1 DEF Restoring
      <3>3. Holds(o)
        BY <2>1, <2>2, <3>2 DEF Holds, Operations, SeqIn, TargetsOf
      <3>4. QED
        BY <1>4, <2>2, <3>3
    <2>7. CASE op[a].at = "purge"
      <3>1. op[a] \in Purging
        BY <2>7, Fields DEF TypeOK
      <3>2. /\ o \in Purging /\ o.at = "purge" /\ o.seq = n
            /\ o.targets = op[a].targets /\ o.key = op[a].key
        BY <2>2, <3>1 DEF Purging
      <3>3. a = b => Holds(o)
        BY <2>1, <2>2, <2>7, <3>2 DEF Holds, Operations, SeqIn, TargetsOf
      <3>4. QED
        BY <1>4, <2>2, <3>3
    <2>8. QED
      BY <2>2, <2>3, <2>4, <2>5, <2>6, <2>7
  <1>14. ASSUME NEW a \in Actors, StartSweep(a) PROVE Holds(op'[b])
    <2> DEFINE o == [at |-> "sweep", seq |-> 0, seen |-> op[a].seen, cursor |-> op[a].cursor,
                known |-> {r \in rows : /\ r.current /\ r.deleted = 0
                                        /\ r.key \notin op[a].seen}]
    <2>1. o \in Sweeping /\ SeqIn(o) = 0
      BY <1>14, Fields, BoundsAssumption DEF StartSweep, TypeOK, Walking, Sweeping, SeqIn
    <2>2. TargetsOf(o) \subseteq rows
      BY DEF TargetsOf
    <2>3. Holds(o)
      BY <2>1, <2>2 DEF Holds, Operations
    <2>4. QED
      BY <1>4, <1>14, <2>3 DEF StartSweep
  <1>15. ASSUME NEW a \in Actors, SweepItem(a) PROVE Holds(op'[b])
    <2>1. PICK r \in op[a].known : Become(a, [op[a] EXCEPT !.seq = 0, !.known = @ \ {r}])
      BY <1>15 DEF SweepItem
    <2> DEFINE o == [op[a] EXCEPT !.seq = 0, !.known = @ \ {r}]
    <2>2. op[a] \in Sweeping
      BY <1>15, Fields DEF SweepItem, TypeOK
    <2>3. /\ o \in Sweeping /\ o.known \subseteq op[a].known /\ o.seq = 0
          /\ o.at = "sweep" /\ op[a].at = "sweep"
      <3>1. 0 \in 0..MaxEvents /\ op[a].known \ {r} \in SUBSET Rows
        BY <2>2, BoundsAssumption DEF Sweeping
      <3>2. QED
        BY <2>2, <3>1 DEF Sweeping
    <2>4. TargetsOf(o) \subseteq TargetsOf(op[a]) /\ SeqIn(o) = 0
      BY <2>3 DEF TargetsOf, SeqIn
    <2>5. a = b => Holds(o)
      BY <2>3, <2>4 DEF Holds, Operations
    <2>6. QED
      BY <1>4, <2>1, <2>5
  <1>16. ASSUME NEW a \in Actors, NEW k \in Items, StartHide(a, k) PROVE Holds(op'[b])
    <2>1. PICK r \in CurrentOf(k, rows) : Become(a, [at |-> "hide", seq |-> 0, target |-> r])
      BY <1>16 DEF StartHide
    <2>2. r \in rows /\ r \in Rows
      BY DEF TypeOK, CurrentOf
    <2>3. Holds([at |-> "hide", seq |-> 0, target |-> r])
      BY <2>2, BoundsAssumption DEF Holds, Operations, Hiding, TargetsOf, SeqIn
    <2>4. QED
      BY <1>4, <2>1, <2>3
  <1>17. ASSUME NEW a \in Actors, NEW k \in Items, StartRestore(a, k) PROVE Holds(op'[b])
    <2>1. PICK r \in CurrentOf(k, rows) :
            Become(a, [at |-> "restore", seq |-> 0,
                       item |-> [key |-> k, hash |-> r.hash, changed |-> FALSE]])
      BY <1>17 DEF StartRestore
    <2>2. r.hash \in Hashes
      BY DEF TypeOK, CurrentOf, Rows
    <2> DEFINE o == [at |-> "restore", seq |-> 0,
                     item |-> [key |-> k, hash |-> r.hash, changed |-> FALSE]]
    <2>3. o \in Restoring /\ SeqIn(o) = 0
      BY <2>2, BoundsAssumption DEF Restoring, Observed, SeqIn
    <2>4. QED
      BY <1>3, <1>4, <2>1, <2>3
  <1>18. ASSUME NEW a \in Actors, NEW k \in Items, StartPurge(a, k) PROVE Holds(op'[b])
    <2> DEFINE o == [at |-> "purge", seq |-> 0, key |-> k, targets |-> VersionsOf(k, rows)]
    <2>1. o \in Purging /\ TargetsOf(o) \subseteq rows /\ SeqIn(o) = 0
      BY BoundsAssumption DEF TypeOK, VersionsOf, Purging, TargetsOf, SeqIn
    <2>2. Rests
      BY <1>18 DEF StartPurge, Rests, corpus
    <2>3. Holds(o)
      BY <2>1, <2>2 DEF Holds, Operations
    <2>4. QED
      BY <1>4, <1>18, <2>3 DEF StartPurge
  <1>19. ASSUME NEW a \in Actors, PurgeRows(a) PROVE Holds(op'[b])
    <2> DEFINE o == [at |-> "shred", todo |-> {r.hash : r \in op[a].targets}, doomed |-> Gone]
    <2>1. o \in Shredding
      BY <1>19, Fields DEF PurgeRows, TypeOK, Purging, Shredding, Rows
    <2>2. SeqIn(o) = 0
      BY DEF SeqIn
    <2>3. QED
      BY <1>3, <1>4, <1>19, <2>1, <2>2 DEF PurgeRows
  <1>20. ASSUME NEW o \in Shredding PROVE Holds(o)
    BY <1>3, <1>20 DEF Shredding, SeqIn
  <1>21. ASSUME NEW a \in Actors, NEW h \in Hashes, ShredCheck(a, h) PROVE Holds(op'[b])
    <2>1. [op[a] EXCEPT !.todo = @ \ {h},
                        !.doomed = IF \E r \in rows : r.hash = h THEN Gone ELSE h]
            \in Shredding
      <3>1. op[a] \in Shredding
        BY <1>21, Fields DEF ShredCheck, TypeOK
      <3>2. QED
        BY <3>1 DEF Shredding
    <2>2. QED
      BY <1>4, <1>20, <1>21, <2>1 DEF ShredCheck
  <1>22. ASSUME NEW a \in Actors, ShredDelete(a) PROVE Holds(op'[b])
    <2>1. [op[a] EXCEPT !.doomed = Gone] \in Shredding
      <3>1. op[a] \in Shredding
        BY <1>22, Fields DEF ShredDelete, TypeOK
      <3>2. QED
        BY <3>1 DEF Shredding
    <2>2. QED
      BY <1>4, <1>20, <1>22, <2>1 DEF ShredDelete
  <1>23. ASSUME NEW a \in Actors, FinishSync(a) \/ FinishHide(a) \/ FinishPurge(a) \/ Crash(a)
         PROVE  Holds(op'[b])
    BY <1>2, <1>4, <1>23 DEF FinishSync, FinishHide, FinishPurge, Crash
  <1>24. ASSUME NEW k \in Items, NEW h \in Hashes, WriteFile(k, h) PROVE op' = op
    BY <1>24 DEF WriteFile
  <1>25. ASSUME NEW k \in Items, RemoveFile(k) PROVE op' = op
    BY <1>25 DEF RemoveFile
  <1>26. Holds(op'[b])
    <2>1. CASE UNCHANGED vars
      BY <1>5, <2>1 DEF vars
    <2>2. CASE Next
      BY <1>5, <1>7, <1>8, <1>9, <1>10, <1>11, <1>12, <1>13, <1>14, <1>15, <1>16, <1>17,
         <1>18, <1>19, <1>21, <1>22, <1>23, <1>24, <1>25, <2>2 DEF Next
    <2>3. QED
      BY <2>1, <2>2
  <1>27. QED
    BY <1>26 DEF Holds

-----------------------------------------------------------------------------
(* Log and rows *)

LEMMA Appending ==
  ASSUME NEW S, NEW s \in Seq(S), NEW e \in S
  PROVE  /\ Append(s, e) \in Seq(S)
         /\ Len(Append(s, e)) = Len(s) + 1
         /\ DOMAIN Append(s, e) = DOMAIN s \cup {Len(s) + 1}
         /\ \A i \in DOMAIN s : i <= Len(s) /\ Append(s, e)[i] = s[i]
         /\ Append(s, e)[Len(s) + 1] = e
         /\ Len(s) \in Nat /\ DOMAIN s = 1..Len(s)
  OBVIOUS

LEMMA Replacing ==
  ASSUME NEW S, NEW s \in Seq(S), NEW n \in DOMAIN s, NEW e \in S
  PROVE  /\ [s EXCEPT ![n] = e] \in Seq(S)
         /\ Len([s EXCEPT ![n] = e]) = Len(s)
         /\ DOMAIN [s EXCEPT ![n] = e] = DOMAIN s
         /\ [s EXCEPT ![n] = e][n] = e
         /\ \A i \in DOMAIN s : i # n => [s EXCEPT ![n] = e][i] = s[i]
  OBVIOUS

\* A transaction takes the seq after the last, and commits under one that is a gap.
Commits(n, type, k, h) ==
  /\ n \in DOMAIN log /\ log[n].type = "gap"
  /\ log' = [log EXCEPT ![n] = Event(n, type, k, h)]

LEMMA SeqTaken ==
  ASSUME log \in Seq(Events), Takes
  PROVE  /\ log' \in Seq(Events)
         /\ Len(log) \in Nat /\ Len(log') = Len(log) + 1 /\ Len(log) + 1 \in Seqs
         /\ DOMAIN log' = DOMAIN log \cup {Len(log) + 1}
         /\ \A i \in DOMAIN log : i \in Nat /\ i <= Len(log) /\ log'[i] = log[i]
         /\ log'[Len(log) + 1] = Event(Len(log) + 1, "gap", Gone, Gone)
         /\ Event(Len(log) + 1, "gap", Gone, Gone) \in Events
         /\ \A k, type : type # "gap" => EventsOf(k, type)' = EventsOf(k, type)
  <1>1. PICK e : e = Event(Len(log) + 1, "gap", Gone, Gone)
    OBVIOUS
  <1>2. Len(log) \in Nat /\ Len(log) + 1 \in Seqs
    BY BoundsAssumption DEF Takes, Seqs
  <1>3. e \in Events /\ e.type = "gap" /\ log' = Append(log, e)
    BY <1>1, <1>2 DEF Takes, Event, Events
  <1>4. /\ log' \in Seq(Events) /\ Len(log') = Len(log) + 1
        /\ DOMAIN log' = DOMAIN log \cup {Len(log) + 1}
        /\ \A i \in DOMAIN log : i \in Nat /\ i <= Len(log) /\ log'[i] = log[i]
        /\ log'[Len(log) + 1] = e
    BY <1>3, Appending
  <1>5. ASSUME NEW k, NEW type, type # "gap"
        PROVE  EventsOf(k, type)' = EventsOf(k, type)
    BY <1>3, <1>4, <1>5 DEF EventsOf
  <1>6. QED
    BY <1>1, <1>2, <1>3, <1>4, <1>5

LEMMA Committed ==
  ASSUME log \in Seq(Events), Len(log) <= MaxEvents,
         NEW n, NEW type \in {"observed", "deleted", "purged"}, NEW k \in Items,
         NEW h \in Hashes \cup {Gone}, Commits(n, type, k, h)
  PROVE  /\ log' \in Seq(Events)
         /\ Len(log) \in Nat /\ Len(log') = Len(log)
         /\ n \in Seqs /\ n <= Len(log)
         /\ DOMAIN log' = DOMAIN log
         /\ \A i \in DOMAIN log : i \in Nat /\ i <= Len(log) /\ (i # n => log'[i] = log[i])
         /\ log'[n] = Event(n, type, k, h) /\ Event(n, type, k, h) \in Events
         /\ log'[n].seq = n /\ log'[n].type = type /\ log'[n].key = k /\ log'[n].hash = h
  <1>1. PICK e : e = Event(n, type, k, h)
    OBVIOUS
  <1>2. /\ n \in DOMAIN log /\ n \in Seqs /\ Len(log) \in Nat /\ log[n].type = "gap"
        /\ \A i \in DOMAIN log : i \in Nat /\ i <= Len(log)
    BY BoundsAssumption DEF Commits, Seqs
  <1>3. /\ e \in Events /\ log' = [log EXCEPT ![n] = e]
        /\ e.seq = n /\ e.type = type /\ e.key = k /\ e.hash = h
    BY <1>1, <1>2 DEF Commits, Event, Events
  <1>4. /\ log' \in Seq(Events) /\ Len(log') = Len(log) /\ DOMAIN log' = DOMAIN log
        /\ \A i \in DOMAIN log : i # n => log'[i] = log[i]
        /\ log'[n] = e
    BY <1>2, <1>3, Replacing
  <1>5. QED
    BY <1>1, <1>2, <1>3, <1>4

LEMMA CommittedEvents ==
  ASSUME NEW n, NEW type, type # "gap", NEW k, NEW h, Commits(n, type, k, h)
  PROVE  /\ \A j, t : t # "gap" /\ t # type => EventsOf(j, t)' = EventsOf(j, t)
         /\ \A j : EventsOf(j, type)' = EventsOf(j, type) \cup (IF j = k THEN {n} ELSE {})
  <1>1. PICK e : e = Event(n, type, k, h)
    OBVIOUS
  <1>2. /\ n \in DOMAIN log /\ log[n].type = "gap" /\ e.type = type /\ e.key = k
        /\ DOMAIN log' = DOMAIN log /\ log'[n] = e
        /\ \A i \in DOMAIN log : i # n => log'[i] = log[i]
    BY <1>1 DEF Commits, Event
  <1>3. ASSUME NEW j, NEW t, t # "gap", t # type
        PROVE  EventsOf(j, t)' = EventsOf(j, t)
    BY <1>2, <1>3 DEF EventsOf
  <1>4. ASSUME NEW j
        PROVE  EventsOf(j, type)' = EventsOf(j, type) \cup (IF j = k THEN {n} ELSE {})
    BY <1>2 DEF EventsOf
  <1>5. QED
    BY <1>3, <1>4

\* What is in the log stays, except for gaps.
LogKept ==
  \A i \in DOMAIN log : i \in DOMAIN log' /\ (log[i].type # "gap" => log'[i] = log[i])

LEMMA LoggedBefore ==
  ASSUME LogKept
  PROVE  \A r : Logged(r) => Logged(r)'
  BY DEF LogKept, Logged

LEMMA SeqTakenKeeps ==
  ASSUME log \in Seq(Events), Takes
  PROVE  LogKept
  BY SeqTaken DEF LogKept

LEMMA CommittedKeeps ==
  ASSUME log \in Seq(Events), Len(log) <= MaxEvents,
         NEW n, NEW type \in {"observed", "deleted", "purged"}, NEW k \in Items,
         NEW h \in Hashes \cup {Gone}, Commits(n, type, k, h)
  PROVE  LogKept
  <1>1. PICK e : e = Event(n, type, k, h)
    OBVIOUS
  <1>2. DOMAIN log' = DOMAIN log /\ \A i \in DOMAIN log : i # n => log'[i] = log[i]
    BY <1>1 DEF Commits
  <1>3. QED
    BY <1>2 DEF LogKept, Commits

\* A new row is numbered after the one that was current.
LEMMA NextIsNewer ==
  ASSUME RowsInv, NEW k
  PROVE  /\ NextVersion(k, rows) \in Nat \ {0}
         /\ \A r \in rows : r.key = k => r.version < NextVersion(k, rows)
  <1>1. CASE CurrentOf(k, rows) = {}
    <2>1. \A r \in rows : r.key # k
      BY <1>1 DEF RowsInv, HeadIsNewest
    <2>2. QED
      BY <1>1, <2>1 DEF NextVersion
  <1>2. CASE CurrentOf(k, rows) # {}
    <2> DEFINE c == CHOOSE r \in CurrentOf(k, rows) : TRUE
    <2>1. c \in CurrentOf(k, rows)
      BY <1>2
    <2>2. c \in rows /\ c.key = k
      BY <2>1 DEF CurrentOf
    <2>3. c.version \in Nat \ {0}
      BY <2>2 DEF RowsInv, Rows
    <2>4. ASSUME NEW r \in rows, r.key = k PROVE r.version <= c.version /\ r.version \in Nat
      BY <2>1, <2>4 DEF RowsInv, HeadIsNewest, Rows
    <2>5. NextVersion(k, rows) = 1 + c.version
      BY <1>2 DEF NextVersion
    <2> HIDE DEF c
    <2>6. QED
      BY <2>3, <2>4, <2>5
  <1>3. QED
    BY <1>1, <1>2

\* One item's step down is another's nothing.
LEMMA OthersKept ==
  ASSUME NEW rs \in SUBSET Rows, NEW k, NEW h, NEW seq, NEW j, j # k
  PROVE  VersionsOf(j, AddVersion(k, h, seq, rs)) = VersionsOf(j, rs)
  <1>1. \A r \in rs : r.key = j => Stepped(r, k) = r
    BY DEF Stepped
  <1>2. \A r \in rs : Stepped(r, k).key = r.key
    BY SteppedRow
  <1>3. Newest(k, h, seq, rs).key = k
    BY DEF Newest
  <1>4. QED
    BY <1>1, <1>2, <1>3, AddedRows DEF VersionsOf

LEMMA CurrentIsAVersion ==
  ASSUME NEW k, NEW rs
  PROVE  CurrentOf(k, rs) = {r \in VersionsOf(k, rs) : r.current}
  BY DEF CurrentOf, VersionsOf

\* Of the item itself the new version is the only current one.
LEMMA NewestAlone ==
  ASSUME NEW rs \in SUBSET Rows, NEW k, NEW h, NEW seq
  PROVE  CurrentOf(k, AddVersion(k, h, seq, rs)) = {Newest(k, h, seq, rs)}
  <1>1. \A r \in rs : ~(Stepped(r, k).key = k /\ Stepped(r, k).current)
    BY SteppedRow
  <1>2. Newest(k, h, seq, rs).key = k /\ Newest(k, h, seq, rs).current
    BY DEF Newest
  <1>3. QED
    BY <1>1, <1>2, AddedRows DEF CurrentOf

LEMMA AddsKeepRows ==
  ASSUME RowsInv, NEW k \in Items, NEW h \in Hashes, NEW n,
         n \in DOMAIN log, log[n].type = "gap", Adds(k, h, n)
  PROVE  RowsInv' /\ LogKept
  <1>0. PICK new : new = Newest(k, h, n, rows)
    OBVIOUS
  <1>1. /\ log \in Seq(Events) /\ rows \in SUBSET Rows /\ Len(log) <= MaxEvents
        /\ Commits(n, "observed", k, h)
    BY DEF RowsInv, Numbered, Adds, Commits
  <1>2. /\ log' \in Seq(Events) /\ Len(log') = Len(log) /\ DOMAIN log' = DOMAIN log
        /\ n \in Seqs
        /\ \A i \in DOMAIN log : i # n => log'[i] = log[i]
        /\ log'[n].seq = n /\ log'[n].type = "observed" /\ log'[n].key = k /\ log'[n].hash = h
        /\ \A j : EventsOf(j, "purged")' = EventsOf(j, "purged")
        /\ LogKept
    <2>1. h \in Hashes \cup {Gone}
      OBVIOUS
    <2>2. LogKept
      BY <1>1, <2>1, CommittedKeeps
    <2>3. \A j : EventsOf(j, "purged")' = EventsOf(j, "purged")
      <3>1. Commits(n, "observed", k, h) /\ "observed" # "gap"
        BY <1>1
      <3>2. ASSUME NEW j PROVE EventsOf(j, "purged")' = EventsOf(j, "purged")
        <4>1. "purged" # "gap" /\ "purged" # "observed"
          OBVIOUS
        <4>2. QED
          BY <3>1, <4>1, CommittedEvents
      <3>3. QED
        BY <3>2
    <2>4. /\ log' \in Seq(Events) /\ Len(log') = Len(log) /\ DOMAIN log' = DOMAIN log
          /\ n \in Seqs
          /\ \A i \in DOMAIN log : i # n => log'[i] = log[i]
          /\ log'[n].seq = n /\ log'[n].type = "observed" /\ log'[n].key = k
          /\ log'[n].hash = h
      <3>1. "observed" \in {"observed", "deleted", "purged"}
        OBVIOUS
      <3>2. QED
        BY <1>1, <2>1, <3>1, Committed, Zenon
    <2>5. QED
      BY <2>2, <2>3, <2>4
  <1>4. rows' = {Stepped(r, k) : r \in rows} \cup {new}
    BY <1>0, <1>1, AddedRows DEF Adds
  <1>5. new \in Rows
    <2>1. NextVersion(k, rows) \in Nat \ {0} /\ 0 \in 0..MaxEvents
      BY NextIsNewer, BoundsAssumption
    <2>2. QED
      BY <1>0, <1>2, <2>1 DEF Newest, Rows
  <1>6. /\ new.id = n /\ new.key = k /\ new.hash = h /\ new.current /\ new.deleted = 0
        /\ new.version = NextVersion(k, rows)
    BY <1>0 DEF Newest
  <1>7. rows' \in SUBSET Rows
    BY <1>1, <1>4, <1>5, SteppedRow
  <1>8. Numbered'
    BY <1>1, <1>2 DEF RowsInv, Numbered
  <1>9. ASSUME NEW r \in rows
        PROVE  /\ r \in Rows /\ Logged(r)' /\ r.id # n
               /\ Stepped(r, k) \in rows'
               /\ Stepped(r, k).id = r.id /\ Stepped(r, k).key = r.key
               /\ Stepped(r, k).version = r.version /\ Stepped(r, k).hash = r.hash
               /\ Stepped(r, k).deleted = r.deleted
    <2>1. r \in Rows /\ Logged(r)
      BY DEF RowsInv, RowsAreLogged
    <2>2. Logged(r)' /\ r.id # n
      BY <1>2, <2>1, LoggedBefore DEF Logged
    <2>3. QED
      BY <1>4, <2>1, <2>2, SteppedRow
  <1>10. RowsAreLogged'
    <2>1. ASSUME NEW r \in rows PROVE Logged(Stepped(r, k))'
      BY <1>9 DEF Logged
    <2>2. Logged(new)'
      BY <1>2, <1>6 DEF Logged, Commits
    <2>3. QED
      BY <1>4, <2>1, <2>2 DEF RowsAreLogged
  <1>11. RowsAreDistinct'
    BY <1>4, <1>6, <1>9 DEF RowsInv, RowsAreDistinct
  <1>12. HeadIsNewest'
    <2>1. CurrentOf(k, rows') = {new}
      BY <1>0, <1>1, NewestAlone DEF Adds
    <2>2. ASSUME NEW r \in rows', r.key = k
          PROVE  r.version <= new.version
      <3>1. CASE r = new
        BY <1>5, <3>1 DEF Rows
      <3>2. ASSUME NEW q \in rows, r = Stepped(q, k) PROVE r.version <= new.version
        <4>1. q.key = k /\ r.version = q.version
          BY <1>9, <2>2, <3>2
        <4>2. q.version < NextVersion(k, rows)
          BY <4>1, NextIsNewer
        <4>3. q.version \in Nat /\ NextVersion(k, rows) \in Nat
          BY <1>9, NextIsNewer DEF Rows
        <4>4. QED
          BY <1>6, <4>1, <4>2, <4>3
      <3>3. QED
        BY <1>4, <3>1, <3>2
    <2>3. ASSUME NEW r \in rows', r.key # k
          PROVE  \E c \in rows' : CurrentOf(r.key, rows') = {c} /\ r.version <= c.version
      <3>1. VersionsOf(r.key, rows') = VersionsOf(r.key, rows)
        BY <1>1, <2>3, OthersKept DEF Adds
      <3>2. CurrentOf(r.key, rows') = CurrentOf(r.key, rows) /\ r \in rows
        BY <3>1, CurrentIsAVersion DEF VersionsOf
      <3>3. PICK c \in rows : CurrentOf(r.key, rows) = {c} /\ r.version <= c.version
        BY <3>2 DEF RowsInv, HeadIsNewest
      <3>4. c \in rows'
        BY <3>2, <3>3 DEF CurrentOf
      <3>5. QED
        BY <3>2, <3>3, <3>4
    <2>4. new \in rows'
      BY <1>4
    <2>5. QED
      BY <2>1, <2>2, <2>3, <2>4 DEF HeadIsNewest
  <1>13. ObservedIsThere'
    <2> SUFFICES ASSUME NEW i \in DOMAIN log', log'[i].type = "observed",
                        NEW j, j = log'[i].key, EventsOf(j, "purged")' = {}
                 PROVE  \E r \in rows' : r.id = i
      BY DEF ObservedIsThere
    <2>1. CASE i = n
      BY <1>4, <1>6, <2>1
    <2>2. CASE i # n
      <3>1. i \in DOMAIN log /\ log[i] = log'[i] /\ EventsOf(j, "purged") = {}
        BY <1>2, <2>2
      <3>2. PICK r \in rows : r.id = i
        BY <3>1 DEF RowsInv, ObservedIsThere
      <3>3. QED
        BY <1>9, <3>2
    <2>3. QED
      BY <2>1, <2>2
  <1>14. TombstonesAreLogged'
    <2> SUFFICES ASSUME NEW r \in rows', r.deleted # 0
                 PROVE  /\ r.deleted \in DOMAIN log' /\ r.id < r.deleted
                        /\ log'[r.deleted].type = "deleted" /\ log'[r.deleted].key = r.key
      BY DEF TombstonesAreLogged
    <2>1. PICK q \in rows : r = Stepped(q, k)
      BY <1>4, <1>6
    <2>2. r.deleted = q.deleted /\ r.id = q.id /\ r.key = q.key
      BY <1>9, <2>1
    <2>3. /\ q.deleted \in DOMAIN log /\ q.id < q.deleted
          /\ log[q.deleted].type = "deleted" /\ log[q.deleted].key = q.key
      BY <2>2 DEF RowsInv, TombstonesAreLogged
    <2>4. QED
      BY <1>2, <2>2, <2>3 DEF LogKept
  <1>15. QED
    BY <1>2, <1>7, <1>8, <1>10, <1>11, <1>12, <1>13, <1>14 DEF RowsInv

LEMMA StampsKeepRows ==
  ASSUME RowsInv, NEW t \in Rows, Logged(t), NEW n, t.id < n,
         n \in DOMAIN log, log[n].type = "gap", Stamps(t, n)
  PROVE  RowsInv' /\ LogKept
  <1>1. /\ log \in Seq(Events) /\ rows \in SUBSET Rows /\ Len(log) <= MaxEvents
        /\ t.key \in Items /\ Commits(n, "deleted", t.key, Gone)
    BY DEF RowsInv, Numbered, Stamps, Commits, Rows
  <1>2. /\ log' \in Seq(Events) /\ Len(log') = Len(log) /\ DOMAIN log' = DOMAIN log
        /\ n \in Seqs
        /\ \A i \in DOMAIN log : i # n => log'[i] = log[i]
        /\ log'[n].seq = n /\ log'[n].type = "deleted" /\ log'[n].key = t.key
        /\ \A j : EventsOf(j, "purged")' = EventsOf(j, "purged")
        /\ LogKept
    <2>1. Gone \in Hashes \cup {Gone}
      OBVIOUS
    <2>2. LogKept
      BY <1>1, <2>1, CommittedKeeps
    <2>3. PICK k : k = t.key
      OBVIOUS
    <2>4. k \in Items /\ Commits(n, "deleted", k, Gone)
      BY <1>1, <2>3
    <2>5. /\ log' \in Seq(Events) /\ Len(log') = Len(log) /\ DOMAIN log' = DOMAIN log
          /\ n \in Seqs
          /\ \A i \in DOMAIN log : i # n => log'[i] = log[i]
          /\ log'[n].seq = n /\ log'[n].type = "deleted" /\ log'[n].key = k
      BY <1>1, <2>1, <2>4, Committed
    <2>6. \A j : EventsOf(j, "purged")' = EventsOf(j, "purged")
      BY <2>4, CommittedEvents
    <2>7. QED
      BY <2>2, <2>3, <2>5, <2>6
  <1>5. rows' = {Stamped(r, t.id, n) : r \in rows}
    BY StampedRows DEF Stamps
  <1>6. ASSUME NEW r \in rows
        PROVE  /\ r \in Rows /\ Logged(r)'
               /\ Stamped(r, t.id, n) \in Rows
               /\ Stamped(r, t.id, n).id = r.id /\ Stamped(r, t.id, n).key = r.key
               /\ Stamped(r, t.id, n).version = r.version
               /\ Stamped(r, t.id, n).hash = r.hash
               /\ Stamped(r, t.id, n).current = r.current
               /\ Stamped(r, t.id, n).deleted = IF r.id = t.id THEN n ELSE r.deleted
    <2>1. r \in Rows /\ Logged(r)'
      BY <1>2, LoggedBefore DEF RowsInv, RowsAreLogged
    <2>2. QED
      BY <1>2, <2>1, StampedRow
  <1>7. rows' \in SUBSET Rows
    BY <1>5, <1>6
  <1>8. Numbered'
    BY <1>1, <1>2 DEF RowsInv, Numbered
  <1>9. RowsAreLogged'
    <2>1. ASSUME NEW r \in rows PROVE Logged(Stamped(r, t.id, n))'
      BY <1>6 DEF Logged
    <2>2. QED
      BY <1>5, <2>1 DEF RowsAreLogged
  <1>10. RowsAreDistinct'
    BY <1>5, <1>6 DEF RowsInv, RowsAreDistinct
  <1>11. ASSUME NEW k
         PROVE  CurrentOf(k, rows') = {Stamped(r, t.id, n) : r \in CurrentOf(k, rows)}
    BY <1>5, <1>6 DEF CurrentOf
  <1>12. HeadIsNewest'
    <2> SUFFICES ASSUME NEW r \in rows'
                 PROVE  \E c \in rows' : CurrentOf(r.key, rows') = {c} /\ r.version <= c.version
      BY DEF HeadIsNewest
    <2>1. PICK q \in rows : r = Stamped(q, t.id, n)
      BY <1>5
    <2>2. PICK c \in rows : CurrentOf(q.key, rows) = {c} /\ q.version <= c.version
      BY DEF RowsInv, HeadIsNewest
    <2>3. CurrentOf(r.key, rows') = {Stamped(c, t.id, n)}
      BY <1>6, <1>11, <2>1, <2>2
    <2>4. Stamped(c, t.id, n) \in rows'
      BY <1>5
    <2>5. r.version <= Stamped(c, t.id, n).version
      BY <1>6, <2>1, <2>2
    <2>6. QED
      BY <2>3, <2>4, <2>5
  <1>13. ObservedIsThere'
    <2> SUFFICES ASSUME NEW i \in DOMAIN log', log'[i].type = "observed",
                        NEW j, j = log'[i].key, EventsOf(j, "purged")' = {}
                 PROVE  \E r \in rows' : r.id = i
      BY DEF ObservedIsThere
    <2>1. i \in DOMAIN log /\ log[i] = log'[i] /\ EventsOf(j, "purged") = {}
      BY <1>2
    <2>2. PICK r \in rows : r.id = i
      BY <2>1 DEF RowsInv, ObservedIsThere
    <2>3. Stamped(r, t.id, n).id = i /\ Stamped(r, t.id, n) \in rows'
      BY <1>5, <1>6, <2>2
    <2>4. QED
      BY <2>3
  <1>14. TombstonesAreLogged'
    <2> SUFFICES ASSUME NEW r \in rows', r.deleted # 0
                 PROVE  /\ r.deleted \in DOMAIN log' /\ r.id < r.deleted
                        /\ log'[r.deleted].type = "deleted" /\ log'[r.deleted].key = r.key
      BY DEF TombstonesAreLogged
    <2>1. PICK q \in rows : r = Stamped(q, t.id, n)
      BY <1>5
    <2>2. CASE q.id = t.id
      <3>1. r.deleted = n /\ r.id = q.id /\ r.key = q.key
        BY <1>6, <2>1, <2>2
      <3>2. q.key = t.key
        BY <2>2 DEF RowsInv, RowsAreLogged, Logged
      <3>3. n \in DOMAIN log'
        BY <1>2
      <3>4. QED
        BY <1>2, <2>2, <3>1, <3>2, <3>3
    <2>3. CASE q.id # t.id
      <3>1. r.deleted = q.deleted /\ r.id = q.id /\ r.key = q.key
        BY <1>6, <2>1, <2>3
      <3>2. /\ q.deleted \in DOMAIN log /\ q.id < q.deleted
            /\ log[q.deleted].type = "deleted" /\ log[q.deleted].key = q.key
        BY <3>1 DEF RowsInv, TombstonesAreLogged
      <3>3. QED
        BY <1>2, <3>1, <3>2 DEF LogKept
    <2>4. QED
      BY <2>2, <2>3
  <1>15. QED
    BY <1>2, <1>7, <1>8, <1>9, <1>10, <1>12, <1>13, <1>14 DEF RowsInv

\* What a purge removes of an item is all of it, or all but the versions that are
\* numbered last.
LEMMA RemovesKeepRows ==
  ASSUME RowsInv, NEW k \in Items, NEW ts \in SUBSET Rows,
         \A t \in ts : Logged(t) /\ t.key = k,
         \A q, r \in VersionsOf(k, rows) : Seen(ts, q) /\ ~Seen(ts, r) => q.version < r.version,
         NEW n, n \in DOMAIN log, log[n].type = "gap", Removes(k, ts, n)
  PROVE  RowsInv' /\ LogKept
  <1>1. /\ log \in Seq(Events) /\ rows \in SUBSET Rows /\ Len(log) <= MaxEvents
        /\ Commits(n, "purged", k, Gone)
    BY DEF RowsInv, Numbered, Removes, Commits
  <1>2. /\ log' \in Seq(Events) /\ Len(log') = Len(log) /\ DOMAIN log' = DOMAIN log
        /\ n \in Seqs
        /\ \A i \in DOMAIN log : i # n => log'[i] = log[i]
        /\ log'[n].seq = n /\ log'[n].type = "purged" /\ log'[n].key = k
        /\ \A j : EventsOf(j, "purged")' =
                    EventsOf(j, "purged") \cup (IF j = k THEN {n} ELSE {})
        /\ LogKept
    <2>1. Gone \in Hashes \cup {Gone}
      OBVIOUS
    <2>2. LogKept
      BY <1>1, <2>1, CommittedKeeps
    <2>3. \A j : EventsOf(j, "purged")' =
                 EventsOf(j, "purged") \cup (IF j = k THEN {n} ELSE {})
      BY <1>1, CommittedEvents
    <2>4. QED
      BY <1>1, <2>1, <2>2, <2>3, Committed
  <1>4. rows' \subseteq rows /\ \A r \in rows : r \in rows' <=> ~Seen(ts, r)
    BY DEF Removes, Seen
  <1>5. ASSUME NEW r \in rows
        PROVE  /\ r \in Rows /\ Logged(r)'
               /\ r.key # k => r \in rows'
    <2>1. r \in Rows /\ Logged(r) /\ Logged(r)'
      BY <1>1, <1>2, LoggedBefore DEF RowsInv, RowsAreLogged
    <2>2. ASSUME r.key # k, NEW t \in ts PROVE t.id # r.id
      BY <2>1, <2>2 DEF Logged
    <2>3. QED
      BY <1>4, <2>1, <2>2 DEF Seen
  <1>6. Numbered'
    BY <1>1, <1>2 DEF RowsInv, Numbered
  <1>7. RowsAreLogged' /\ RowsAreDistinct'
    BY <1>4, <1>5 DEF RowsInv, RowsAreLogged, RowsAreDistinct
  <1>8. HeadIsNewest'
    <2> SUFFICES ASSUME NEW r \in rows'
                 PROVE  \E c \in rows' : CurrentOf(r.key, rows') = {c} /\ r.version <= c.version
      BY DEF HeadIsNewest
    <2>1. PICK c \in rows : CurrentOf(r.key, rows) = {c} /\ r.version <= c.version
      BY <1>4 DEF RowsInv, HeadIsNewest
    <2>2. c.key = r.key /\ c.current
      BY <2>1 DEF CurrentOf
    <2>3. c \in rows'
      <3>1. CASE r.key # k
        BY <1>5, <2>2, <3>1
      <3>2. CASE r.key = k
        <4>1. r \in VersionsOf(k, rows) /\ c \in VersionsOf(k, rows) /\ ~Seen(ts, r)
          BY <1>4, <2>2, <3>2 DEF VersionsOf
        <4>2. Seen(ts, c) => c.version < r.version
          BY <4>1
        <4>3. c.version \in Nat /\ r.version \in Nat
          BY <1>4, <1>5 DEF Rows
        <4>4. ~Seen(ts, c)
          BY <2>1, <4>2, <4>3
        <4>5. QED
          BY <1>4, <4>4
      <3>3. QED
        BY <3>1, <3>2
    <2>4. CurrentOf(r.key, rows') = {c}
      BY <1>4, <2>1, <2>2, <2>3 DEF CurrentOf
    <2>5. QED
      BY <2>1, <2>3, <2>4
  <1>9. ObservedIsThere'
    <2> SUFFICES ASSUME NEW i \in DOMAIN log', log'[i].type = "observed",
                        NEW j, j = log'[i].key, EventsOf(j, "purged")' = {}
                 PROVE  \E r \in rows' : r.id = i
      BY DEF ObservedIsThere
    <2>1. i \in DOMAIN log /\ log[i] = log'[i] /\ EventsOf(j, "purged") = {} /\ j # k
      BY <1>2
    <2>2. PICK r \in rows : r.id = i
      BY <2>1 DEF RowsInv, ObservedIsThere
    <2>3. r.key = j
      BY <2>1, <2>2 DEF RowsInv, RowsAreLogged, Logged
    <2>4. QED
      BY <1>5, <2>1, <2>2, <2>3
  <1>10. TombstonesAreLogged'
    <2> SUFFICES ASSUME NEW r \in rows', r.deleted # 0
                 PROVE  /\ r.deleted \in DOMAIN log' /\ r.id < r.deleted
                        /\ log'[r.deleted].type = "deleted" /\ log'[r.deleted].key = r.key
      BY DEF TombstonesAreLogged
    <2>1. /\ r.deleted \in DOMAIN log /\ r.id < r.deleted
          /\ log[r.deleted].type = "deleted" /\ log[r.deleted].key = r.key
      BY <1>4 DEF RowsInv, TombstonesAreLogged
    <2>2. QED
      BY <1>2, <2>1 DEF LogKept
  <1>11. QED
    BY <1>1, <1>2, <1>4, <1>6, <1>7, <1>8, <1>9, <1>10 DEF RowsInv

LEMMA TakesKeepsRows ==
  ASSUME RowsInv, Takes
  PROVE  RowsInv' /\ LogKept
  <1>1. log \in Seq(Events) /\ Len(log) < MaxEvents /\ rows' = rows
    BY DEF RowsInv, Takes
  <1>2. /\ log' \in Seq(Events) /\ Len(log) \in Nat /\ Len(log') = Len(log) + 1
        /\ DOMAIN log' = DOMAIN log \cup {Len(log) + 1}
        /\ \A i \in DOMAIN log : log'[i] = log[i]
        /\ log'[Len(log) + 1].seq = Len(log) + 1 /\ log'[Len(log) + 1].type = "gap"
        /\ \A j : EventsOf(j, "purged")' = EventsOf(j, "purged")
        /\ LogKept
    BY <1>1, SeqTaken, SeqTakenKeeps DEF Event
  <1>3. Numbered'
    <2>1. Len(log') <= MaxEvents
      BY <1>1, <1>2, BoundsAssumption
    <2>2. QED
      BY <1>2, <2>1 DEF RowsInv, Numbered
  <1>4. RowsAreLogged'
    BY <1>1, <1>2, LoggedBefore DEF RowsInv, RowsAreLogged
  <1>5. RowsAreDistinct' /\ HeadIsNewest'
    BY <1>1 DEF RowsInv, RowsAreDistinct, HeadIsNewest
  <1>6. ObservedIsThere'
    BY <1>1, <1>2 DEF RowsInv, ObservedIsThere
  <1>7. TombstonesAreLogged'
    BY <1>1, <1>2 DEF RowsInv, TombstonesAreLogged
  <1>8. QED
    BY <1>1, <1>2, <1>3, <1>4, <1>5, <1>6, <1>7 DEF RowsInv

\* What a transaction that commits has in its hands.
LEMMA Closing ==
  ASSUME LogInv, NEW a \in Actors, Closes(a)
  PROVE  /\ SeqIn(op[a]) \in DOMAIN log /\ log[SeqIn(op[a])].type = "gap"
         /\ \A t \in TargetsOf(op[a]) : t \in Rows /\ Logged(t) /\ t.id < SeqIn(op[a])
         /\ op[a].at = "purge" =>
              /\ op[a].key \in Items /\ op[a].targets \in SUBSET Rows
              /\ \A t \in op[a].targets : Logged(t) /\ t.key = op[a].key
  <1>1. SeqIn(op[a]) \in DOMAIN log /\ log[SeqIn(op[a])].type = "gap"
    BY DEF LogInv, SeqsAreHeld, Closes
  <1>2. \A t \in TargetsOf(op[a]) : t \in Rows /\ Logged(t) /\ t.id < SeqIn(op[a])
    BY TargetsAreRows DEF LogInv, TypeOK, SeqsAreHeld, TargetsAreLogged, Closes
  <1>3. ASSUME op[a].at = "purge"
        PROVE  /\ op[a].key \in Items /\ op[a].targets \in SUBSET Rows
               /\ \A t \in op[a].targets : Logged(t) /\ t.key = op[a].key
    <2>1. op[a] \in Purging
      BY <1>3, Fields DEF LogInv, TypeOK
    <2>2. op[a].key \in Items /\ op[a].targets \in SUBSET Rows
      BY <2>1 DEF Purging
    <2>3. \A t \in op[a].targets : Logged(t) /\ t.key = op[a].key
      BY <1>3 DEF LogInv, TargetsAreLogged, TargetsOf, PurgesTheOlder
    <2>4. QED
      BY <2>2, <2>3
  <1>4. QED
    BY <1>1, <1>2, <1>3

\* By these, every step.
LEMMA RowsStep ==
  ASSUME LogInv, [Next]_vars
  PROVE  RowsInv' /\ LogKept
  <1>1. CASE Rests
    <2>1. log' = log /\ rows' = rows /\ RowsInv
      BY <1>1 DEF Rests, LogInv
    <2>2. \A r : Logged(r)' <=> Logged(r)
      BY <2>1 DEF Logged
    <2>3. \A k, type : EventsOf(k, type)' = EventsOf(k, type)
      BY <2>1 DEF EventsOf
    <2>4. Numbered' /\ RowsAreLogged' /\ RowsAreDistinct'
      BY <2>1, <2>2 DEF RowsInv, Numbered, RowsAreLogged, RowsAreDistinct
    <2>5. HeadIsNewest'
      BY <2>1 DEF RowsInv, HeadIsNewest
    <2>6. ObservedIsThere' /\ TombstonesAreLogged'
      BY <2>1, <2>3 DEF RowsInv, ObservedIsThere, TombstonesAreLogged
    <2>7. QED
      BY <2>1, <2>4, <2>5, <2>6 DEF RowsInv, LogKept
  <1>2. CASE Takes
    BY <1>2, TakesKeepsRows DEF LogInv
  <1>3. ASSUME NEW a \in Actors, Closes(a)
        PROVE  /\ SeqIn(op[a]) \in DOMAIN log /\ log[SeqIn(op[a])].type = "gap"
               /\ RowsInv
    BY <1>3, Closing DEF LogInv
  <1>4. ASSUME NEW a \in Actors, Closes(a), NEW k \in Items, NEW h \in Hashes,
               Adds(k, h, SeqIn(op[a]))
        PROVE  RowsInv' /\ LogKept
    BY <1>3, <1>4, AddsKeepRows
  <1>5. ASSUME NEW a \in Actors, Closes(a), NEW t \in TargetsOf(op[a]), Stamps(t, SeqIn(op[a]))
        PROVE  RowsInv' /\ LogKept
    BY <1>3, <1>5, Closing, StampsKeepRows
  <1>6. ASSUME NEW a \in Actors, Closes(a), op[a].at = "purge",
               Removes(op[a].key, op[a].targets, SeqIn(op[a]))
        PROVE  RowsInv' /\ LogKept
    <2>1. \A q, r \in VersionsOf(op[a].key, rows) :
            Seen(op[a].targets, q) /\ ~Seen(op[a].targets, r) => q.version < r.version
      BY <1>6 DEF LogInv, PurgesTheOlder
    <2>2. QED
      BY <1>3, <1>6, <2>1, Closing, RemovesKeepRows
  <1>7. QED
    BY <1>1, <1>2, <1>4, <1>5, <1>6, Kinds DEF LogInv

\* There is an operation for each process, before and after a step.
LEMMA StaysMapped ==
  ASSUME op = [a \in Actors |-> op[a]], [Next]_vars
  PROVE  op' = [a \in Actors |-> op'[a]]
  <1> DEFINE Mapped == op' = [a \in Actors |-> op'[a]]
  <1>1. ASSUME NEW k, NEW h, WriteFile(k, h) \/ RemoveFile(k) PROVE Mapped
    BY <1>1 DEF WriteFile, RemoveFile
  <1>2. ASSUME NEW a, NEW full, StartSync(a, full) PROVE Mapped
    BY <1>2 DEF StartSync, Become
  <1>3. ASSUME NEW a, NEW k, Observe(a, k) \/ Unreadable(a, k) PROVE Mapped
    BY <1>3 DEF Observe, Unreadable, Become
  <1>4. ASSUME NEW a,
               \/ Append1(a) \/ IngestUnchanged(a) \/ IngestChanged(a) \/ Ingest(a) \/ ItemFails(a)
               \/ StartSweep(a) \/ SweepItem(a) \/ FinishSync(a)
        PROVE  Mapped
    BY <1>4 DEF Append1, IngestUnchanged, IngestChanged, Ingest, ItemFails, StartSweep, SweepItem,
                FinishSync, Become
  <1>5. ASSUME NEW a, NEW k, StartHide(a, k) \/ StartRestore(a, k) \/ StartPurge(a, k)
        PROVE  Mapped
    BY <1>5 DEF StartHide, StartRestore, StartPurge, Become
  <1>6. ASSUME NEW a, NEW h, ShredCheck(a, h) PROVE Mapped
    BY <1>6 DEF ShredCheck, Become
  <1>7. ASSUME NEW a, FinishHide(a) \/ PurgeRows(a) \/ ShredDelete(a) \/ FinishPurge(a) \/ Crash(a)
        PROVE  Mapped
    BY <1>7 DEF FinishHide, PurgeRows, ShredDelete, FinishPurge, Crash, Become
  <1>8. ASSUME UNCHANGED vars PROVE Mapped
    BY <1>8 DEF vars
  <1> HIDE DEF Mapped
  <1>9. ASSUME Next PROVE Mapped
    <2>1. (\E k \in Items, h \in Hashes : WriteFile(k, h)) \/ (\E k \in Items : RemoveFile(k)) => Mapped
      BY <1>1
    <2>2. ASSUME \E a \in Actors :
                 \/ \E full \in BOOLEAN : StartSync(a, full)
                 \/ \E k \in Items : Observe(a, k) \/ Unreadable(a, k)
                 \/ Append1(a) \/ IngestUnchanged(a) \/ IngestChanged(a) \/ Ingest(a)
                 \/ ItemFails(a) \/ StartSweep(a) \/ SweepItem(a) \/ FinishSync(a)
          PROVE  Mapped
      BY <2>2, <1>2, <1>3, <1>4
    <2>3. ASSUME \E a \in Actors :
                 \/ \E k \in Items : StartHide(a, k) \/ StartRestore(a, k) \/ StartPurge(a, k)
                 \/ FinishHide(a) \/ PurgeRows(a)
                 \/ \E h \in Hashes : ShredCheck(a, h)
                 \/ ShredDelete(a) \/ FinishPurge(a) \/ Crash(a)
          PROVE  Mapped
      BY <2>3, <1>5, <1>6, <1>7
    <2>4. QED
      BY <1>9, <2>1, <2>2, <2>3 DEF Next
  <1>10. Mapped
    BY <1>8, <1>9
  <1>11. QED
    BY <1>10 DEF Mapped

LEMMA TypeStep ==
  ASSUME LogInv, [Next]_vars
  PROVE  TypeOK'
  <1> USE DEF LogInv, TypeOK
  <1>1. log' \in Seq(Events) /\ rows' \in SUBSET Rows
    BY RowsStep DEF RowsInv
  <1>2. op' \in [Actors -> Operations]
    <2>1. op' = [a \in Actors |-> op'[a]]
      <3>1. op = [a \in Actors |-> op[a]]
        OBVIOUS
      <3>2. QED
        BY <3>1, StaysMapped
    <2>2. QED
      BY <2>1, HeldSteps
  <1>3. raced' \in SUBSET Items
    <2>1. ASSUME NEW a \in Actors, Closes(a), NEW t \in TargetsOf(op[a]), Stamps(t, SeqIn(op[a]))
          PROVE  raced' \in SUBSET Items
      <3>1. t.key \in Items
        BY TargetsAreRows DEF Rows
      <3>2. QED
        BY <2>1, <3>1 DEF Stamps
    <2>2. ASSUME NEW a \in Actors, Closes(a), op[a].at = "purge",
                 Removes(op[a].key, op[a].targets, SeqIn(op[a]))
          PROVE  raced' \in SUBSET Items
      BY <2>2, Closing DEF Removes
    <2>3. ASSUME NEW k \in Items, NEW h, NEW n, Adds(k, h, n) PROVE raced' \in SUBSET Items
      BY <2>3 DEF Adds
    <2>4. CASE Rests \/ Takes
      BY <2>4 DEF Rests, Takes
    <2>5. QED
      BY <2>1, <2>2, <2>3, <2>4, Kinds
  <1>4. artifacts' \in SUBSET Hashes /\ blobs' \in SUBSET Hashes
    <2>1. ASSUME NEW a \in Actors, IngestChanged(a)
          PROVE  artifacts' \in SUBSET Hashes /\ blobs' \in SUBSET Hashes
      <3>1. ItemOf(a).hash \in Hashes
        BY <2>1, ItemsAreObserved DEF IngestChanged, Observed
      <3>2. QED
        BY <2>1, <3>1 DEF IngestChanged, corpus
    <2>2. ASSUME NEW a \in Actors, Ingest(a)
          PROVE  artifacts' \in SUBSET Hashes /\ blobs' \in SUBSET Hashes
      <3>1. ItemOf(a).hash \in Hashes
        BY <2>2, ItemsAreObserved DEF Ingest, Observed
      <3>2. QED
        BY <2>2, <3>1 DEF Ingest
    <2>3. ASSUME NEW a \in Actors, NEW k \in Items, Observe(a, k)
          PROVE  artifacts' \in SUBSET Hashes /\ blobs' \in SUBSET Hashes
      BY <2>3 DEF Observe, corpus, Files
    <2>4. ASSUME NEW a \in Actors, SweepItem(a) \/ FinishHide(a) \/ PurgeRows(a) \/ Append1(a)
          PROVE  artifacts' = artifacts /\ blobs' = blobs
      BY <2>4 DEF SweepItem, FinishHide, PurgeRows, Append1, DeleteRow
    <2>5. QED
      BY <2>1, <2>2, <2>3, <2>4
         DEF Next, vars, corpus, WriteFile, RemoveFile, StartSync, Unreadable, IngestUnchanged,
             ItemFails, StartSweep, FinishSync, StartHide, StartRestore, StartPurge,
             ShredCheck, ShredDelete, FinishPurge, Crash
  <1>5. disk' \in [Items -> Files] /\ cursor' \in [Items -> 0..MaxEdits]
    <2>1. ASSUME NEW k \in Items, NEW h \in Hashes, WriteFile(k, h)
          PROVE  disk' \in [Items -> Files] /\ cursor' \in [Items -> 0..MaxEdits]
      BY <2>1, BoundsAssumption DEF WriteFile, Files
    <2>2. ASSUME NEW k \in Items, RemoveFile(k)
          PROVE  disk' \in [Items -> Files] /\ cursor' \in [Items -> 0..MaxEdits]
      BY <2>2 DEF RemoveFile, Files
    <2>3. ASSUME NEW a \in Actors, FinishSync(a)
          PROVE  disk' \in [Items -> Files] /\ cursor' \in [Items -> 0..MaxEdits]
      <3>1. disk' = disk /\ 0 \in 0..MaxEdits
        BY <2>3, BoundsAssumption DEF FinishSync
      <3>2. op[a].at \in {"walk", "sweep"} => op[a].cursor \in [Items -> 0..MaxEdits]
        BY Fields DEF Walking, Sweeping
      <3>3. QED
        BY <2>3, <3>1, <3>2 DEF FinishSync
    <2>4. CASE UNCHANGED vars
      BY <2>4 DEF vars
    <2>5. ASSUME NEW a \in Actors, NEW full \in BOOLEAN, StartSync(a, full)
          PROVE  disk' = disk /\ cursor' = cursor
      BY <2>5 DEF StartSync
    <2>6. ASSUME NEW a \in Actors, NEW k \in Items,
                 \/ Observe(a, k) \/ Unreadable(a, k)
                 \/ StartHide(a, k) \/ StartRestore(a, k) \/ StartPurge(a, k)
          PROVE  disk' = disk /\ cursor' = cursor
      BY <2>6 DEF Observe, Unreadable, StartHide, StartRestore, StartPurge
    <2>7. ASSUME NEW a \in Actors,
                 \/ Append1(a) \/ IngestUnchanged(a) \/ IngestChanged(a) \/ Ingest(a)
                 \/ ItemFails(a) \/ StartSweep(a) \/ SweepItem(a) \/ FinishHide(a)
          PROVE  disk' = disk /\ cursor' = cursor
      BY <2>7 DEF Append1, IngestUnchanged, IngestChanged, Ingest, ItemFails, StartSweep, SweepItem,
                  FinishHide
    <2>8. ASSUME NEW a \in Actors, PurgeRows(a) \/ ShredDelete(a) \/ FinishPurge(a) \/ Crash(a)
          PROVE  disk' = disk /\ cursor' = cursor
      BY <2>8 DEF PurgeRows, ShredDelete, FinishPurge, Crash
    <2>9. ASSUME NEW a \in Actors, NEW h \in Hashes, ShredCheck(a, h)
          PROVE  disk' = disk /\ cursor' = cursor
      BY <2>9 DEF ShredCheck
    <2>10. QED
      BY <2>1, <2>2, <2>3, <2>4, <2>5, <2>6, <2>7, <2>8, <2>9 DEF Next
  <1>6. QED
    BY <1>1, <1>2, <1>3, <1>4, <1>5

\* A version that is there after a step was there, or is numbered after those that
\* were.
LEMMA VersionsFrom ==
  ASSUME LogInv, [Next]_vars, NEW r \in rows'
  PROVE  \/ \E q \in rows : q.id = r.id /\ q.key = r.key /\ q.version = r.version
         \/ /\ r.id \in DOMAIN log /\ log[r.id].type = "gap"
            /\ \A s \in rows' : s.key = r.key /\ s # r => s.version < r.version
  <1> DEFINE Was(s) == \E q \in rows : q.id = s.id /\ q.key = s.key /\ q.version = s.version
             IsNew == /\ r.id \in DOMAIN log /\ log[r.id].type = "gap"
                      /\ \A s \in rows' : s.key = r.key /\ s # r => s.version < r.version
  <1>1. rows \in SUBSET Rows /\ RowsInv
    BY DEF LogInv, RowsInv
  <1>2. CASE rows' \subseteq rows
    BY <1>2
  <1>3. ASSUME NEW a \in Actors, Closes(a), NEW k \in Items, NEW h \in Hashes,
               Adds(k, h, SeqIn(op[a]))
        PROVE  Was(r) \/ IsNew
    <2>1. PICK n, new : n = SeqIn(op[a]) /\ new = Newest(k, h, n, rows)
      OBVIOUS
    <2>2. rows' = {Stepped(q, k) : q \in rows} \cup {new}
      BY <1>1, <1>3, <2>1, AddedRows DEF Adds
    <2>3. \A q \in rows : /\ Stepped(q, k).id = q.id /\ Stepped(q, k).key = q.key
                          /\ Stepped(q, k).version = q.version
      BY <1>1, SteppedRow
    <2>4. new.id = n /\ new.key = k /\ new.version = NextVersion(k, rows)
      BY <2>1 DEF Newest
    <2>5. \A q \in rows : q.key = k => q.version < new.version
      BY <1>1, <2>4, NextIsNewer
    <2>6. n \in DOMAIN log /\ log[n].type = "gap"
      BY <1>3, <2>1, Closing
    <2>7. CASE r = new
      BY <2>2, <2>3, <2>4, <2>5, <2>6, <2>7
    <2>8. CASE r # new
      BY <2>2, <2>3, <2>8
    <2>9. QED
      BY <2>7, <2>8
  <1>4. ASSUME NEW a \in Actors, Closes(a), NEW t \in TargetsOf(op[a]), Stamps(t, SeqIn(op[a]))
        PROVE  Was(r)
    <2>1. PICK n : n = SeqIn(op[a])
      OBVIOUS
    <2>2. n \in Seqs
      <3>1. n \in DOMAIN log
        BY <1>4, <2>1, Closing
      <3>2. QED
        BY <3>1, BoundsAssumption DEF LogInv, RowsInv, Numbered, Seqs
    <2>3. rows' = {Stamped(q, t.id, n) : q \in rows}
      BY <1>4, <2>1, StampedRows DEF Stamps
    <2>4. \A q \in rows : /\ Stamped(q, t.id, n).id = q.id /\ Stamped(q, t.id, n).key = q.key
                          /\ Stamped(q, t.id, n).version = q.version
      BY <1>1, <2>2, StampedRow
    <2>5. QED
      BY <2>3, <2>4
  <1>5. ASSUME NEW k, NEW ts, NEW n, Removes(k, ts, n) PROVE rows' \subseteq rows
    BY <1>5 DEF Removes
  <1> HIDE DEF IsNew, Was
  <1>6. Was(r) \/ IsNew
    <2>1. ASSUME rows' \subseteq rows PROVE Was(r)
      BY <1>2, <2>1 DEF Was
    <2>2. ASSUME NEW a \in Actors, op[a].at = "purge",
                 Removes(op[a].key, op[a].targets, SeqIn(op[a]))
          PROVE  Was(r)
      BY <1>5, <2>1, <2>2
    <2>3. CASE Rests \/ Takes
      BY <2>1, <2>3 DEF Rests, Takes
    <2>4. QED
      BY <1>3, <1>4, <2>2, <2>3, Kinds DEF LogInv
  <1>7. QED
    BY <1>6 DEF Was, IsNew

\* Rows that are kept, or read now, stay in the log; and a seq stays with the
\* transaction that took it.
LEMMA TargetsStep ==
  ASSUME LogInv, [Next]_vars
  PROVE  TargetsAreLogged' /\ PurgesTheOlder' /\ SeqsAreHeld'
  <1>1. \A r : Logged(r) => Logged(r)'
    BY RowsStep, LoggedBefore
  <1>2. TargetsAreLogged'
    <2> SUFFICES ASSUME NEW a \in Actors, NEW r \in TargetsOf(op'[a]) PROVE Logged(r)'
      BY DEF TargetsAreLogged
    <2>1. r \in TargetsOf(op[a]) \cup rows
      BY HeldSteps DEF LogInv
    <2>2. QED
      BY <1>1, <2>1 DEF LogInv, TargetsAreLogged, RowsInv, RowsAreLogged
  <1>3. PurgesTheOlder'
    <2> SUFFICES ASSUME NEW b \in Actors, op'[b].at = "purge",
                        NEW k, NEW ts, k = op'[b].key, ts = op'[b].targets
                 PROVE  /\ \A t \in ts : t.key = k
                        /\ \A q, r \in VersionsOf(k, rows') :
                             Seen(ts, q) /\ ~Seen(ts, r) => q.version < r.version
      BY DEF PurgesTheOlder
    <2>1. CASE ts = VersionsOf(k, rows) /\ Rests
      BY <2>1 DEF VersionsOf, Rests, Seen
    <2>2. CASE op[b].at = "purge" /\ k = op[b].key /\ ts = op[b].targets
      <3>1. /\ \A t \in ts : t.key = k /\ Logged(t)
            /\ \A q, r \in VersionsOf(k, rows) :
                 Seen(ts, q) /\ ~Seen(ts, r) => q.version < r.version
        BY <2>2 DEF LogInv, PurgesTheOlder, TargetsAreLogged, TargetsOf
      <3>2. ASSUME NEW q \in rows', NEW r \in rows', q.key = k, r.key = k,
                   Seen(ts, q), ~Seen(ts, r)
            PROVE  q.version < r.version
        <4>1. ~(q.id \in DOMAIN log /\ log[q.id].type = "gap")
          BY <3>1, <3>2 DEF Seen, Logged
        <4>2. PICK p \in rows : p.id = q.id /\ p.key = q.key /\ p.version = q.version
          BY <4>1, VersionsFrom
        <4>3. CASE \E s \in rows : s.id = r.id /\ s.key = r.key /\ s.version = r.version
          <5>1. PICK s \in rows : s.id = r.id /\ s.key = r.key /\ s.version = r.version
            BY <4>3
          <5>2. p \in VersionsOf(k, rows) /\ s \in VersionsOf(k, rows)
            BY <3>2, <4>2, <5>1 DEF VersionsOf
          <5>3. Seen(ts, p) /\ ~Seen(ts, s)
            BY <3>2, <4>2, <5>1 DEF Seen
          <5>4. QED
            BY <3>1, <4>2, <5>1, <5>2, <5>3
        <4>4. CASE \A s \in rows' : s.key = r.key /\ s # r => s.version < r.version
          BY <3>2, <4>4
        <4>5. QED
          BY <4>3, <4>4, VersionsFrom
      <3>3. QED
        BY <3>1, <3>2 DEF VersionsOf
    <2>3. QED
      BY <2>1, <2>2, HeldSteps DEF LogInv
  <1>4. SeqsAreHeld'
    <2>1. log \in Seq(Events) /\ TypeOK
      BY DEF LogInv, TypeOK
    <2> SUFFICES ASSUME NEW a \in Actors, SeqIn(op'[a]) # 0
                 PROVE  /\ SeqIn(op'[a]) \in DOMAIN log' /\ log'[SeqIn(op'[a])].type = "gap"
                        /\ \A t \in TargetsOf(op'[a]) : t.id < SeqIn(op'[a])
                        /\ \A b \in Actors : SeqIn(op'[b]) = SeqIn(op'[a]) => b = a
      <3>1. \A o : SeqIn(o)' = SeqIn(o) /\ TargetsOf(o)' = TargetsOf(o)
        BY DEF SeqIn, TargetsOf
      <3>2. QED
        BY DEF SeqsAreHeld, SeqIn, TargetsOf
    <2>2. /\ TargetsOf(op'[a]) \subseteq TargetsOf(op[a])
          /\ SeqIn(op'[a]) = SeqIn(op[a]) \/ (Takes /\ SeqIn(op'[a]) = Len(log) + 1)
      BY <2>1, HeldSteps
    <2>3. CASE Takes /\ SeqIn(op'[a]) = Len(log) + 1 /\ SeqIn(op'[a]) # SeqIn(op[a])
      <3>1. /\ Len(log) \in Nat
            /\ DOMAIN log' = DOMAIN log \cup {Len(log) + 1}
            /\ log'[Len(log) + 1].type = "gap"
            /\ \A i \in DOMAIN log : i \in Nat /\ i <= Len(log)
        BY <2>1, <2>3, SeqTaken DEF Event
      <3>2. \A t \in TargetsOf(op'[a]) : t.id < Len(log) + 1
        BY <2>2, <3>1 DEF LogInv, TargetsAreLogged, Logged
      <3>3. ASSUME NEW b \in Actors, b # a PROVE SeqIn(op'[b]) # Len(log) + 1
        <4>1. op'[b] = op[b]
          BY <2>1, <2>3, <3>3, OneMoves
        <4>2. SeqIn(op[b]) # 0 => SeqIn(op[b]) \in DOMAIN log
          BY DEF LogInv, SeqsAreHeld
        <4>3. SeqIn(op[b]) # Len(log) + 1
          BY <3>1, <4>2
        <4>4. QED
          BY <4>1, <4>3
      <3>4. QED
        BY <2>3, <3>1, <3>2, <3>3
    <2>4. CASE SeqIn(op'[a]) = SeqIn(op[a])
      <3>1. /\ SeqIn(op[a]) # 0
            /\ SeqIn(op[a]) \in DOMAIN log /\ log[SeqIn(op[a])].type = "gap"
            /\ \A t \in TargetsOf(op[a]) : t.id < SeqIn(op[a])
            /\ \A b \in Actors : SeqIn(op[b]) = SeqIn(op[a]) => b = a
        BY <2>4 DEF LogInv, SeqsAreHeld
      <3>2. SeqIn(op[a]) \in DOMAIN log' /\ log'[SeqIn(op[a])].type = "gap"
        <4>1. CASE Rests
          BY <3>1, <4>1 DEF Rests
        <4>2. CASE Takes
          BY <2>1, <3>1, <4>2, SeqTaken
        <4>3. ASSUME NEW c \in Actors, Closes(c), NEW e, log' = [log EXCEPT ![SeqIn(op[c])] = e]
              PROVE  SeqIn(op[a]) \in DOMAIN log' /\ log'[SeqIn(op[a])].type = "gap"
          <5>1. SeqIn(op[c]) # SeqIn(op[a])
            BY <2>4, <3>1, <4>3 DEF Closes
          <5>2. PICK m, n : m = SeqIn(op[c]) /\ n = SeqIn(op[a])
            OBVIOUS
          <5>3. log' = [log EXCEPT ![m] = e] /\ n # m /\ n \in DOMAIN log /\ log[n].type = "gap"
            BY <3>1, <4>3, <5>1, <5>2
          <5>4. DOMAIN log' = DOMAIN log /\ log'[n] = log[n]
            BY <2>1, <5>3
          <5>5. QED
            BY <5>2, <5>3, <5>4
        <4>4. ASSUME NEW c \in Actors, Closes(c),
                     \/ \E k \in Items, h \in Hashes : Adds(k, h, SeqIn(op[c]))
                     \/ \E t \in TargetsOf(op[c]) : Stamps(t, SeqIn(op[c]))
                     \/ op[c].at = "purge" /\ Removes(op[c].key, op[c].targets, SeqIn(op[c]))
              PROVE  \E e : log' = [log EXCEPT ![SeqIn(op[c])] = e]
          <5>1. ASSUME NEW k, NEW h, NEW n, Adds(k, h, n) PROVE \E e : log' = [log EXCEPT ![n] = e]
            BY <5>1 DEF Adds
          <5>2. ASSUME NEW t, NEW n, Stamps(t, n) PROVE \E e : log' = [log EXCEPT ![n] = e]
            BY <5>2 DEF Stamps
          <5>3. ASSUME NEW k, NEW ts, NEW n, Removes(k, ts, n)
                PROVE  \E e : log' = [log EXCEPT ![n] = e]
            BY <5>3 DEF Removes
          <5>4. QED
            BY <4>4, <5>1, <5>2, <5>3
        <4>5. QED
          BY <2>1, <4>1, <4>2, <4>3, <4>4, Kinds
      <3>3. ASSUME NEW b \in Actors, SeqIn(op'[b]) = SeqIn(op'[a]) PROVE b = a
        <4>1. CASE SeqIn(op'[b]) = SeqIn(op[b])
          BY <2>4, <3>1, <3>3, <4>1
        <4>2. CASE Takes /\ SeqIn(op'[b]) = Len(log) + 1
          BY <2>1, <2>4, <3>1, <3>3, <4>2
        <4>3. QED
          BY <2>1, <3>3, <4>1, <4>2, HeldSteps
      <3>4. QED
        BY <2>2, <2>4, <3>1, <3>2, <3>3
    <2>5. QED
      BY <2>2, <2>3, <2>4
  <1>5. QED
    BY <1>2, <1>3, <1>4

LEMMA LogInit == Init => LogInv
  <1> SUFFICES ASSUME Init PROVE LogInv
    OBVIOUS
  <1> USE DEF Init
  <1>1. TypeOK
    BY BoundsAssumption DEF TypeOK, Files, NoFile, Operations
  <1>2. RowsInv
    BY BoundsAssumption DEF RowsInv, Numbered, RowsAreLogged, RowsAreDistinct, HeadIsNewest,
                            ObservedIsThere, TombstonesAreLogged
  <1>3. TargetsAreLogged /\ PurgesTheOlder /\ SeqsAreHeld
    BY DEF TargetsAreLogged, PurgesTheOlder, SeqsAreHeld, TargetsOf, SeqIn, Idle
  <1>4. QED
    BY <1>1, <1>2, <1>3 DEF LogInv

THEOREM Invariance == Spec => []LogInv
  <1>1. LogInv /\ [Next]_vars => LogInv'
    BY TypeStep, RowsStep, TargetsStep DEF LogInv
  <1>2. QED
    BY LogInit, <1>1, PTL DEF Spec

\* Every row, file, cursor and operation has the shape the code gives it, whatever
\* runs beside what (models.py, and the local variables of sync.py and deletion.py).
THEOREM TypeCorrect == Spec => []TypeOK
  <1>1. LogInv => TypeOK
    BY DEF LogInv
  <1>2. QED
    BY <1>1, Invariance, PTL

\* However many processes add, hide and purge versions at once, an item with any
\* version has one current version, and it is the one numbered last (repositories.py
\* add_version).
THEOREM TheNewestIsCurrent == Spec => []NewestIsCurrent
  <1>1. LogInv => NewestIsCurrent
    <2> SUFFICES ASSUME LogInv, NEW r \in rows
                 PROVE  /\ Cardinality(CurrentOf(r.key, rows)) = 1
                        /\ \A c \in CurrentOf(r.key, rows) : r.version <= c.version
      BY DEF NewestIsCurrent
    <2>1. PICK c \in rows : CurrentOf(r.key, rows) = {c} /\ r.version <= c.version
      BY DEF LogInv, RowsInv, HeadIsNewest
    <2>2. QED
      BY <2>1, FS_Singleton
  <1>2. QED
    BY <1>1, Invariance, PTL

\* A tombstone is stamped from a later deletion of the same item, also when the row
\* was read long before it is stamped (repositories.py tombstone, sync.py and
\* deletion.py which read first).
THEOREM EveryTombstoneIsLogged == Spec => []TombstonesAreLogged
  <1>1. LogInv => TombstonesAreLogged
    BY DEF LogInv, RowsInv
  <1>2. QED
    BY <1>1, Invariance, PTL
-----------------------------------------------------------------------------
(* Files, walks and cursors *)

\* A step writes or removes a file, or one actor goes on with a sync or an item, or
\* with a deletion.
SyncSteps(a) ==
  \/ \E full \in BOOLEAN : StartSync(a, full)
  \/ \E k \in Items : Observe(a, k) \/ Unreadable(a, k)
  \/ Append1(a) \/ IngestUnchanged(a) \/ IngestChanged(a) \/ Ingest(a) \/ ItemFails(a)
  \/ StartSweep(a) \/ SweepItem(a) \/ FinishSync(a)

DeletionSteps(a) ==
  \/ \E k \in Items : StartHide(a, k) \/ StartRestore(a, k) \/ StartPurge(a, k)
  \/ FinishHide(a) \/ PurgeRows(a)
  \/ \E h \in Hashes : ShredCheck(a, h)
  \/ ShredDelete(a) \/ FinishPurge(a) \/ Crash(a)

LEMMA StepKinds ==
  ASSUME [Next]_vars
  PROVE  \/ \E k \in Items, h \in Hashes : WriteFile(k, h)
         \/ \E k \in Items : RemoveFile(k)
         \/ \E a \in Actors : SyncSteps(a)
         \/ \E a \in Actors : DeletionSteps(a)
         \/ UNCHANGED vars
  BY DEF Next, SyncSteps, DeletionSteps

\* A file that changes is written, which counts its fingerprint up, or removed.
LEMMA FileSteps ==
  ASSUME TypeOK, [Next]_vars, NEW k \in Items
  PROVE  /\ disk[k].fp \in Nat
         /\ \/ disk'[k] = disk[k]
            \/ disk'[k].fp = disk[k].fp + 1
            \/ disk'[k].hash = Gone /\ disk'[k].fp = disk[k].fp
  <1> DEFINE Goal == \/ disk'[k] = disk[k]
                     \/ disk'[k].fp = disk[k].fp + 1
                     \/ disk'[k].hash = Gone /\ disk'[k].fp = disk[k].fp
  <1>1. disk \in [Items -> Files] /\ disk[k].fp \in Nat
    BY BoundsAssumption DEF TypeOK, Files
  <1>2. ASSUME NEW j \in Items, NEW h \in Hashes, WriteFile(j, h) PROVE Goal
    BY <1>1, <1>2 DEF WriteFile
  <1>3. ASSUME NEW j \in Items, RemoveFile(j) PROVE Goal
    BY <1>1, <1>3 DEF RemoveFile, Files
  <1>4. ASSUME disk' = disk PROVE Goal
    BY <1>4
  <1> HIDE DEF Goal
  <1>5. Goal
    <2>1. ASSUME NEW a \in Actors, SyncSteps(a) PROVE disk' = disk
      BY <2>1 DEF SyncSteps, StartSync, Observe, Unreadable, Append1, IngestUnchanged,
                  IngestChanged, Ingest, ItemFails, StartSweep, SweepItem, FinishSync
    <2>2. ASSUME NEW a \in Actors, DeletionSteps(a) PROVE disk' = disk
      BY <2>2 DEF DeletionSteps, StartHide, StartRestore, StartPurge, FinishHide, PurgeRows,
                  ShredCheck, ShredDelete, FinishPurge, Crash
    <2>3. UNCHANGED vars => disk' = disk
      BY DEF vars
    <2>4. QED
      BY <1>2, <1>3, <1>4, <2>1, <2>2, <2>3, StepKinds
  <1>6. QED
    BY <1>1, <1>5 DEF Goal

\* A walk begins with the cursor and the fingerprints of that moment, reads files that
\* are there now, and records what it read with the fingerprint it began with.
WalkBegins(o) ==
  /\ o.cursor = cursor
  /\ o.listing = [k \in Items |-> disk[k].fp]
  /\ o.item = Gone
  /\ UNCHANGED <<corpus, disk, cursor>>

WalkReads(o, p) ==
  /\ p.cursor = o.cursor
  /\ p.listing = o.listing
  /\ \E k \in Items : /\ p.item.key = k /\ p.item.hash = disk[k].hash
                     /\ disk[k].hash \in blobs'
  /\ UNCHANGED <<disk, cursor>>

SameItem(o, p) == o.item # Gone /\ p.item.key = o.item.key /\ p.item.hash = o.item.hash

WalkKeeps(o, p) ==
  /\ p.cursor = o.cursor
  /\ p.listing = o.listing
  /\ p.item = Gone \/ SameItem(o, p)
  /\ blobs \subseteq blobs'
  /\ UNCHANGED <<disk, cursor>>

Records(k, h) ==
  \/ /\ rows' = rows /\ log' = log
     /\ \E r \in CurrentOf(k, rows) : r.hash = h
  \/ \E n \in Seqs : /\ Commits(n, "observed", k, h)
                    /\ rows' = AddVersion(k, h, n, rows)

WalkRecords(o, p) ==
  /\ o.item # Gone /\ p.at = "walk"
  /\ Records(o.item.key, o.item.hash)
  /\ p.cursor = [o.cursor EXCEPT ![o.item.key] = o.listing[o.item.key]]
  /\ p.listing = o.listing
  /\ p.item = Gone
  /\ UNCHANGED <<disk, cursor>>

\* A restore observes what is current, and the bytes are there.
RestoreBegins(o) ==
  /\ \E r \in CurrentOf(o.item.key, rows) : r.hash = o.item.hash
  /\ o.item.hash \in blobs
  /\ UNCHANGED <<rows, blobs>>

RestoreKeeps(o, p) == o.at = "restore" /\ SameItem(o, p) /\ blobs \subseteq blobs' /\ rows' = rows

\* Bytes are doomed once no row refers to them.
ShredAsks(o) ==
  /\ o.doomed = Gone \/ \A r \in rows : r.hash # o.doomed
  /\ rows' = rows \/ o.doomed = Gone

\* An ingest that ends has its content among the current versions.
LEMMA IngestRecords ==
  ASSUME LogInv, NEW a \in Actors, IngestUnchanged(a) \/ Ingest(a)
  PROVE  /\ ItemOf(a) # Gone /\ Become(a, Recorded(a))
         /\ Records(ItemOf(a).key, ItemOf(a).hash)
         /\ blobs' = blobs /\ UNCHANGED <<disk, cursor>>
  <1>1. CASE IngestUnchanged(a)
    BY <1>1 DEF IngestUnchanged, IsCurrent, Records, corpus
  <1>2. CASE Ingest(a)
    <2>1. PICK n, k, h : n = SeqIn(op[a]) /\ k = ItemOf(a).key /\ h = ItemOf(a).hash
      OBVIOUS
    <2>2. /\ log' = [log EXCEPT ![n] = Event(n, "observed", k, h)]
          /\ rows' = AddVersion(k, h, n, rows) /\ n # 0
      BY <1>2, <2>1, SeqsAreIn DEF Ingest, Commit, Event
    <2>3. n \in DOMAIN log /\ log[n].type = "gap"
      BY <2>1, <2>2 DEF LogInv, SeqsAreHeld
    <2>4. n \in Seqs
      BY <2>3, BoundsAssumption DEF LogInv, RowsInv, Numbered, Seqs
    <2>5. Records(k, h)
      BY <2>2, <2>3, <2>4 DEF Records, Commits
    <2>6. QED
      BY <1>2, <2>1, <2>5 DEF Ingest
  <1>3. QED
    BY <1>1, <1>2

LEMMA WalkSteps ==
  ASSUME LogInv, [Next]_vars, NEW b \in Actors
  PROVE  /\ op'[b].at = "walk" =>
              \/ op'[b] = op[b]
              \/ WalkBegins(op'[b])
              \/ /\ op[b].at = "walk"
                 /\ \/ WalkReads(op[b], op'[b]) \/ WalkKeeps(op[b], op'[b])
                    \/ WalkRecords(op[b], op'[b])
         /\ op'[b].at = "sweep" =>
              op[b].at \in {"walk", "sweep"} /\ op'[b].cursor = op[b].cursor
         /\ op'[b].at = "restore" =>
              op'[b] = op[b] \/ RestoreBegins(op'[b]) \/ RestoreKeeps(op[b], op'[b])
         /\ op'[b].at = "shred" => op'[b] = op[b] \/ ShredAsks(op'[b])
  <1> DEFINE Holds(o) ==
               /\ o.at = "walk" =>
                    \/ o = op[b]
                    \/ WalkBegins(o)
                    \/ /\ op[b].at = "walk"
                       /\ \/ WalkReads(op[b], o) \/ WalkKeeps(op[b], o)
                          \/ WalkRecords(op[b], o)
               /\ o.at = "sweep" => op[b].at \in {"walk", "sweep"} /\ o.cursor = op[b].cursor
               /\ o.at = "restore" => o = op[b] \/ RestoreBegins(o) \/ RestoreKeeps(op[b], o)
               /\ o.at = "shred" => o = op[b] \/ ShredAsks(o)
  <1>0. TypeOK
    BY DEF LogInv
  <1>1. Holds(op[b])
    OBVIOUS
  <1>2. ASSUME NEW o, o.at \notin {"walk", "sweep", "restore", "shred"} PROVE Holds(o)
    BY <1>2
  <1>3. ASSUME NEW a \in Actors, NEW o, Become(a, o), a = b => Holds(o)
        PROVE  Holds(op'[b])
    BY <1>0, <1>1, <1>3 DEF Become, TypeOK
  <1> HIDE DEF Holds
  <1>4. ASSUME op' = op PROVE Holds(op'[b])
    <2>1. op'[b] = op[b]
      BY <1>4
    <2>2. QED
      BY <1>1, <2>1
  <1>5. ASSUME NEW a \in Actors, NEW full \in BOOLEAN, StartSync(a, full) PROVE Holds(op'[b])
    <2> DEFINE o == [at |-> "walk", seq |-> 0, full |-> full,
                todo |-> {k \in Items : /\ disk[k].hash # Gone
                                        /\ full \/ cursor[k] # disk[k].fp},
                seen |-> {},
                listing |-> [k \in Items |-> disk[k].fp],
                cursor |-> cursor,
                item |-> Gone]
    <2>1. o.at = "walk" /\ WalkBegins(o)
      BY <1>5 DEF StartSync, WalkBegins
    <2>2. Holds(o)
      BY <2>1 DEF Holds
    <2>3. QED
      BY <1>3, <1>5, <2>2 DEF StartSync
  <1>6. ASSUME NEW a \in Actors, op[a].at = "walk" PROVE op[a] \in Walking
    BY <1>0, <1>6, Fields DEF TypeOK
  <1>7. ASSUME NEW a \in Actors, NEW k \in Items, Observe(a, k) PROVE Holds(op'[b])
    <2> DEFINE o == [op[a] EXCEPT !.todo = @ \ {k}, !.seen = @ \cup {k},
                                  !.item = [key |-> k, hash |-> disk[k].hash,
                                           changed |-> FALSE]]
    <2>1. /\ op[a] \in Walking /\ disk[k].hash \in blobs' /\ UNCHANGED <<disk, cursor>>
          /\ Become(a, o) /\ op[a].at = "walk"
      BY <1>6, <1>7 DEF Observe
    <2>2. /\ o.at = "walk" /\ o.cursor = op[a].cursor /\ o.listing = op[a].listing
          /\ o.item.key = k /\ o.item.hash = disk[k].hash
      BY <2>1 DEF Walking
    <2>3. a = b => Holds(o)
      BY <2>1, <2>2 DEF Holds, WalkReads
    <2>4. QED
      BY <1>3, <2>1, <2>3
  <1>8. ASSUME NEW a \in Actors, NEW k \in Items, Unreadable(a, k) PROVE Holds(op'[b])
    <2> DEFINE o == [op[a] EXCEPT !.todo = @ \ {k}]
    <2>1. /\ op[a] \in Walking /\ op[a].item = Gone /\ UNCHANGED <<blobs, disk, cursor>>
          /\ Become(a, o) /\ op[a].at = "walk"
      BY <1>6, <1>8 DEF Unreadable
    <2>2. /\ o.at = "walk" /\ o.cursor = op[a].cursor /\ o.listing = op[a].listing
          /\ o.item = Gone
      BY <2>1 DEF Walking
    <2>3. a = b => Holds(o)
      BY <2>1, <2>2 DEF Holds, WalkKeeps
    <2>4. QED
      BY <1>3, <2>1, <2>3
  <1>9. ASSUME NEW a \in Actors, ItemFails(a) PROVE Holds(op'[b])
    <2> DEFINE o == [op[a] EXCEPT !.seq = 0, !.item = Gone]
    <2>1. /\ op[a] \in Walking /\ UNCHANGED <<blobs, disk, cursor>>
          /\ Become(a, o) /\ op[a].at = "walk"
      BY <1>6, <1>9 DEF ItemFails
    <2>2. /\ o.at = "walk" /\ o.cursor = op[a].cursor /\ o.listing = op[a].listing
          /\ o.item = Gone
      BY <2>1 DEF Walking
    <2>3. a = b => Holds(o)
      BY <2>1, <2>2 DEF Holds, WalkKeeps
    <2>4. QED
      BY <1>3, <2>1, <2>3
  <1>10. ASSUME NEW a \in Actors, IngestUnchanged(a) \/ Ingest(a) PROVE Holds(op'[b])
    <2>1. PICK r : r = Recorded(a)
      OBVIOUS
    <2>2. /\ ItemOf(a) # Gone /\ Become(a, r)
          /\ Records(ItemOf(a).key, ItemOf(a).hash) /\ UNCHANGED <<disk, cursor>>
          /\ ItemOf(a) = op[a].item
      BY <1>0, <1>10, <2>1, IngestRecords, ItemsAreObserved
    <2>3. CASE op[a].at = "restore"
      <3>1. Holds(Idle)
        BY <1>2 DEF Idle
      <3>2. QED
        BY <1>0, <1>3, <2>1, <2>2, <2>3, <3>1, RecordedLeft
    <2>4. CASE op[a].at = "walk"
      <3>1. /\ r.at = "walk" /\ r.item = Gone /\ r.listing = op[a].listing
            /\ r.cursor = [op[a].cursor EXCEPT ![op[a].item.key] = op[a].listing[op[a].item.key]]
        BY <1>0, <2>1, <2>2, <2>4, RecordedLeft
      <3>2. WalkRecords(op[a], r)
        BY <2>2, <3>1 DEF WalkRecords
      <3>3. a = b => Holds(r)
        BY <2>4, <3>1, <3>2 DEF Holds
      <3>4. QED
        BY <1>3, <2>2, <3>3
    <2>5. QED
      BY <1>0, <2>2, <2>3, <2>4, ItemsAreObserved
  <1>11. ASSUME NEW a \in Actors, ItemOf(a) # Gone, NEW o, Become(a, o), o.at = op[a].at,
                UNCHANGED <<rows, disk, cursor>>, blobs \subseteq blobs',
                o.item.key = op[a].item.key, o.item.hash = op[a].item.hash,
                op[a].at = "walk" => o.cursor = op[a].cursor /\ o.listing = op[a].listing
         PROVE  Holds(op'[b])
    <2>1. ItemOf(a) = op[a].item /\ op[a].at \in {"walk", "restore"}
      BY <1>0, <1>11, ItemsAreObserved
    <2>2. SameItem(op[a], o)
      BY <1>11, <2>1 DEF SameItem
    <2>3. a = b => Holds(o)
      BY <1>11, <2>1, <2>2 DEF Holds, WalkKeeps, RestoreKeeps
    <2>4. QED
      BY <1>3, <1>11, <2>3
  <1>12. ASSUME NEW a \in Actors, IngestChanged(a) PROVE Holds(op'[b])
    <2>1. PICK i : i = [op[a].item EXCEPT !.changed = TRUE]
      OBVIOUS
    <2> DEFINE o == [op[a] EXCEPT !.item = i]
    <2>2. /\ ItemOf(a) # Gone /\ Become(a, o) /\ UNCHANGED <<rows, disk, cursor>>
          /\ blobs \subseteq blobs'
      BY <1>12, <2>1 DEF IngestChanged, corpus
    <2>3. i.key = op[a].item.key /\ i.hash = op[a].item.hash
      BY <1>0, <2>1, <2>2, ItemsAreObserved DEF Observed
    <2>4. /\ o.at = op[a].at /\ o.item = i
          /\ op[a].at = "walk" => o.cursor = op[a].cursor /\ o.listing = op[a].listing
      BY <1>0, <2>2, ItemsAreObserved DEF Walking, Restoring
    <2> HIDE DEF o
    <2>5. QED
      BY <1>11, <2>2, <2>3, <2>4
  <1>13. ASSUME NEW a \in Actors, Append1(a) PROVE Holds(op'[b])
    <2>1. PICK n : n = Len(log) + 1
      OBVIOUS
    <2> DEFINE o == [op[a] EXCEPT !.seq = n]
    <2>2. /\ Become(a, o) /\ UNCHANGED <<rows, blobs, disk, cursor>>
          /\ HasEventToWrite(a)
      BY <1>13, <2>1 DEF Append1
    <2>3. CASE ItemOf(a) # Gone
      <3>1. /\ o.at = op[a].at /\ o.item = op[a].item
            /\ op[a].at = "walk" => o.cursor = op[a].cursor /\ o.listing = op[a].listing
        BY <1>0, <2>3, ItemsAreObserved DEF Walking, Restoring
      <3> HIDE DEF o
      <3>2. QED
        BY <1>11, <2>2, <2>3, <3>1
    <2>4. CASE op[a].at = "sweep"
      <3>1. op[a] \in Sweeping
        BY <1>0, <2>4, Fields DEF TypeOK
      <3>2. o.at = "sweep" /\ o.cursor = op[a].cursor
        BY <3>1 DEF Sweeping
      <3>3. a = b => Holds(o)
        BY <2>4, <3>2 DEF Holds
      <3>4. QED
        BY <1>3, <2>2, <3>3
    <2>5. CASE op[a].at \in {"hide", "purge"}
      <3>1. op[a] \in Hiding \cup Purging
        BY <1>0, <2>5, Fields DEF TypeOK
      <3>2. o.at \in {"hide", "purge"}
        BY <2>5, <3>1 DEF Hiding, Purging
      <3>3. Holds(o)
        BY <1>2, <3>2
      <3>4. QED
        BY <1>3, <2>2, <3>3
    <2>6. QED
      BY <2>2, <2>3, <2>4, <2>5 DEF HasEventToWrite, ItemOf
  <1>14. ASSUME NEW a \in Actors, StartSweep(a) PROVE Holds(op'[b])
    <2> DEFINE o == [at |-> "sweep", seq |-> 0, seen |-> op[a].seen, cursor |-> op[a].cursor,
                known |-> {r \in rows : /\ r.current /\ r.deleted = 0
                                        /\ r.key \notin op[a].seen}]
    <2>1. a = b => Holds(o)
      BY <1>14 DEF StartSweep, Holds
    <2>2. QED
      BY <1>3, <1>14, <2>1 DEF StartSweep
  <1>15. ASSUME NEW a \in Actors, SweepItem(a) PROVE Holds(op'[b])
    <2>1. PICK r \in op[a].known : Become(a, [op[a] EXCEPT !.seq = 0, !.known = @ \ {r}])
      BY <1>15 DEF SweepItem
    <2> DEFINE o == [op[a] EXCEPT !.seq = 0, !.known = @ \ {r}]
    <2>2. op[a] \in Sweeping
      BY <1>0, <1>15, Fields DEF SweepItem, TypeOK
    <2>3. o.at = "sweep" /\ op[a].at = "sweep" /\ o.cursor = op[a].cursor
      BY <2>2 DEF Sweeping
    <2>4. a = b => Holds(o)
      BY <2>3 DEF Holds
    <2>5. QED
      BY <1>3, <2>1, <2>4
  <1>16. ASSUME NEW a \in Actors, NEW k \in Items, StartHide(a, k) \/ StartPurge(a, k)
         PROVE  Holds(op'[b])
    BY <1>2, <1>3, <1>16 DEF StartHide, StartPurge
  <1>17. ASSUME NEW a \in Actors, PurgeRows(a) PROVE Holds(op'[b])
    <2>1. a = b => Holds([at |-> "shred", todo |-> {r.hash : r \in op[a].targets}, doomed |-> Gone])
      BY DEF Holds, ShredAsks
    <2>2. QED
      BY <1>3, <1>17, <2>1 DEF PurgeRows
  <1>18. ASSUME NEW a \in Actors, NEW h \in Hashes, ShredCheck(a, h) PROVE Holds(op'[b])
    <2> DEFINE o == [op[a] EXCEPT !.todo = @ \ {h},
                        !.doomed = IF \E r \in rows : r.hash = h THEN Gone ELSE h]
    <2>1. op[a] \in Shredding /\ Become(a, o) /\ rows' = rows
      BY <1>0, <1>18, Fields DEF ShredCheck, TypeOK, corpus
    <2>2. o.at = "shred" /\ (o.doomed = Gone \/ \A r \in rows : r.hash # o.doomed)
      BY <2>1 DEF Shredding
    <2>3. Holds(o)
      BY <2>1, <2>2 DEF Holds, ShredAsks
    <2>4. QED
      BY <1>3, <2>1, <2>3
  <1>19. ASSUME NEW a \in Actors, ShredDelete(a) PROVE Holds(op'[b])
    <2>1. op[a] \in Shredding /\ Become(a, [op[a] EXCEPT !.doomed = Gone])
      BY <1>0, <1>19, Fields DEF ShredDelete, TypeOK
    <2>2. /\ [op[a] EXCEPT !.doomed = Gone].at = "shred"
          /\ [op[a] EXCEPT !.doomed = Gone].doomed = Gone
      BY <2>1 DEF Shredding
    <2>3. Holds([op[a] EXCEPT !.doomed = Gone])
      BY <2>2 DEF Holds, ShredAsks
    <2>4. QED
      BY <1>3, <2>1, <2>3
  <1>20. ASSUME NEW a \in Actors, FinishSync(a) \/ FinishHide(a) \/ FinishPurge(a) \/ Crash(a)
         PROVE  Holds(op'[b])
    BY <1>2, <1>3, <1>20 DEF FinishSync, FinishHide, FinishPurge, Crash, Idle
  <1>21. ASSUME NEW a \in Actors, NEW k \in Items, StartRestore(a, k) PROVE Holds(op'[b])
    <2>1. PICK r \in CurrentOf(k, rows) :
            /\ r.hash \in blobs
            /\ Become(a, [at |-> "restore", seq |-> 0,
                          item |-> [key |-> k, hash |-> r.hash, changed |-> FALSE]])
      BY <1>21 DEF StartRestore
    <2> DEFINE o == [at |-> "restore", seq |-> 0,
                     item |-> [key |-> k, hash |-> r.hash, changed |-> FALSE]]
    <2>2. rows' = rows /\ blobs' = blobs
      BY <1>21 DEF StartRestore, corpus
    <2>3. RestoreBegins(o)
      BY <2>1, <2>2 DEF RestoreBegins
    <2>4. Holds(o)
      BY <2>3 DEF Holds
    <2>5. QED
      BY <1>3, <2>1, <2>4
  <1>22. ASSUME NEW k \in Items, NEW h \in Hashes, WriteFile(k, h) PROVE op' = op
    BY <1>22 DEF WriteFile
  <1>23. ASSUME NEW k \in Items, RemoveFile(k) PROVE op' = op
    BY <1>23 DEF RemoveFile
  <1>24. Holds(op'[b])
    <2>1. CASE UNCHANGED vars
      BY <1>4, <2>1 DEF vars
    <2>2. CASE Next
      BY <1>4, <1>5, <1>7, <1>8, <1>9, <1>10, <1>14, <1>15, <1>16, <1>17, <1>18, <1>19, <1>20,
         <1>21, <1>22, <1>23, <1>12, <1>13, <2>2 DEF Next
    <2>3. QED
      BY <2>1, <2>2
  <1>25. QED
    BY <1>24 DEF Holds

\* The stored cursor changes only when a sync ends, to what that sync carried along.
LEMMA CursorSteps ==
  ASSUME TypeOK, [Next]_vars
  PROVE  \/ cursor' = cursor
         \/ \E a \in Actors :
              /\ op[a].at \in {"walk", "sweep"}
              /\ \A k \in Items : cursor'[k] = op[a].cursor[k] \/ cursor'[k] = 0
              /\ UNCHANGED <<corpus, disk>>
              /\ Become(a, Idle)
  <1> DEFINE Ends(a) == /\ op[a].at \in {"walk", "sweep"}
                        /\ \A k \in Items : cursor'[k] = op[a].cursor[k] \/ cursor'[k] = 0
                        /\ UNCHANGED <<corpus, disk>>
                        /\ Become(a, Idle)
  <1>1. ASSUME NEW a \in Actors, FinishSync(a) PROVE Ends(a)
    BY <1>1 DEF FinishSync
  <1> HIDE DEF Ends
  <1>2. cursor' = cursor \/ \E a \in Actors : FinishSync(a)
    <2>1. ASSUME NEW a \in Actors, SyncSteps(a) PROVE cursor' = cursor \/ FinishSync(a)
      BY <2>1 DEF SyncSteps, StartSync, Observe, Unreadable, Append1, IngestUnchanged,
                  IngestChanged, Ingest, ItemFails, StartSweep, SweepItem
    <2>2. ASSUME NEW a \in Actors, DeletionSteps(a) PROVE cursor' = cursor
      BY <2>2 DEF DeletionSteps, StartHide, StartRestore, StartPurge, FinishHide, PurgeRows,
                  ShredCheck, ShredDelete, FinishPurge, Crash
    <2>3. ASSUME NEW k \in Items, RemoveFile(k) \/ \E h \in Hashes : WriteFile(k, h)
          PROVE  cursor' = cursor
      BY <2>3 DEF WriteFile, RemoveFile
    <2>4. UNCHANGED vars => cursor' = cursor
      BY DEF vars
    <2>5. QED
      BY <2>1, <2>2, <2>3, <2>4, StepKinds
  <1>3. QED
    BY <1>1, <1>2 DEF Ends

-----------------------------------------------------------------------------
(* Cursors are honest *)

HasObserved(k, h) == \E i \in EventsOf(k, "observed") : log[i].hash = h

LEMMA ObservedStays ==
  ASSUME LogInv, [Next]_vars, NEW k, NEW h, HasObserved(k, h)
  PROVE  HasObserved(k, h)'
  BY RowsStep DEF HasObserved, EventsOf, LogKept

\* An ingest leaves its content in the log, whether it appends an event or not.
LEMMA IngestObserves ==
  ASSUME LogInv, [Next]_vars, NEW k \in Items, NEW h \in Hashes, Records(k, h)
  PROVE  HasObserved(k, h)'
  <1>1. CASE \E r \in CurrentOf(k, rows) : r.hash = h
    <2>1. PICK r \in rows : r.key = k /\ r.hash = h
      BY <1>1 DEF CurrentOf
    <2>2. Logged(r)
      BY <2>1 DEF LogInv, RowsInv, RowsAreLogged
    <2>3. r.id \in EventsOf(k, "observed") /\ log[r.id].hash = h
      BY <2>1, <2>2 DEF Logged, EventsOf
    <2>4. HasObserved(k, h)
      BY <2>3 DEF HasObserved
    <2>5. QED
      BY <2>4, ObservedStays
  <1>2. ASSUME NEW n, Commits(n, "observed", k, h) PROVE HasObserved(k, h)'
    <2>1. h \in Hashes \cup {Gone} /\ log \in Seq(Events) /\ Len(log) <= MaxEvents
      BY DEF LogInv, RowsInv, Numbered
    <2>2. n \in EventsOf(k, "observed")'
      BY <1>2, CommittedEvents
    <2>3. log'[n].hash = h
      BY <1>2, <2>1, Committed
    <2>4. QED
      BY <2>2, <2>3 DEF HasObserved
  <1>3. QED
    BY <1>1, <1>2 DEF Records

\* What a cursor says of files stays true of them as they change.
LEMMA HonestStays ==
  ASSUME LogInv, [Next]_vars, NEW c \in [Items -> Nat], Honest(c)
  PROVE  Honest(c)'
  <1> SUFFICES ASSUME NEW k \in Items
               PROVE  /\ c[k] <= disk'[k].fp
                      /\ disk'[k].hash # Gone /\ c[k] = disk'[k].fp =>
                           \E i \in EventsOf(k, "observed")' : log'[i].hash = disk'[k].hash
    BY DEF Honest
  <1>1. /\ c[k] \in Nat /\ c[k] <= disk[k].fp
        /\ disk[k].hash # Gone /\ c[k] = disk[k].fp => HasObserved(k, disk[k].hash)
    BY DEF Honest, HasObserved
  <1>2. PICK h : h = disk[k].hash
    OBVIOUS
  <1>3. HasObserved(k, h) => HasObserved(k, h)'
    BY ObservedStays
  <1>4. CASE disk'[k] = disk[k]
    <2>1. CASE disk[k].hash # Gone /\ c[k] = disk[k].fp
      <3>1. HasObserved(k, h)'
        BY <1>1, <1>2, <1>3, <2>1
      <3>2. QED
        BY <1>1, <1>2, <1>4, <3>1 DEF HasObserved
    <2>2. QED
      BY <1>1, <1>4, <2>1
  <1>5. CASE disk'[k].fp = disk[k].fp + 1
    BY <1>1, <1>5, FileSteps DEF LogInv
  <1>6. CASE disk'[k].hash = Gone /\ disk'[k].fp = disk[k].fp
    BY <1>1, <1>6
  <1>7. QED
    BY <1>4, <1>5, <1>6, FileSteps DEF LogInv

\* The cursor an operation carries along.
LEMMA HeldCursors ==
  ASSUME TypeOK
  PROVE  /\ cursor \in [Items -> Nat]
         /\ \A a \in Actors : op[a].at \in {"walk", "sweep"} => op[a].cursor \in [Items -> Nat]
         /\ \A a \in Actors : op[a].at = "walk" =>
              /\ op[a].listing \in [Items -> Nat]
              /\ op[a].item # Gone => op[a].item.key \in Items /\ op[a].item.hash \in Hashes
  <1>1. 0..MaxEdits \subseteq Nat
    BY BoundsAssumption
  <1>2. cursor \in [Items -> Nat]
    BY <1>1 DEF TypeOK
  <1>3. ASSUME NEW a \in Actors, op[a].at = "walk"
        PROVE  /\ op[a].listing \in [Items -> Nat] /\ op[a].cursor \in [Items -> Nat]
               /\ op[a].item # Gone => op[a].item.key \in Items /\ op[a].item.hash \in Hashes
    <2>1. op[a] \in Walking
      BY <1>3, Fields DEF TypeOK
    <2>2. op[a].listing \in [Items -> Nat] /\ op[a].cursor \in [Items -> Nat]
      BY <1>1, <2>1 DEF Walking
    <2>3. op[a].item # Gone => op[a].item \in Observed
      BY <2>1 DEF Walking
    <2>4. QED
      BY <2>2, <2>3 DEF Observed
  <1>4. ASSUME NEW a \in Actors, op[a].at = "sweep" PROVE op[a].cursor \in [Items -> Nat]
    <2>1. op[a] \in Sweeping
      BY <1>4, Fields DEF TypeOK
    <2>2. QED
      BY <1>1, <2>1 DEF Sweeping
  <1>5. QED
    BY <1>2, <1>3, <1>4

LEMMA FilesStep ==
  ASSUME LogInv, FilesInv, [Next]_vars
  PROVE  FilesInv'
  <1> USE DEF FilesInv
  <1>1. TypeOK
    BY DEF LogInv
  <1>2. ASSUME NEW k \in Items, disk'[k].hash # Gone PROVE disk'[k].fp > 0
    BY <1>1, <1>2, FileSteps DEF CursorsAreHonest
  <1>3. Honest(cursor)'
    <2>1. PICK c : c = cursor
      OBVIOUS
    <2>2. CASE cursor' = cursor
      <3>1. Honest(c)'
        BY <1>1, <2>1, HeldCursors, HonestStays DEF CursorsAreHonest
      <3>2. QED
        BY <2>1, <2>2, <3>1 DEF Honest
    <2>3. ASSUME NEW a \in Actors, op[a].at \in {"walk", "sweep"},
                 \A k \in Items : cursor'[k] = op[a].cursor[k] \/ cursor'[k] = 0
          PROVE  Honest(cursor)'
      <3>1. PICK d : d = op[a].cursor
        OBVIOUS
      <3>2. Honest(d)'
        BY <1>1, <2>3, <3>1, HeldCursors, HonestStays DEF CursorsAreHonest
      <3>3. ASSUME NEW k \in Items PROVE disk'[k].fp \in Nat
        BY <1>1, <3>3, FileSteps
      <3>4. QED
        BY <1>2, <2>3, <3>1, <3>2, <3>3 DEF Honest
    <2>4. QED
      BY <1>1, <2>2, <2>3, CursorSteps
  <1>4. ASSUME NEW b \in Actors, op'[b].at \in {"walk", "sweep"}
        PROVE  Honest(op[b].cursor)'
    <2>1. ASSUME NEW c \in [Items -> Nat], Honest(c), op'[b].cursor = c
          PROVE  Honest(op[b].cursor)'
      BY <2>1, HonestStays DEF Honest
    <2>2. CASE op[b].at \in {"walk", "sweep"} /\ op'[b].cursor = op[b].cursor
      BY <1>1, <2>1, <2>2, HeldCursors DEF CursorsAreHonest
    <2>3. CASE op'[b].cursor = cursor
      BY <1>1, <2>1, <2>3, HeldCursors DEF CursorsAreHonest
    <2>4. CASE op[b].at = "walk" /\ WalkRecords(op[b], op'[b])
      <3>1. PICK c, l, k, h : /\ c = op[b].cursor /\ l = op[b].listing
                              /\ k = op[b].item.key /\ h = op[b].item.hash
        OBVIOUS
      <3>2. /\ c \in [Items -> Nat] /\ l \in [Items -> Nat] /\ k \in Items
            /\ op'[b].cursor = [c EXCEPT ![k] = l[k]]
            /\ h \in Hashes /\ Records(k, h) /\ disk' = disk
        BY <1>1, <2>4, <3>1, HeldCursors DEF WalkRecords
      <3>3. Honest(c)'
        BY <2>4, <3>1, <3>2, HonestStays DEF CursorsAreHonest
      <3>4. HasObserved(k, h)'
        BY <3>2, IngestObserves
      <3>5. /\ l[k] <= disk[k].fp
            /\ disk[k].hash # Gone /\ l[k] = disk[k].fp => h = disk[k].hash
        BY <2>4, <3>1, <3>2 DEF ListingsAreOld, WalkRecords
      <3>6. Honest([c EXCEPT ![k] = l[k]])'
        BY <3>2, <3>3, <3>4, <3>5 DEF Honest, HasObserved
      <3>7. QED
        BY <3>2, <3>6 DEF Honest
    <2>5. QED
      BY <1>4, <2>2, <2>3, <2>4, WalkSteps DEF WalkBegins, WalkReads, WalkKeeps
  <1>5. ASSUME NEW b \in Actors, op'[b].at = "walk"
        PROVE  /\ \A k \in Items : op'[b].listing[k] <= disk'[k].fp
               /\ op'[b].item # Gone /\ disk'[op'[b].item.key].hash # Gone
                    /\ op'[b].listing[op'[b].item.key] = disk'[op'[b].item.key].fp
                    => op'[b].item.hash = disk'[op'[b].item.key].hash
    <2>1. CASE op'[b] = op[b]
      <3>1. op[b].listing \in [Items -> Nat] /\ (op[b].item # Gone => op[b].item.key \in Items)
        BY <1>1, <1>5, <2>1, HeldCursors
      <3>2. ASSUME NEW k \in Items
            PROVE  /\ op[b].listing[k] <= disk'[k].fp
                   /\ disk'[k].hash # Gone /\ op[b].listing[k] = disk'[k].fp
                        => disk'[k] = disk[k]
        <4>1. op[b].listing[k] \in Nat /\ op[b].listing[k] <= disk[k].fp
          BY <1>5, <2>1, <3>1 DEF ListingsAreOld
        <4>2. QED
          BY <1>1, <4>1, FileSteps
      <3>3. QED
        BY <1>5, <2>1, <3>1, <3>2 DEF ListingsAreOld
    <2>2. CASE WalkBegins(op'[b])
      <3>1. \A k \in Items : disk[k].fp \in Nat
        BY <1>1, FileSteps
      <3>2. QED
        BY <2>2, <3>1 DEF WalkBegins
    <2>3. CASE op[b].at = "walk" /\ WalkReads(op[b], op'[b])
      <3>1. /\ op'[b].listing = op[b].listing /\ disk' = disk
            /\ \E k \in Items : op'[b].item.key = k /\ op'[b].item.hash = disk[k].hash
        BY <2>3 DEF WalkReads
      <3>2. \A k \in Items : op[b].listing[k] <= disk[k].fp
        BY <2>3 DEF ListingsAreOld
      <3>3. QED
        BY <3>1, <3>2
    <2>5. CASE op[b].at = "walk" /\ WalkKeeps(op[b], op'[b])
      <3>1. /\ op'[b].listing = op[b].listing /\ disk' = disk
            /\ op'[b].item = Gone \/ SameItem(op[b], op'[b])
        BY <2>5 DEF WalkKeeps
      <3>2. QED
        BY <2>5, <3>1 DEF ListingsAreOld, SameItem
    <2>4. CASE op[b].at = "walk" /\ WalkRecords(op[b], op'[b])
      BY <2>4 DEF WalkRecords, ListingsAreOld
    <2>6. QED
      BY <1>5, <2>1, <2>2, <2>3, <2>4, <2>5, WalkSteps
  <1>6. CursorsAreHonest'
    BY <1>2, <1>3, <1>4 DEF CursorsAreHonest
  <1>7. ListingsAreOld'
    BY <1>5 DEF ListingsAreOld
  <1>8. QED
    BY <1>6, <1>7

LEMMA FilesInit == Init => FilesInv
  BY BoundsAssumption DEF Init, FilesInv, CursorsAreHonest, ListingsAreOld, Honest, NoFile, Idle

\* A file the next incremental sync skips has been observed with the content it has,
\* whichever sync wrote the cursor and whatever else ran (sync.py __call__ and
\* _finish, filesystem.py observe).
THEOREM TheCursorIsHonest == Spec => []CursorIsHonest
  <1>1. Spec => []FilesInv
    <2>1. LogInv /\ FilesInv /\ [Next]_vars => FilesInv'
      BY FilesStep
    <2>2. QED
      BY FilesInit, Invariance, <2>1, PTL DEF Spec
  <1>2. FilesInv => CursorIsHonest
    BY DEF FilesInv, CursorsAreHonest, Honest, CursorIsHonest, Skipped
  <1>3. QED
    BY <1>1, <1>2, PTL

-----------------------------------------------------------------------------
(* One process at a time *)

Alone == \A a, b \in Actors : a = b

\* What an ingest makes of the rows: those of other items stay, and of its own the
\* current one has the content.
LEMMA IngestRows ==
  ASSUME LogInv, NEW k, NEW h, Records(k, h)
  PROVE  /\ \A r \in rows' : r.key # k => r \in rows
         /\ \A r \in rows' : r.key = k /\ r.current => r.hash = h
         /\ \A r \in rows' : r.hash = h \/ \E q \in rows : q.hash = r.hash /\ q.key = r.key
  <1>1. rows \in SUBSET Rows
    BY DEF LogInv, TypeOK
  <1>2. CASE rows' = rows /\ \E r \in CurrentOf(k, rows) : r.hash = h
    <2>1. PICK q \in CurrentOf(k, rows) : q.hash = h
      BY <1>2
    <2>2. q \in rows /\ q.key = k
      BY <2>1 DEF CurrentOf
    <2>3. CurrentOf(k, rows) = {q}
      BY <2>1, <2>2 DEF LogInv, RowsInv, HeadIsNewest
    <2>4. \A r \in rows : r.key = k /\ r.current => r = q
      BY <2>3 DEF CurrentOf
    <2>5. QED
      BY <1>2, <2>1, <2>4
  <1>3. ASSUME NEW n \in Seqs, rows' = AddVersion(k, h, n, rows)
        PROVE  /\ \A r \in rows' : r.key # k => r \in rows
               /\ \A r \in rows' : r.key = k /\ r.current => r.hash = h
               /\ \A r \in rows' : r.hash = h \/ \E q \in rows : q.hash = r.hash /\ q.key = r.key
    <2>1. PICK new : new = Newest(k, h, n, rows)
      OBVIOUS
    <2>2. rows' = {Stepped(q, k) : q \in rows} \cup {new}
      BY <1>1, <1>3, <2>1, AddedRows
    <2>3. new.key = k /\ new.hash = h
      BY <2>1 DEF Newest
    <2>4. ASSUME NEW q \in rows
          PROVE  /\ Stepped(q, k).key = q.key /\ Stepped(q, k).hash = q.hash
                 /\ q.key = k => ~Stepped(q, k).current
                 /\ q.key # k => Stepped(q, k) = q
      BY <1>1, SteppedRow DEF Stepped
    <2>5. QED
      BY <2>2, <2>3, <2>4
  <1>4. QED
    BY <1>2, <1>3 DEF Records

\* The content of the rows is what it was, except for what is being observed.
LEMMA ContentSteps ==
  ASSUME LogInv, [Next]_vars
  PROVE  \/ \E a \in Actors : op[a].at = "walk" /\ WalkRecords(op[a], op'[a]) /\ blobs \subseteq blobs'
         \/ \E a \in Actors : /\ op[a].at = "restore" /\ op[a].item # Gone /\ op'[a] = Idle
                              /\ Records(op[a].item.key, op[a].item.hash) /\ blobs' = blobs
         \/ \A r \in rows' : \E q \in rows :
              q.hash = r.hash /\ q.key = r.key /\ (r.current => q.current)
  <1> DEFINE Kept == \A r \in rows' : \E q \in rows :
                       q.hash = r.hash /\ q.key = r.key /\ (r.current => q.current)
             Walked == \E a \in Actors :
                         op[a].at = "walk" /\ WalkRecords(op[a], op'[a]) /\ blobs \subseteq blobs'
             Restored == \E a \in Actors :
                           /\ op[a].at = "restore" /\ op[a].item # Gone /\ op'[a] = Idle
                           /\ Records(op[a].item.key, op[a].item.hash) /\ blobs' = blobs
  <1>2. ASSUME NEW t, NEW n \in Seqs, Stamps(t, n) PROVE Kept
    <2>1. rows' = {Stamped(q, t.id, n) : q \in rows}
      BY <1>2, StampedRows DEF Stamps
    <2>2. \A q \in rows : /\ Stamped(q, t.id, n).hash = q.hash
                          /\ Stamped(q, t.id, n).key = q.key
                          /\ Stamped(q, t.id, n).current = q.current
      BY StampedRow DEF LogInv, RowsInv
    <2>3. QED
      BY <2>1, <2>2
  <1>3. ASSUME NEW k, NEW ts, NEW n, Removes(k, ts, n) PROVE Kept
    BY <1>3 DEF Removes
  <1>4. ASSUME NEW a \in Actors, Ingest(a) PROVE Walked \/ Restored
    <2>1. PICK r : r = Recorded(a)
      OBVIOUS
    <2>2. /\ ItemOf(a) # Gone /\ Become(a, r) /\ ItemOf(a) = op[a].item
          /\ Records(op[a].item.key, op[a].item.hash) /\ blobs' = blobs
          /\ UNCHANGED <<disk, cursor>>
      BY <1>4, <2>1, IngestRecords, ItemsAreObserved DEF LogInv
    <2>3. op'[a] = r
      BY <2>2 DEF Become, LogInv, TypeOK
    <2>4. CASE op[a].at = "restore"
      BY <2>1, <2>2, <2>3, <2>4, RecordedLeft DEF LogInv
    <2>5. CASE op[a].at = "walk"
      <3>1. /\ r.at = "walk" /\ r.item = Gone /\ r.listing = op[a].listing
            /\ r.cursor = [op[a].cursor EXCEPT ![op[a].item.key] = op[a].listing[op[a].item.key]]
        BY <2>1, <2>2, <2>5, RecordedLeft DEF LogInv
      <3>2. WalkRecords(op[a], r)
        BY <2>2, <3>1 DEF WalkRecords
      <3>3. QED
        BY <2>2, <2>3, <2>5, <3>2
    <2>6. QED
      BY <2>2, <2>4, <2>5, ItemsAreObserved DEF LogInv
  <1> HIDE DEF Kept, Walked, Restored
  <1>5. ASSUME NEW a \in Actors, SeqIn(op[a]) # 0 PROVE SeqIn(op[a]) \in Seqs
    <2>1. SeqIn(op[a]) \in DOMAIN log
      BY <1>5 DEF LogInv, SeqsAreHeld
    <2>2. QED
      BY <2>1, BoundsAssumption DEF LogInv, RowsInv, Numbered, Seqs
  <1>6. ASSUME NEW a \in Actors, SweepItem(a) PROVE Kept
    <2>1. PICK r : DeleteRow(r, op[a].seq)
      BY <1>6 DEF SweepItem
    <2>2. op[a].seq \in Seqs
      BY <1>5, <1>6 DEF SweepItem, SeqIn
    <2>3. QED
      BY <1>2, <2>1, <2>2, DeleteKinds
  <1>7. ASSUME NEW a \in Actors, FinishHide(a) PROVE Kept
    <2>1. op[a].seq \in Seqs
      BY <1>5, <1>7 DEF FinishHide, SeqIn
    <2>2. QED
      BY <1>2, <1>7, <2>1, DeleteKinds DEF FinishHide
  <1>8. ASSUME NEW a \in Actors, PurgeRows(a) PROVE Kept
    BY <1>8 DEF PurgeRows, Kept
  <1>9. ASSUME rows' = rows PROVE Kept
    BY <1>9 DEF Kept
  <1>10. Walked \/ Restored \/ Kept
    <2>1. ASSUME NEW a \in Actors, SyncSteps(a)
          PROVE  rows' = rows \/ Ingest(a) \/ SweepItem(a)
      BY <2>1 DEF SyncSteps, corpus, StartSync, Observe, Unreadable, Append1, IngestUnchanged,
                  IngestChanged, ItemFails, StartSweep, FinishSync
    <2>2. ASSUME NEW a \in Actors, DeletionSteps(a)
          PROVE  rows' = rows \/ FinishHide(a) \/ PurgeRows(a)
      BY <2>2 DEF DeletionSteps, corpus, StartHide, StartRestore, StartPurge, ShredCheck,
                  ShredDelete, FinishPurge, Crash
    <2>3. ASSUME NEW k \in Items, RemoveFile(k) \/ \E h \in Hashes : WriteFile(k, h)
          PROVE  rows' = rows
      BY <2>3 DEF WriteFile, RemoveFile, corpus
    <2>4. UNCHANGED vars => rows' = rows
      BY DEF vars, corpus
    <2>5. QED
      BY <1>4, <1>6, <1>7, <1>8, <1>9, <2>1, <2>2, <2>3, <2>4, StepKinds
  <1>11. QED
    BY <1>10 DEF Kept, Walked, Restored

\* Bytes go from the store only when a shred unlinks them, and rows do not change
\* under a lone process that shreds.
LEMMA BlobSteps ==
  ASSUME TypeOK, [Next]_vars
  PROVE  /\ \/ blobs \subseteq blobs'
            \/ \E a \in Actors : /\ op[a].at = "shred" /\ op[a].doomed # Gone
                                 /\ blobs' = blobs \ {op[a].doomed}
                                 /\ rows' = rows
                                 /\ op'[a].at = "shred" /\ op'[a].doomed = Gone
         /\ rows' = rows \/ \E a \in Actors : op[a].at # "shred"
  <1>1. ASSUME NEW a \in Actors, ShredDelete(a)
        PROVE  /\ op[a].at = "shred" /\ op[a].doomed # Gone
               /\ blobs' = blobs \ {op[a].doomed}
               /\ rows' = rows
               /\ op'[a].at = "shred" /\ op'[a].doomed = Gone
    <2>1. op[a] \in Shredding
      BY <1>1, Fields DEF ShredDelete, TypeOK
    <2>2. op'[a] = [op[a] EXCEPT !.doomed = Gone]
      BY <1>1 DEF ShredDelete, Become, TypeOK
    <2>3. QED
      BY <1>1, <2>1, <2>2 DEF ShredDelete, Shredding, corpus
  <1>2. ASSUME NEW a \in Actors, Ingest(a) PROVE blobs' = blobs /\ op[a].at # "shred"
    BY <1>2, ItemsAreObserved DEF Ingest
  <1>3. ASSUME NEW a \in Actors, IngestChanged(a) PROVE blobs \subseteq blobs' /\ rows' = rows
    BY <1>3 DEF IngestChanged, corpus
  <1>4. ASSUME NEW a \in Actors, IngestUnchanged(a) \/ Append1(a)
        PROVE  blobs' = blobs /\ rows' = rows
    BY <1>4 DEF IngestUnchanged, Append1, corpus
  <1>5. ASSUME NEW a \in Actors, NEW k \in Items, Observe(a, k) PROVE blobs \subseteq blobs' /\ rows' = rows
    BY <1>5 DEF Observe, corpus
  <1>6. ASSUME NEW a \in Actors, SweepItem(a) \/ FinishHide(a) \/ PurgeRows(a)
        PROVE  blobs' = blobs /\ op[a].at # "shred"
    BY <1>6 DEF SweepItem, FinishHide, PurgeRows, DeleteRow
  <1>7. CASE blobs' = blobs /\ rows' = rows
    BY <1>7
  <1>8. QED
    BY <1>1, <1>2, <1>3, <1>4, <1>5, <1>6, <1>7
       DEF Next, vars, corpus, WriteFile, RemoveFile, StartSync, Unreadable, ItemFails,
           StartSweep, FinishSync, StartHide, StartRestore, StartPurge, ShredCheck, FinishPurge,
           Crash

LEMMA BytesStep ==
  ASSUME Alone, LogInv, BytesInHand, [Next]_vars
  PROVE  BytesInHand'
  <1>1. TypeOK
    BY DEF LogInv
  <1>2. ASSUME NEW q \in rows, q.hash \in blobs \ blobs'
        PROVE  FALSE
    BY <1>1, <1>2, BlobSteps DEF BytesInHand
  <1>3. ASSUME NEW r \in rows' PROVE r.hash \in blobs'
    <2>1. ASSUME NEW a \in Actors, op[a].at = "walk", WalkRecords(op[a], op'[a]),
                 blobs \subseteq blobs'
          PROVE  r.hash \in blobs'
      <3>1. Records(op[a].item.key, op[a].item.hash) /\ op[a].item.hash \in blobs
        BY <2>1 DEF WalkRecords, BytesInHand
      <3>2. r.hash = op[a].item.hash \/ \E q \in rows : q.hash = r.hash
        BY <3>1, IngestRows
      <3>3. QED
        BY <2>1, <3>1, <3>2 DEF BytesInHand
    <2>2. CASE \E q \in rows : q.hash = r.hash
      BY <1>2, <2>2 DEF BytesInHand
    <2>3. ASSUME NEW a \in Actors, op[a].at = "restore", op[a].item # Gone,
                 Records(op[a].item.key, op[a].item.hash), blobs' = blobs
          PROVE  r.hash \in blobs'
      <3>1. op[a].item.hash \in blobs
        BY <2>3 DEF BytesInHand
      <3>2. r.hash = op[a].item.hash \/ \E q \in rows : q.hash = r.hash
        BY <2>3, IngestRows
      <3>3. QED
        BY <2>3, <3>1, <3>2 DEF BytesInHand
    <2>4. QED
      BY <2>1, <2>2, <2>3, ContentSteps
  <1>4. ASSUME NEW b \in Actors, op'[b].at \in {"walk", "restore"}, op'[b].item # Gone
        PROVE  op'[b].item.hash \in blobs'
    <2>1. CASE op'[b] = op[b]
      <3>1. op[b].at \in {"walk", "restore"} /\ op[b].item.hash \in blobs
        BY <1>4, <2>1 DEF BytesInHand
      <3>2. \A a \in Actors : op[a].at # "shred"
        BY <3>1 DEF Alone
      <3>3. QED
        BY <1>1, <2>1, <3>1, <3>2, BlobSteps
    <2>2. CASE op[b].at \in {"walk", "restore"} /\ SameItem(op[b], op'[b]) /\ blobs \subseteq blobs'
      BY <2>2 DEF SameItem, BytesInHand
    <2>3. CASE op'[b].at = "walk"
      BY <1>4, <2>1, <2>2, <2>3, WalkSteps DEF WalkBegins, WalkReads, WalkKeeps, WalkRecords
    <2>4. CASE op'[b].at = "restore"
      BY <1>4, <2>1, <2>2, <2>4, WalkSteps DEF RestoreBegins, RestoreKeeps
    <2>5. QED
      BY <1>4, <2>3, <2>4
  <1>5. ASSUME NEW b \in Actors, op'[b].at = "shred", op'[b].doomed # Gone
        PROVE  \A r \in rows' : r.hash # op'[b].doomed
    <2>1. CASE op'[b] = op[b]
      <3>1. op[b].at = "shred" /\ \A r \in rows : r.hash # op[b].doomed
        BY <1>5, <2>1 DEF BytesInHand
      <3>2. \A a \in Actors : op[a].at = "shred"
        BY <3>1 DEF Alone
      <3>3. rows' = rows
        BY <1>1, <3>2, BlobSteps
      <3>4. QED
        BY <2>1, <3>1, <3>3
    <2>2. CASE ShredAsks(op'[b])
      BY <1>5, <2>2 DEF ShredAsks
    <2>3. QED
      BY <1>5, <2>1, <2>2, WalkSteps
  <1>6. QED
    BY <1>3, <1>4, <1>5 DEF BytesInHand

\* Bytes no sync fetches again are there for every version, as long as one process
\* at a time syncs, restores and purges (ingest.py, which writes bytes before rows;
\* deletion.py, which asks who refers to them).
THEOREM BytesAreThere ==
  ASSUME \A a, b \in Actors : a = b
  PROVE  Spec => []EveryVersionHasItsBytes
  <1>1. Alone
    BY DEF Alone
  <1>2. Init => BytesInHand
    BY DEF Init, BytesInHand, Idle
  <1>3. LogInv /\ BytesInHand /\ [Next]_vars => BytesInHand'
    BY <1>1, BytesStep
  <1>4. BytesInHand => EveryVersionHasItsBytes
    BY DEF BytesInHand, EveryVersionHasItsBytes
  <1>5. QED
    BY <1>2, <1>3, <1>4, Invariance, PTL DEF Spec

\* A cursor that agrees with the rows goes on agreeing while nothing is recorded.
LEMMA UnchangedStays ==
  ASSUME LogInv, [Next]_vars, NEW c \in [Items -> Nat], Unchanged(c),
         \A k \in Items : c[k] <= disk[k].fp,
         \A r \in rows' : \E q \in rows :
           q.hash = r.hash /\ q.key = r.key /\ (r.current => q.current)
  PROVE  Unchanged(c)'
  <1> SUFFICES ASSUME NEW k \in Items, disk'[k].hash # Gone, c[k] = disk'[k].fp,
                      NEW r \in rows', r.key = k, r.current
               PROVE  r.hash = disk'[k].hash
    BY DEF Unchanged, CurrentOf
  <1>1. PICK q \in rows : q.hash = r.hash /\ q.key = k /\ q.current
    OBVIOUS
  <1>2. disk'[k] = disk[k]
    BY FileSteps DEF LogInv
  <1>3. QED
    BY <1>1, <1>2 DEF Unchanged, CurrentOf

\* A walk's fingerprints are at least as new as the cursors.
LEMMA RecordedIsCurrent ==
  ASSUME LogInv, FilesInv, NEW a \in Actors, op[a].at = "walk", WalkRecords(op[a], op'[a]),
         NEW c \in [Items -> Nat], Unchanged(c), NEW k, k = op[a].item.key,
         \A j \in Items : c[j] <= op[a].listing[j]
  PROVE  /\ Unchanged(c)'
         /\ Unchanged([c EXCEPT ![k] = op[a].listing[k]])'
  <1>1. PICK l, h : l = op[a].listing /\ h = op[a].item.hash
    OBVIOUS
  <1>2. /\ k \in Items /\ l \in [Items -> Nat]
        /\ Records(k, h) /\ disk' = disk
        /\ \A j \in Items : c[j] <= l[j] /\ l[j] <= disk[j].fp
        /\ disk[k].hash # Gone /\ l[k] = disk[k].fp => h = disk[k].hash
    BY <1>1, HeldCursors DEF WalkRecords, LogInv, FilesInv, ListingsAreOld
  <1>3. \A j \in Items : disk[j].fp \in Nat
    BY BoundsAssumption DEF LogInv, TypeOK, Files
  <1>4. ASSUME NEW d \in [Items -> Nat], d = c \/ d = [c EXCEPT ![k] = l[k]]
        PROVE  Unchanged(d)'
    <2> SUFFICES ASSUME NEW j \in Items, disk[j].hash # Gone, d[j] = disk[j].fp,
                        NEW r \in rows', r.key = j, r.current
                 PROVE  r.hash = disk[j].hash
      BY <1>2 DEF Unchanged, CurrentOf
    <2>1. CASE j = k
      <3>1. l[k] = disk[k].fp
        BY <1>2, <1>3, <1>4, <2>1
      <3>2. QED
        BY <1>2, <2>1, <3>1, IngestRows
    <2>2. CASE j # k
      <3>1. c[j] = disk[j].fp /\ r \in rows
        BY <1>2, <1>4, <2>2, IngestRows
      <3>2. QED
        BY <3>1 DEF Unchanged, CurrentOf
    <2>3. QED
      BY <2>1, <2>2
  <1>5. PICK d : d = [c EXCEPT ![k] = l[k]]
    OBVIOUS
  <1>6. d \in [Items -> Nat]
    BY <1>2, <1>5
  <1>7. Unchanged(c)' /\ Unchanged(d)'
    BY <1>4, <1>5, <1>6
  <1>8. [c EXCEPT ![k] = op[a].listing[k]] = d
    BY <1>1, <1>5
  <1>9. op'[a].listing = l
    BY <1>1 DEF WalkRecords
  <1>10. QED
    BY <1>5, <1>7, <1>9 DEF Unchanged

LEMMA CurrentStep ==
  ASSUME Alone, LogInv, FilesInv, CursorsAreCurrent, [Next]_vars
  PROVE  CursorsAreCurrent'
  <1>1. /\ TypeOK
        /\ \A k \in Items : disk[k].fp \in Nat
    BY BoundsAssumption DEF LogInv, TypeOK, Files
  <1>2. /\ cursor \in [Items -> Nat] /\ Unchanged(cursor)
        /\ \A k \in Items : cursor[k] <= disk[k].fp
    BY <1>1, HeldCursors DEF CursorsAreCurrent, FilesInv, CursorsAreHonest, Honest
  <1>3. ASSUME NEW b \in Actors, op[b].at \in {"walk", "sweep"}
        PROVE  /\ op[b].cursor \in [Items -> Nat] /\ Unchanged(op[b].cursor)
               /\ \A k \in Items : op[b].cursor[k] <= disk[k].fp
    BY <1>1, <1>3, HeldCursors DEF CursorsAreCurrent, FilesInv, CursorsAreHonest, Honest
  <1>4. ASSUME NEW a \in Actors, op[a].at = "walk", WalkRecords(op[a], op'[a])
        PROVE  CursorsAreCurrent'
    <2>1. PICK c, d, l, k : c = cursor /\ d = op[a].cursor /\ l = op[a].listing /\ k = op[a].item.key
      OBVIOUS
    <2>2. /\ c \in [Items -> Nat] /\ d \in [Items -> Nat] /\ l \in [Items -> Nat] /\ k \in Items
          /\ cursor' = c /\ op'[a].cursor = [d EXCEPT ![k] = l[k]] /\ op'[a].listing = l
          /\ \A j \in Items : c[j] <= l[j] /\ d[j] <= l[j]
      BY <1>1, <1>4, <2>1, HeldCursors DEF WalkRecords, CursorsAreCurrent
    <2>3. PICK e : e = [d EXCEPT ![k] = l[k]]
      OBVIOUS
    <2>4. Unchanged(c)' /\ Unchanged([c EXCEPT ![k] = op[a].listing[k]])'
      BY <1>2, <1>4, <2>1, <2>2, RecordedIsCurrent
    <2>5. Unchanged([d EXCEPT ![k] = op[a].listing[k]])'
      BY <1>3, <1>4, <2>1, <2>2, RecordedIsCurrent
    <2>6. Unchanged(e)'
      BY <2>2, <2>3, <2>5 DEF Unchanged
    <2>7. Unchanged(cursor)' /\ Unchanged(op[a].cursor)'
      BY <2>2, <2>3, <2>4, <2>6 DEF Unchanged
    <2>8. \A j \in Items : cursor'[j] <= op'[a].listing[j] /\ op'[a].cursor[j] <= op'[a].listing[j]
      BY <2>2
    <2>9. \A b \in Actors : b = a
      BY DEF Alone
    <2>10. op'[a].at # "restore"
      BY <1>4 DEF WalkRecords
    <2>11. QED
      BY <2>7, <2>8, <2>9, <2>10 DEF CursorsAreCurrent
  <1>5. ASSUME \A r \in rows' : \E q \in rows :
                 q.hash = r.hash /\ q.key = r.key /\ (r.current => q.current),
               ~\E a \in Actors : op[a].at = "walk" /\ WalkRecords(op[a], op'[a])
        PROVE  CursorsAreCurrent'
    <2>1. Unchanged(cursor)'
      <3>1. PICK c : c = cursor
        OBVIOUS
      <3>2. CASE cursor' = cursor
        <4>1. Unchanged(c)'
          BY <1>2, <1>5, <3>1, UnchangedStays
        <4>2. QED
          BY <3>1, <3>2, <4>1 DEF Unchanged
      <3>3. ASSUME NEW a \in Actors, op[a].at \in {"walk", "sweep"},
                   \A k \in Items : cursor'[k] = op[a].cursor[k] \/ cursor'[k] = 0
            PROVE  Unchanged(cursor)'
        <4>1. PICK d : d = op[a].cursor
          OBVIOUS
        <4>2. Unchanged(d)'
          BY <1>3, <1>5, <3>3, <4>1, UnchangedStays
        <4>3. \A k \in Items : disk'[k].hash # Gone => disk'[k].fp > 0
          BY FilesStep DEF FilesInv, CursorsAreHonest
        <4>4. QED
          BY <3>3, <4>1, <4>2, <4>3 DEF Unchanged
      <3>4. QED
        BY <1>1, <3>2, <3>3, CursorSteps
    <2>2. ASSUME NEW b \in Actors, op'[b].at \in {"walk", "sweep"}
          PROVE  Unchanged(op[b].cursor)'
      <3>1. ASSUME NEW c \in [Items -> Nat], Unchanged(c), \A k \in Items : c[k] <= disk[k].fp,
                   op'[b].cursor = c
            PROVE  Unchanged(op[b].cursor)'
        BY <1>5, <3>1, UnchangedStays DEF Unchanged
      <3>2. CASE op[b].at \in {"walk", "sweep"} /\ op'[b].cursor = op[b].cursor
        BY <1>3, <3>1, <3>2
      <3>3. CASE op'[b].cursor = cursor
        BY <1>2, <3>1, <3>3
      <3>4. QED
        BY <1>5, <2>2, <3>2, <3>3, WalkSteps DEF WalkBegins, WalkReads, WalkKeeps
    <2>3. ASSUME NEW b \in Actors, op'[b].at = "walk"
          PROVE  \A k \in Items : cursor'[k] <= op'[b].listing[k] /\ op'[b].cursor[k] <= op'[b].listing[k]
      <3>1. CASE WalkBegins(op'[b])
        BY <1>1, <1>2, <3>1 DEF WalkBegins
      <3>2. CASE op[b].at = "walk" /\ op'[b].cursor = op[b].cursor /\ op'[b].listing = op[b].listing
        <4>1. cursor' = cursor
          <5>1. ASSUME NEW a \in Actors, Become(a, Idle) PROVE FALSE
            <6>1. a = b
              BY DEF Alone
            <6>2. op'[b] = Idle
              BY <1>1, <5>1, <6>1 DEF Become, TypeOK
            <6>3. QED
              BY <2>3, <6>2 DEF Idle
          <5>2. QED
            BY <1>1, <5>1, CursorSteps
        <4>2. QED
          BY <3>2, <4>1 DEF CursorsAreCurrent
      <3>3. QED
        BY <1>5, <2>3, <3>1, <3>2, WalkSteps DEF WalkReads, WalkKeeps
    <2>4. ASSUME NEW b \in Actors, op'[b].at = "restore"
          PROVE  \E q \in CurrentOf(op'[b].item.key, rows') : q.hash = op'[b].item.hash
      <3>1. CASE op'[b] = op[b]
        <4>1. ASSUME NEW a \in Actors, Closes(a) PROVE FALSE
          <5>1. a = b
            BY DEF Alone
          <5>2. QED
            BY <3>1, <4>1, <5>1 DEF Closes
        <4>2. rows' = rows
          BY <1>1, <4>1, Kinds DEF Rests, Takes
        <4>3. QED
          BY <2>4, <3>1, <4>2 DEF CursorsAreCurrent
      <3>2. CASE RestoreBegins(op'[b])
        BY <3>2 DEF RestoreBegins
      <3>3. CASE RestoreKeeps(op[b], op'[b])
        BY <3>3 DEF RestoreKeeps, SameItem, CursorsAreCurrent
      <3>4. QED
        BY <2>4, <3>1, <3>2, <3>3, WalkSteps
    <2>5. QED
      BY <2>1, <2>2, <2>3, <2>4 DEF CursorsAreCurrent
  <1>6. ASSUME NEW a \in Actors, op[a].at = "restore", op[a].item # Gone,
               Records(op[a].item.key, op[a].item.hash)
        PROVE  CursorsAreCurrent'
    <2>1. PICK k, h : k = op[a].item.key /\ h = op[a].item.hash
      OBVIOUS
    <2>2. PICK q \in CurrentOf(k, rows) : q.hash = h
      BY <1>6, <2>1 DEF CursorsAreCurrent
    <2>3. q \in rows /\ q.key = k /\ q.current
      BY <2>2 DEF CurrentOf
    <2>4. /\ \A r \in rows' : r.key # k => r \in rows
          /\ \A r \in rows' : r.key = k /\ r.current => r.hash = h
          /\ \A r \in rows' : r.hash = h \/ \E s \in rows : s.hash = r.hash /\ s.key = r.key
      BY <1>6, <2>1, IngestRows
    <2>5. ASSUME NEW r \in rows'
          PROVE  \E s \in rows : s.hash = r.hash /\ s.key = r.key /\ (r.current => s.current)
      <3>1. CASE r.key # k
        BY <2>4, <3>1
      <3>2. CASE r.key = k /\ r.hash = h
        BY <2>2, <2>3, <3>2
      <3>3. CASE r.key = k /\ r.hash # h
        BY <2>4, <3>3
      <3>4. QED
        BY <3>1, <3>2, <3>3
    <2>6. \A b \in Actors : op[b].at # "walk"
      BY <1>6 DEF Alone
    <2>7. QED
      BY <1>5, <2>5, <2>6
  <1>7. QED
    BY <1>4, <1>5, <1>6, ContentSteps

\* What an incremental sync skips it may skip: the current version has the content of
\* the file, as long as one process at a time syncs, hides, restores and purges
\* (filesystem.py observe).
THEOREM SkippingIsSafe ==
  ASSUME \A a, b \in Actors : a = b
  PROVE  Spec => []SkippedIsUnchanged
  <1>1. Alone
    BY DEF Alone
  <1>2. Init => FilesInv /\ CursorsAreCurrent
    BY FilesInit DEF Init, CursorsAreCurrent, Unchanged, NoFile, Idle
  <1>3. LogInv /\ (FilesInv /\ CursorsAreCurrent) /\ [Next]_vars => (FilesInv /\ CursorsAreCurrent)'
    BY <1>1, FilesStep, CurrentStep
  <1>4. CursorsAreCurrent => SkippedIsUnchanged
    BY DEF CursorsAreCurrent, Unchanged, SkippedIsUnchanged, Skipped
  <1>5. QED
    BY <1>2, <1>3, <1>4, Invariance, PTL DEF Spec

-----------------------------------------------------------------------------
(* Replay *)

\* What Replayed computes, as a function on the lengths of the log: the rows of an item
\* after so many events.
IsRun(f, s, k) ==
  f = [n \in 0..Len(s) |-> IF n = 0 THEN {}
                           ELSE IF s[n].key = k THEN ReplayEvent(f[n - 1], s[n])
                           ELSE f[n - 1]]

\* There is one such function.  By induction over the log, as it grows: for one log
\* of a length, and for every other one of that length.
Determined(s, k) == \E f : IsRun(f, s, k) /\ \A g : IsRun(g, s, k) => g = f

UniqueRuns(l, k) == \A s \in Seq(Events) : Len(s) = l => Determined(s, k)

LEMMA NoEvents ==
  ASSUME NEW k, NEW s, Len(s) = 0
  PROVE  Determined(s, k) /\ Replayed(k, s) = {}
  <1>1. PICK f : f = [n \in {0} |-> {}]
    OBVIOUS
  <1>2. 0..Len(s) = {0}
    OBVIOUS
  <1>3. ASSUME NEW g
        PROVE  IsRun(g, s, k) <=> g = f
    BY <1>1, <1>2 DEF IsRun
  <1>4. Replayed(k, s) = (CHOOSE g : IsRun(g, s, k))[0]
    BY DEF Replayed, IsRun
  <1>5. QED
    BY <1>1, <1>3, <1>4 DEF Determined

\* A log with one event more.
LEMMA OneMoreEvent ==
  ASSUME NEW s \in Seq(Events), NEW t \in Seq(Events), Len(t) = Len(s) + 1,
         \A n \in 1..Len(s) : t[n] = s[n],
         NEW e, e = t[Len(s) + 1], NEW k, Determined(s, k)
  PROVE  /\ Determined(t, k)
         /\ Replayed(k, t) =
              IF e.key = k THEN ReplayEvent(Replayed(k, s), e) ELSE Replayed(k, s)
  <1>1. PICK f : IsRun(f, s, k) /\ \A g : IsRun(g, s, k) => g = f
    BY DEF Determined
  <1>2. PICK l : l = Len(s)
    OBVIOUS
  <1>3. /\ l \in Nat /\ Len(t) = l + 1
        /\ t[l + 1] = e
        /\ \A n \in 1..l : t[n] = s[n]
    BY <1>2
  <1>4. PICK last : last = IF e.key = k THEN ReplayEvent(f[l], e) ELSE f[l]
    OBVIOUS
  <1>5. PICK h : h = [n \in 0..(l + 1) |-> IF n = l + 1 THEN last ELSE f[n]]
    OBVIOUS
  <1>6. \A n \in 0..l : f[n] = IF n = 0 THEN {}
                               ELSE IF s[n].key = k THEN ReplayEvent(f[n - 1], s[n])
                               ELSE f[n - 1]
    BY <1>1, <1>2 DEF IsRun
  <1>7. IsRun(h, t, k)
    <2>1. ASSUME NEW n \in 0..(l + 1)
          PROVE  h[n] = IF n = 0 THEN {}
                        ELSE IF t[n].key = k THEN ReplayEvent(h[n - 1], t[n])
                        ELSE h[n - 1]
      <3>1. CASE n = 0
        BY <1>3, <1>5, <1>6, <3>1
      <3>2. CASE n \in 1..l
        <4>1. n - 1 \in 0..(l + 1) /\ n - 1 # l + 1 /\ n # l + 1 /\ n \in 0..l /\ n # 0
          BY <1>3, <3>2
        <4>2. h[n] = f[n] /\ h[n - 1] = f[n - 1] /\ t[n] = s[n]
          BY <1>3, <1>5, <3>2, <4>1
        <4>3. QED
          BY <1>6, <4>1, <4>2
      <3>3. CASE n = l + 1
        <4>1. n - 1 = l /\ n # 0 /\ l \in 0..(l + 1) /\ l # l + 1
          BY <1>3, <3>3
        <4>2. h[n] = last /\ h[n - 1] = f[l] /\ t[n] = e
          BY <1>3, <1>5, <3>3, <4>1
        <4>3. QED
          BY <1>4, <4>1, <4>2
      <3>4. QED
        BY <1>3, <3>1, <3>2, <3>3
    <2>2. h = [n \in 0..(l + 1) |-> h[n]]
      BY <1>5
    <2>3. QED
      BY <1>3, <2>1, <2>2 DEF IsRun
  <1>8. ASSUME NEW g, IsRun(g, t, k) PROVE g = h
    <2>1. /\ g = [n \in 0..(l + 1) |-> g[n]]
          /\ \A n \in 0..(l + 1) : g[n] = IF n = 0 THEN {}
                                         ELSE IF t[n].key = k THEN ReplayEvent(g[n - 1], t[n])
                                         ELSE g[n - 1]
      BY <1>3, <1>8 DEF IsRun
    <2>2. PICK p : p = [n \in 0..l |-> g[n]]
      OBVIOUS
    <2>3. IsRun(p, s, k)
      <3>1. ASSUME NEW n \in 0..l
            PROVE  p[n] = IF n = 0 THEN {}
                          ELSE IF s[n].key = k THEN ReplayEvent(p[n - 1], s[n])
                          ELSE p[n - 1]
        <4>1. CASE n = 0
          <5>1. n \in 0..(l + 1) /\ p[n] = g[n]
            BY <1>3, <2>2
          <5>2. QED
            BY <2>1, <4>1, <5>1
        <4>2. CASE n # 0
          <5>1. n \in 1..l /\ n - 1 \in 0..l /\ n \in 0..(l + 1)
            BY <1>3, <4>2
          <5>2. p[n] = g[n] /\ p[n - 1] = g[n - 1] /\ t[n] = s[n]
            BY <1>3, <2>2, <5>1
          <5>3. QED
            BY <2>1, <4>2, <5>1, <5>2
        <4>3. QED
          BY <4>1, <4>2
      <3>2. p = [n \in 0..l |-> p[n]]
        BY <2>2
      <3>3. QED
        BY <1>2, <3>1, <3>2 DEF IsRun
    <2>4. p = f
      BY <1>1, <2>3
    <2>5. ASSUME NEW n \in 0..(l + 1) PROVE g[n] = h[n]
      <3>1. CASE n \in 0..l
        BY <1>3, <1>5, <2>2, <2>4, <3>1
      <3>2. CASE n = l + 1
        <4>1. n - 1 = l /\ n # 0 /\ l \in 0..l
          BY <1>3, <3>2
        <4>2. g[l] = f[l] /\ t[n] = e
          BY <1>3, <2>2, <2>4, <3>2, <4>1
        <4>3. QED
          BY <1>4, <1>5, <2>1, <3>2, <4>1, <4>2
      <3>3. QED
        BY <1>3, <3>1, <3>2
    <2>6. h = [n \in 0..(l + 1) |-> h[n]]
      BY <1>5
    <2>7. QED
      BY <2>1, <2>5, <2>6
  <1>9. /\ Replayed(k, s) = (CHOOSE g : IsRun(g, s, k))[Len(s)]
        /\ Replayed(k, t) = (CHOOSE g : IsRun(g, t, k))[Len(t)]
    BY DEF Replayed, IsRun
  <1>10. Replayed(k, s) = f[l] /\ Replayed(k, t) = h[l + 1]
    BY <1>1, <1>2, <1>3, <1>7, <1>8, <1>9
  <1>11. h[l + 1] = last
    BY <1>3, <1>5
  <1>12. QED
    BY <1>2, <1>4, <1>7, <1>8, <1>10, <1>11 DEF Determined

LEMMA LongerRuns ==
  ASSUME NEW l \in Nat, NEW k, UniqueRuns(l, k)
  PROVE  UniqueRuns(l + 1, k)
  <1> SUFFICES ASSUME NEW t \in Seq(Events), Len(t) = l + 1
               PROVE  Determined(t, k)
    BY DEF UniqueRuns
  <1>1. PICK s : s = [n \in 1..l |-> t[n]]
    OBVIOUS
  <1>2. \A n \in 1..l : t[n] \in Events
    OBVIOUS
  <1>3. s \in Seq(Events) /\ Len(s) = l
    BY <1>1, <1>2
  <1>4. \A n \in 1..Len(s) : t[n] = s[n]
    BY <1>1, <1>3
  <1>5. Determined(s, k)
    BY <1>3 DEF UniqueRuns
  <1>6. QED
    BY <1>3, <1>4, <1>5, OneMoreEvent

\* A gap leaves the rows as they are.
LEMMA GapsAreNothing ==
  ASSUME NEW rs, NEW e, e.type = "gap"
  PROVE  ReplayEvent(rs, e) = rs
  BY DEF ReplayEvent

\* A log with an event where there was a gap, with no later one of the item: the
\* event might as well be the last.
LEMMA OneCommit ==
  ASSUME NEW s \in Seq(Events), NEW t \in Seq(Events), Len(t) = Len(s),
         NEW n \in 1..Len(s), s[n].type = "gap",
         \A m \in 1..Len(s) : m # n => t[m] = s[m],
         NEW e, e = t[n], NEW k, Determined(s, k), Determined(t, k)
  PROVE  /\ e.key # k => Replayed(k, t) = Replayed(k, s)
         /\ /\ e.key = k
            /\ \A m \in 1..Len(s) : n < m => s[m].type = "gap" \/ s[m].key # k
            => Replayed(k, t) = ReplayEvent(Replayed(k, s), e)
  <1>1. PICK f : IsRun(f, s, k) /\ \A g : IsRun(g, s, k) => g = f
    BY DEF Determined
  <1>2. PICK l : l = Len(s)
    OBVIOUS
  <1>3. l \in Nat /\ n \in 1..l /\ Len(t) = l /\ t[n] = e /\ s[n].type = "gap"
    BY <1>2
  <1>4. /\ f = [m \in 0..l |-> f[m]]
        /\ \A m \in 0..l : f[m] = IF m = 0 THEN {}
                                  ELSE IF s[m].key = k THEN ReplayEvent(f[m - 1], s[m])
                                  ELSE f[m - 1]
    BY <1>1, <1>2 DEF IsRun
  <1>5. /\ Replayed(k, s) = (CHOOSE g : IsRun(g, s, k))[l]
        /\ Replayed(k, t) = (CHOOSE g : IsRun(g, t, k))[l]
    BY <1>2, <1>3 DEF Replayed, IsRun
  <1>6. Replayed(k, s) = f[l]
    BY <1>1, <1>5
  <1>7. ASSUME NEW h, IsRun(h, t, k) PROVE Replayed(k, t) = h[l]
    BY <1>5, <1>7 DEF Determined
  <1>8. \A m \in 1..l : m \in 0..l /\ m - 1 \in 0..l /\ m # 0
    BY <1>3
  <1>9. \A m \in 1..l : s[m].type = "gap" \/ s[m].key # k => f[m] = f[m - 1]
    <2>1. ASSUME NEW m \in 1..l, s[m].type = "gap" \/ s[m].key # k PROVE f[m] = f[m - 1]
      <3>1. f[m] = IF s[m].key = k THEN ReplayEvent(f[m - 1], s[m]) ELSE f[m - 1]
        BY <1>4, <1>8
      <3>2. s[m].type = "gap" => ReplayEvent(f[m - 1], s[m]) = f[m - 1]
        BY GapsAreNothing
      <3>3. QED
        BY <2>1, <3>1, <3>2
    <2>2. QED
      BY <2>1
  <1>10. ASSUME e.key # k PROVE Replayed(k, t) = Replayed(k, s)
    <2>1. ASSUME NEW m \in 0..l
          PROVE  f[m] = IF m = 0 THEN {}
                        ELSE IF t[m].key = k THEN ReplayEvent(f[m - 1], t[m])
                        ELSE f[m - 1]
      <3>1. CASE m = n
        <4>1. m \in 1..l /\ m # 0 /\ t[m].key # k
          BY <1>3, <1>10, <3>1
        <4>2. f[m] = f[m - 1]
          BY <1>3, <1>9, <3>1, <4>1
        <4>3. QED
          BY <4>1, <4>2
      <3>2. CASE m = 0
        BY <1>4, <3>2
      <3>3. CASE m # n /\ m # 0
        <4>1. m \in 1..l /\ t[m] = s[m]
          BY <1>2, <1>3, <3>3
        <4>2. QED
          BY <1>4, <3>3, <4>1
      <3>4. QED
        BY <3>1, <3>2, <3>3
    <2>2. IsRun(f, t, k)
      BY <1>3, <1>4, <2>1 DEF IsRun
    <2>3. QED
      BY <1>6, <1>7, <2>2
  <1>11. ASSUME e.key = k, \A m \in 1..Len(s) : n < m => s[m].type = "gap" \/ s[m].key # k
         PROVE  Replayed(k, t) = ReplayEvent(Replayed(k, s), e)
    <2>1. PICK h : h = [m \in 0..l |-> IF m < n THEN f[m] ELSE ReplayEvent(f[m], e)]
      OBVIOUS
    <2>2. \A m \in 0..l : h[m] = IF m < n THEN f[m] ELSE ReplayEvent(f[m], e)
      BY <2>1
    <2>3. ASSUME NEW m \in 0..l
          PROVE  h[m] = IF m = 0 THEN {}
                        ELSE IF t[m].key = k THEN ReplayEvent(h[m - 1], t[m])
                        ELSE h[m - 1]
      <3>1. CASE m = 0
        BY <1>3, <1>4, <2>2, <3>1
      <3>2. CASE m = n
        <4>1. h[m] = ReplayEvent(f[m], e) /\ f[m] = f[m - 1]
          BY <1>3, <1>9, <2>2, <3>2
        <4>2. m - 1 \in 0..l /\ m - 1 < n /\ m # 0
          BY <1>3, <3>2
        <4>3. h[m - 1] = f[m - 1]
          BY <2>2, <4>2
        <4>4. QED
          BY <1>3, <1>11, <3>2, <4>1, <4>2, <4>3
      <3>3. CASE m \in 1..l /\ m < n
        <4>1. m - 1 \in 0..l /\ m - 1 < n /\ m # 0 /\ m # n
          BY <1>3, <3>3
        <4>2. h[m] = f[m] /\ h[m - 1] = f[m - 1] /\ t[m] = s[m]
          BY <1>2, <2>2, <3>3, <4>1
        <4>3. QED
          BY <1>4, <4>1, <4>2
      <3>4. CASE m \in 1..l /\ n < m
        <4>1. m - 1 \in 0..l /\ ~(m - 1 < n) /\ ~(m < n) /\ m # 0 /\ m # n
          BY <1>3, <3>4
        <4>2. s[m].type = "gap" \/ s[m].key # k
          BY <1>2, <1>11, <3>4
        <4>3. f[m] = f[m - 1]
          BY <1>9, <3>4, <4>2
        <4>4. h[m] = ReplayEvent(f[m], e) /\ h[m - 1] = ReplayEvent(f[m - 1], e) /\ t[m] = s[m]
          BY <1>2, <2>2, <3>4, <4>1
        <4>5. QED
          BY <4>1, <4>2, <4>3, <4>4, GapsAreNothing
      <3>5. QED
        BY <1>3, <3>1, <3>2, <3>3, <3>4
    <2>4. IsRun(h, t, k)
      <3>1. h = [m \in 0..l |-> h[m]]
        BY <2>1
      <3>2. QED
        BY <1>3, <2>3, <3>1 DEF IsRun
    <2>5. h[l] = ReplayEvent(f[l], e)
      <3>1. l \in 0..l /\ ~(l < n)
        BY <1>3
      <3>2. QED
        BY <2>2, <3>1
    <2>6. QED
      BY <1>6, <1>7, <2>4, <2>5
  <1>12. QED
    BY <1>10, <1>11

\* What the steps do to the versions of one item.
LEMMA AddedVersions ==
  ASSUME NEW rs \in SUBSET Rows, NEW k, NEW h, NEW seq
  PROVE  VersionsOf(k, AddVersion(k, h, seq, rs)) = AddVersion(k, h, seq, VersionsOf(k, rs))
  <1>1. CurrentOf(k, VersionsOf(k, rs)) = CurrentOf(k, rs)
    BY DEF CurrentOf, VersionsOf
  <1>2. Newest(k, h, seq, VersionsOf(k, rs)) = Newest(k, h, seq, rs)
    BY <1>1 DEF Newest, NextVersion
  <1>3. PICK new : new = Newest(k, h, seq, rs)
    OBVIOUS
  <1>4. new.key = k
    BY <1>3 DEF Newest
  <1>5. AddVersion(k, h, seq, rs) = {Stepped(r, k) : r \in rs} \cup {new}
    BY <1>3, AddedRows
  <1>6. AddVersion(k, h, seq, VersionsOf(k, rs)) =
          {Stepped(r, k) : r \in VersionsOf(k, rs)} \cup {new}
    <2>1. VersionsOf(k, rs) \in SUBSET Rows
      BY DEF VersionsOf
    <2>2. QED
      BY <1>2, <1>3, <2>1, AddedRows
  <1>7. \A r \in rs : Stepped(r, k).key = r.key
    BY SteppedRow
  <1>8. QED
    BY <1>4, <1>5, <1>6, <1>7 DEF VersionsOf

LEMMA StampedVersions ==
  ASSUME NEW rs \in SUBSET Rows, NEW k, NEW id, NEW seq \in Seqs
  PROVE  VersionsOf(k, Tombstone(id, seq, rs)) = Tombstone(id, seq, VersionsOf(k, rs))
  <1>1. \A r \in rs : Stamped(r, id, seq).key = r.key
    BY StampedRow
  <1>2. QED
    BY <1>1, StampedRows DEF VersionsOf

LEMMA NothingStamped ==
  ASSUME NEW rs, NEW id, NEW seq, \A r \in rs : r.id # id
  PROVE  Tombstone(id, seq, rs) = rs
  BY DEF Tombstone

\* An item is quiet no longer than its log and its rows are.
LEMMA QuietBefore ==
  ASSUME LogInv, [Next]_vars, NEW k \in Items, Quiet(k)'
  PROVE  Quiet(k)
  <1>1. raced \subseteq raced'
    <2>1. ASSUME NEW j, NEW h, NEW n, Adds(j, h, n) PROVE raced \subseteq raced'
      BY <2>1 DEF Adds
    <2>2. ASSUME NEW t, NEW n, Stamps(t, n) PROVE raced \subseteq raced'
      BY <2>2 DEF Stamps
    <2>3. ASSUME NEW j, NEW ts, NEW n, Removes(j, ts, n) PROVE raced \subseteq raced'
      BY <2>3 DEF Removes
    <2>4. CASE Rests \/ Takes
      BY <2>4 DEF Rests, Takes
    <2>5. QED
      BY <2>1, <2>2, <2>3, <2>4, Kinds DEF LogInv
  <1>2. /\ EventsOf(k, "purged") \subseteq EventsOf(k, "purged")'
        /\ EventsOf(k, "observed") \subseteq EventsOf(k, "observed")'
    BY RowsStep DEF EventsOf, LogKept
  <1>3. QED
    BY <1>1, <1>2 DEF Quiet

Agreeing ==
  \A k \in Items : UniqueRuns(Len(log), k) /\ (Quiet(k) => VersionsOf(k, rows) = Rebuild(k))

\* An event leaves what is rebuilt of the other items as it was.
Rebuilds(j, n, type, k, h) ==
  /\ UniqueRuns(Len(log), j)'
  /\ j # k => Rebuild(j)' = Rebuild(j)
  /\ EventsOf(j, "purged") # {} => Rebuild(j) = {} /\ Rebuild(j)' = {}
  /\ j = k /\ type = "purged" => Rebuild(j)' = {}
  /\ j = k /\ type # "purged" /\ EventsOf(j, "purged") = {} /\ ~Overtaken(k, n) =>
       Rebuild(j)' = ReplayEvent(Rebuild(j), Event(n, type, k, h))

LEMMA RebuildSteps ==
  ASSUME LogInv, Agreeing, NEW j \in Items,
         NEW n, NEW type \in {"observed", "deleted", "purged"}, NEW k \in Items,
         NEW h \in Hashes \cup {Gone}, Commits(n, type, k, h)
  PROVE  Rebuilds(j, n, type, k, h)
  <1>1. log \in Seq(Events) /\ Len(log) <= MaxEvents /\ UniqueRuns(Len(log), j)
    BY DEF LogInv, RowsInv, Numbered, Agreeing
  <1>2. PICK s, t, e : s = log /\ t = log' /\ e = Event(n, type, k, h)
    OBVIOUS
  <1>3. /\ t \in Seq(Events) /\ Len(t) = Len(s) /\ DOMAIN t = DOMAIN s
        /\ \A m \in DOMAIN s : m # n => t[m] = s[m]
        /\ t[n] = e
    BY <1>1, <1>2, Committed
  <1>4. /\ \A i, y : y # "gap" /\ y # type => EventsOf(i, y)' = EventsOf(i, y)
        /\ \A i : EventsOf(i, type)' = EventsOf(i, type) \cup (IF i = k THEN {n} ELSE {})
    <2>1. type # "gap"
      OBVIOUS
    <2>2. QED
      BY <2>1, CommittedEvents
  <1>5. /\ s \in Seq(Events) /\ DOMAIN s = 1..Len(s) /\ n \in DOMAIN s /\ s[n].type = "gap"
        /\ e.key = k
    BY <1>1, <1>2 DEF Commits, Event
  <1>6. Determined(s, j) /\ Determined(t, j) /\ UniqueRuns(Len(log), j)'
    BY <1>1, <1>2, <1>3, <1>5 DEF UniqueRuns
  <1>7. /\ s \in Seq(Events) /\ t \in Seq(Events) /\ Len(t) = Len(s) /\ n \in 1..Len(s)
        /\ s[n].type = "gap" /\ e = t[n]
        /\ \A m \in 1..Len(s) : m # n => t[m] = s[m]
        /\ Determined(s, j) /\ Determined(t, j)
    BY <1>3, <1>5, <1>6
  <1>8. /\ e.key # j => Replayed(j, t) = Replayed(j, s)
        /\ /\ e.key = j
           /\ \A m \in 1..Len(s) : n < m => s[m].type = "gap" \/ s[m].key # j
           => Replayed(j, t) = ReplayEvent(Replayed(j, s), e)
    BY <1>7, OneCommit
  <1>9. j # k => Replayed(j, t) = Replayed(j, s)
    BY <1>5, <1>8
  <1>10. ASSUME j = k, ~Overtaken(k, n) PROVE Replayed(j, t) = ReplayEvent(Replayed(j, s), e)
    <2>1. \A m \in 1..Len(s) : n < m => s[m].type = "gap" \/ s[m].key # j
      BY <1>2, <1>5, <1>10 DEF Overtaken
    <2>2. QED
      BY <1>5, <1>8, <1>10, <2>1
  <1>11. /\ Rebuild(j) = IF EventsOf(j, "purged") # {} THEN {} ELSE Replayed(j, s)
         /\ Rebuild(j)' = IF EventsOf(j, "purged")' # {} THEN {} ELSE Replayed(j, t)
    BY <1>2 DEF Rebuild
  <1>12. /\ EventsOf(j, "purged") # {} => EventsOf(j, "purged")' # {}
         /\ j = k /\ type = "purged" => EventsOf(j, "purged")' # {}
         /\ j # k \/ type # "purged" => EventsOf(j, "purged")' = EventsOf(j, "purged")
    <2>1. CASE type = "purged"
      BY <1>4, <2>1
    <2>2. CASE type # "purged"
      BY <1>4, <2>2
    <2>3. QED
      BY <2>1, <2>2
  <1>13. QED
    <2>1. PICK p, q, r : p = Replayed(j, s) /\ q = Replayed(j, t) /\ r = ReplayEvent(p, e)
      OBVIOUS
    <2>2. /\ j # k => q = p
          /\ j = k /\ ~Overtaken(k, n) => q = r
      BY <1>9, <1>10, <2>1
    <2>3. EventsOf(j, "purged") = {} => ReplayEvent(Rebuild(j), e) = r
      BY <1>11, <2>1
    <2>4. QED
      BY <1>2, <1>6, <1>11, <1>12, <2>1, <2>2, <2>3 DEF Rebuilds

\* The item's own event, when no later one was committed first and nothing was
\* purged, is replayed on top of the rest.
LEMMA RebuildLast ==
  ASSUME LogInv, Agreeing, NEW j \in Items, NEW n, NEW type \in {"observed", "deleted"},
         NEW h \in Hashes \cup {Gone}, Commits(n, type, j, h),
         EventsOf(j, "purged") = {}, ~Overtaken(j, n)
  PROVE  Rebuild(j)' = ReplayEvent(Rebuild(j), Event(n, type, j, h))
  <1>1. type \in {"observed", "deleted", "purged"} /\ type # "purged"
    OBVIOUS
  <1>2. Rebuilds(j, n, type, j, h)
    BY <1>1, RebuildSteps
  <1>3. QED
    BY <1>1, <1>2 DEF Rebuilds

LEMMA AgreeStep ==
  ASSUME LogInv, Agreeing, [Next]_vars
  PROVE  Agreeing'
  <1> DEFINE Agrees(j) == /\ UniqueRuns(Len(log), j)'
                          /\ Quiet(j)' => VersionsOf(j, rows') = Rebuild(j)'
  <1> SUFFICES ASSUME NEW j \in Items PROVE Agrees(j)
    BY DEF Agreeing
  <1>1. /\ log \in Seq(Events) /\ rows \in SUBSET Rows /\ TypeOK
        /\ UniqueRuns(Len(log), j) /\ (Quiet(j)' => VersionsOf(j, rows) = Rebuild(j))
    BY QuietBefore DEF LogInv, TypeOK, Agreeing
  <1>2. CASE Rests
    <2>1. log' = log /\ rows' = rows /\ EventsOf(j, "purged")' = EventsOf(j, "purged")
      BY <1>2 DEF Rests, EventsOf
    <2>2. UniqueRuns(Len(log), j)' /\ Replayed(j, log)' = Replayed(j, log)
      BY <1>1, <2>1 DEF UniqueRuns
    <2>3. Rebuild(j)' = Rebuild(j)
      BY <2>1, <2>2 DEF Rebuild
    <2>4. QED
      BY <1>1, <2>1, <2>2, <2>3
  <1>3. CASE Takes
    <2>1. PICK s, t, e, l : s = log /\ t = log' /\ l = Len(log) /\ e = t[l + 1]
      OBVIOUS
    <2>2. /\ t \in Seq(Events) /\ l \in Nat /\ Len(t) = l + 1 /\ e.type = "gap"
          /\ s \in Seq(Events) /\ Len(s) = l
          /\ \A n \in 1..l : t[n] = s[n]
          /\ EventsOf(j, "purged")' = EventsOf(j, "purged")
      BY <1>1, <1>3, <2>1, SeqTaken DEF Event
    <2>3. Determined(s, j) /\ UniqueRuns(l + 1, j)
      BY <1>1, <2>1, <2>2, LongerRuns DEF UniqueRuns
    <2>4. UniqueRuns(Len(log), j)'
      BY <2>1, <2>2, <2>3 DEF UniqueRuns
    <2>5. Replayed(j, t) = Replayed(j, s)
      <3>1. Replayed(j, t) = IF e.key = j THEN ReplayEvent(Replayed(j, s), e) ELSE Replayed(j, s)
        BY <2>1, <2>2, <2>3, OneMoreEvent
      <3>2. QED
        BY <2>2, <3>1, GapsAreNothing
    <2>6. Rebuild(j)' = Rebuild(j)
      BY <2>1, <2>2, <2>5 DEF Rebuild
    <2>7. QED
      BY <1>1, <1>3, <2>4, <2>6 DEF Takes
  <1>4. ASSUME NEW n, n \in DOMAIN log, log[n].type = "gap",
               NEW k \in Items, NEW h \in Hashes, Adds(k, h, n)
        PROVE  Agrees(j)
    <2>1. PICK e : e = Event(n, "observed", k, h)
      OBVIOUS
    <2>2. /\ Commits(n, "observed", k, h) /\ h \in Hashes \cup {Gone}
          /\ e.type = "observed" /\ e.key = k /\ e.hash = h /\ e.seq = n
          /\ rows' = AddVersion(k, h, n, rows)
      BY <1>4, <2>1 DEF Adds, Commits, Event
    <2>3. UniqueRuns(Len(log), j)' /\ (j # k => Rebuild(j)' = Rebuild(j))
      BY <2>2, RebuildSteps DEF Rebuilds
    <2>4. CASE j # k
      BY <1>1, <2>2, <2>3, <2>4, OthersKept
    <2>5. CASE j = k
      <3> SUFFICES ASSUME Quiet(j)' PROVE VersionsOf(j, rows') = Rebuild(j)'
        BY <2>3
      <3>1. ~Overtaken(k, n)
        BY <1>4, <2>5 DEF Quiet, Adds
      <3>2. EventsOf(j, "purged") = {}
        <4>1. n \in EventsOf(j, "observed")' /\ EventsOf(j, "purged")' = EventsOf(j, "purged")
          BY <2>2, <2>5, CommittedEvents
        <4>2. ASSUME NEW i \in EventsOf(j, "purged") PROVE FALSE
          <5>1. n < i
            BY <4>1, <4>2 DEF Quiet
          <5>2. QED
            BY <2>5, <3>1, <4>2, <5>1 DEF EventsOf, Overtaken
        <4>3. QED
          BY <4>2
      <3>3. Rebuild(j)' = ReplayEvent(Rebuild(j), e)
        <4>1. Commits(n, "observed", j, h) /\ ~Overtaken(j, n) /\ h \in Hashes \cup {Gone}
          BY <2>2, <2>5, <3>1
        <4>2. Rebuild(j)' = ReplayEvent(Rebuild(j), Event(n, "observed", j, h))
          BY <3>2, <4>1, RebuildLast
        <4>3. QED
          BY <2>1, <2>5, <4>2
      <3>4. ReplayEvent(Rebuild(j), e) = AddVersion(k, h, n, Rebuild(j))
        BY <2>2 DEF ReplayEvent
      <3>5. VersionsOf(j, rows') = AddVersion(k, h, n, VersionsOf(j, rows))
        BY <1>1, <2>2, <2>5, AddedVersions
      <3>6. QED
        BY <1>1, <3>3, <3>4, <3>5
    <2>6. QED
      BY <2>4, <2>5
  <1>5. ASSUME NEW n, n \in DOMAIN log, log[n].type = "gap",
               NEW t \in Rows, Logged(t), Stamps(t, n)
        PROVE  Agrees(j)
    <2>1. PICK e, k : e = Event(n, "deleted", t.key, Gone) /\ k = t.key
      OBVIOUS
    <2>2. /\ k \in Items /\ Commits(n, "deleted", k, Gone) /\ Gone \in Hashes \cup {Gone}
          /\ e.type = "deleted" /\ e.key = k /\ e.seq = n
          /\ rows' = Tombstone(t.id, n, rows)
      BY <1>5, <2>1 DEF Stamps, Commits, Event, Rows
    <2>3. n \in Seqs
      BY <1>5, BoundsAssumption DEF LogInv, RowsInv, Numbered, Seqs
    <2>4. /\ UniqueRuns(Len(log), j)'
          /\ j # k => Rebuild(j)' = Rebuild(j)
          /\ EventsOf(j, "purged") # {} => Rebuild(j) = {} /\ Rebuild(j)' = {}
      BY <2>2, RebuildSteps DEF Rebuilds
    <2>5. VersionsOf(j, rows') = Tombstone(t.id, n, VersionsOf(j, rows))
      BY <1>1, <2>2, <2>3, StampedVersions
    <2>6. ASSUME NEW r \in rows, r.id = t.id PROVE r.key = k
      BY <1>5, <2>1, <2>6 DEF LogInv, RowsInv, RowsAreLogged, Logged
    <2>7. CASE j # k
      <3>1. \A r \in VersionsOf(j, rows) : r.id # t.id
        BY <2>6, <2>7 DEF VersionsOf
      <3>2. VersionsOf(j, rows') = VersionsOf(j, rows)
        BY <2>5, <3>1, NothingStamped
      <3>3. QED
        BY <1>1, <2>4, <2>7, <3>2
    <2>8. CASE EventsOf(j, "purged") # {}
      <3>1. Tombstone(t.id, n, {}) = {}
        BY DEF Tombstone
      <3>2. QED
        BY <1>1, <2>4, <2>5, <2>8, <3>1
    <2>9. CASE j = k /\ EventsOf(j, "purged") = {}
      <3> SUFFICES ASSUME Quiet(j)' PROVE VersionsOf(j, rows') = Rebuild(j)'
        BY <2>4
      <3>1. PICK r \in rows : r.id = t.id
        BY <1>5, <2>1, <2>9 DEF Logged, LogInv, RowsInv, ObservedIsThere
      <3>2. ~Overtaken(k, n) /\ r.key = j /\ r.current
        <4>1. j \notin raced'
          BY DEF Quiet
        <4>2. QED
          BY <1>5, <2>1, <2>6, <2>9, <3>1, <4>1 DEF Stamps
      <3>3. Rebuild(j)' = ReplayEvent(Rebuild(j), e)
        <4>1. /\ Commits(n, "deleted", j, Gone) /\ ~Overtaken(j, n)
              /\ Gone \in Hashes \cup {Gone}
          BY <2>2, <2>9, <3>2
        <4>2. Rebuild(j)' = ReplayEvent(Rebuild(j), Event(n, "deleted", j, Gone))
          BY <2>9, <4>1, RebuildLast
        <4>3. QED
          BY <2>1, <2>9, <4>2
      <3>4. CurrentOf(j, rows) = {r}
        BY <3>2 DEF LogInv, RowsInv, HeadIsNewest, CurrentOf
      <3>5. CurrentOf(j, Rebuild(j)) = {r}
        BY <1>1, <3>4 DEF CurrentOf, VersionsOf
      <3>6. ReplayEvent(Rebuild(j), e) = Tombstone(t.id, n, Rebuild(j))
        <4>1. ReplayEvent(Rebuild(j), e) =
                UNION {Tombstone(c.id, n, Rebuild(j)) : c \in CurrentOf(j, Rebuild(j))}
          BY <2>2, <2>9 DEF ReplayEvent
        <4>2. QED
          BY <3>1, <3>5, <4>1
      <3>7. QED
        BY <1>1, <2>5, <3>3, <3>6
    <2>10. QED
      BY <2>7, <2>8, <2>9
  <1>6. ASSUME NEW n, n \in DOMAIN log, log[n].type = "gap",
               NEW k \in Items, NEW ts \in SUBSET Rows, \A t \in ts : Logged(t) /\ t.key = k,
               Removes(k, ts, n)
        PROVE  Agrees(j)
    <2>1. Commits(n, "purged", k, Gone) /\ Gone \in Hashes \cup {Gone}
      BY <1>6 DEF Removes, Commits
    <2>2. /\ UniqueRuns(Len(log), j)'
          /\ j # k => Rebuild(j)' = Rebuild(j)
          /\ j = k => Rebuild(j)' = {}
      BY <2>1, RebuildSteps DEF Rebuilds
    <2>3. CASE j # k
      <3>1. ASSUME NEW r \in rows, r.key = j, NEW t \in ts PROVE r.id # t.id
        BY <1>6, <2>3, <3>1 DEF LogInv, RowsInv, RowsAreLogged, Logged
      <3>2. VersionsOf(j, rows') = VersionsOf(j, rows)
        BY <1>6, <3>1 DEF Removes, VersionsOf
      <3>3. QED
        BY <1>1, <2>2, <2>3, <3>2
    <2>4. CASE j = k
      <3>1. Quiet(j)' => VersionsOf(j, rows') = {}
        BY <1>6, <2>4 DEF Removes, Quiet
      <3>2. QED
        BY <2>2, <2>4, <3>1
    <2>5. QED
      BY <2>3, <2>4
  <1> HIDE DEF Agrees
  <1>7. ASSUME NEW a \in Actors, Closes(a),
               \/ \E k \in Items, h \in Hashes : Adds(k, h, SeqIn(op[a]))
               \/ \E t \in TargetsOf(op[a]) : Stamps(t, SeqIn(op[a]))
               \/ op[a].at = "purge" /\ Removes(op[a].key, op[a].targets, SeqIn(op[a]))
        PROVE  Agrees(j)
    <2>1. PICK n : n = SeqIn(op[a])
      OBVIOUS
    <2>2. n \in DOMAIN log /\ log[n].type = "gap"
      BY <1>7, <2>1, Closing
    <2>3. CASE \E k \in Items, h \in Hashes : Adds(k, h, n)
      BY <1>4, <2>2, <2>3
    <2>4. CASE \E t \in TargetsOf(op[a]) : Stamps(t, n)
      <3>1. PICK t \in TargetsOf(op[a]) : Stamps(t, n)
        BY <2>4
      <3>2. t \in Rows /\ Logged(t)
        BY <1>7, Closing
      <3>3. QED
        BY <1>5, <2>2, <3>1, <3>2
    <2>5. CASE op[a].at = "purge" /\ Removes(op[a].key, op[a].targets, n)
      <3>1. /\ op[a].key \in Items /\ op[a].targets \in SUBSET Rows
            /\ \A t \in op[a].targets : Logged(t) /\ t.key = op[a].key
        BY <1>7, <2>5, Closing
      <3>2. QED
        BY <1>6, <2>2, <2>5, <3>1
    <2>6. QED
      BY <1>7, <2>1, <2>3, <2>4, <2>5
  <1>8. QED
    BY <1>1, <1>2, <1>3, <1>7, Kinds

\* The corpus is a projection of the log: replaying it yields, for every item on which
\* no stale write has landed, the very rows that are there, with their numbers, their
\* tombstones and their current version (replay.py _rebuild, deletion.py _purge_one).
THEOREM TheLogRebuildsTheRows == Spec => []ReplayAgrees
  <1>1. Init => Agreeing
    BY NoEvents DEF Init, Agreeing, UniqueRuns, VersionsOf, Rebuild, EventsOf
  <1>2. LogInv /\ Agreeing /\ [Next]_vars => Agreeing'
    BY AgreeStep
  <1>3. Agreeing => ReplayAgrees
    BY DEF Agreeing, ReplayAgrees
  <1>4. QED
    BY <1>1, <1>2, <1>3, Invariance, PTL DEF Spec
=============================================================================
