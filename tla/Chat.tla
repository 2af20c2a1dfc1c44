-------------------------------- MODULE Chat --------------------------------
(***************************************************************************)
(* The front door (application/chat.py, attachments.py): what is typed is  *)
(* kept as a memory, answered, or both, and every turn goes into the       *)
(* transcript of a session.  A turn names its memory by external key, not  *)
(* by id, so nothing in the database ties the two together: sending,       *)
(* correcting, hiding, restoring and purging (application/deletion.py)     *)
(* have to keep them in agreement.                                         *)
(*                                                                         *)
(* A transaction that locks the session row and reads under the lock is    *)
(* one action.  A correction reads the turn it corrects in a transaction   *)
(* of its own; a hide, a restore and a purge read the item with one        *)
(* statement and act on what it said with a later one: these are two       *)
(* actions each.                                                           *)
(*                                                                         *)
(* Which session a turn goes to (named, new, or the one the thirty-minute  *)
(* rule picks) is left open: any of them may be the one.                   *)
(***************************************************************************)
EXTENDS Integers, FiniteSets

CONSTANTS
  Sessions,    \* conversations, started or not
  Keys,        \* external keys, each minted at most once
  Texts,       \* what a person may type
  Nothing,     \* no key, or content nobody looks at
  Callers,     \* requests in flight
  Overlap,     \* may a key be written while a restore or purge is half-way
  MaxTurns,    \* bound: turns ever written
  MaxVersions  \* bound: versions of one item

ASSUME ChatAssumption ==
  /\ Nothing \notin Keys \cup Texts
  /\ Overlap \in BOOLEAN
  /\ MaxTurns \in Nat
  /\ MaxVersions \in Nat \ {0}

VARIABLES
  count,       \* chat_sessions.message_count, 0 for a session not started
  turns,       \* chat_messages
  written,     \* how many turns were ever written; ids are minted in order
  mem,         \* the current version of each item; version 0 is none
  purged,      \* the keys with an ITEM_PURGED event in the log
  calls        \* what each request is in the middle of

vars == <<count, turns, written, mem, purged, calls>>

Turns == [id : 1..MaxTurns, session : Sessions, ordinal : 0..MaxTurns,
          key : Keys \cup {Nothing}, text : Texts \cup {Nothing}]

Absent == [version |-> 0, text |-> Nothing, hidden |-> FALSE]
Items == [version : 0..MaxVersions, text : Texts \cup {Nothing},
          hidden : BOOLEAN]

Idle == [at |-> "idle"]
Answering == [at : {"answer"}, session : Sessions]
Correcting == [at : {"correct"}, original : Turns, text : Texts]
Hiding == [at : {"hide"}, key : Keys, seen : 1..MaxVersions]
Restoring == [at : {"restore"}, key : Keys, text : Texts \cup {Nothing}]
Purging == [at : {"purge"}, key : Keys, seen : 0..MaxVersions]

TypeOK ==
  /\ count \in [Sessions -> 0..MaxTurns]
  /\ turns \in SUBSET Turns
  /\ written \in 0..MaxTurns
  /\ mem \in [Keys -> Items]
  /\ purged \in SUBSET Keys
  /\ calls \in [Callers -> {Idle} \cup Answering \cup Correcting
                             \cup Hiding \cup Restoring \cup Purging]

Init ==
  /\ count = [s \in Sessions |-> 0]
  /\ turns = {}
  /\ written = 0
  /\ mem = [k \in Keys |-> Absent]
  /\ purged = {}
  /\ calls = [c \in Callers |-> Idle]

-----------------------------------------------------------------------------
(* The parts the operations are made of *)

Become(c, state) == calls' = [calls EXCEPT ![c] = state]

TurnsOf(s) == {t \in turns : t.session = s}

\* Mutant: the number of rows, what message_count was before turns could go.
NextByCount(s, o) == o = Cardinality(TurnsOf(s))

\* _next_ordinal: one past the highest there is.
IsNextOrdinal(s, o) ==
  /\ \A t \in TurnsOf(s) : t.ordinal < o
  /\ o = 0 \/ \E t \in TurnsOf(s) : t.ordinal = o - 1

\* One turn, under the lock of its session's row.
AppendTurn(s, key, text) ==
  /\ written < MaxTurns
  /\ \E o \in 0..MaxTurns :
       /\ IsNextOrdinal(s, o)
       /\ turns' = turns \cup {[id |-> written + 1, session |-> s,
                                ordinal |-> o, key |-> key, text |-> text]}
  /\ written' = written + 1
  /\ count' = [count EXCEPT ![s] = @ + 1]

\* The key carries a new id: no item has or had it.
Fresh == {k \in Keys : mem[k].version = 0 /\ k \notin purged}

First(text) == [version |-> 1, text |-> text, hidden |-> FALSE]

\* ingest_item, of a key that may have a version already.
Unchanged(k, text) ==
  mem[k].version > 0 /\ mem[k].text = text /\ ~mem[k].hidden

Observe(k, text) ==
  /\ mem[k].version < MaxVersions
  /\ mem' = [mem EXCEPT ![k] = [version |-> @.version + 1, text |-> text,
                                hidden |-> FALSE]]

\* No other request is between reading this item and writing it.
Undisturbed(c, k) ==
  Overlap \/ \A d \in Callers \ {c} :
    calls[d].at \in {"restore", "purge"} => calls[d].key # k

-----------------------------------------------------------------------------
(* Sending and answering *)

\* _append_user and attach: the memories and the turn commit together.  A
\* turn with words to keep has a key; a question, or files without a note,
\* has none.  The answer follows in this request unless it was deferred.
UserTurn(c, s, files) ==
  /\ calls[c] = Idle
  /\ \/ /\ AppendTurn(s, Nothing, Nothing)
        /\ mem' = [k \in Keys |-> IF k \in files THEN First(Nothing) ELSE mem[k]]
     \/ \E key \in Fresh \ files, text \in Texts :
          /\ AppendTurn(s, key, text)
          /\ mem' = [k \in Keys |-> IF k = key THEN First(text)
                                    ELSE IF k \in files THEN First(Nothing)
                                    ELSE mem[k]]
  /\ \/ UNCHANGED calls
     \/ Become(c, [at |-> "answer", session |-> s])
  /\ UNCHANGED purged

Send(c, s) == UserTurn(c, s, {})

Attach(c, s) == \E files \in SUBSET Fresh \ {{}} : UserTurn(c, s, files)

\* /chat/ask: the answer is streamed, for a session that has been started.
Ask(c, s) ==
  /\ calls[c] = Idle
  /\ count[s] > 0
  /\ Become(c, [at |-> "answer", session |-> s])
  /\ UNCHANGED <<count, turns, written, mem, purged>>

\* The model is done: _answer_exchange, record_answer.
RecordAnswer(c) ==
  /\ calls[c].at = "answer"
  /\ AppendTurn(calls[c].session, Nothing, Nothing)
  /\ Become(c, Idle)
  /\ UNCHANGED <<mem, purged>>

\* The model fails, the stream is cut, the process dies: what was not
\* committed was not written.
GiveUp(c) ==
  /\ calls[c] # Idle
  /\ Become(c, Idle)
  /\ UNCHANGED <<count, turns, written, mem, purged>>

-----------------------------------------------------------------------------
(* Correcting *)

\* correct() reads the turn; it must have stored something else than this.
StartCorrect(c) ==
  /\ calls[c] = Idle
  /\ \E t \in turns, text \in Texts :
       /\ t.key # Nothing
       /\ t.text # text
       /\ Become(c, [at |-> "correct", original |-> t, text |-> text])
  /\ UNCHANGED <<count, turns, written, mem, purged>>

\* Mutant: corrects_message_id is no foreign key.
FinishCorrectUntied(c) ==
  /\ calls[c].at = "correct"
  /\ LET o == calls[c].original
     IN /\ Undisturbed(c, o.key)
        /\ IF Unchanged(o.key, calls[c].text)
           THEN UNCHANGED <<count, turns, written, mem>>
           ELSE /\ Observe(o.key, calls[c].text)
                /\ AppendTurn(o.session, o.key, calls[c].text)
  /\ Become(c, Idle)
  /\ UNCHANGED purged

\* Mutant: what is out of view is corrected in the transcript alone.
FinishCorrectInView(c) ==
  /\ calls[c].at = "correct"
  /\ LET o == calls[c].original
     IN /\ Undisturbed(c, o.key)
        /\ IF \/ Unchanged(o.key, calls[c].text)
              \/ o.id \notin {t.id : t \in turns}
           THEN UNCHANGED <<count, turns, written, mem>>
           ELSE /\ IF mem[o.key].hidden THEN UNCHANGED mem
                   ELSE Observe(o.key, calls[c].text)
                /\ AppendTurn(o.session, o.key, calls[c].text)
  /\ Become(c, Idle)
  /\ UNCHANGED purged

\* The session is locked, the version is added and the turn is written.  What
\* the item says already is refused; a turn that has been purged since fails
\* the foreign key, and the version is rolled back with it.
FinishCorrect(c) ==
  /\ calls[c].at = "correct"
  /\ LET o == calls[c].original
     IN /\ Undisturbed(c, o.key)
        /\ IF \/ Unchanged(o.key, calls[c].text)
              \/ o.id \notin {t.id : t \in turns}
           THEN UNCHANGED <<count, turns, written, mem>>
           ELSE /\ Observe(o.key, calls[c].text)
                /\ AppendTurn(o.session, o.key, calls[c].text)
  /\ Become(c, Idle)
  /\ UNCHANGED purged

-----------------------------------------------------------------------------
(* Hiding, restoring, purging: typed or uploaded, an item is an item *)

\* tombstone() reads the current version ...
StartHide(c, k) ==
  /\ calls[c] = Idle
  /\ mem[k].version > 0 /\ ~mem[k].hidden
  /\ Become(c, [at |-> "hide", key |-> k, seen |-> mem[k].version])
  /\ UNCHANGED <<count, turns, written, mem, purged>>

\* ... and stamps that one, current still or not, or gone.
FinishHide(c) ==
  /\ calls[c].at = "hide"
  /\ LET k == calls[c].key
     IN mem' = IF mem[k].version = calls[c].seen
                 THEN [mem EXCEPT ![k].hidden = TRUE] ELSE mem
  /\ Become(c, Idle)
  /\ UNCHANGED <<count, turns, written, purged>>

\* restore() takes the content from the hidden version ...
StartRestore(c, k) ==
  /\ calls[c] = Idle
  /\ Undisturbed(c, k)
  /\ mem[k].version > 0 /\ mem[k].hidden
  /\ Become(c, [at |-> "restore", key |-> k, text |-> mem[k].text])
  /\ UNCHANGED <<count, turns, written, mem, purged>>

\* ... and observes it once more.
FinishRestore(c) ==
  /\ calls[c].at = "restore"
  /\ IF Unchanged(calls[c].key, calls[c].text)
     THEN UNCHANGED mem
     ELSE Observe(calls[c].key, calls[c].text)
  /\ Become(c, Idle)
  /\ UNCHANGED <<count, turns, written, purged>>

\* _purge_one collects the versions ...
StartPurge(c, k) ==
  /\ calls[c] = Idle
  /\ Undisturbed(c, k)
  /\ mem[k].version > 0
  /\ Become(c, [at |-> "purge", key |-> k, seen |-> mem[k].version])
  /\ UNCHANGED <<count, turns, written, mem, purged>>

\* Mutant: a session counts the turns that are left.
FinishPurgeRecounted(c) ==
  /\ calls[c].at = "purge"
  /\ LET k == calls[c].key
     IN /\ turns' = {t \in turns : t.key # k}
        /\ count' = [s \in Sessions |->
                       Cardinality({t \in TurnsOf(s) : t.key # k})]
        /\ mem' = [mem EXCEPT ![k] = IF @.version > calls[c].seen THEN @
                                     ELSE Absent]
        /\ purged' = purged \cup {k}
  /\ Become(c, Idle)
  /\ UNCHANGED written

\* ... and deletes those, and every turn with the key.  No session's count is
\* touched.
FinishPurge(c) ==
  /\ calls[c].at = "purge"
  /\ LET k == calls[c].key
     IN /\ turns' = {t \in turns : t.key # k}
        /\ mem' = [mem EXCEPT ![k] = IF @.version > calls[c].seen THEN @
                                     ELSE Absent]
        /\ purged' = purged \cup {k}
  /\ Become(c, Idle)
  /\ UNCHANGED <<count, written>>

Next ==
  \E c \in Callers :
    \/ \E s \in Sessions : Send(c, s) \/ Attach(c, s) \/ Ask(c, s)
    \/ RecordAnswer(c) \/ GiveUp(c)
    \/ StartCorrect(c) \/ FinishCorrect(c)
    \/ \E k \in Keys : StartHide(c, k) \/ StartRestore(c, k) \/ StartPurge(c, k)
    \/ FinishHide(c) \/ FinishRestore(c) \/ FinishPurge(c)

Spec == Init /\ [][Next]_vars

-----------------------------------------------------------------------------
(* Correctness *)

\* Ordinals order a conversation the way it was written, whatever was purged
\* from it in between (_next_ordinal; uq_chat_messages_session_ordinal).
OrdinalsTellTheOrder ==
  \A t, u \in turns :
    t.session = u.session => (t.id < u.id <=> t.ordinal < u.ordinal)

\* history_for cuts at message_count and so reaches the last turn: the count
\* is above every ordinal, purges or not.
HistoryReachesTheEnd == \A t \in turns : t.ordinal < count[t.session]

\* What was deleted for good does not come back, in the corpus or in the
\* transcript, whoever was in the middle of correcting it (_purge_one).
PurgedStaysGone ==
  \A k \in purged : mem[k].version = 0 /\ \A t \in turns : t.key # k

\* The last turn that speaks for an item says what its current version says:
\* the transcript and the corpus tell the same story (correct, restore).
LastWordIsCurrent ==
  \A t \in turns :
    \/ t.key = Nothing
    \/ \E u \in turns : u.key = t.key /\ u.id > t.id
    \/ mem[t.key].version > 0 /\ mem[t.key].text = t.text
=============================================================================
