----------------------------- MODULE ChatProofs -----------------------------
(***************************************************************************)
(* What a chat page is shown: the transcript it reads (Chat), for any      *)
(* number of sessions, keys, texts and requests, and the live events it is *)
(* sent (LiveStream), for any number of pages, events and restarts and any *)
(* size of the ring buffer.                                                *)
(*                                                                         *)
(* Structure is what the lock on the session row gives, whatever the       *)
(* requests do: ids and ordinals ascend together and the count stays above *)
(* them.  Story ties the transcript to the corpus; it needs what Overlap   *)
(* excludes, and rests on what a request that is half-way still knows.     *)
(* LInv says that what waits for a page is an unbroken run of events that  *)
(* ends with the newest, so a page that is owed an event of this process   *)
(* and is not waiting for it was told of a gap.                            *)
(***************************************************************************)
EXTENDS Chat, LiveStream, FiniteSetTheorems, TLAPS

-----------------------------------------------------------------------------
(* The transcript *)

Structure ==
  /\ \A t \in turns : t.id <= written
  /\ \A t, u \in turns : t.id = u.id => t = u
  /\ \A s \in Sessions : count[s] <= written
  /\ OrdinalsTellTheOrder
  /\ HistoryReachesTheEnd

\* A keyed turn has its item, the last of them says what the item says, and
\* nothing is left of what was purged.
Told == \A t \in turns : t.key # Nothing => mem[t.key].version > 0

\* What a request has read still holds of turns, items and ids.
Holds(call, ts, items, n) ==
  /\ call.at = "correct" =>
       /\ call.original.key # Nothing
       /\ call.original.id <= n
       /\ \A t \in ts : t.id = call.original.id => t = call.original
  /\ call.at = "restore" =>
       /\ items[call.key].version > 0
       /\ items[call.key].text = call.text
  /\ call.at = "purge" =>
       /\ items[call.key].version > 0
       /\ items[call.key].version = call.seen

HalfWay(call, k) == call.at \in {"restore", "purge"} /\ call.key = k

Known ==
  \A c \in Callers :
    /\ Holds(calls[c], turns, mem, written)
    /\ \A d \in Callers \ {c}, k \in Keys :
         ~(HalfWay(calls[c], k) /\ HalfWay(calls[d], k))

Story == Told /\ Known /\ PurgedStaysGone /\ LastWordIsCurrent

-----------------------------------------------------------------------------
(* Turns *)

\* What appending a turn does, without the record.
LEMMA AppendedTurn ==
  ASSUME TypeOK, NEW s \in Sessions, NEW key \in Keys \cup {Nothing},
         NEW text \in Texts \cup {Nothing}, AppendTurn(s, key, text)
  PROVE  \E t \in Turns :
           /\ t.id = written + 1 /\ t.session = s
           /\ t.key = key /\ t.text = text
           /\ turns' = turns \cup {t}
           /\ \A u \in turns : u.session = s => u.ordinal < t.ordinal
           /\ \/ t.ordinal = 0
              \/ \E u \in turns : u.session = s /\ u.ordinal = t.ordinal - 1
<1>1. PICK o \in 0..MaxTurns :
        /\ IsNextOrdinal(s, o)
        /\ turns' = turns \cup {[id |-> written + 1, session |-> s,
                                 ordinal |-> o, key |-> key, text |-> text]}
  BY DEF AppendTurn
<1> DEFINE t == [id |-> written + 1, session |-> s, ordinal |-> o,
                 key |-> key, text |-> text]
<1>2. written + 1 \in 1..MaxTurns
  BY ChatAssumption DEF AppendTurn, TypeOK
<1>3. t \in Turns
  BY <1>2 DEF Turns
<1>4. /\ t.id = written + 1 /\ t.session = s /\ t.ordinal = o
      /\ t.key = key /\ t.text = text
  OBVIOUS
<1>5. /\ \A u \in turns : u.session = s => u.ordinal < o
      /\ o = 0 \/ \E u \in turns : u.session = s /\ u.ordinal = o - 1
  BY <1>1 DEF IsNextOrdinal, TurnsOf
<1>6. turns' = turns \cup {t}
  BY <1>1
<1> HIDE DEF t
<1> QED  BY <1>3, <1>4, <1>5, <1>6

LEMMA Counted ==
  ASSUME TypeOK, NEW s \in Sessions, NEW key, NEW text,
         AppendTurn(s, key, text)
  PROVE  /\ written < MaxTurns
         /\ written' = written + 1
         /\ count'[s] = count[s] + 1
         /\ \A r \in Sessions : r # s => count'[r] = count[r]
         /\ DOMAIN count' = Sessions
         /\ count' = [r \in Sessions |-> count'[r]]
BY DEF AppendTurn, TypeOK

\* A turn at the end of its session keeps the order and the count.
LEMMA AppendKeepsStructure ==
  ASSUME TypeOK, Structure, NEW s \in Sessions,
         NEW key \in Keys \cup {Nothing}, NEW text \in Texts \cup {Nothing},
         AppendTurn(s, key, text)
  PROVE  /\ Structure'
         /\ turns' \in SUBSET Turns
         /\ written' \in 0..MaxTurns
         /\ count' \in [Sessions -> 0..MaxTurns]
<1>1. PICK t \in Turns :
        /\ t.id = written + 1 /\ t.session = s
        /\ turns' = turns \cup {t}
        /\ \A u \in turns : u.session = s => u.ordinal < t.ordinal
        /\ \/ t.ordinal = 0
           \/ \E u \in turns : u.session = s /\ u.ordinal = t.ordinal - 1
  BY AppendedTurn
<1>2. /\ written < MaxTurns /\ written' = written + 1
      /\ count'[s] = count[s] + 1
      /\ \A r \in Sessions : r # s => count'[r] = count[r]
      /\ count' = [r \in Sessions |-> count'[r]]
  BY Counted
<1>3. /\ written \in Nat /\ MaxTurns \in Nat
      /\ \A r \in Sessions : count[r] \in Nat /\ count[r] <= written
  BY ChatAssumption DEF TypeOK, Structure
<1>4. \A u \in turns \cup {t} :
        /\ u.id \in Nat /\ u.ordinal \in Nat /\ u.session \in Sessions
  BY DEF TypeOK, Turns
<1>5. \A u \in turns : u.id <= written /\ u.ordinal < count[u.session]
  BY DEF Structure, HistoryReachesTheEnd
<1>6. \A r \in Sessions : count'[r] \in 0..MaxTurns /\ count'[r] <= written'
  BY <1>2, <1>3
<1>7. \A u \in turns' : u.id <= written'
  BY <1>1, <1>2, <1>3, <1>4, <1>5
<1>8. \A u, v \in turns' : u.id = v.id => u = v
  <2>1. \A u, v \in turns : u.id = v.id => u = v
    BY DEF Structure
  <2>2. \A u \in turns : u.id # t.id
    BY <1>1, <1>3, <1>4, <1>5
  <2> QED  BY <1>1, <2>1, <2>2
<1>9. \A u, v \in turns' :
        u.session = v.session => (u.id < v.id <=> u.ordinal < v.ordinal)
  <2>1. \A u, v \in turns :
          u.session = v.session => (u.id < v.id <=> u.ordinal < v.ordinal)
    BY DEF Structure, OrdinalsTellTheOrder
  <2>2. \A u \in turns : u.id < t.id /\ ~(t.id < u.id)
    BY <1>1, <1>3, <1>4, <1>5
  <2>3. \A u \in turns :
          u.session = s => u.ordinal < t.ordinal /\ ~(t.ordinal < u.ordinal)
    BY <1>1, <1>4
  <2>4. ~(t.id < t.id) /\ ~(t.ordinal < t.ordinal)
    BY <1>4
  <2> QED  BY <1>1, <2>1, <2>2, <2>3, <2>4
<1>10. \A u \in turns' : u.ordinal < count'[u.session]
  <2>1. \A u \in turns : u.ordinal < count'[u.session]
    BY <1>2, <1>3, <1>4, <1>5
  <2>2. t.ordinal < count'[s]
    <3>1. CASE t.ordinal = 0
      BY <3>1, <1>2, <1>3
    <3>2. CASE \E u \in turns : u.session = s /\ u.ordinal = t.ordinal - 1
      BY <3>2, <1>2, <1>3, <1>4, <1>5
    <3> QED  BY <3>1, <3>2, <1>1
  <2> QED  BY <1>1, <2>1, <2>2
<1>11. turns' \in SUBSET Turns
  BY <1>1 DEF TypeOK
<1>12. written' \in 0..MaxTurns
  BY <1>2, <1>3
<1>13. count' \in [Sessions -> 0..MaxTurns]
  BY <1>2, <1>6
<1>14. Structure'
  BY <1>6, <1>7, <1>8, <1>9, <1>10
     DEF Structure, OrdinalsTellTheOrder, HistoryReachesTheEnd
<1> QED  BY <1>11, <1>12, <1>13, <1>14

\* Turns that go leave the order of the others as it was.
LEMMA FewerTurnsKeepStructure ==
  ASSUME Structure, turns' \subseteq turns, UNCHANGED <<written, count>>
  PROVE  Structure'
BY DEF Structure, OrdinalsTellTheOrder, HistoryReachesTheEnd

-----------------------------------------------------------------------------
(* Types *)

Requests == {Idle} \cup Answering \cup Correcting
                   \cup Hiding \cup Restoring \cup Purging

LEMMA Became ==
  ASSUME TypeOK, NEW c \in Callers, NEW state \in Requests, Become(c, state)
  PROVE  /\ calls' \in [Callers -> Requests]
         /\ calls'[c] = state
         /\ \A d \in Callers \ {c} : calls'[d] = calls[d]
<1>1. calls \in [Callers -> Requests]
  BY DEF TypeOK, Requests
<1> QED  BY <1>1 DEF Become

LEMMA IdleIsARequest == Idle \in Requests
BY DEF Requests

\* One item changes: the others stay what they are.
LEMMA OneItem ==
  ASSUME TypeOK, NEW k \in Keys, NEW item \in Items,
         mem' = [mem EXCEPT ![k] = item]
  PROVE  /\ mem' \in [Keys -> Items]
         /\ mem'[k] = item
         /\ \A j \in Keys \ {k} : mem'[j] = mem[j]
BY DEF TypeOK

LEMMA ItemTyped ==
  ASSUME NEW v \in 0..MaxVersions, NEW text \in Texts \cup {Nothing},
         NEW h \in BOOLEAN
  PROVE  [version |-> v, text |-> text, hidden |-> h] \in Items
BY DEF Items

LEMMA Observed ==
  ASSUME TypeOK, NEW k \in Keys, NEW text \in Texts \cup {Nothing},
         Observe(k, text)
  PROVE  /\ mem' \in [Keys -> Items]
         /\ mem'[k].version > 0
         /\ mem'[k].text = text
         /\ \A j \in Keys \ {k} : mem'[j] = mem[j]
<1> DEFINE item == [version |-> mem[k].version + 1, text |-> text,
                    hidden |-> FALSE]
<1>1. mem[k].version \in 0..MaxVersions
  BY DEF TypeOK, Items
<1>2. mem[k].version < MaxVersions /\ mem' = [mem EXCEPT ![k] = item]
  BY DEF Observe
<1>3. mem[k].version + 1 \in 0..MaxVersions /\ mem[k].version + 1 > 0
  BY <1>1, <1>2, ChatAssumption
<1>4. item \in Items
  BY <1>3, ItemTyped
<1>5. item.version > 0 /\ item.text = text
  BY <1>3
<1> HIDE DEF item
<1> QED  BY <1>2, <1>4, <1>5, OneItem

LEMMA FirstTyped ==
  ASSUME NEW text \in Texts \cup {Nothing}
  PROVE  First(text) \in Items /\ First(text).version = 1
                               /\ First(text).text = text
<1>1. 1 \in 0..MaxVersions
  BY ChatAssumption
<1>2. First(text) \in Items
  BY <1>1, ItemTyped DEF First
<1> QED  BY <1>2 DEF First

\* What a message writes: a turn that is unkeyed, or keyed to an item that is
\* new and says what the turn says; and items that were not there.
LEMMA TurnWritten ==
  ASSUME TypeOK, NEW c \in Callers, NEW s \in Sessions,
         NEW files \in SUBSET Fresh, UserTurn(c, s, files)
  PROVE  \E key \in Keys \cup {Nothing}, text \in Texts \cup {Nothing} :
           /\ AppendTurn(s, key, text)
           /\ mem' \in [Keys -> Items]
           /\ \A k \in Keys \ Fresh : mem'[k] = mem[k]
           /\ key # Nothing =>
                key \in Fresh /\ mem'[key].version > 0 /\ mem'[key].text = text
<1>0. files \subseteq Keys /\ mem \in [Keys -> Items]
  BY DEF Fresh, TypeOK
<1>1. CASE /\ AppendTurn(s, Nothing, Nothing)
           /\ mem' = [k \in Keys |-> IF k \in files THEN First(Nothing)
                                     ELSE mem[k]]
  <2>1. mem' \in [Keys -> Items]
    BY <1>0, <1>1, FirstTyped
  <2>2. \A k \in Keys \ Fresh : mem'[k] = mem[k]
    BY <1>0, <1>1
  <2> QED  BY <1>1, <2>1, <2>2
<1>2. CASE \E key \in Fresh \ files, text \in Texts :
             /\ AppendTurn(s, key, text)
             /\ mem' = [k \in Keys |-> IF k = key THEN First(text)
                                       ELSE IF k \in files THEN First(Nothing)
                                       ELSE mem[k]]
  <2>1. PICK key \in Fresh \ files, text \in Texts :
          /\ AppendTurn(s, key, text)
          /\ mem' = [k \in Keys |-> IF k = key THEN First(text)
                                    ELSE IF k \in files THEN First(Nothing)
                                    ELSE mem[k]]
    BY <1>2
  <2>2. key \in Keys /\ key \in Fresh
    BY DEF Fresh
  <2>3. mem' \in [Keys -> Items]
    BY <1>0, <2>1, FirstTyped
  <2>4. \A k \in Keys \ Fresh : mem'[k] = mem[k]
    BY <1>0, <2>1, <2>2
  <2>5. mem'[key] = First(text)
    BY <2>1, <2>2
  <2>6. mem'[key].version > 0 /\ mem'[key].text = text
    BY <2>5, FirstTyped
  <2> QED  BY <2>1, <2>2, <2>3, <2>4, <2>6
<1> QED  BY <1>1, <1>2 DEF UserTurn

-----------------------------------------------------------------------------
(* Types and structure are kept by every step, Overlap or not *)

LEMMA StructureStep ==
  ASSUME TypeOK, Structure, Next
  PROVE  TypeOK' /\ Structure'
<1>0. PICK c \in Callers :
        \/ \E s \in Sessions : Send(c, s) \/ Attach(c, s) \/ Ask(c, s)
        \/ RecordAnswer(c) \/ GiveUp(c)
        \/ StartCorrect(c) \/ FinishCorrect(c)
        \/ \E k \in Keys :
             StartHide(c, k) \/ StartRestore(c, k) \/ StartPurge(c, k)
        \/ FinishHide(c) \/ FinishRestore(c) \/ FinishPurge(c)
  BY DEF Next
<1>a. /\ count \in [Sessions -> 0..MaxTurns] /\ turns \in SUBSET Turns
      /\ written \in 0..MaxTurns /\ mem \in [Keys -> Items]
      /\ purged \in SUBSET Keys /\ calls \in [Callers -> Requests]
  BY DEF TypeOK, Requests
<1> DEFINE Typed == /\ count' \in [Sessions -> 0..MaxTurns]
                    /\ turns' \in SUBSET Turns
                    /\ written' \in 0..MaxTurns /\ mem' \in [Keys -> Items]
                    /\ purged' \in SUBSET Keys
                    /\ calls' \in [Callers -> Requests]
<1>b. Typed => TypeOK'
  BY DEF TypeOK, Requests
<1>c. Idle \in Requests
  BY IdleIsARequest
<1>d. UNCHANGED <<count, turns, written>> => Structure'
  BY FewerTurnsKeepStructure
<1>1. ASSUME NEW s \in Sessions, NEW files \in SUBSET Fresh,
             UserTurn(c, s, files)
      PROVE  Typed /\ Structure'
  <2>1. PICK key \in Keys \cup {Nothing}, text \in Texts \cup {Nothing} :
          AppendTurn(s, key, text) /\ mem' \in [Keys -> Items]
    BY <1>1, TurnWritten
  <2>2. /\ Structure' /\ turns' \in SUBSET Turns
        /\ written' \in 0..MaxTurns /\ count' \in [Sessions -> 0..MaxTurns]
    BY <2>1, AppendKeepsStructure
  <2>3. [at |-> "answer", session |-> s] \in Requests
    BY DEF Requests, Answering
  <2>4. calls' \in [Callers -> Requests]
    <3>1. CASE UNCHANGED calls
      BY <3>1, <1>a
    <3>2. CASE Become(c, [at |-> "answer", session |-> s])
      BY <3>2, <2>3, Became
    <3> QED  BY <3>1, <3>2, <1>1 DEF UserTurn
  <2>5. purged' = purged
    BY <1>1 DEF UserTurn
  <2> QED  BY <2>1, <2>2, <2>4, <2>5, <1>a
<1>2. ASSUME NEW s \in Sessions, Send(c, s)
      PROVE  Typed /\ Structure'
  <2>1. {} \in SUBSET Fresh
    OBVIOUS
  <2> QED  BY <1>1, <1>2, <2>1 DEF Send
<1>3. ASSUME NEW s \in Sessions, Attach(c, s)
      PROVE  Typed /\ Structure'
  BY <1>1, <1>3 DEF Attach
<1>4. ASSUME NEW s \in Sessions, Ask(c, s)
      PROVE  Typed /\ Structure'
  <2>1. [at |-> "answer", session |-> s] \in Requests
    BY DEF Requests, Answering
  <2>2. calls' \in [Callers -> Requests]
    BY <1>4, <2>1, Became DEF Ask
  <2>3. UNCHANGED <<count, turns, written, mem, purged>>
    BY <1>4 DEF Ask
  <2> QED  BY <2>2, <2>3, <1>a, <1>d
<1>5. CASE RecordAnswer(c)
  <2>1. calls[c].at = "answer" /\ calls[c] \in Requests
    BY <1>5, <1>a DEF RecordAnswer
  <2>2. calls[c].session \in Sessions
    BY <2>1 DEF Requests, Idle, Answering, Correcting, Hiding, Restoring,
           Purging
  <2>3. AppendTurn(calls[c].session, Nothing, Nothing)
    BY <1>5 DEF RecordAnswer
  <2>4. Structure' /\ turns' \in SUBSET Turns
        /\ written' \in 0..MaxTurns /\ count' \in [Sessions -> 0..MaxTurns]
    BY <2>2, <2>3, AppendKeepsStructure
  <2>5. calls' \in [Callers -> Requests]
    BY <1>5, <1>c, Became DEF RecordAnswer
  <2>6. UNCHANGED <<mem, purged>>
    BY <1>5 DEF RecordAnswer
  <2> QED  BY <2>4, <2>5, <2>6, <1>a, <1>b
<1>6. CASE GiveUp(c)
  <2>1. calls' \in [Callers -> Requests]
    BY <1>6, <1>c, Became DEF GiveUp
  <2>2. UNCHANGED <<count, turns, written, mem, purged>>
    BY <1>6 DEF GiveUp
  <2> QED  BY <2>1, <2>2, <1>a, <1>b, <1>d
<1>7. CASE StartCorrect(c)
  <2>1. PICK t \in turns, text \in Texts :
          Become(c, [at |-> "correct", original |-> t, text |-> text])
    BY <1>7 DEF StartCorrect
  <2>2. [at |-> "correct", original |-> t, text |-> text] \in Requests
    BY <1>a DEF Requests, Correcting
  <2>3. calls' \in [Callers -> Requests]
    BY <2>1, <2>2, Became
  <2>4. UNCHANGED <<count, turns, written, mem, purged>>
    BY <1>7 DEF StartCorrect
  <2> QED  BY <2>3, <2>4, <1>a, <1>b, <1>d
<1>8. CASE FinishCorrect(c)
  <2>1. calls' \in [Callers -> Requests]
    BY <1>8, <1>c, Became DEF FinishCorrect
  <2>2. purged' = purged
    BY <1>8 DEF FinishCorrect
  <2>3. CASE UNCHANGED <<count, turns, written, mem>>
    BY <2>1, <2>2, <2>3, <1>a, <1>b, <1>d
  <2>4. CASE /\ Observe(calls[c].original.key, calls[c].text)
             /\ AppendTurn(calls[c].original.session, calls[c].original.key,
                           calls[c].text)
             /\ calls[c].original.key # Nothing
    <3>1. calls[c].at = "correct" /\ calls[c] \in Requests
      BY <1>8, <1>a DEF FinishCorrect
    <3>2. calls[c].original \in Turns /\ calls[c].text \in Texts
      BY <3>1 DEF Requests, Idle, Answering, Correcting, Hiding, Restoring,
           Purging
    <3>3. /\ calls[c].original.session \in Sessions
          /\ calls[c].original.key \in Keys \cup {Nothing}
      BY <3>2 DEF Turns
    <3>4. /\ Structure' /\ turns' \in SUBSET Turns
          /\ written' \in 0..MaxTurns /\ count' \in [Sessions -> 0..MaxTurns]
      BY <2>4, <3>2, <3>3, AppendKeepsStructure
    <3>5. mem' \in [Keys -> Items]
      BY <2>4, <3>2, <3>3, Observed
    <3> QED  BY <2>1, <2>2, <3>4, <3>5, <1>a, <1>b
  <2>5. CASE /\ Observe(calls[c].original.key, calls[c].text)
             /\ AppendTurn(calls[c].original.session, calls[c].original.key,
                           calls[c].text)
             /\ calls[c].original.key = Nothing
    <3>1. calls[c].at = "correct" /\ calls[c] \in Requests
      BY <1>8, <1>a DEF FinishCorrect
    <3>2. calls[c].original \in Turns /\ calls[c].text \in Texts
      BY <3>1 DEF Requests, Idle, Answering, Correcting, Hiding, Restoring,
           Purging
    <3>3. calls[c].original.session \in Sessions
      BY <3>2 DEF Turns
    <3>4. /\ Structure' /\ turns' \in SUBSET Turns
          /\ written' \in 0..MaxTurns /\ count' \in [Sessions -> 0..MaxTurns]
      BY <2>5, <3>2, <3>3, AppendKeepsStructure
    <3>5. Nothing \notin Keys
      BY ChatAssumption
    <3>6. mem' = mem
      BY <2>5, <3>5, <1>a DEF Observe
    <3> QED  BY <2>1, <2>2, <3>4, <3>6, <1>a, <1>b
  <2> QED  BY <2>3, <2>4, <2>5, <1>8 DEF FinishCorrect
<1>9. ASSUME NEW k \in Keys, StartHide(c, k)
      PROVE  Typed /\ Structure'
  <2>1. mem[k].version \in 0..MaxVersions /\ mem[k].version > 0
    BY <1>9, <1>a DEF Items, StartHide
  <2>2. mem[k].version \in 1..MaxVersions
    BY <2>1, ChatAssumption
  <2>3. [at |-> "hide", key |-> k, seen |-> mem[k].version] \in Requests
    BY <2>2 DEF Requests, Hiding
  <2>4. calls' \in [Callers -> Requests]
    BY <1>9, <2>3, Became DEF StartHide
  <2>5. UNCHANGED <<count, turns, written, mem, purged>>
    BY <1>9 DEF StartHide
  <2> QED  BY <2>4, <2>5, <1>a, <1>d
<1>17. CASE FinishHide(c)
  <2>1. calls' \in [Callers -> Requests]
    BY <1>17, <1>c, Became DEF FinishHide
  <2>2. calls[c].at = "hide" /\ calls[c] \in Requests
    BY <1>17, <1>a DEF FinishHide
  <2>3. PICK k \in Keys : k = calls[c].key
    BY <2>2 DEF Requests, Idle, Answering, Correcting, Hiding, Restoring,
                Purging
  <2>4. [mem[k] EXCEPT !.hidden = TRUE] \in Items
    BY <1>a DEF Items
  <2>5. \/ mem' = [mem EXCEPT ![k] = [mem[k] EXCEPT !.hidden = TRUE]]
        \/ mem' = mem
    BY <1>17, <2>3 DEF FinishHide
  <2>6. mem' \in [Keys -> Items]
    BY <1>a, <2>4, <2>5, OneItem
  <2>7. UNCHANGED <<count, turns, written, purged>>
    BY <1>17 DEF FinishHide
  <2>8. Typed /\ Structure'
    BY <2>1, <2>6, <2>7, <1>a, <1>d
  <2> QED  BY <2>8, <1>b
<1>10. ASSUME NEW k \in Keys, StartRestore(c, k)
       PROVE  Typed /\ Structure'
  <2>1. mem[k].text \in Texts \cup {Nothing}
    BY <1>a DEF Items
  <2>2. [at |-> "restore", key |-> k, text |-> mem[k].text] \in Requests
    BY <2>1 DEF Requests, Restoring
  <2>3. calls' \in [Callers -> Requests]
    BY <1>10, <2>2, Became DEF StartRestore
  <2>4. UNCHANGED <<count, turns, written, mem, purged>>
    BY <1>10 DEF StartRestore
  <2> QED  BY <2>3, <2>4, <1>a, <1>d
<1>11. ASSUME NEW k \in Keys, StartPurge(c, k)
       PROVE  Typed /\ Structure'
  <2>1. mem[k].version \in 0..MaxVersions
    BY <1>a DEF Items
  <2>2. [at |-> "purge", key |-> k, seen |-> mem[k].version] \in Requests
    BY <2>1 DEF Requests, Purging
  <2>3. calls' \in [Callers -> Requests]
    BY <1>11, <2>2, Became DEF StartPurge
  <2>4. UNCHANGED <<count, turns, written, mem, purged>>
    BY <1>11 DEF StartPurge
  <2> QED  BY <2>3, <2>4, <1>a, <1>d
<1>12. CASE FinishRestore(c)
  <2>1. calls' \in [Callers -> Requests]
    BY <1>12, <1>c, Became DEF FinishRestore
  <2>2. calls[c].at = "restore" /\ calls[c] \in Requests
    BY <1>12, <1>a DEF FinishRestore
  <2>3. calls[c].key \in Keys /\ calls[c].text \in Texts \cup {Nothing}
    BY <2>2 DEF Requests, Idle, Answering, Correcting, Hiding, Restoring,
           Purging
  <2>4. UNCHANGED mem \/ Observe(calls[c].key, calls[c].text)
    BY <1>12 DEF FinishRestore
  <2>5. mem' \in [Keys -> Items]
    BY <2>3, <2>4, <1>a, Observed
  <2>6. UNCHANGED <<count, turns, written, purged>>
    BY <1>12 DEF FinishRestore
  <2> QED  BY <2>1, <2>5, <2>6, <1>a, <1>b, <1>d
<1>13. CASE FinishPurge(c)
  <2>1. calls' \in [Callers -> Requests]
    BY <1>13, <1>c, Became DEF FinishPurge
  <2>2. calls[c].at = "purge" /\ calls[c] \in Requests
    BY <1>13, <1>a DEF FinishPurge
  <2>3. calls[c].key \in Keys
    BY <2>2 DEF Requests, Idle, Answering, Correcting, Hiding, Restoring,
           Purging
  <2>4. Absent \in Items
    BY ChatAssumption DEF Absent, Items
  <2>5. mem' \in [Keys -> Items]
    BY <1>13, <1>a, <2>3, <2>4 DEF FinishPurge
  <2>6. purged' \in SUBSET Keys
    BY <1>13, <1>a, <2>3 DEF FinishPurge
  <2>7. turns' \subseteq turns /\ UNCHANGED <<written, count>>
    BY <1>13 DEF FinishPurge
  <2>8. Structure'
    BY <2>7, FewerTurnsKeepStructure
  <2> QED  BY <2>1, <2>5, <2>6, <2>7, <2>8, <1>a, <1>b
<1>14. Typed /\ Structure' => TypeOK' /\ Structure'
  BY <1>b
<1> HIDE DEF Typed
<1>15. CASE \E s \in Sessions : Send(c, s) \/ Attach(c, s) \/ Ask(c, s)
  BY <1>15, <1>2, <1>3, <1>4, <1>14
<1>16. CASE \E k \in Keys :
              StartHide(c, k) \/ StartRestore(c, k) \/ StartPurge(c, k)
  BY <1>16, <1>9, <1>10, <1>11, <1>14
<1> QED
  BY <1>0, <1>5, <1>6, <1>7, <1>8, <1>12, <1>13, <1>14, <1>15, <1>16, <1>17

-----------------------------------------------------------------------------
(* The story, where nobody writes an item between a read and a write of it *)

\* What one more turn, or fewer, leave of what a request knows.
LEMMA StillHolds ==
  ASSUME NEW call, NEW ts, NEW items, NEW n, NEW ts2, NEW items2, NEW n2,
         Holds(call, ts, items, n),
         \A t \in ts2 : t \in ts \/ t.id = n + 1,
         n \in Nat, n2 \in Nat, n <= n2,
         call.at = "correct" => call.original.id \in Nat,
         call.at \in {"restore", "purge"} =>
           /\ items2[call.key].version = items[call.key].version
           /\ items2[call.key].text = items[call.key].text
  PROVE  Holds(call, ts2, items2, n2)
BY DEF Holds

\* The other requests know what they knew, when the item that changes is none
\* they are half-way with, or is only hidden.
LEMMA OthersKnow ==
  ASSUME TypeOK, TypeOK', Known, NEW c \in Callers,
         \A d \in Callers \ {c} : calls'[d] = calls[d],
         \A t \in turns' : t \in turns \/ t.id = written + 1,
         written <= written',
         \A k \in Keys :
           \/ /\ mem'[k].version = mem[k].version
              /\ mem'[k].text = mem[k].text
           \/ \A d \in Callers \ {c} : ~HalfWay(calls[d], k)
  PROVE  \A d \in Callers \ {c} : Holds(calls'[d], turns', mem', written')
<1> TAKE d \in Callers \ {c}
<1>1. Holds(calls[d], turns, mem, written)
  BY DEF Known
<1>2. written \in Nat /\ written' \in Nat
  BY ChatAssumption DEF TypeOK
<1>3. calls[d] \in Requests
  BY DEF TypeOK, Requests
<1>4. calls[d].at = "correct" => calls[d].original.id \in Nat
  BY <1>3 DEF Requests, Idle, Answering, Correcting, Hiding, Restoring,
           Purging, Turns
<1>5. calls[d].at \in {"restore", "purge"} => calls[d].key \in Keys
  BY <1>3 DEF Requests, Idle, Answering, Correcting, Hiding, Restoring,
           Purging
<1>6. calls[d].at \in {"restore", "purge"} =>
        /\ mem'[calls[d].key].version = mem[calls[d].key].version
        /\ mem'[calls[d].key].text = mem[calls[d].key].text
  BY <1>5 DEF HalfWay
<1>7. Holds(calls[d], turns', mem', written')
  BY <1>1, <1>2, <1>4, <1>6, StillHolds
<1> QED  BY <1>7

\* A request that ends, or goes on to an answer or to hide, knows nothing that
\* its end relies on.
LEMMA NothingKnown ==
  ASSUME TypeOK, Known, NEW c \in Callers,
         \A d \in Callers \ {c} : calls'[d] = calls[d],
         calls'[c].at \in {"idle", "answer", "hide"},
         \A d \in Callers \ {c} : Holds(calls'[d], turns', mem', written')
  PROVE  Known'
<1>1. Holds(calls'[c], turns', mem', written')
  BY DEF Holds
<1>2. \A k \in Keys : ~HalfWay(calls'[c], k)
  BY DEF HalfWay
<1>3. \A d \in Callers \ {c}, e \in Callers \ {c}, k \in Keys :
        d # e => ~(HalfWay(calls'[d], k) /\ HalfWay(calls'[e], k))
  BY DEF Known
<1> QED  BY <1>1, <1>2, <1>3 DEF Known

\* Nobody else is half-way with the item.
LEMMA Alone ==
  ASSUME ~Overlap, NEW c \in Callers, NEW k \in Keys, Undisturbed(c, k)
  PROVE  \A d \in Callers \ {c} : ~HalfWay(calls[d], k)
BY DEF Undisturbed, HalfWay

\* An item a request is half-way with is not fresh.
LEMMA FreshIsFree ==
  ASSUME TypeOK, Known, NEW k \in Fresh
  PROVE  \A d \in Callers : ~HalfWay(calls[d], k)
<1> TAKE d \in Callers
<1>1. mem[k].version = 0
  BY DEF Fresh
<1>2. HalfWay(calls[d], k) => mem[k].version > 0
  BY DEF Known, Holds, HalfWay
<1> QED  BY <1>1, <1>2

LEMMA SameStory ==
  ASSUME UNCHANGED <<turns, mem, purged>>, Told, PurgedStaysGone,
         LastWordIsCurrent
  PROVE  Told' /\ PurgedStaysGone' /\ LastWordIsCurrent'
BY DEF Told, PurgedStaysGone, LastWordIsCurrent

\* A turn without a key changes nothing about what is told.
LEMMA UnkeyedTurn ==
  ASSUME TypeOK, TypeOK', Structure, Structure', Told, PurgedStaysGone,
         LastWordIsCurrent, NEW t \in Turns, t.id = written + 1,
         t.key = Nothing, turns' = turns \cup {t}, purged' = purged,
         \A k \in Keys \ Fresh : mem'[k] = mem[k]
  PROVE  Told' /\ PurgedStaysGone' /\ LastWordIsCurrent'
<1>1. \A u \in turns : u.key \in Keys \cup {Nothing}
  BY DEF TypeOK, Turns
<1>2. \A u \in turns : u.key # Nothing => mem'[u.key] = mem[u.key]
  BY <1>1 DEF Told, Fresh
<1>3. \A k \in purged : mem'[k] = mem[k] /\ k \in Keys
  BY DEF TypeOK, Fresh
<1>4. Nothing \notin Keys
  BY ChatAssumption
<1>5. Told'
  BY <1>2 DEF Told
<1>6. PurgedStaysGone'
  BY <1>3, <1>4 DEF PurgedStaysGone
<1>7. LastWordIsCurrent'
  BY <1>2 DEF LastWordIsCurrent
<1> QED  BY <1>5, <1>6, <1>7

\* A turn with a key, and the item that says what it says.
LEMMA KeyedTurn ==
  ASSUME TypeOK, TypeOK', Structure, Told, PurgedStaysGone,
         LastWordIsCurrent, NEW t \in Turns, t.id = written + 1,
         t.key \in Keys, turns' = turns \cup {t}, purged' = purged,
         t.key \notin purged,
         mem'[t.key].version > 0, mem'[t.key].text = t.text,
         \A k \in Keys \ {t.key} : mem'[k] = mem[k] \/ k \in Fresh
  PROVE  Told' /\ PurgedStaysGone' /\ LastWordIsCurrent'
<1>1. \A u \in turns : /\ u.key \in Keys \cup {Nothing}
                       /\ u.id \in Nat /\ u.id <= written /\ t.id > u.id
  BY ChatAssumption DEF TypeOK, Turns, Structure
<1>2. \A u \in turns :
        u.key # Nothing /\ u.key # t.key => mem'[u.key] = mem[u.key]
  BY <1>1 DEF Told, Fresh
<1>3. \A k \in purged : mem'[k] = mem[k] /\ k \in Keys /\ k # t.key
  BY DEF TypeOK, Fresh
<1>4. Told'
  BY <1>2 DEF Told
<1>5. PurgedStaysGone'
  BY <1>3 DEF PurgedStaysGone
<1>6. LastWordIsCurrent'
  <2> SUFFICES ASSUME NEW u \in turns'
               PROVE  \/ u.key = Nothing
                      \/ \E v \in turns' : v.key = u.key /\ v.id > u.id
                      \/ mem'[u.key].version > 0 /\ mem'[u.key].text = u.text
    BY DEF LastWordIsCurrent
  <2>1. CASE u = t
    BY <2>1
  <2>2. CASE u \in turns /\ u.key = t.key
    BY <2>2, <1>1
  <2>3. CASE u \in turns /\ u.key # t.key
    BY <2>3, <1>2 DEF LastWordIsCurrent
  <2> QED  BY <2>1, <2>2, <2>3
<1> QED  BY <1>4, <1>5, <1>6

LEMMA StoryStep ==
  ASSUME ~Overlap, TypeOK, Structure, TypeOK', Structure', Story, Next
  PROVE  Story'
<1> USE DEF Story
<1>0. PICK c \in Callers :
        \/ \E s \in Sessions : Send(c, s) \/ Attach(c, s) \/ Ask(c, s)
        \/ RecordAnswer(c) \/ GiveUp(c)
        \/ StartCorrect(c) \/ FinishCorrect(c)
        \/ \E k \in Keys :
             StartHide(c, k) \/ StartRestore(c, k) \/ StartPurge(c, k)
        \/ FinishHide(c) \/ FinishRestore(c) \/ FinishPurge(c)
  BY DEF Next
<1>a. /\ turns \in SUBSET Turns /\ written \in Nat
      /\ mem \in [Keys -> Items] /\ calls \in [Callers -> Requests]
      /\ purged \in SUBSET Keys /\ Nothing \notin Keys
  BY ChatAssumption DEF TypeOK, Requests
<1>b. \A t \in turns : t.key \in Keys \cup {Nothing}
  BY <1>a DEF Turns
<1>c. \A k \in purged : mem[k].version = 0
  BY DEF PurgedStaysGone
\* Requests that end, with turns, items and ids as they were.
<1>d. ASSUME UNCHANGED <<turns, mem, purged, written>>,
             \A d \in Callers \ {c} : calls'[d] = calls[d],
             calls'[c].at \in {"idle", "answer"}
      PROVE  Story'
  <2>1. Told' /\ PurgedStaysGone' /\ LastWordIsCurrent'
    BY <1>d, SameStory
  <2>2. \A d \in Callers \ {c} : Holds(calls'[d], turns', mem', written')
    BY <1>a, <1>d, OthersKnow
  <2>3. Known'
    BY <1>d, <2>2, NothingKnown
  <2> QED  BY <2>1, <2>3
<1>e. Become(c, Idle) =>
        /\ calls'[c].at \in {"idle", "answer"}
        /\ \A d \in Callers \ {c} : calls'[d] = calls[d]
  BY Became, IdleIsARequest DEF Idle
<1>1. ASSUME NEW s \in Sessions, NEW files \in SUBSET Fresh,
             UserTurn(c, s, files)
      PROVE  Story'
  <2>1. PICK key \in Keys \cup {Nothing}, text \in Texts \cup {Nothing} :
          /\ AppendTurn(s, key, text)
          /\ \A k \in Keys \ Fresh : mem'[k] = mem[k]
          /\ key # Nothing =>
               key \in Fresh /\ mem'[key].version > 0 /\ mem'[key].text = text
    BY <1>1, TurnWritten
  <2>2. PICK t \in Turns :
          /\ t.id = written + 1 /\ t.key = key /\ t.text = text
          /\ turns' = turns \cup {t}
    BY <2>1, AppendedTurn
  <2>3. purged' = purged /\ calls[c] = Idle
    BY <1>1 DEF UserTurn
  <2>4. Told' /\ PurgedStaysGone' /\ LastWordIsCurrent'
    <3>1. CASE key = Nothing
      BY <2>1, <2>2, <2>3, <3>1, UnkeyedTurn
    <3>2. CASE key # Nothing
      <4>1. t.key \in Keys /\ t.key \notin purged
        BY <2>1, <2>2, <3>2 DEF Fresh
      <4>2. mem'[t.key].version > 0 /\ mem'[t.key].text = t.text
        BY <2>1, <2>2, <3>2
      <4>3. \A k \in Keys \ {t.key} : mem'[k] = mem[k] \/ k \in Fresh
        BY <2>1
      <4> QED  BY <2>2, <2>3, <4>1, <4>2, <4>3, KeyedTurn
    <3> QED  BY <3>1, <3>2
  <2>5. /\ calls'[c].at \in {"idle", "answer"}
        /\ \A d \in Callers \ {c} : calls'[d] = calls[d]
    <3>1. CASE UNCHANGED calls
      BY <2>3, <3>1 DEF Idle
    <3>2. CASE Become(c, [at |-> "answer", session |-> s])
      <4>1. [at |-> "answer", session |-> s] \in Requests
        BY DEF Requests, Answering
      <4> QED  BY <3>2, <4>1, Became
    <3> QED  BY <3>1, <3>2, <1>1 DEF UserTurn
  <2>6. written' = written + 1
    BY <2>1, Counted
  <2>7. \A k \in Keys : \/ mem'[k] = mem[k]
                        \/ \A d \in Callers \ {c} : ~HalfWay(calls[d], k)
    BY <2>1, FreshIsFree
  <2>8. written <= written'
    BY <1>a, <2>6
  <2>9. \A u \in turns' : u \in turns \/ u.id = written + 1
    BY <2>2
  <2>10. \A d \in Callers \ {c} : Holds(calls'[d], turns', mem', written')
    BY <2>5, <2>7, <2>8, <2>9, OthersKnow
  <2>11. Known'
    BY <2>5, <2>10, NothingKnown
  <2> QED  BY <2>4, <2>11
<1>2. ASSUME NEW s \in Sessions, Send(c, s) \/ Attach(c, s)
      PROVE  Story'
  BY <1>1, <1>2 DEF Send, Attach
<1>3. ASSUME NEW s \in Sessions, Ask(c, s)
      PROVE  Story'
  <2>1. [at |-> "answer", session |-> s] \in Requests
    BY DEF Requests, Answering
  <2>2. /\ calls'[c].at \in {"idle", "answer"}
        /\ \A d \in Callers \ {c} : calls'[d] = calls[d]
    BY <1>3, <2>1, Became DEF Ask
  <2> QED  BY <1>3, <1>d, <2>2 DEF Ask
<1>4. CASE RecordAnswer(c)
  <2>1. calls[c].at = "answer" /\ calls[c] \in Requests
    BY <1>4, <1>a DEF RecordAnswer
  <2>2. calls[c].session \in Sessions
    BY <2>1 DEF Requests, Idle, Answering, Correcting, Hiding, Restoring,
           Purging
  <2>3. AppendTurn(calls[c].session, Nothing, Nothing)
    BY <1>4 DEF RecordAnswer
  <2>4. PICK t \in Turns : /\ t.id = written + 1 /\ t.key = Nothing
                           /\ turns' = turns \cup {t}
    BY <2>2, <2>3, AppendedTurn
  <2>5. mem' = mem /\ purged' = purged
    BY <1>4 DEF RecordAnswer
  <2>6. Told' /\ PurgedStaysGone' /\ LastWordIsCurrent'
    BY <2>4, <2>5, UnkeyedTurn
  <2>7. written' = written + 1
    BY <2>2, <2>3, Counted
  <2>8. /\ calls'[c].at \in {"idle", "answer"}
        /\ \A d \in Callers \ {c} : calls'[d] = calls[d]
    BY <1>4, <1>e DEF RecordAnswer
  <2>9. \A d \in Callers \ {c} : Holds(calls'[d], turns', mem', written')
    BY <1>a, <2>4, <2>5, <2>7, <2>8, OthersKnow
  <2>10. Known'
    BY <2>8, <2>9, NothingKnown
  <2> QED  BY <2>6, <2>10
<1>5. CASE GiveUp(c)
  BY <1>5, <1>d, <1>e DEF GiveUp
<1>6. CASE StartCorrect(c)
  <2>1. PICK t \in turns, text \in Texts :
          /\ t.key # Nothing
          /\ Become(c, [at |-> "correct", original |-> t, text |-> text])
    BY <1>6 DEF StartCorrect
  <2>2. [at |-> "correct", original |-> t, text |-> text] \in Requests
    BY <1>a DEF Requests, Correcting
  <2>3. /\ calls'[c] = [at |-> "correct", original |-> t, text |-> text]
        /\ \A d \in Callers \ {c} : calls'[d] = calls[d]
    BY <2>1, <2>2, Became
  <2>4. UNCHANGED <<turns, written, mem, purged>>
    BY <1>6 DEF StartCorrect
  <2>5. calls'[c].at = "correct" /\ calls'[c].original = t
    BY <2>3
  <2>6. t.id <= written /\ \A u \in turns : u.id = t.id => u = t
    BY DEF Structure
  <2>7. Holds(calls'[c], turns', mem', written')
    BY <2>1, <2>4, <2>5, <2>6 DEF Holds
  <2>8. \A d \in Callers \ {c} : Holds(calls'[d], turns', mem', written')
    BY <1>a, <2>3, <2>4, OthersKnow
  <2>9. \A k \in Keys : ~HalfWay(calls'[c], k)
    BY <2>5 DEF HalfWay
  <2>10. Known'
    BY <2>3, <2>7, <2>8, <2>9 DEF Known
  <2> QED  BY <2>4, <2>10, SameStory
<1>7. CASE FinishCorrect(c)
  <2>1. /\ calls'[c].at \in {"idle", "answer"}
        /\ \A d \in Callers \ {c} : calls'[d] = calls[d]
    BY <1>7, <1>e DEF FinishCorrect
  <2>2. purged' = purged /\ calls[c].at = "correct"
    BY <1>7 DEF FinishCorrect
  <2>3. CASE UNCHANGED <<count, turns, written, mem>>
    BY <2>1, <2>2, <2>3, <1>d
  <2>4. CASE /\ calls[c].original.id \in {t.id : t \in turns}
             /\ Observe(calls[c].original.key, calls[c].text)
             /\ AppendTurn(calls[c].original.session, calls[c].original.key,
                           calls[c].text)
    <3>1. PICK o \in turns : o.id = calls[c].original.id
      BY <2>4
    <3>2. o = calls[c].original /\ o.key # Nothing
      BY <3>1, <2>2 DEF Known, Holds
    <3>3. PICK text \in Texts : text = calls[c].text
      BY <2>2, <1>a DEF Requests, Idle, Answering, Correcting, Hiding,
                        Restoring, Purging
    <3>4. o.key \in Keys /\ o.session \in Sessions
      BY <1>a, <3>2 DEF Turns
    <3>5. Observe(o.key, text) /\ AppendTurn(o.session, o.key, text)
      BY <2>4, <3>2, <3>3
    <3>6. PICK t \in Turns :
            /\ t.id = written + 1 /\ t.key = o.key /\ t.text = text
            /\ turns' = turns \cup {t}
      BY <3>4, <3>5, AppendedTurn
    <3>7. /\ mem'[o.key].version > 0 /\ mem'[o.key].text = text
          /\ \A k \in Keys \ {o.key} : mem'[k] = mem[k]
      BY <3>4, <3>5, Observed
    <3>8. o.key \notin purged
      BY DEF PurgedStaysGone
    <3>9. Told' /\ PurgedStaysGone' /\ LastWordIsCurrent'
      <4>1. t.key \in Keys /\ t.key \notin purged
        BY <3>4, <3>6, <3>8
      <4>2. mem'[t.key].version > 0 /\ mem'[t.key].text = t.text
        BY <3>6, <3>7
      <4>3. \A k \in Keys \ {t.key} : mem'[k] = mem[k] \/ k \in Fresh
        BY <3>6, <3>7
      <4> QED  BY <2>2, <3>6, <4>1, <4>2, <4>3, KeyedTurn
    <3>10. Undisturbed(c, o.key)
      BY <1>7, <3>2 DEF FinishCorrect
    <3>11. \A d \in Callers \ {c} : ~HalfWay(calls[d], o.key)
      BY <3>4, <3>10, Alone
    <3>12. \A k \in Keys : \/ mem'[k] = mem[k]
                           \/ \A d \in Callers \ {c} : ~HalfWay(calls[d], k)
      BY <3>7, <3>11
    <3>13. written' = written + 1
      BY <3>4, <3>5, Counted
    <3>14. \A d \in Callers \ {c} : Holds(calls'[d], turns', mem', written')
      <4>1. \A u \in turns' : u \in turns \/ u.id = written + 1
        BY <3>6
      <4>2. written <= written'
        BY <1>a, <3>13
      <4> QED  BY <1>a, <2>1, <3>12, <4>1, <4>2, OthersKnow
    <3>15. Known'
      BY <2>1, <3>14, NothingKnown
    <3> QED  BY <3>9, <3>15
  <2> QED  BY <2>3, <2>4, <1>7 DEF FinishCorrect
<1>8. ASSUME NEW k \in Keys, StartHide(c, k)
      PROVE  Story'
  <2> DEFINE state == [at |-> "hide", key |-> k, seen |-> mem[k].version]
  <2>1. Become(c, state) /\ UNCHANGED <<turns, written, mem, purged>>
    BY <1>8 DEF StartHide
  <2>2. mem[k].version \in 1..MaxVersions
    BY <1>8, <1>a, ChatAssumption DEF StartHide, Items
  <2>3. state \in Requests
    BY <2>2 DEF Requests, Hiding
  <2>4. state.at = "hide"
    OBVIOUS
  <2> HIDE DEF state
  <2>5. calls'[c] = state /\ \A d \in Callers \ {c} : calls'[d] = calls[d]
    BY <2>1, <2>3, Became
  <2>6. \A d \in Callers \ {c} : Holds(calls'[d], turns', mem', written')
    BY <1>a, <2>1, <2>5, OthersKnow
  <2>7. Known'
    BY <2>4, <2>5, <2>6, NothingKnown
  <2> QED  BY <2>1, <2>7, SameStory
<1>14. CASE FinishHide(c)
  <2>1. calls[c].at = "hide" /\ calls[c] \in Requests
    BY <1>14, <1>a DEF FinishHide
  <2>2. PICK k \in Keys : k = calls[c].key
    BY <2>1 DEF Requests, Idle, Answering, Correcting, Hiding, Restoring,
                Purging
  <2>3. /\ mem' = [mem EXCEPT ![k].hidden = TRUE] \/ mem' = mem
        /\ UNCHANGED <<turns, written, purged>>
    BY <1>14, <2>2 DEF FinishHide
  <2>4. \A j \in Keys : /\ mem'[j].version = mem[j].version
                        /\ mem'[j].text = mem[j].text
    BY <1>a, <2>3 DEF Items
  <2>5. Told'
    BY <1>b, <2>3, <2>4 DEF Told
  <2>6. PurgedStaysGone'
    BY <1>a, <2>3, <2>4 DEF PurgedStaysGone
  <2>7. LastWordIsCurrent'
    BY <1>b, <2>3, <2>4 DEF LastWordIsCurrent
  <2>8. /\ calls'[c].at \in {"idle", "answer"}
        /\ \A d \in Callers \ {c} : calls'[d] = calls[d]
    BY <1>14, <1>e DEF FinishHide
  <2>9. \A d \in Callers \ {c} : Holds(calls'[d], turns', mem', written')
    <3>1. \A t \in turns' : t \in turns \/ t.id = written + 1
      BY <2>3
    <3>2. written <= written'
      BY <1>a, <2>3
    <3> QED  BY <2>4, <2>8, <3>1, <3>2, OthersKnow
  <2>10. Known'
    BY <2>8, <2>9, NothingKnown
  <2> QED  BY <2>5, <2>6, <2>7, <2>10
<1>9. ASSUME NEW k \in Keys, NEW state \in Requests, Become(c, state),
             HalfWay(state, k), Undisturbed(c, k),
             UNCHANGED <<turns, written, mem, purged>>,
             Holds(state, turns, mem, written)
      PROVE  Story'
  <2>1. calls'[c] = state /\ \A d \in Callers \ {c} : calls'[d] = calls[d]
    BY <1>9, Became
  <2>2. \A d \in Callers \ {c} : Holds(calls'[d], turns', mem', written')
    BY <1>a, <1>9, <2>1, OthersKnow
  <2>3. Holds(calls'[c], turns', mem', written')
    BY <1>9, <2>1
  <2>4. \A d \in Callers \ {c} : ~HalfWay(calls[d], k)
    BY <1>9, Alone
  <2>5. \A j \in Keys : HalfWay(calls'[c], j) => j = k
    BY <1>9, <2>1 DEF HalfWay
  <2>6. \A d \in Callers \ {c}, e \in Callers \ {c}, j \in Keys :
          d # e => ~(HalfWay(calls'[d], j) /\ HalfWay(calls'[e], j))
    BY <2>1 DEF Known
  <2>7. Known'
    BY <2>1, <2>2, <2>3, <2>4, <2>5, <2>6 DEF Known
  <2> QED  BY <1>9, <2>7, SameStory
<1>10. ASSUME NEW k \in Keys, StartRestore(c, k)
       PROVE  Story'
  <2> DEFINE state == [at |-> "restore", key |-> k, text |-> mem[k].text]
  <2>1. mem[k].text \in Texts \cup {Nothing}
    BY <1>a DEF Items
  <2>2. state \in Requests
    BY <2>1 DEF Requests, Restoring
  <2>3. /\ Become(c, state) /\ Undisturbed(c, k) /\ mem[k].version > 0
        /\ UNCHANGED <<turns, written, mem, purged>>
    BY <1>10 DEF StartRestore
  <2>4. HalfWay(state, k)
    BY DEF HalfWay
  <2>5. Holds(state, turns, mem, written)
    BY <2>3 DEF Holds
  <2> HIDE DEF state
  <2> QED  BY <2>2, <2>3, <2>4, <2>5, <1>9
<1>11. ASSUME NEW k \in Keys, StartPurge(c, k)
       PROVE  Story'
  <2> DEFINE state == [at |-> "purge", key |-> k, seen |-> mem[k].version]
  <2>1. mem[k].version \in 0..MaxVersions
    BY <1>a DEF Items
  <2>2. state \in Requests
    BY <2>1 DEF Requests, Purging
  <2>3. /\ Become(c, state) /\ Undisturbed(c, k) /\ mem[k].version > 0
        /\ UNCHANGED <<turns, written, mem, purged>>
    BY <1>11 DEF StartPurge
  <2>4. HalfWay(state, k)
    BY DEF HalfWay
  <2>5. Holds(state, turns, mem, written)
    BY <2>3 DEF Holds
  <2> HIDE DEF state
  <2> QED  BY <2>2, <2>3, <2>4, <2>5, <1>9
<1>12. CASE FinishRestore(c)
  <2>1. calls[c].at = "restore" /\ calls[c] \in Requests
    BY <1>12, <1>a DEF FinishRestore
  <2>2. PICK k \in Keys : k = calls[c].key
    BY <2>1 DEF Requests, Idle, Answering, Correcting, Hiding, Restoring,
           Purging
  <2>3. calls[c].text \in Texts \cup {Nothing}
    BY <2>1 DEF Requests, Idle, Answering, Correcting, Hiding, Restoring,
           Purging
  <2>4. mem[k].version > 0 /\ mem[k].text = calls[c].text
    BY <2>1, <2>2 DEF Known, Holds
  <2>5. UNCHANGED mem \/ Observe(k, calls[c].text)
    BY <1>12, <2>2 DEF FinishRestore
  <2>6. /\ mem'[k].version > 0 /\ mem'[k].text = mem[k].text
        /\ \A j \in Keys \ {k} : mem'[j] = mem[j]
    BY <2>3, <2>4, <2>5, Observed
  <2>7. UNCHANGED <<turns, written, purged>>
    BY <1>12 DEF FinishRestore
  <2>8. Told'
    BY <1>b, <2>6, <2>7 DEF Told
  <2>9. PurgedStaysGone'
    <3>1. k \notin purged
      BY <1>a, <1>c, <2>4
    <3> QED  BY <1>a, <2>6, <2>7, <3>1 DEF PurgedStaysGone
  <2>10. LastWordIsCurrent'
    BY <1>b, <2>6, <2>7 DEF LastWordIsCurrent
  <2>11. /\ calls'[c].at \in {"idle", "answer"}
         /\ \A d \in Callers \ {c} : calls'[d] = calls[d]
    BY <1>12, <1>e DEF FinishRestore
  <2>12. HalfWay(calls[c], k)
    BY <2>1, <2>2 DEF HalfWay
  <2>13. \A j \in Keys : \/ mem'[j] = mem[j]
                         \/ \A d \in Callers \ {c} : ~HalfWay(calls[d], j)
    BY <2>6, <2>12 DEF Known
  <2>14. \A d \in Callers \ {c} : Holds(calls'[d], turns', mem', written')
    BY <1>a, <2>7, <2>11, <2>13, OthersKnow
  <2>15. Known'
    BY <2>11, <2>14, NothingKnown
  <2> QED  BY <2>8, <2>9, <2>10, <2>15
<1>13. CASE FinishPurge(c)
  <2>1. calls[c].at = "purge" /\ calls[c] \in Requests
    BY <1>13, <1>a DEF FinishPurge
  <2>2. PICK k \in Keys : k = calls[c].key
    BY <2>1 DEF Requests, Idle, Answering, Correcting, Hiding, Restoring,
           Purging
  <2>3. mem[k].version \in 0..MaxVersions /\ mem[k].version = calls[c].seen
    BY <1>a, <2>1, <2>2 DEF Known, Holds, Items
  <2>4. /\ turns' = {t \in turns : t.key # k}
        /\ mem' = [mem EXCEPT ![k] = IF @.version > calls[c].seen THEN @
                                     ELSE Absent]
        /\ purged' = purged \cup {k} /\ written' = written
    BY <1>13, <2>2 DEF FinishPurge
  <2>5. ~(mem[k].version > calls[c].seen)
    BY <2>3
  <2>6. /\ mem'[k] = Absent
        /\ \A j \in Keys \ {k} : mem'[j] = mem[j]
    BY <1>a, <2>4, <2>5
  <2>7. mem'[k].version = 0
    BY <2>6 DEF Absent
  <2>8. Told'
    BY <1>b, <2>4, <2>6 DEF Told
  <2>9. PurgedStaysGone'
    BY <1>a, <2>4, <2>6, <2>7 DEF PurgedStaysGone
  <2>10. LastWordIsCurrent'
    <3> SUFFICES ASSUME NEW t \in turns'
                 PROVE  \/ t.key = Nothing
                        \/ \E u \in turns' : u.key = t.key /\ u.id > t.id
                        \/ mem'[t.key].version > 0 /\ mem'[t.key].text = t.text
      BY DEF LastWordIsCurrent
    <3>1. t \in turns /\ t.key # k
      BY <2>4
    <3>2. t.key # Nothing => mem'[t.key] = mem[t.key]
      BY <1>b, <2>6, <3>1
    <3> QED  BY <2>4, <3>1, <3>2 DEF LastWordIsCurrent
  <2>11. /\ calls'[c].at \in {"idle", "answer"}
         /\ \A d \in Callers \ {c} : calls'[d] = calls[d]
    BY <1>13, <1>e DEF FinishPurge
  <2>12. HalfWay(calls[c], k)
    BY <2>1, <2>2 DEF HalfWay
  <2>13. \A j \in Keys : \/ mem'[j] = mem[j]
                         \/ \A d \in Callers \ {c} : ~HalfWay(calls[d], j)
    BY <2>6, <2>12 DEF Known
  <2>14. \A d \in Callers \ {c} : Holds(calls'[d], turns', mem', written')
    <3>1. \A t \in turns' : t \in turns \/ t.id = written + 1
      BY <2>4
    <3>2. written <= written'
      BY <1>a, <2>4
    <3> QED  BY <2>11, <2>13, <3>1, <3>2, OthersKnow
  <2>15. Known'
    BY <2>11, <2>14, NothingKnown
  <2> QED  BY <2>8, <2>9, <2>10, <2>15
<1> QED
  BY <1>0, <1>2, <1>3, <1>4, <1>5, <1>6, <1>7, <1>8, <1>10, <1>11, <1>12,
     <1>13, <1>14

-----------------------------------------------------------------------------
(* Theorems *)

LEMMA Starts == Init => TypeOK /\ Structure /\ Story
<1> SUFFICES ASSUME Init PROVE TypeOK /\ Structure /\ Story
  OBVIOUS
<1>1. Absent \in Items /\ 0 \in 0..MaxTurns
  BY ChatAssumption DEF Absent, Items
<1>2. TypeOK
  BY <1>1 DEF Init, TypeOK
<1>3. Structure
  BY DEF Init, Structure, OrdinalsTellTheOrder, HistoryReachesTheEnd
<1>4. Story
  BY DEF Init, Story, Told, Known, Holds, HalfWay, Idle, PurgedStaysGone,
         LastWordIsCurrent
<1> QED  BY <1>2, <1>3, <1>4

\* Types, and what the lock on the session row gives, for all interleavings.
THEOREM Invariance == Spec => [](TypeOK /\ Structure)
<1>1. Init => TypeOK /\ Structure
  BY Starts
<1>2. TypeOK /\ Structure /\ [Next]_vars => (TypeOK /\ Structure)'
  <2>1. ASSUME TypeOK, Structure, Next
        PROVE  (TypeOK /\ Structure)'
    BY <2>1, StructureStep
  <2>2. ASSUME TypeOK, Structure, UNCHANGED vars
        PROVE  (TypeOK /\ Structure)'
    <3>1. UNCHANGED <<count, turns, written, mem, purged, calls>>
      BY <2>2 DEF vars
    <3>2. TypeOK'
      BY <2>2, <3>1 DEF TypeOK
    <3>3. Structure'
      BY <2>2, <3>1, FewerTurnsKeepStructure
    <3> QED  BY <3>2, <3>3
  <2> QED  BY <2>1, <2>2
<1> QED  BY <1>1, <1>2, PTL DEF Spec

\* Turns, items and requests keep their types.
THEOREM TypeCorrect == Spec => []TypeOK
BY Invariance, PTL

\* _next_ordinal under the session's lock: ordinals tell the order of writing,
\* whatever purges take out in between.
THEOREM OrdinalsAreTheOrder == Spec => []OrdinalsTellTheOrder
<1>1. TypeOK /\ Structure => OrdinalsTellTheOrder
  BY DEF Structure
<1> QED  BY <1>1, Invariance, PTL

\* history_for, cut at message_count, leaves no turn out.
THEOREM HistoryIsWhole == Spec => []HistoryReachesTheEnd
<1>1. TypeOK /\ Structure => HistoryReachesTheEnd
  BY DEF Structure
<1> QED  BY <1>1, Invariance, PTL

\* The transcript and the corpus, where reads of an item are not overtaken.
THEOREM StoryHolds ==
  ASSUME ~Overlap
  PROVE  Spec => []Story
<1>1. Init => Story
  BY Starts
<1>2. (TypeOK /\ Structure) /\ (TypeOK /\ Structure)' /\ Story /\ [Next]_vars
        => Story'
  <2>1. ASSUME TypeOK, Structure, TypeOK', Structure', Story, Next
        PROVE  Story'
    BY <2>1, StoryStep
  <2>2. ASSUME Story, UNCHANGED vars
        PROVE  Story'
    <3>1. UNCHANGED <<count, turns, written, mem, purged, calls>>
      BY <2>2 DEF vars
    <3> QED  BY <2>2, <3>1 DEF Story, Told, Known, Holds, HalfWay,
                               PurgedStaysGone, LastWordIsCurrent
  <2> QED  BY <2>1, <2>2
<1> QED  BY <1>1, <1>2, Invariance, PTL DEF Spec

\* What was purged stays gone, also from under a correction that had read it.
THEOREM PurgeIsFinal ==
  ASSUME ~Overlap
  PROVE  Spec => []PurgedStaysGone
<1>1. Story => PurgedStaysGone
  BY DEF Story
<1> QED  BY <1>1, StoryHolds, PTL

\* The last turn of an item says what its current version says.
THEOREM LastWordCounts ==
  ASSUME ~Overlap
  PROVE  Spec => []LastWordIsCurrent
<1>1. Story => LastWordIsCurrent
  BY DEF Story
<1> QED  BY <1>1, StoryHolds, PTL

-----------------------------------------------------------------------------
(* Live events *)

\* What earlier processes have published: ids start over, numbers do not.
Before == published - (nextId - 1)

\* An unbroken run of events up to the id `newest`.
Runs(s, newest, before) ==
  \A i \in DOMAIN s : s[i].id = newest - Len(s) + i /\ s[i].nr = before + s[i].id

Ahead(y) == Len(y.replay) + Len(y.queue)

StreamOK(y, newest, before) ==
  y.open =>
    /\ Ahead(y) <= newest
    /\ Runs(y.queue, newest, before)
    /\ Runs(y.replay, newest - Len(y.queue), before)

\* A page that has an event of this process: where it is, what it is owed, and
\* that all of it waits once the gap has been told.
PageOK(y, h, due, first, newest, before) ==
  first # 0 =>
    /\ 0 < h /\ h <= newest
    /\ \A nr \in due : nr >= first => nr > before + h
    /\ y.open => y.last <= h /\ h <= newest - Ahead(y)
    /\ y.open /\ ~y.gap => \A nr \in due : nr >= first => nr > before + newest - Ahead(y)

BusOK ==
  /\ nextId <= published + 1
  /\ Len(buffer) <= nextId - 1
  /\ buffer = <<>> => nextId = 1
  /\ Runs(buffer, nextId - 1, Before)

LInv ==
  /\ LiveTypeOK
  /\ BusOK
  /\ \A c \in Pages :
       /\ StreamOK(stream[c], nextId - 1, Before)
       /\ PageOK(stream[c], held[c], owed[c], since1[c], nextId - 1, Before)
       /\ \A nr \in owed[c] : nr <= published

LEMMA InitLInv == LiveInit => LInv
  <1> SUFFICES ASSUME LiveInit PROVE LInv
    OBVIOUS
  <1> USE BoundsAssumption
  <1>1. LiveTypeOK
    BY DEF LiveInit, LiveTypeOK
  <1>2. BusOK
    BY DEF LiveInit, BusOK, Runs
  <1>3. QED
    BY <1>1, <1>2 DEF LiveInit, LInv, StreamOK, PageOK, Closed

-----------------------------------------------------------------------------
(* Sequences of events *)

LEMMA AppendRuns ==
  ASSUME NEW s \in Seq(Events), NEW e \in Events, NEW newest \in Int, NEW before \in Int,
         Runs(s, newest, before), e.id = newest + 1, e.nr = before + e.id
  PROVE  /\ Append(s, e) \in Seq(Events)
         /\ Len(Append(s, e)) = Len(s) + 1
         /\ Runs(Append(s, e), newest + 1, before)
  <1> DEFINE u == Append(s, e)
  <1>1. u \in Seq(Events) /\ Len(u) = Len(s) + 1 /\ DOMAIN u = 1..(Len(s) + 1)
    OBVIOUS
  <1>2. \A i \in 1..Len(s) : u[i] = s[i]
    OBVIOUS
  <1>3. u[Len(s) + 1] = e
    OBVIOUS
  <1> HIDE DEF u
  <1>4. \A i \in 1..Len(s) : s[i].id = newest - Len(s) + i /\ s[i].nr = before + s[i].id
    BY DEF Runs
  <1>5. ASSUME NEW i \in 1..(Len(s) + 1)
        PROVE  u[i].id = newest + 1 - Len(u) + i /\ u[i].nr = before + u[i].id
    <2>1. CASE i \in 1..Len(s)
      BY <1>1, <1>2, <1>4, <2>1
    <2>2. CASE i = Len(s) + 1
      BY <1>1, <1>3, <2>2
    <2>3. QED
      BY <2>1, <2>2
  <1>6. QED
    BY <1>1, <1>5 DEF Runs, u

LEMMA TailRuns ==
  ASSUME NEW s \in Seq(Events), s # <<>>, NEW newest \in Int, NEW before \in Int,
         Runs(s, newest, before)
  PROVE  /\ Head(s) \in Events /\ Tail(s) \in Seq(Events) /\ Len(Tail(s)) = Len(s) - 1
         /\ Head(s).id = newest - Len(s) + 1 /\ Head(s).nr = before + Head(s).id
         /\ Runs(Tail(s), newest, before)
  <1>1. /\ Head(s) = s[1] /\ s[1] \in Events /\ 1 \in DOMAIN s
        /\ Tail(s) \in Seq(Events) /\ Len(Tail(s)) = Len(s) - 1
        /\ \A i \in DOMAIN Tail(s) : Tail(s)[i] = s[i + 1] /\ i + 1 \in DOMAIN s /\ i \in Int
    OBVIOUS
  <1>2. Runs(Tail(s), newest, before)
    BY <1>1 DEF Runs, Events
  <1>3. QED
    BY <1>1, <1>2 DEF Runs

\* The last n of a run are a run.
LEMMA EndRuns ==
  ASSUME NEW s \in Seq(Events), NEW newest \in Int, NEW before \in Int,
         Runs(s, newest, before), NEW n \in Nat, n <= Len(s)
  PROVE  /\ SubSeq(s, Len(s) - n + 1, Len(s)) \in Seq(Events)
         /\ Len(SubSeq(s, Len(s) - n + 1, Len(s))) = n
         /\ Runs(SubSeq(s, Len(s) - n + 1, Len(s)), newest, before)
  <1> DEFINE u == SubSeq(s, Len(s) - n + 1, Len(s))
  <1>1. u \in Seq(Events) /\ Len(u) = n /\ DOMAIN u = 1..n
    OBVIOUS
  <1>2. \A i \in 1..n : u[i] = s[Len(s) - n + i] /\ Len(s) - n + i \in DOMAIN s
    OBVIOUS
  <1> HIDE DEF u
  <1>3. Runs(u, newest, before)
    BY <1>1, <1>2 DEF Runs
  <1>4. QED
    BY <1>1, <1>3 DEF u

\* What a page that has `last` is sent of the buffer: nothing, or all that follows.
LEMMA MissedRuns ==
  ASSUME LInv, NEW last \in 0..MaxEvents
  PROVE  /\ Missed(last) \in Seq(Events) /\ Len(Missed(last)) <= nextId - 1
         /\ Runs(Missed(last), nextId - 1, Before)
         /\ last # 0 /\ last <= nextId - 1 /\ Resumable(last)
              => Len(Missed(last)) = nextId - 1 - last
  <1> DEFINE missed == {i \in DOMAIN buffer : buffer[i].id > last}
             from == last - (nextId - 1 - Len(buffer)) + 1
  <1>1. /\ buffer \in Seq(Events) /\ last \in Nat /\ nextId \in Nat /\ nextId >= 1
        /\ Len(buffer) <= nextId - 1 /\ (buffer = <<>> => nextId = 1)
        /\ published \in Nat /\ Before \in Int
        /\ Runs(buffer, nextId - 1, Before)
    BY DEF LInv, BusOK, LiveTypeOK, Before
  <1>2. CASE last = 0 \/ ~Resumable(last)
    <2>1. Missed(last) = <<>>
      BY <1>2 DEF Missed
    <2>2. QED
      BY <1>1, <1>2, <2>1 DEF Runs
  <1>3. CASE last # 0 /\ Resumable(last)
    <2>1. \A i \in 1..Len(buffer) : buffer[i].id = nextId - 1 - Len(buffer) + i
      BY <1>1 DEF Runs
    <2>2. from \in Int /\ from >= 1
      <3>1. CASE buffer # <<>>
        <4>1. Len(buffer) >= 1 /\ Head(buffer) = buffer[1]
          BY <1>1, <3>1
        <4>2. Head(buffer).id = nextId - Len(buffer)
          BY <1>1, <2>1, <4>1
        <4>3. QED
          BY <1>1, <1>3, <3>1, <4>2 DEF Resumable
      <3>2. CASE buffer = <<>>
        BY <1>1, <3>2
      <3>3. QED
        BY <3>1, <3>2
    <2>3. missed = from..Len(buffer)
      BY <1>1, <2>1, <2>2
    <2> HIDE DEF from, missed
    <2>4. Cardinality(missed) = IF from > Len(buffer) THEN 0 ELSE Len(buffer) - from + 1
      <3>1. Len(buffer) \in Int
        BY <1>1
      <3>2. Cardinality(from..Len(buffer)) =
              IF from > Len(buffer) THEN 0 ELSE Len(buffer) - from + 1
        BY <2>2, <3>1, FS_Interval
      <3>3. QED
        BY <2>3, <3>2
    <2> PICK n : n = Cardinality(missed)
      OBVIOUS
    <2>5. n \in Nat /\ n <= Len(buffer)
      BY <1>1, <2>2, <2>4
    <2>6. Missed(last) = SubSeq(buffer, Len(buffer) - n + 1, Len(buffer))
      BY <1>3 DEF Missed, missed
    <2>7. /\ Missed(last) \in Seq(Events) /\ Len(Missed(last)) = n
          /\ Runs(Missed(last), nextId - 1, Before)
      BY <1>1, <2>5, <2>6, EndRuns
    <2>8. last <= nextId - 1 => n = nextId - 1 - last
      BY <1>1, <2>2, <2>4 DEF from
    <2>9. QED
      BY <1>1, <2>5, <2>7, <2>8
  <1>4. QED
    BY <1>2, <1>3

-----------------------------------------------------------------------------
(* Steps *)

\* The values a step computes with.
LEMMA Kinds ==
  ASSUME LInv
  PROVE  /\ published \in Nat /\ published <= MaxEvents /\ nextId \in Nat /\ nextId >= 1
         /\ nextId - 1 <= published /\ Before \in Nat /\ published = Before + (nextId - 1)
         /\ \A c \in Pages :
              /\ held[c] \in 0..MaxEvents /\ since1[c] \in 0..MaxEvents
              /\ owed[c] \in SUBSET (1..MaxEvents)
              /\ stream[c].open => /\ stream[c] \in Streams
                                   /\ stream[c].replay \in Seq(Events)
                                   /\ stream[c].queue \in Seq(Events)
                                   /\ stream[c].last \in 0..MaxEvents
              /\ ~stream[c].open => stream[c] = Closed
  <1>1. /\ published \in Nat /\ published <= MaxEvents /\ nextId \in Nat /\ nextId >= 1
        /\ nextId - 1 <= published
    BY BoundsAssumption DEF LInv, LiveTypeOK, BusOK
  <1>2. Before \in Nat /\ published = Before + (nextId - 1)
    BY <1>1 DEF Before
  <1>3. ASSUME NEW c \in Pages
        PROVE  /\ held[c] \in 0..MaxEvents /\ since1[c] \in 0..MaxEvents
               /\ owed[c] \in SUBSET (1..MaxEvents)
               /\ stream[c] \in {Closed} \cup Streams
    BY DEF LInv, LiveTypeOK
  <1>4. \A y \in {Closed} \cup Streams :
          /\ y.open => /\ y \in Streams /\ y.replay \in Seq(Events)
                       /\ y.queue \in Seq(Events) /\ y.last \in 0..MaxEvents
          /\ ~y.open => y = Closed
    <2>1. ~Closed.open
      BY DEF Closed
    <2>2. \A y \in Streams : /\ y.open /\ y.replay \in Seq(Events)
                              /\ y.queue \in Seq(Events) /\ y.last \in 0..MaxEvents
      BY DEF Streams
    <2>3. QED
      BY <2>1, <2>2
  <1>5. QED
    BY <1>1, <1>2, <1>3, <1>4

\* One page's step.
LEMMA PageStep ==
  ASSUME LInv, NEW c \in Pages, NEW y \in {Closed} \cup Streams, NEW h \in 0..MaxEvents,
         NEW due \in SUBSET owed[c], NEW first \in 0..MaxEvents,
         stream' = [stream EXCEPT ![c] = y], held' = [held EXCEPT ![c] = h],
         owed' = [owed EXCEPT ![c] = due], since1' = [since1 EXCEPT ![c] = first],
         UNCHANGED bus, StreamOK(y, nextId - 1, Before),
         PageOK(y, h, due, first, nextId - 1, Before)
  PROVE  LInv'
  <1>1. /\ UNCHANGED <<published, restarts, nextId, buffer>>
        /\ Before' = Before
    BY DEF bus, Before
  <1>2. LiveTypeOK'
    BY <1>1 DEF LInv, LiveTypeOK
  <1>3. BusOK'
    BY <1>1 DEF LInv, BusOK
  <1>4. ASSUME NEW d \in Pages
        PROVE  /\ StreamOK(stream[d], nextId - 1, Before)'
               /\ PageOK(stream[d], held[d], owed[d], since1[d], nextId - 1, Before)'
               /\ \A nr \in owed'[d] : nr <= published'
    <2>1. CASE d = c
      BY <1>1, <2>1 DEF LInv, LiveTypeOK
    <2>2. CASE d # c
      BY <1>1, <2>2 DEF LInv, LiveTypeOK
    <2>3. QED
      BY <2>1, <2>2
  <1>5. QED
    BY <1>2, <1>3, <1>4 DEF LInv

LEMMA ConnectLInv ==
  ASSUME LInv, NEW c \in Pages, Connect(c)
  PROVE  LInv'
  <1> PICK h : h = held[c]
    OBVIOUS
  <1> PICK y : y = [open |-> TRUE, gap |-> ~Resumable(h), replay |-> Missed(h),
                    queue |-> <<>>, last |-> h]
    OBVIOUS
  <1>1. h \in 0..MaxEvents
    BY Kinds
  <1>2. /\ Missed(h) \in Seq(Events) /\ Len(Missed(h)) <= nextId - 1
        /\ Runs(Missed(h), nextId - 1, Before)
        /\ h # 0 /\ h <= nextId - 1 /\ Resumable(h) => Len(Missed(h)) = nextId - 1 - h
    BY <1>1, MissedRuns
  <1>3. /\ y.open /\ y.gap = ~Resumable(h) /\ y.replay = Missed(h) /\ y.queue = <<>>
        /\ y.last = h
    OBVIOUS
  <1>4. y \in Streams
    BY <1>1, <1>2 DEF Streams, Resumable
  <1>5. ~Resumable(h) => Missed(h) = <<>>
    BY DEF Missed
  <1>6. nextId \in Nat /\ Before \in Int
    BY Kinds
  <1>7. Ahead(y) = Len(Missed(h))
    BY <1>2, <1>3 DEF Ahead
  <1>8. StreamOK(y, nextId - 1, Before)
    BY <1>2, <1>3, <1>6, <1>7 DEF StreamOK, Runs
  <1>9. PageOK(stream[c], h, owed[c], since1[c], nextId - 1, Before)
    BY DEF LInv
  <1>10. PageOK(y, h, owed[c], since1[c], nextId - 1, Before)
    <2> SUFFICES ASSUME since1[c] # 0
                 PROVE  PageOK(y, h, owed[c], since1[c], nextId - 1, Before)
      BY DEF PageOK
    <2>1. 0 < h /\ h <= nextId - 1 /\ \A nr \in owed[c] : nr >= since1[c] => nr > Before + h
      BY <1>9 DEF PageOK
    <2>2. h <= nextId - 1 - Ahead(y)
      BY <1>1, <1>2, <1>5, <1>6, <1>7, <2>1
    <2>3. Resumable(h) => nextId - 1 - Ahead(y) = h
      BY <1>1, <1>2, <1>6, <1>7, <2>1
    <2>4. \A nr \in owed[c] : y.gap \/ (nr >= since1[c] => nr > Before + (nextId - 1) - Ahead(y))
      BY <1>1, <1>3, <1>6, <1>7, <2>1, <2>3
    <2>5. y.last <= h
      BY <1>1, <1>3
    <2> PICK first, due, ahead : first = since1[c] /\ due = owed[c] /\ ahead = Ahead(y)
      OBVIOUS
    <2>6. QED
      BY <2>1, <2>2, <2>4, <2>5 DEF PageOK
  <1>11. /\ stream' = [stream EXCEPT ![c] = y] /\ UNCHANGED bus
         /\ held' = [held EXCEPT ![c] = h] /\ owed' = [owed EXCEPT ![c] = owed[c]]
         /\ since1' = [since1 EXCEPT ![c] = since1[c]]
    BY DEF Connect, page, LInv, LiveTypeOK
  <1>12. since1[c] \in 0..MaxEvents
    BY Kinds
  <1>13. QED
    BY <1>1, <1>4, <1>8, <1>10, <1>11, <1>12, PageStep

LEMMA TellGapLInv ==
  ASSUME LInv, NEW c \in Pages, TellGap(c)
  PROVE  LInv'
  <1> PICK y : y = [stream[c] EXCEPT !.gap = FALSE]
    OBVIOUS
  <1>1. stream[c].open /\ stream[c] \in Streams
    BY Kinds DEF TellGap
  <1>2. /\ y \in Streams /\ y.open /\ ~y.gap /\ y.replay = stream[c].replay
        /\ y.queue = stream[c].queue /\ y.last = stream[c].last
    BY <1>1 DEF Streams
  <1>3. StreamOK(y, nextId - 1, Before)
    BY <1>1, <1>2 DEF LInv, StreamOK, Ahead
  <1>4. PageOK(y, held[c], {}, since1[c], nextId - 1, Before)
    BY <1>1, <1>2 DEF LInv, PageOK, Ahead
  <1>5. /\ stream' = [stream EXCEPT ![c] = y] /\ UNCHANGED bus
        /\ held' = [held EXCEPT ![c] = held[c]] /\ owed' = [owed EXCEPT ![c] = {}]
        /\ since1' = [since1 EXCEPT ![c] = since1[c]]
    BY DEF TellGap, LInv, LiveTypeOK
  <1>6. QED
    BY <1>2, <1>3, <1>4, <1>5, Kinds, PageStep

LEMMA BreakLInv ==
  ASSUME LInv, NEW c \in Pages, Break(c)
  PROVE  LInv'
  <1>1. StreamOK(Closed, nextId - 1, Before)
    BY DEF StreamOK, Closed
  <1>2. PageOK(Closed, held[c], owed[c], since1[c], nextId - 1, Before)
    BY DEF LInv, PageOK, Closed
  <1>3. /\ stream' = [stream EXCEPT ![c] = Closed] /\ UNCHANGED bus
        /\ held' = [held EXCEPT ![c] = held[c]] /\ owed' = [owed EXCEPT ![c] = owed[c]]
        /\ since1' = [since1 EXCEPT ![c] = since1[c]]
    BY DEF Break, page, LInv, LiveTypeOK
  <1>4. QED
    BY <1>1, <1>2, <1>3, Kinds, PageStep

\* Sending the head of what waits: where the page is afterwards.
LEMMA ReceivePageOK ==
  ASSUME NEW newest \in Nat, NEW before \in Nat, NEW y, NEW z, NEW h \in Nat, NEW due,
         NEW first \in Nat, NEW e,
         PageOK(y, h, due, first, newest, before), \A nr \in due : nr \in Nat,
         y.open, ~y.gap, z.open, Ahead(y) \in Nat, Ahead(z) \in Nat,
         Ahead(z) = Ahead(y) - 1, Ahead(y) <= newest, z.last <= e.id,
         e.id = newest - Ahead(y) + 1, e.nr = before + e.id
  PROVE  PageOK(z, e.id, due \ {e.nr}, IF first = 0 THEN e.nr ELSE first, newest, before)
  <1> PICK a : a = Ahead(y)
    OBVIOUS
  <1> PICK id, nr : id = e.id /\ nr = e.nr
    OBVIOUS
  <1> PICK new : new = IF first = 0 THEN nr ELSE first
    OBVIOUS
  <1>1. /\ a \in Nat /\ a <= newest /\ Ahead(z) = a - 1 /\ a - 1 \in Nat
        /\ id = newest - a + 1 /\ nr = before + id
    OBVIOUS
  <1>2. 0 < id /\ id <= newest /\ id <= newest - Ahead(z)
    BY <1>1
  <1>3. ASSUME NEW n \in due \ {nr}, n >= new
        PROVE  n > before + id
    <2>1. CASE first = 0
      BY <1>1, <1>3, <2>1
    <2>2. CASE first # 0
      <3>1. n > before + newest - a
        BY <1>3, <2>2 DEF PageOK
      <3>2. n >= before + id
        BY <1>1, <1>3, <3>1
      <3>3. QED
        BY <1>1, <1>3, <3>2
    <2>3. QED
      BY <2>1, <2>2
  <1>4. before + newest - Ahead(z) = before + id
    BY <1>1
  <1>5. QED
    BY <1>1, <1>2, <1>3, <1>4 DEF PageOK

LEMMA AheadOf ==
  ASSUME NEW y, NEW r \in Seq(Events), NEW q \in Seq(Events), y.replay = r, y.queue = q
  PROVE  Ahead(y) = Len(r) + Len(q) /\ Ahead(y) \in Nat /\ Len(r) \in Nat /\ Len(q) \in Nat
  <1>1. Len(r) \in Nat /\ Len(q) \in Nat
    OBVIOUS
  <1>2. Ahead(y) = Len(r) + Len(q)
    BY DEF Ahead
  <1>3. QED
    BY <1>1, <1>2

LEMMA StreamFields ==
  ASSUME NEW s \in Streams
  PROVE  /\ s.open /\ s.gap \in BOOLEAN /\ s.replay \in Seq(Events) /\ s.queue \in Seq(Events)
         /\ s.last \in 0..MaxEvents /\ s.last \in Nat
  <1>1. /\ s.open /\ s.gap \in BOOLEAN /\ s.replay \in Seq(Events) /\ s.queue \in Seq(Events)
        /\ s.last \in 0..MaxEvents
    BY DEF Streams
  <1>2. QED
    BY <1>1, BoundsAssumption

LEMMA EventFields ==
  ASSUME NEW e \in Events
  PROVE  e.id \in 0..MaxEvents /\ e.nr \in 0..MaxEvents /\ e.id \in Nat /\ e.nr \in Nat
  BY BoundsAssumption DEF Events

\* A stream with other events waiting.
LEMMA OtherQueue ==
  ASSUME NEW s \in Streams, NEW u \in Seq(Events), NEW z, z = [s EXCEPT !.queue = u]
  PROVE  /\ z \in Streams /\ z.open /\ z.gap = s.gap /\ z.replay = s.replay /\ z.queue = u
         /\ z.last = s.last
  BY DEF Streams

\* The stream after it has sent the head of its replay ...
LEMMA SendReplay ==
  ASSUME NEW s \in Streams, s.replay # <<>>, NEW newest \in Nat, NEW before \in Nat,
         StreamOK(s, newest, before), NEW e, e = Head(s.replay),
         NEW z, z.replay = Tail(s.replay), z.queue = s.queue
  PROVE  /\ Ahead(z) = Ahead(s) - 1 /\ Ahead(s) <= newest
         /\ e.id = newest - Ahead(s) + 1 /\ e.nr = before + e.id
         /\ StreamOK(z, newest, before)
  <1>1. PICK r, q : r = s.replay /\ q = s.queue
    OBVIOUS
  <1>2. r \in Seq(Events) /\ q \in Seq(Events) /\ r # <<>> /\ s.open
    BY <1>1, StreamFields
  <1>3. Ahead(s) = Len(r) + Len(q) /\ Len(r) \in Nat /\ Len(q) \in Nat
    BY <1>1, <1>2, AheadOf
  <1>4. /\ Ahead(s) <= newest /\ Runs(q, newest, before)
        /\ Runs(r, newest - Len(q), before)
    BY <1>1, <1>2 DEF StreamOK
  <1>5. PICK more : more = Len(q)
    OBVIOUS
  <1>6. /\ Head(r) \in Events /\ Tail(r) \in Seq(Events)
        /\ Len(Tail(r)) + more = Len(r) + more - 1
        /\ Head(r).id = newest - (Len(r) + more) + 1 /\ Head(r).nr = before + Head(r).id
        /\ Runs(Tail(r), newest - more, before)
    <2>1. more \in Nat /\ Runs(r, newest - more, before)
      BY <1>3, <1>4, <1>5
    <2>2. PICK end : end = newest - more /\ end \in Int
      BY <2>1
    <2>3. Runs(r, end, before) /\ before \in Int
      BY <2>1, <2>2
    <2>4. /\ Head(r) \in Events /\ Tail(r) \in Seq(Events) /\ Len(Tail(r)) = Len(r) - 1
          /\ Head(r).id = end - Len(r) + 1 /\ Head(r).nr = before + Head(r).id
          /\ Runs(Tail(r), end, before)
      BY <1>2, <2>2, <2>3, TailRuns
    <2>5. QED
      BY <1>3, <2>1, <2>2, <2>4
  <1>7. PICK u : u = Tail(r)
    OBVIOUS
  <1>8. e = Head(r) /\ u \in Seq(Events) /\ z.replay = u /\ z.queue = q
    BY <1>1, <1>6, <1>7
  <1>9. Ahead(z) = Len(u) + Len(q)
    BY <1>2, <1>8, AheadOf
  <1>10. Ahead(z) = Ahead(s) - 1 /\ Ahead(z) <= newest
    BY <1>3, <1>4, <1>5, <1>6, <1>7, <1>9
  <1>11. StreamOK(z, newest, before)
    BY <1>4, <1>5, <1>6, <1>7, <1>8, <1>10 DEF StreamOK
  <1>12. e.id = newest - Ahead(s) + 1 /\ e.nr = before + e.id
    BY <1>3, <1>5, <1>6, <1>8
  <1>13. QED
    BY <1>4, <1>10, <1>11, <1>12

\* ... or the head of its queue.
LEMMA SendQueue ==
  ASSUME NEW s \in Streams, s.replay = <<>>, s.queue # <<>>,
         NEW newest \in Nat, NEW before \in Nat,
         StreamOK(s, newest, before), NEW e, e = Head(s.queue),
         NEW z, z.queue = Tail(s.queue), z.replay = s.replay
  PROVE  /\ Ahead(z) = Ahead(s) - 1 /\ Ahead(s) <= newest
         /\ e.id = newest - Ahead(s) + 1 /\ e.nr = before + e.id
         /\ StreamOK(z, newest, before)
  <1>1. PICK r, q : r = s.replay /\ q = s.queue
    OBVIOUS
  <1>2. r \in Seq(Events) /\ q \in Seq(Events) /\ q # <<>> /\ r = <<>> /\ s.open
    BY <1>1, StreamFields
  <1>3. Ahead(s) = Len(r) + Len(q) /\ Len(r) = 0 /\ Len(q) \in Nat
    BY <1>1, <1>2, AheadOf
  <1>4. Ahead(s) <= newest /\ Runs(q, newest, before)
    BY <1>1, <1>2 DEF StreamOK
  <1>5. /\ Head(q) \in Events /\ Tail(q) \in Seq(Events) /\ Len(Tail(q)) = Len(q) - 1
        /\ Head(q).id = newest - Len(q) + 1 /\ Head(q).nr = before + Head(q).id
        /\ Runs(Tail(q), newest, before)
    <2>1. newest \in Int /\ before \in Int
      OBVIOUS
    <2>2. QED
      BY <1>2, <1>4, <2>1, TailRuns
  <1>6. PICK u : u = Tail(q)
    OBVIOUS
  <1>7. e = Head(q) /\ u \in Seq(Events) /\ z.queue = u /\ z.replay = r
    BY <1>1, <1>5, <1>6
  <1>8. Ahead(z) = Len(r) + Len(u)
    BY <1>2, <1>7, AheadOf
  <1>9. Ahead(z) = Ahead(s) - 1 /\ Ahead(z) <= newest
    BY <1>3, <1>4, <1>5, <1>6, <1>8
  <1>10. Runs(r, newest - Len(u), before)
    BY <1>2 DEF Runs
  <1>11. StreamOK(z, newest, before)
    BY <1>5, <1>6, <1>7, <1>9, <1>10 DEF StreamOK
  <1>12. e.id = newest - Ahead(s) + 1 /\ e.nr = before + e.id
    BY <1>3, <1>5, <1>7
  <1>13. QED
    BY <1>4, <1>9, <1>11, <1>12

LEMMA HeadIsEvent ==
  ASSUME NEW r \in Seq(Events), r # <<>>
  PROVE  Head(r) \in Events /\ Tail(r) \in Seq(Events)
  OBVIOUS

LEMMA ReplayLInv ==
  ASSUME LInv, NEW c \in Pages, Replay(c)
  PROVE  LInv'
  <1>1. PICK s : s = stream[c]
    OBVIOUS
  <1>2. PICK e, u, id, nr : e = Head(s.replay) /\ u = Tail(s.replay) /\ id = e.id /\ nr = e.nr
    OBVIOUS
  <1>3. PICK z : z = [s EXCEPT !.replay = u, !.last = id]
    OBVIOUS
  <1>4. s.open /\ ~s.gap /\ s.replay # <<>> /\ s \in Streams
    BY <1>1, Kinds DEF Replay
  <1>5. e \in Events /\ u \in Seq(Events)
    BY <1>2, <1>4, StreamFields, HeadIsEvent
  <1>6. id \in 0..MaxEvents /\ nr \in 0..MaxEvents /\ id \in Nat
    BY <1>2, <1>5, EventFields
  <1>7. /\ z \in Streams /\ z.open /\ z.gap = s.gap /\ z.replay = u /\ z.queue = s.queue
        /\ z.last = id
    BY <1>3, <1>4, <1>5, <1>6 DEF Streams
  <1>8. PICK newest, before, h, due, first :
          /\ newest = nextId - 1 /\ before = Before /\ h = held[c] /\ due = owed[c]
          /\ first = since1[c]
    OBVIOUS
  <1>9. /\ newest \in Nat /\ before \in Nat /\ h \in Nat /\ first \in Nat
        /\ first \in 0..MaxEvents /\ \A n \in due : n \in Nat
    BY <1>8, Kinds, BoundsAssumption
  <1>10. StreamOK(s, newest, before) /\ PageOK(s, h, due, first, newest, before)
    BY <1>1, <1>8 DEF LInv
  <1>11. /\ Ahead(z) = Ahead(s) - 1 /\ Ahead(s) <= newest
         /\ e.id = newest - Ahead(s) + 1 /\ e.nr = before + e.id
         /\ StreamOK(z, newest, before)
    BY <1>2, <1>4, <1>7, <1>9, <1>10, SendReplay
  <1>12. Ahead(s) \in Nat /\ Ahead(z) \in Nat
    BY <1>4, <1>7, StreamFields, AheadOf
  <1>13. PICK new : new = IF first = 0 THEN nr ELSE first
    OBVIOUS
  <1>14. PageOK(z, id, due \ {nr}, new, newest, before)
    <2>1. z.last <= e.id
      BY <1>2, <1>6, <1>7
    <2>2. PageOK(z, e.id, due \ {e.nr}, IF first = 0 THEN e.nr ELSE first, newest, before)
      BY <1>4, <1>7, <1>9, <1>10, <1>11, <1>12, <2>1, ReceivePageOK
    <2>3. QED
      BY <1>2, <1>13, <2>2
  <1>15. stream' = [stream EXCEPT ![c] = z] /\ UNCHANGED bus
    BY <1>1, <1>2, <1>3 DEF Replay
  <1>16. /\ held' = [held EXCEPT ![c] = id] /\ owed' = [owed EXCEPT ![c] = due \ {nr}]
         /\ since1' = [since1 EXCEPT ![c] = new]
    BY <1>1, <1>2, <1>8, <1>13 DEF Replay, Receive
  <1>17. new \in 0..MaxEvents
    BY <1>6, <1>9, <1>13
  <1>18. StreamOK(z, nextId - 1, Before) /\ PageOK(z, id, due \ {nr}, new, nextId - 1, Before)
    BY <1>8, <1>11, <1>14
  <1>19. z \in {Closed} \cup Streams /\ due \ {nr} \in SUBSET owed[c]
    BY <1>7, <1>8
  <1>20. QED
    BY <1>6, <1>15, <1>16, <1>17, <1>18, <1>19, PageStep

LEMMA DeliverLInv ==
  ASSUME LInv, NEW c \in Pages, Deliver(c)
  PROVE  LInv'
  <1>1. PICK s : s = stream[c]
    OBVIOUS
  <1>2. PICK e, u, id, nr : e = Head(s.queue) /\ u = Tail(s.queue) /\ id = e.id /\ nr = e.nr
    OBVIOUS
  <1>3. PICK z : z = [s EXCEPT !.queue = u]
    OBVIOUS
  <1>4. s.open /\ ~s.gap /\ s.replay = <<>> /\ s.queue # <<>> /\ s \in Streams
    BY <1>1, Kinds DEF Deliver
  <1>5. e \in Events /\ u \in Seq(Events)
    BY <1>2, <1>4, StreamFields, HeadIsEvent
  <1>6. id \in 0..MaxEvents /\ nr \in 0..MaxEvents /\ id \in Nat /\ s.last \in Nat
    BY <1>2, <1>4, <1>5, EventFields, StreamFields
  <1>7. /\ z \in Streams /\ z.open /\ z.gap = s.gap /\ z.replay = s.replay /\ z.queue = u
        /\ z.last = s.last
    BY <1>3, <1>4, <1>5, OtherQueue
  <1>8. PICK newest, before, h, due, first :
          /\ newest = nextId - 1 /\ before = Before /\ h = held[c] /\ due = owed[c]
          /\ first = since1[c]
    OBVIOUS
  <1>9. /\ newest \in Nat /\ before \in Nat /\ h \in Nat /\ first \in Nat
        /\ h \in 0..MaxEvents /\ first \in 0..MaxEvents /\ \A n \in due : n \in Nat
    BY <1>8, Kinds, BoundsAssumption
  <1>10. StreamOK(s, newest, before) /\ PageOK(s, h, due, first, newest, before)
    BY <1>1, <1>8 DEF LInv
  <1>11. /\ Ahead(z) = Ahead(s) - 1 /\ Ahead(s) <= newest
         /\ e.id = newest - Ahead(s) + 1 /\ e.nr = before + e.id
         /\ StreamOK(z, newest, before)
    BY <1>2, <1>4, <1>7, <1>9, <1>10, SendQueue
  <1>12. Ahead(s) \in Nat /\ Ahead(z) \in Nat
    BY <1>4, <1>7, StreamFields, AheadOf
  <1>13. stream' = [stream EXCEPT ![c] = z] /\ UNCHANGED bus
    BY <1>1, <1>2, <1>3 DEF Deliver
  <1>14. z \in {Closed} \cup Streams /\ StreamOK(z, nextId - 1, Before)
    BY <1>7, <1>8, <1>11
  <1>15. CASE s.last # 0 /\ id <= s.last
    \* Only a page that has nothing of this process is passed over.
    <2>1. first = 0
      <3>1. id = newest - Ahead(s) + 1
        BY <1>2, <1>11
      <3>2. first # 0 => s.last <= h /\ h <= newest - Ahead(s)
        BY <1>4, <1>10 DEF PageOK
      <3>3. QED
        BY <1>6, <1>9, <1>12, <1>15, <3>1, <3>2
    <2>2. PageOK(z, h, due, first, nextId - 1, Before)
      BY <2>1 DEF PageOK
    <2>3. /\ held' = [held EXCEPT ![c] = h] /\ owed' = [owed EXCEPT ![c] = due]
          /\ since1' = [since1 EXCEPT ![c] = first]
      BY <1>1, <1>2, <1>8, <1>15 DEF Deliver, page, LInv, LiveTypeOK
    <2>4. due \in SUBSET owed[c]
      BY <1>8
    <2>5. QED
      BY <1>9, <1>13, <1>14, <2>2, <2>3, <2>4, PageStep
  <1>16. CASE ~(s.last # 0 /\ id <= s.last)
    <2>1. z.last <= e.id
      BY <1>2, <1>6, <1>7, <1>16
    <2>2. PICK new : new = IF first = 0 THEN nr ELSE first
      OBVIOUS
    <2>3. PageOK(z, e.id, due \ {e.nr}, IF first = 0 THEN e.nr ELSE first, newest, before)
      BY <1>4, <1>7, <1>9, <1>10, <1>11, <1>12, <2>1, ReceivePageOK
    <2>4. PageOK(z, id, due \ {nr}, new, nextId - 1, Before)
      BY <1>2, <1>8, <2>2, <2>3
    <2>5. /\ held' = [held EXCEPT ![c] = id]
          /\ owed' = [owed EXCEPT ![c] = due \ {nr}]
          /\ since1' = [since1 EXCEPT ![c] = new]
      BY <1>1, <1>2, <1>8, <1>16, <2>2 DEF Deliver, Receive
    <2>6. new \in 0..MaxEvents /\ due \ {nr} \in SUBSET owed[c]
      BY <1>6, <1>8, <1>9, <2>2
    <2>7. QED
      BY <1>6, <1>13, <1>14, <2>4, <2>5, <2>6, PageStep
  <1>17. QED
    BY <1>15, <1>16

\* The newest events of a buffer that has got one more.
LEMMA TrimmedRuns ==
  ASSUME NEW s \in Seq(Events), s # <<>>, NEW newest \in Int, NEW before \in Int,
         Runs(s, newest, before)
  PROVE  /\ Tail1(s) \in Seq(Events) /\ Tail1(s) # <<>>
         /\ Len(Tail1(s)) <= BufferSize /\ Len(Tail1(s)) <= Len(s)
         /\ Runs(Tail1(s), newest, before)
  <1>1. PICK n : n = BufferSize /\ n \in Nat /\ n >= 1
    BY BoundsAssumption
  <1>2. Len(s) \in Nat
    OBVIOUS
  <1>3. CASE Len(s) > BufferSize
    <2>1. PICK u : u = SubSeq(s, Len(s) - n + 1, Len(s))
      OBVIOUS
    <2>2. u \in Seq(Events) /\ Len(u) = n /\ Runs(u, newest, before)
      BY <1>1, <1>2, <1>3, <2>1, EndRuns
    <2>3. Tail1(s) = u
      BY <1>1, <1>3, <2>1 DEF Tail1
    <2>4. u # <<>>
      BY <1>1, <2>2
    <2>5. QED
      BY <1>1, <1>2, <1>3, <2>2, <2>3, <2>4
  <1>4. CASE ~(Len(s) > BufferSize)
    BY <1>1, <1>2, <1>4 DEF Tail1
  <1>5. QED
    BY <1>3, <1>4

\* An open stream that has got one more.
LEMMA QueuedOK ==
  ASSUME NEW s \in Streams, NEW newest \in Nat, NEW before \in Nat,
         StreamOK(s, newest, before), NEW e \in Events,
         e.id = newest + 1, e.nr = before + e.id,
         NEW z, z.open, z.queue = Append(s.queue, e), z.replay = s.replay
  PROVE  /\ Append(s.queue, e) \in Seq(Events)
         /\ Ahead(z) = Ahead(s) + 1 /\ StreamOK(z, newest + 1, before)
  <1>1. PICK r, q : r = s.replay /\ q = s.queue
    OBVIOUS
  <1>2. r \in Seq(Events) /\ q \in Seq(Events) /\ s.open
    BY <1>1, StreamFields
  <1>3. Ahead(s) = Len(r) + Len(q) /\ Len(r) \in Nat /\ Len(q) \in Nat
    BY <1>1, <1>2, AheadOf
  <1>4. /\ Ahead(s) <= newest /\ Runs(q, newest, before)
        /\ Runs(r, newest - Len(q), before)
    BY <1>1, <1>2 DEF StreamOK
  <1>5. PICK u : u = Append(q, e)
    OBVIOUS
  <1>6. u \in Seq(Events) /\ Len(u) = Len(q) + 1 /\ Runs(u, newest + 1, before)
    <2>1. newest \in Int /\ before \in Int
      OBVIOUS
    <2>2. QED
      BY <1>2, <1>4, <1>5, <2>1, AppendRuns
  <1>7. Append(s.queue, e) = u /\ z.queue = u /\ z.replay = r
    BY <1>1, <1>5
  <1>8. Ahead(z) = Len(r) + Len(u)
    BY <1>2, <1>6, <1>7, AheadOf
  <1>9. Ahead(z) = Ahead(s) + 1 /\ Ahead(z) <= newest + 1
    BY <1>3, <1>4, <1>6, <1>8
  <1>10. (newest + 1) - Len(u) = newest - Len(q)
    BY <1>3, <1>6
  <1>11. StreamOK(z, newest + 1, before)
    <2>1. Runs(r, (newest + 1) - Len(u), before)
      BY <1>4, <1>10
    <2>2. QED
      BY <1>6, <1>7, <1>9, <2>1 DEF StreamOK
  <1>12. QED
    BY <1>6, <1>7, <1>9, <1>11

\* A page that has an event of this process, when there is one more.
LEMMA OwedOneMore ==
  ASSUME NEW newest \in Nat, NEW before \in Nat, NEW y, NEW z, NEW h \in Nat,
         NEW due, \A nr \in due : nr \in Nat, NEW first, NEW n,
         PageOK(y, h, due, first, newest, before), n = before + newest + 1,
         z.open = y.open,
         y.open => /\ z.gap = y.gap /\ z.last = y.last
                   /\ Ahead(y) \in Nat /\ Ahead(z) = Ahead(y) + 1
  PROVE  PageOK(z, h, IF h = 0 THEN due ELSE due \cup {n}, first, newest + 1, before)
  <1> SUFFICES ASSUME first # 0
               PROVE  PageOK(z, h, IF h = 0 THEN due ELSE due \cup {n}, first, newest + 1, before)
    BY DEF PageOK
  <1>1. 0 < h /\ h <= newest /\ \A nr \in due : nr >= first => nr > before + h
    BY DEF PageOK
  <1>2. PICK all : all = due \cup {n}
    OBVIOUS
  <1>3. \A nr \in all : nr >= first => nr > before + h
    BY <1>1, <1>2
  <1>4. ASSUME y.open
        PROVE  /\ z.last <= h /\ h <= newest + 1 - Ahead(z)
               /\ ~z.gap => \A nr \in all : nr >= first => nr > before + (newest + 1) - Ahead(z)
    <2>1. PICK a : a = Ahead(y) /\ a \in Nat /\ Ahead(z) = a + 1
      BY <1>4
    <2>2. y.last <= h /\ h <= newest - a
      BY <1>4, <2>1 DEF PageOK
    <2>3. ~y.gap => \A nr \in due : nr >= first => nr > before + newest - a
      BY <1>4, <2>1 DEF PageOK
    <2>4. before + (newest + 1) - Ahead(z) = before + newest - a /\ n > before + newest - a
      BY <2>1
    <2>5. newest + 1 - Ahead(z) = newest - a
      BY <2>1
    <2>6. QED
      BY <1>2, <1>4, <2>2, <2>3, <2>4, <2>5
  <1>5. h <= newest + 1 /\ (IF h = 0 THEN due ELSE due \cup {n}) = all
    BY <1>1, <1>2
  <1>6. QED
    BY <1>1, <1>3, <1>4, <1>5 DEF PageOK

LEMMA PublishLInv ==
  ASSUME LInv, Publish
  PROVE  LInv'
  <1>1. PICK newest, before : newest = nextId - 1 /\ before = Before
    OBVIOUS
  <1>2. PICK e : e = [id |-> nextId, nr |-> published + 1]
    OBVIOUS
  <1>3. /\ newest \in Nat /\ before \in Nat /\ published \in Nat /\ published < MaxEvents
        /\ published = before + newest /\ newest <= published /\ nextId = newest + 1
        /\ published' = published + 1 /\ nextId' = newest + 2
    BY <1>1, Kinds DEF Publish
  <1>4. e.id = newest + 1 /\ e.nr = published + 1 /\ e.nr = before + e.id /\ e \in Events
    <2>1. e.id = newest + 1 /\ e.nr = published + 1
      BY <1>2, <1>3
    <2>2. newest + 1 \in 1..MaxEvents /\ published + 1 \in 1..MaxEvents
      BY <1>3, BoundsAssumption
    <2>3. e \in Events
      BY <1>2, <1>3, <2>2 DEF Events
    <2>4. QED
      BY <1>3, <2>1, <2>3
  <1>5. nextId' - 1 = newest + 1 /\ Before' = before
    BY <1>3 DEF Before
  <1>6. /\ buffer' = Tail1(Append(buffer, e))
        /\ stream' = [c \in Pages |-> IF stream[c].open
                                       THEN [stream[c] EXCEPT !.queue = Append(@, e)]
                                       ELSE stream[c]]
        /\ owed' = [c \in Pages |-> IF held[c] = 0 THEN owed[c] ELSE owed[c] \cup {e.nr}]
    BY <1>2 DEF Publish
  <1>7. /\ buffer' \in Seq(Events) /\ buffer' # <<>> /\ Len(buffer') <= BufferSize
        /\ Len(buffer') <= newest + 1 /\ Runs(buffer', newest + 1, before)
    <2>1. buffer \in Seq(Events) /\ Len(buffer) <= newest /\ Runs(buffer, newest, before)
      BY <1>1 DEF LInv, LiveTypeOK, BusOK
    <2>2. newest \in Int /\ before \in Int /\ newest + 1 \in Int
      BY <1>3
    <2>3. PICK b : b = Append(buffer, e)
      OBVIOUS
    <2>4. b \in Seq(Events) /\ Len(b) = Len(buffer) + 1 /\ Runs(b, newest + 1, before)
      BY <1>4, <2>1, <2>2, <2>3, AppendRuns
    <2>5. Len(b) \in Nat /\ Len(buffer) \in Nat /\ b # <<>>
      BY <2>1, <2>4
    <2>6. /\ Tail1(b) \in Seq(Events) /\ Tail1(b) # <<>>
          /\ Len(Tail1(b)) <= BufferSize /\ Len(Tail1(b)) <= Len(b)
          /\ Runs(Tail1(b), newest + 1, before)
      BY <2>2, <2>4, <2>5, TrimmedRuns
    <2>7. Len(Tail1(b)) \in Nat
      BY <2>6
    <2>8. QED
      BY <1>3, <1>6, <2>1, <2>3, <2>4, <2>5, <2>6, <2>7
  <1>8. BusOK'
    BY <1>3, <1>5, <1>7 DEF BusOK
  <1>9. ASSUME NEW c \in Pages
        PROVE  /\ stream'[c] \in {Closed} \cup Streams
               /\ owed'[c] \in SUBSET (1..MaxEvents)
               /\ StreamOK(stream'[c], newest + 1, before)
               /\ PageOK(stream'[c], held[c], owed'[c], since1[c], newest + 1, before)
               /\ \A nr \in owed'[c] : nr <= published + 1
    <2>1. PICK s, z, h, due, first :
            s = stream[c] /\ z = stream'[c] /\ h = held[c] /\ due = owed[c] /\ first = since1[c]
      OBVIOUS
    <2>2. /\ h \in Nat /\ due \in SUBSET (1..MaxEvents) /\ \A nr \in due : nr \in Nat
          /\ s.open => s \in Streams
          /\ ~s.open => s = Closed
      BY <2>1, Kinds, BoundsAssumption
    <2>3. /\ StreamOK(s, newest, before) /\ PageOK(s, h, due, first, newest, before)
          /\ \A nr \in due : nr <= published
      BY <1>1, <2>1 DEF LInv
    <2>4. PICK n : n = e.nr /\ n = before + newest + 1 /\ n = published + 1 /\ n \in 1..MaxEvents
      BY <1>3, <1>4, BoundsAssumption
    <2>5. owed'[c] = IF h = 0 THEN due ELSE due \cup {n}
      BY <1>6, <2>1, <2>4
    <2>6. z.open = s.open /\ z \in {Closed} \cup Streams /\ StreamOK(z, newest + 1, before)
          /\ (s.open => /\ z.gap = s.gap /\ z.last = s.last
                        /\ Ahead(s) \in Nat /\ Ahead(z) = Ahead(s) + 1)
      <3>1. CASE s.open
        <4>1. PICK u : u = Append(s.queue, e)
          OBVIOUS
        <4>2. z = [s EXCEPT !.queue = u]
          BY <1>6, <2>1, <3>1, <4>1
        <4>3. s \in Streams /\ s.queue \in Seq(Events)
          BY <2>2, <3>1, StreamFields
        <4>4. u \in Seq(Events)
          BY <1>4, <4>1, <4>3
        <4>5. /\ z \in Streams /\ z.open /\ z.gap = s.gap /\ z.replay = s.replay
              /\ z.queue = u /\ z.last = s.last
          BY <4>2, <4>3, <4>4 DEF Streams
        <4>6. Ahead(z) = Ahead(s) + 1 /\ StreamOK(z, newest + 1, before)
          <5>1. z.queue = Append(s.queue, e)
            BY <4>1, <4>5
          <5>2. newest \in Nat /\ before \in Nat /\ StreamOK(s, newest, before)
            BY <1>3, <2>3
          <5>3. e \in Events /\ e.id = newest + 1 /\ e.nr = before + e.id
            BY <1>4
          <5>4. QED
            BY <4>3, <4>5, <5>1, <5>2, <5>3, QueuedOK
        <4>7. Ahead(s) \in Nat
          BY <4>3, StreamFields, AheadOf
        <4>8. z.open = s.open
          BY <3>1, <4>5, <4>3 DEF Streams
        <4>9. QED
          BY <4>5, <4>6, <4>7, <4>8
      <3>2. CASE ~s.open
        <4>1. z = Closed /\ s = Closed
          BY <1>6, <2>1, <2>2, <3>2
        <4>2. ~Closed.open
          BY DEF Closed
        <4>3. QED
          BY <4>1, <4>2 DEF StreamOK
      <3>3. QED
        BY <3>1, <3>2
    <2>7. PageOK(z, h, IF h = 0 THEN due ELSE due \cup {n}, first, newest + 1, before)
      BY <1>3, <2>2, <2>3, <2>4, <2>6, OwedOneMore
    <2>8. /\ owed'[c] \in SUBSET (1..MaxEvents)
          /\ \A nr \in owed'[c] : nr <= published + 1
      <3>1. PICK all : all = due \cup {n}
        OBVIOUS
      <3>2. all \in SUBSET (1..MaxEvents) /\ \A nr \in all : nr \in due \/ nr = n
        BY <2>2, <2>4, <3>1
      <3>3. \A nr \in due : nr <= published + 1
        BY <1>3, <2>2, <2>3
      <3>4. n <= published + 1
        BY <1>3, <2>4
      <3>5. owed'[c] = due \/ owed'[c] = all
        BY <2>5, <3>1
      <3>6. QED
        BY <2>2, <3>2, <3>3, <3>4, <3>5
    <2>9. QED
      BY <2>1, <2>5, <2>6, <2>7, <2>8
  <1>10. UNCHANGED <<restarts, held, since1>>
    BY DEF Publish
  <1>11. LiveTypeOK'
    <2>1. published' \in 0..MaxEvents /\ nextId' \in 1..(MaxEvents + 1)
      BY <1>3, BoundsAssumption
    <2>2. stream' \in [Pages -> {Closed} \cup Streams]
      <3>1. stream' = [c \in Pages |-> stream'[c]]
        BY <1>6
      <3>2. QED
        BY <1>9, <3>1
    <2>3. owed' \in [Pages -> SUBSET (1..MaxEvents)]
      <3>1. owed' = [c \in Pages |-> owed'[c]]
        BY <1>6
      <3>2. QED
        BY <1>9, <3>1
    <2>4. QED
      BY <1>7, <1>10, <2>1, <2>2, <2>3 DEF LInv, LiveTypeOK
  <1>12. QED
    BY <1>3, <1>5, <1>8, <1>9, <1>10, <1>11 DEF LInv

LEMMA RestartLInv ==
  ASSUME LInv, Restart
  PROVE  LInv'
  <1>1. /\ published \in Nat /\ restarts' \in 0..MaxRestarts
        /\ UNCHANGED <<published, held, owed>> /\ nextId' = 1 /\ buffer' = <<>>
        /\ stream' = [c \in Pages |-> Closed] /\ since1' = [c \in Pages |-> 0]
    BY Kinds, BoundsAssumption DEF Restart, LInv, LiveTypeOK
  <1>2. LiveTypeOK'
    BY <1>1, BoundsAssumption DEF LInv, LiveTypeOK
  <1>3. BusOK'
    BY <1>1 DEF BusOK, Runs
  <1>4. ASSUME NEW c \in Pages
        PROVE  /\ StreamOK(stream[c], nextId - 1, Before)'
               /\ PageOK(stream[c], held[c], owed[c], since1[c], nextId - 1, Before)'
               /\ \A nr \in owed'[c] : nr <= published'
    <2>1. stream'[c] = Closed /\ since1'[c] = 0 /\ ~Closed.open
      BY <1>1 DEF Closed
    <2>2. QED
      BY <1>1, <2>1 DEF StreamOK, PageOK, LInv
  <1>5. QED
    BY <1>2, <1>3, <1>4 DEF LInv

LEMMA NextLInv == LInv /\ [LiveNext]_liveVars => LInv'
  <1> SUFFICES ASSUME LInv, [LiveNext]_liveVars PROVE LInv'
    OBVIOUS
  <1>1. CASE UNCHANGED liveVars
    <2>1. UNCHANGED <<published, restarts, nextId, buffer, stream, held, owed, since1>>
      BY <1>1 DEF liveVars, bus, page
    <2>2. LiveTypeOK' /\ Before' = Before
      BY <2>1 DEF LInv, LiveTypeOK, Before
    <2>3. BusOK'
      BY <2>1, <2>2 DEF LInv, BusOK
    <2>4. QED
      BY <2>1, <2>2, <2>3 DEF LInv
  <1>2. CASE Publish
    BY <1>2, PublishLInv
  <1>3. CASE Restart
    BY <1>3, RestartLInv
  <1>4. ASSUME NEW c \in Pages,
               Connect(c) \/ TellGap(c) \/ Replay(c) \/ Deliver(c) \/ Break(c)
        PROVE  LInv'
    BY <1>4, ConnectLInv, TellGapLInv, ReplayLInv, DeliverLInv, BreakLInv
  <1>5. QED
    BY <1>1, <1>2, <1>3, <1>4 DEF LiveNext

-----------------------------------------------------------------------------
(* Theorems *)

\* The strengthening is an invariant (live.py LiveBus, for any ring buffer).
THEOREM LiveInvariance == LiveSpec => []LInv
  BY InitLInv, NextLInv, PTL DEF LiveSpec

\* Every variable keeps its type: ids stay within what was published, and the
\* ring buffer within its size (live.py publish).
THEOREM LiveTypeCorrect == LiveSpec => []LiveTypeOK
  <1>1. LInv => LiveTypeOK
    BY DEF LInv
  <1>2. QED
    BY <1>1, LiveInvariance, PTL

\* A page that has got an event of this process and has nothing left to receive
\* misses none that came after (live.py since and stream, however often its
\* connection broke, however small the buffer).
THEOREM NothingIsLostInOneProcess == LiveSpec => []NoSilentLossInOneProcess
  <1>1. LInv => NoSilentLossInOneProcess
    <2> SUFFICES ASSUME LInv, NEW c \in Pages, Drained(c), since1[c] # 0, NEW nr \in owed[c]
                 PROVE  nr < since1[c]
      BY DEF NoSilentLossInOneProcess
    <2>1. PICK s, newest, before, first :
            s = stream[c] /\ newest = nextId - 1 /\ before = Before /\ first = since1[c]
      OBVIOUS
    <2>2. s.open /\ ~s.gap /\ s.replay = <<>> /\ s.queue = <<>>
      BY <2>1 DEF Drained
    <2>3. Ahead(s) = 0
      BY <2>2 DEF Ahead
    <2>4. /\ published = before + newest /\ before \in Nat /\ newest \in Nat
          /\ nr \in Nat /\ first \in Nat
      BY <2>1, Kinds, BoundsAssumption
    <2>5. PageOK(s, held[c], owed[c], first, newest, before) /\ nr <= published
      BY <2>1 DEF LInv
    <2>6. nr >= first => nr > before + newest - Ahead(s)
      BY <2>1, <2>2, <2>5 DEF PageOK
    <2>7. ~(nr >= first)
      BY <2>3, <2>4, <2>5, <2>6
    <2>8. QED
      BY <2>1, <2>4, <2>7
  <1>2. QED
    BY <1>1, LiveInvariance, PTL

\* Whatever is sent to a page that has an event of this process comes after the
\* last it was given, over all its connections (live.py stream, last_event_id).
THEOREM NeverGoesBack == LiveSpec => NeverBackwards
  <1> DEFINE Forward == \A c \in Pages :
                          held'[c] # held[c] /\ since1[c] # 0 => held'[c] > held[c]
  <1>1. LInv /\ [LiveNext]_liveVars => [Forward]_liveVars
    <2> SUFFICES ASSUME LInv, LiveNext, NEW c \in Pages, held'[c] # held[c], since1[c] # 0
                 PROVE  held'[c] > held[c]
      BY DEF liveVars
    <2>1. held \in [Pages -> 0..MaxEvents]
      BY DEF LInv, LiveTypeOK
    <2>2. PICK d \in Pages : Replay(d) \/ Deliver(d)
      BY DEF LiveNext, Publish, Restart, Connect, TellGap, Break, page
    <2>3. PICK s, newest, before : s = stream[c] /\ newest = nextId - 1 /\ before = Before
      OBVIOUS
    <2>4. PICK e : /\ s \in Streams /\ s.open
                   /\ held'[c] = e.id
                   /\ \/ e = Head(s.replay) /\ s.replay # <<>>
                      \/ e = Head(s.queue) /\ s.queue # <<>> /\ s.replay = <<>>
      <3>1. d = c
        BY <2>1, <2>2 DEF Replay, Deliver, Receive, page
      <3>2. stream[c] \in Streams /\ stream[c].open
        BY <2>2, <3>1, Kinds DEF Replay, Deliver
      <3>3. CASE Replay(c)
        <4>1. PICK e : e = Head(stream[c].replay)
          OBVIOUS
        <4>2. stream[c].replay # <<>> /\ held' = [held EXCEPT ![c] = e.id]
          BY <3>3, <4>1 DEF Replay, Receive
        <4>3. held'[c] = e.id
          BY <2>1, <4>2
        <4>4. QED
          <5>1. /\ s \in Streams /\ s.open /\ held'[c] = e.id
                /\ e = Head(s.replay) /\ s.replay # <<>>
            BY <2>3, <3>2, <4>1, <4>2, <4>3
          <5>2. QED
            BY <5>1, Zenon
      <3>4. CASE Deliver(c)
        BY <2>1, <2>3, <3>2, <3>4 DEF Deliver, Receive, page
      <3>5. QED
        BY <2>2, <3>1, <3>3, <3>4
    <2>5. newest \in Nat /\ before \in Nat /\ held[c] \in Nat
      BY <2>3, Kinds, BoundsAssumption
    <2>6. StreamOK(s, newest, before) /\ held[c] <= newest - Ahead(s)
      BY <2>3, <2>4 DEF LInv, PageOK
    <2>7. s.replay \in Seq(Events) /\ s.queue \in Seq(Events)
      BY <2>4, StreamFields
    <2>8. Ahead(s) \in Nat
      BY <2>7, AheadOf
    <2>9. e.id = newest - Ahead(s) + 1
      <3>1. CASE e = Head(s.replay) /\ s.replay # <<>>
        <4>1. PICK z : z = [replay |-> Tail(s.replay), queue |-> s.queue]
          OBVIOUS
        <4>2. z.replay = Tail(s.replay) /\ z.queue = s.queue
          BY <4>1
        <4>3. QED
          BY <2>4, <2>5, <2>6, <3>1, <4>2, SendReplay
      <3>2. CASE e = Head(s.queue) /\ s.queue # <<>> /\ s.replay = <<>>
        <4>1. PICK z : z = [replay |-> s.replay, queue |-> Tail(s.queue)]
          OBVIOUS
        <4>2. z.queue = Tail(s.queue) /\ z.replay = s.replay
          BY <4>1
        <4>3. QED
          BY <2>4, <2>5, <2>6, <3>2, <4>2, SendQueue
      <3>3. QED
        BY <2>4, <3>1, <3>2
    <2>10. QED
      BY <2>4, <2>5, <2>6, <2>8, <2>9
  <1>2. QED
    BY <1>1, LiveInvariance, PTL DEF LiveSpec, NeverBackwards

\* What waits for a page is in the order of publication and holds nothing twice,
\* also where the replay ends and the queue begins (live.py stream, which
\* subscribes before it reads the buffer).
THEOREM HandoverIsSeamless == LiveSpec => []HandoverKeepsOrder
  <1>1. LInv => HandoverKeepsOrder
    <2> SUFFICES ASSUME LInv, NEW c \in Pages,
                        NEW i \in DOMAIN Waiting(c), NEW j \in DOMAIN Waiting(c), i < j
                 PROVE  Waiting(c)[i].nr < Waiting(c)[j].nr
      BY DEF HandoverKeepsOrder
    <2>1. PICK s, newest, before : s = stream[c] /\ newest = nextId - 1 /\ before = Before
      OBVIOUS
    <2>2. s.open
      <3>1. ~s.open => Waiting(c) = <<>>
        BY <2>1 DEF Waiting
      <3>2. \A k \in DOMAIN <<>> : FALSE
        OBVIOUS
      <3>3. QED
        BY <3>1, <3>2
    <2>3. PICK r, q, w : r = s.replay /\ q = s.queue /\ w = r \o q
      OBVIOUS
    <2>4. Waiting(c) = w
      BY <2>1, <2>2, <2>3 DEF Waiting
    <2>5. r \in Seq(Events) /\ q \in Seq(Events)
      BY <2>1, <2>2, <2>3, Kinds
    <2>6. newest \in Nat /\ before \in Nat
      BY <2>1, Kinds
    <2>7. Runs(q, newest, before) /\ Runs(r, newest - Len(q), before)
      BY <2>1, <2>2, <2>3 DEF LInv, StreamOK
    <2>8. \A k \in DOMAIN w : k \in Int /\ w[k].nr = before + newest - Len(q) - Len(r) + k
      <3> SUFFICES ASSUME NEW k \in DOMAIN w
                   PROVE  k \in Int /\ w[k].nr = before + newest - Len(q) - Len(r) + k
        OBVIOUS
      <3>1. Len(r) \in Nat /\ Len(q) \in Nat /\ k \in 1..(Len(r) + Len(q))
        <4>1. Len(w) = Len(r) + Len(q) /\ w \in Seq(Events)
          BY <2>3, <2>5
        <4>2. DOMAIN w = 1..Len(w)
          BY <4>1
        <4>3. QED
          BY <2>5, <4>1, <4>2
      <3>2. CASE k <= Len(r)
        <4>1. w[k] = r[k] /\ k \in DOMAIN r
          BY <2>3, <2>5, <3>1, <3>2
        <4>2. r[k].id = newest - Len(q) - Len(r) + k /\ r[k].nr = before + r[k].id
          BY <2>7, <4>1 DEF Runs
        <4>3. QED
          BY <2>6, <3>1, <4>1, <4>2
      <3>3. CASE k > Len(r)
        <4>1. PICK m : m = k - Len(r)
          OBVIOUS
        <4>2. m \in Int /\ m \in DOMAIN q /\ w[k] = q[m]
          <5>1. m \in Int /\ m \in 1..Len(q)
            BY <3>1, <3>3, <4>1
          <5>2. DOMAIN q = 1..Len(q)
            BY <2>5
          <5>3. w[k] = q[k - Len(r)]
            BY <2>3, <2>5, <3>1, <3>3
          <5>4. QED
            BY <4>1, <5>1, <5>2, <5>3
        <4>3. q[m].id = newest - Len(q) + m /\ q[m].nr = before + q[m].id
          BY <2>7, <4>2 DEF Runs
        <4>4. QED
          BY <2>6, <3>1, <4>1, <4>2, <4>3
      <3>4. QED
        BY <3>1, <3>2, <3>3
    <2>9. Len(r) \in Nat /\ Len(q) \in Nat
      BY <2>5
    <2>10. w[i].nr < w[j].nr
      BY <2>4, <2>6, <2>8, <2>9
    <2>11. QED
      BY <2>4, <2>10
  <1>2. QED
    BY <1>1, LiveInvariance, PTL
=============================================================================
