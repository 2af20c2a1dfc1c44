----------------------------- MODULE LiveStream -----------------------------
(***************************************************************************)
(* The live updates of open pages (application/live.py): one bus per API   *)
(* process with a ring buffer of events, one stream per connected page     *)
(* (replay, then live), and the pages, which reconnect by themselves and   *)
(* name the last event they received (web useLiveEvents.ts, EventSource).  *)
(*                                                                         *)
(* The code between two awaits is one action; a stream waits at every      *)
(* yield.  A frame that was sent but not received is a frame that was not  *)
(* sent: the connection breaks and the stream ends either way.             *)
(*                                                                         *)
(* What a page is owed is the history of what the bus has published since  *)
(* the page had a place to resume from.                                    *)
(***************************************************************************)
EXTENDS Integers, Sequences, FiniteSets

CONSTANTS
  Pages,        \* browser tabs
  BufferSize,   \* events a reconnecting page can catch up on
  MaxEvents,    \* bound: events published altogether
  MaxRestarts   \* bound: restarts of the API process

ASSUME BoundsAssumption ==
  /\ BufferSize \in Nat \ {0}
  /\ MaxEvents \in Nat
  /\ MaxRestarts \in Nat

VARIABLES
  published,    \* events published so far, by any process
  restarts,
  nextId,       \* LiveBus._next_id
  buffer,       \* LiveBus._buffer
  stream,       \* the generator serving each page, or Closed
  held,         \* the page's Last-Event-ID, 0 for none
  owed,         \* history: publications the page has neither got nor refetched
  since1        \* history: the first one it got from this process, 0 for none

bus == <<published, restarts, nextId, buffer>>
page == <<held, owed, since1>>
liveVars == <<bus, stream, page>>

Events == [id : 1..MaxEvents, nr : 1..MaxEvents]

Closed == [open |-> FALSE]
Streams == [open : {TRUE}, gap : BOOLEAN, replay : Seq(Events),
            queue : Seq(Events), last : 0..MaxEvents]

LiveTypeOK ==
  /\ published \in 0..MaxEvents
  /\ restarts \in 0..MaxRestarts
  /\ nextId \in 1..(MaxEvents + 1)
  /\ buffer \in Seq(Events) /\ Len(buffer) <= BufferSize
  /\ stream \in [Pages -> {Closed} \cup Streams]
  /\ held \in [Pages -> 0..MaxEvents]
  /\ owed \in [Pages -> SUBSET (1..MaxEvents)]
  /\ since1 \in [Pages -> 0..MaxEvents]

LiveInit ==
  /\ published = 0
  /\ restarts = 0
  /\ nextId = 1
  /\ buffer = <<>>
  /\ stream = [c \in Pages |-> Closed]
  /\ held = [c \in Pages |-> 0]
  /\ owed = [c \in Pages |-> {}]
  /\ since1 = [c \in Pages |-> 0]

-----------------------------------------------------------------------------
(* The bus *)

Tail1(s) ==
  IF Len(s) > BufferSize THEN SubSeq(s, Len(s) - BufferSize + 1, Len(s)) ELSE s

\* A notification has arrived: into the buffer and into every open stream.
Publish ==
  /\ published < MaxEvents
  /\ LET e == [id |-> nextId, nr |-> published + 1]
     IN /\ buffer' = Tail1(Append(buffer, e))
        /\ stream' = [c \in Pages |->
                        IF stream[c].open
                          THEN [stream[c] EXCEPT !.queue = Append(@, e)]
                          ELSE stream[c]]
        /\ owed' = [c \in Pages |-> IF held[c] = 0 THEN owed[c]
                                    ELSE owed[c] \cup {e.nr}]
  /\ published' = published + 1
  /\ nextId' = nextId + 1
  /\ UNCHANGED <<restarts, held, since1>>

\* Mutant: the buffer answers for ids it no longer holds.
AlwaysResumable(last) == TRUE

\* LiveBus.since, the boolean ...
Resumable(last) ==
  \/ last = 0
  \/ buffer = <<>> /\ last >= nextId - 1
  \/ buffer # <<>> /\ last >= Head(buffer).id - 1

\* Mutant: the replay is the whole buffer, whatever the page has.
MissedFromStart(last) == IF last = 0 THEN <<>> ELSE buffer

\* ... and the events: ids ascend, so what is past the last is at the end.
Missed(last) ==
  IF last = 0 \/ ~Resumable(last) THEN <<>>
  ELSE LET missed == {i \in DOMAIN buffer : buffer[i].id > last}
       IN SubSeq(buffer, Len(buffer) - Cardinality(missed) + 1, Len(buffer))

\* The process is replaced.  Its buffer and its streams go with it.
Restart ==
  /\ restarts < MaxRestarts
  /\ restarts' = restarts + 1
  /\ nextId' = 1
  /\ buffer' = <<>>
  /\ stream' = [c \in Pages |-> Closed]
  /\ since1' = [c \in Pages |-> 0]
  /\ UNCHANGED <<published, held, owed>>

-----------------------------------------------------------------------------
(* A stream *)

\* Subscribing and reading the buffer, with no await in between.
Connect(c) ==
  /\ ~stream[c].open
  /\ stream' = [stream EXCEPT ![c] =
       [open |-> TRUE, gap |-> ~Resumable(held[c]), replay |-> Missed(held[c]),
        queue |-> <<>>, last |-> held[c]]]
  /\ UNCHANGED <<bus, page>>

\* The page receives a frame with an event in it.
Receive(c, e) ==
  /\ held' = [held EXCEPT ![c] = e.id]
  /\ owed' = [owed EXCEPT ![c] = @ \ {e.nr}]
  /\ since1' = [since1 EXCEPT ![c] = IF @ = 0 THEN e.nr ELSE @]

\* The gap frame carries no id.  The page refetches everything.
TellGap(c) ==
  /\ stream[c].open /\ stream[c].gap
  /\ stream' = [stream EXCEPT ![c].gap = FALSE]
  /\ owed' = [owed EXCEPT ![c] = {}]
  /\ UNCHANGED <<bus, held, since1>>

Replay(c) ==
  /\ stream[c].open /\ ~stream[c].gap
  /\ stream[c].replay # <<>>
  /\ LET e == Head(stream[c].replay)
     IN /\ Receive(c, e)
        /\ stream' = [stream EXCEPT ![c].replay = Tail(@), ![c].last = e.id]
  /\ UNCHANGED bus

\* Mutant: an event that is passed over stays at the head of the queue.
DeliverStuck(c) ==
  /\ stream[c].open /\ ~stream[c].gap
  /\ stream[c].replay = <<>> /\ stream[c].queue # <<>>
  /\ LET e == Head(stream[c].queue)
     IN /\ stream[c].last = 0 \/ e.id > stream[c].last
        /\ Receive(c, e)
  /\ stream' = [stream EXCEPT ![c].queue = Tail(@)]
  /\ UNCHANGED bus

\* An event the replay is taken to have delivered is passed over.
Deliver(c) ==
  /\ stream[c].open /\ ~stream[c].gap
  /\ stream[c].replay = <<>> /\ stream[c].queue # <<>>
  /\ LET e == Head(stream[c].queue)
     IN IF stream[c].last # 0 /\ e.id <= stream[c].last
          THEN UNCHANGED page
          ELSE Receive(c, e)
  /\ stream' = [stream EXCEPT ![c].queue = Tail(@)]
  /\ UNCHANGED bus

Break(c) ==
  /\ stream[c].open
  /\ stream' = [stream EXCEPT ![c] = Closed]
  /\ UNCHANGED <<bus, page>>

LiveNext ==
  \/ Publish
  \/ Restart
  \/ \E c \in Pages :
       Connect(c) \/ TellGap(c) \/ Replay(c) \/ Deliver(c) \/ Break(c)

LiveSpec == LiveInit /\ [][LiveNext]_liveVars

\* A stream that is open gets on with what it has.  Connecting is the browser's.
Fairness ==
  \A c \in Pages : WF_liveVars(TellGap(c) \/ Replay(c) \/ Deliver(c))

FairSpec == LiveSpec /\ Fairness

-----------------------------------------------------------------------------
(* Properties *)

\* Nothing is on its way to the page.
Drained(c) ==
  /\ stream[c].open /\ ~stream[c].gap
  /\ stream[c].replay = <<>> /\ stream[c].queue = <<>>

\* A page that has got an event from this process, and that is up to date as
\* far as it can tell, misses none that came after: each was delivered, or a
\* gap made the page refetch (live.py since, stream; however often the
\* connection broke and however small the buffer).
NoSilentLossInOneProcess ==
  \A c \in Pages :
    Drained(c) /\ since1[c] # 0 => \A nr \in owed[c] : nr < since1[c]

\* The same across restarts: "a restart, or a gap longer than the buffer - and
\* the interface must refetch" (live.py since).
NoSilentLoss ==
  \A c \in Pages : Drained(c) => owed[c] = {}

\* What waits for a page comes in the order of publication and only once, also
\* across the handover from the replay to the queue (live.py stream, which
\* subscribes before it reads the buffer).
Waiting(c) == IF stream[c].open THEN stream[c].replay \o stream[c].queue ELSE <<>>

HandoverKeepsOrder ==
  \A c \in Pages :
    \A i, j \in DOMAIN Waiting(c) :
      i < j => Waiting(c)[i].nr < Waiting(c)[j].nr

\* Over all its connections to one process, a page never goes back to an event
\* before the last it was given (live.py stream, last_event_id).
NeverBackwards ==
  [][\A c \in Pages :
       held'[c] # held[c] /\ since1[c] # 0 => held'[c] > held[c]]_liveVars

\* Whatever waits for a page reaches it, or the connection breaks: an event
\* that is passed over does not hold up those behind it (live.py stream).
StreamsDrain ==
  \A c \in Pages : stream[c].open ~> Drained(c) \/ ~stream[c].open

=============================================================================
