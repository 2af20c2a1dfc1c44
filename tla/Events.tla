-------------------------------- MODULE Events --------------------------------
(***************************************************************************)
(* External events, from a touched file to the handlers that were told     *)
(* (application/watcher.py, domain/debounce.py, application/events.py and  *)
(* the HANDLE_EVENT job of application/jobs/handlers.py).  The watcher     *)
(* debounces and posts; other clients of the same source post directly;    *)
(* the API counts what the source delivered, then stores the event and one *)
(* job per handler in one transaction, whether or not the client has had   *)
(* the patience to wait; a worker runs the handler, stamps the event and   *)
(* settles the job, and may be killed between any two.                     *)
(*                                                                         *)
(* One kind of event and one source.  The claim, the backoff and the reaper *)
(* of the job queue are the module JobQueue's: here a killed or failed     *)
(* attempt is queued again until the attempts run out; or at once          *)
(* dead-lettered, when the handler says that trying again cannot help.     *)
(***************************************************************************)
EXTENDS Naturals, FiniteSets, Sequences

CONSTANTS Paths,        \* files the watcher sees, the keys of their events
          OtherKeys,    \* dedupe keys of what other clients post, None for no key
          Handlers,     \* who subscribes to the kind
          Faulty,       \* handlers that may raise
          Workers,      \* worker processes
          Slots,        \* bound: requests the API is in the middle of at once
          None,         \* the absence of a value
          Limit,        \* RateLimit.limit
          Window,       \* RateLimit.window
          Quiet,        \* Debounce.window
          MaxAttempts,  \* attempts of a job
          MaxKills,     \* bound: workers killed
          MaxEvents,    \* bound: rows of `events`
          MaxTime       \* bound: the clock

Keys == Paths \cup OtherKeys \cup {None}

ASSUME EventsAssumption ==
    /\ IsFiniteSet(Slots)
    /\ None \notin Paths
    /\ Limit \in Nat \ {0} /\ Window \in Nat \ {0} /\ Quiet \in Nat
    /\ MaxKills \in Nat /\ MaxAttempts \in Nat \ {0}
    /\ MaxEvents \in Nat /\ MaxTime \in Nat

VARIABLES clock,    \* the time both processes read
          last,     \* Debounce._last: when a path last emitted, or None
          backoff,  \* the watcher is in _back_off
          request,  \* what the API is in the middle of
          event,    \* the rows of `events`
          job,      \* for each event, the HANDLE_EVENT job of each handler
          worker,   \* what each worker is doing
          kills     \* workers killed so far

watcher == <<last, backoff>>
vars == <<clock, watcher, request, event, job, worker, kills>>

\* A request, a row of `events`, a HANDLE_EVENT job, and what a worker is at.  The
\* watcher waits for the answer to a request, or does not; nothing depends on whether
\* another client does.  Of its tries a job has `lost` those whose worker was killed
\* (history).
Requests == [at : {"none", "counting", "storing", "colliding"},
             key : Keys, now : 0 .. MaxTime, watched : BOOLEAN]
Rows     == [key : Keys, at : 0 .. MaxTime, processed : BOOLEAN]
Jobs     == [at : {"queued", "running", "done", "dead"}, tries : 0 .. MaxAttempts,
             lost : 0 .. MaxAttempts]
Tasks    == [at : {"idle", "handling", "handled", "marked"}, of : 0 .. MaxEvents,
             handler : Handlers \cup {None}]

NoRequest == [at |-> "none", key |-> None, now |-> 0, watched |-> FALSE]
Off       == [at |-> "idle", of |-> 0, handler |-> None]
Queued    == [at |-> "queued", tries |-> 0, lost |-> 0]

Init ==
    /\ clock = 0
    /\ last = [k \in Paths |-> None]
    /\ backoff = FALSE
    /\ request = [s \in Slots |-> NoRequest]
    /\ event = <<>>
    /\ job = <<>>
    /\ worker = [w \in Workers |-> Off]
    /\ kills = 0

Tick ==
    /\ clock < MaxTime
    /\ clock' = clock + 1
    /\ UNCHANGED <<watcher, request, event, job, worker, kills>>

-----------------------------------------------------------------------------
(* The watcher and the other clients.                                      *)

RequestGoes(s, r) ==
    /\ request' = [request EXCEPT ![s] = r]
    /\ UNCHANGED <<clock, worker, kills>>

\* A request is with the API, in any place that is free.
Asks(k, watched) ==
    \E s \in Slots :
        /\ request[s].at = "none"
        /\ RequestGoes(s, [at |-> "counting", key |-> k, now |-> clock,
                            watched |-> watched])

\* Debounce._prune: what is older than the window is forgotten.
Pruned == [k \in Paths |-> IF last[k] # None /\ last[k] + Quiet <= clock
                             THEN None ELSE last[k]]

\* WatchTree.handle, of a path that was touched: the first touch of a burst posts, the
\* rest of it is silent.  The window is taken before the post, whatever becomes of it.  (A
\* touch that waits in the watcher's queue is a later touch: only this moment is read.)
Handle(k) ==
    /\ ~ backoff /\ \A s \in Slots : ~ request[s].watched
    /\ IF Pruned[k] # None
         THEN last' = Pruned /\ UNCHANGED <<clock, request, worker, kills>>
         ELSE last' = [Pruned EXCEPT ![k] = clock] /\ Asks(k, TRUE)
    /\ UNCHANGED <<backoff, event, job>>

\* Any other client posts, an editor's plugin for one, with a dedupe key or without one;
\* or one that has given up on a post of its own.
Post(k) ==
    /\ Asks(k, FALSE)
    /\ UNCHANGED <<watcher, event, job>>

\* _back_off: the watcher sleeps after any refusal, and takes no path meanwhile.
WakeUp ==
    /\ backoff
    /\ backoff' = FALSE
    /\ UNCHANGED <<clock, last, request, event, job, worker, kills>>

\* REQUEST_TIMEOUT: the watcher waits no longer.  The API is not told, and goes on.
TimesOut(s) ==
    /\ request[s].watched
    /\ backoff' = TRUE
    /\ RequestGoes(s, [request[s] EXCEPT !.watched = FALSE])
    /\ UNCHANGED <<last, event, job>>

-----------------------------------------------------------------------------
(* The API.                                                                *)

Answered(s) == RequestGoes(s, NoRequest) /\ UNCHANGED watcher

Refused(s) ==
    /\ backoff' = (backoff \/ request[s].watched)
    /\ RequestGoes(s, NoRequest)
    /\ UNCHANGED last

\* The API could not be reached, or died, or its database did: what was committed stays.
Fails(s) ==
    /\ request[s].at # "none"
    /\ Refused(s)
    /\ UNCHANGED <<event, job>>

Since(t) == {i \in DOMAIN event : event[i].at + Window > t}

\* Mutant: the allowance is used up only when one more than `limit` is stored.
ExceededPastTheLimit(count) == count > Limit

\* RateLimit.exceeded: a source that has delivered `limit` has used its allowance.
Exceeded(count) == count >= Limit

\* _enforce_rate_limit counts the stored rows since the moment the request came.
Count(s) ==
    /\ request[s].at = "counting"
    /\ IF Exceeded(Cardinality(Since(request[s].now)))
         THEN Refused(s)
         ELSE RequestGoes(s, [request[s] EXCEPT !.at = "storing"]) /\ UNCHANGED watcher
    /\ UNCHANGED <<event, job>>

\* The partial unique index: one unprocessed event per key.
Pending(k) == \E i \in DOMAIN event : k # None /\ event[i].key = k /\ ~ event[i].processed

\* _store_and_dispatch: the row and one job per subscriber in one transaction, unless
\* the index refuses the row.
StoreAndDispatch(s) ==
    /\ request[s].at = "storing"
    /\ IF Pending(request[s].key)
         THEN /\ RequestGoes(s, [request[s] EXCEPT !.at = "colliding"])
              /\ UNCHANGED <<watcher, event, job>>
         ELSE /\ Len(event) < MaxEvents
              /\ event' = Append(event, [key |-> request[s].key, at |-> request[s].now,
                                         processed |-> FALSE])
              /\ job' = Append(job, [h \in Handlers |-> Queued])
              /\ Answered(s)

\* _pending_with_key: the row that was in the way is the answer; if it was processed
\* meanwhile, the IntegrityError is raised and nothing was stored.
LookUp(s) ==
    /\ request[s].at = "colliding"
    /\ IF Pending(request[s].key) THEN Answered(s) ELSE Refused(s)
    /\ UNCHANGED <<event, job>>

-----------------------------------------------------------------------------
(* Workers.                                                                *)

Goes(w, s) ==
    /\ worker' = [worker EXCEPT ![w] = s]
    /\ UNCHANGED <<clock, watcher, request>>

Claimed(j) == [j EXCEPT !.at = "running", !.tries = @ + 1]

Claim(w, i, h) ==
    /\ worker[w].at = "idle"
    /\ job[i][h].at = "queued"
    /\ job' = [job EXCEPT ![i][h] = Claimed(@)]
    /\ Goes(w, [at |-> "handling", of |-> i, handler |-> h])
    /\ UNCHANGED <<event, kills>>

\* handle_event: the handler runs; only when it has returned is the event stamped.
HandlerReturns(w) ==
    /\ worker[w].at = "handling"
    /\ Goes(w, [worker[w] EXCEPT !.at = "handled"])
    /\ UNCHANGED <<event, job, kills>>

\* Mutant: one attempt too few.
GivenBackOnceLess(j) == [j EXCEPT !.at = IF j.tries + 1 < MaxAttempts THEN "queued" ELSE "dead"]

\* An attempt that ended badly: another one, or after the last the dead letter.
GivenBack(j) == [j EXCEPT !.at = IF j.tries < MaxAttempts THEN "queued" ELSE "dead"]

\* What is worth another try, and a PermanentError.
HandlerRaises(w) ==
    /\ worker[w].at = "handling"
    /\ worker[w].handler \in Faulty
    /\ \E ended \in {GivenBack(job[worker[w].of][worker[w].handler]),
                    [job[worker[w].of][worker[w].handler] EXCEPT !.at = "dead"]} :
          job' = [job EXCEPT ![worker[w].of][worker[w].handler] = ended]
    /\ Goes(w, Off)
    /\ UNCHANGED <<event, kills>>

\* mark_processed, unconditionally and in a transaction of its own.
MarkProcessed(w) ==
    /\ worker[w].at = "handled"
    /\ event' = [event EXCEPT ![worker[w].of].processed = TRUE]
    /\ Goes(w, [worker[w] EXCEPT !.at = "marked"])
    /\ UNCHANGED <<job, kills>>

\* Mutant: with one handler of an event the jobs of all of them are done.
SettleTheEvent(w) ==
    /\ worker[w].at = "marked"
    /\ job' = [job EXCEPT ![worker[w].of] = [h \in Handlers |-> [@[h] EXCEPT !.at = "done"]]]
    /\ Goes(w, Off)
    /\ UNCHANGED <<event, kills>>

Settle(w) ==
    /\ worker[w].at = "marked"
    /\ job' = [job EXCEPT ![worker[w].of][worker[w].handler].at = "done"]
    /\ Goes(w, Off)
    /\ UNCHANGED <<event, kills>>

\* The worker dies, and the reaper gives its job back.
Lost(j) == [GivenBack(j) EXCEPT !.lost = @ + 1]

Kill(w) ==
    /\ kills < MaxKills
    /\ worker[w].at # "idle"
    /\ job' = [job EXCEPT ![worker[w].of][worker[w].handler] = Lost(@)]
    /\ kills' = kills + 1
    /\ Goes(w, Off)
    /\ UNCHANGED event

-----------------------------------------------------------------------------
Delivers(s) == TimesOut(s) \/ Count(s) \/ StoreAndDispatch(s) \/ LookUp(s) \/ Fails(s)

Works(w) ==
    \/ \E i \in DOMAIN event, h \in Handlers : Claim(w, i, h)
    \/ HandlerReturns(w)
    \/ HandlerRaises(w)
    \/ MarkProcessed(w)
    \/ Settle(w)
    \/ Kill(w)

Next ==
    \/ Tick
    \/ \E k \in Paths : Handle(k)
    \/ WakeUp
    \/ \E k \in OtherKeys : Post(k)
    \/ \E s \in Slots : Delivers(s)
    \/ \E w \in Workers : Works(w)

Spec == Init /\ [][Next]_vars

-----------------------------------------------------------------------------
(* Properties.                                                             *)

\* Every row, request and worker has a shape the code gives it; a running job has its
\* worker and a job exists for each handler of each event.
EventsTypeOK ==
    /\ clock \in 0 .. MaxTime
    /\ last \in [Paths -> (0 .. MaxTime) \cup {None}]
    /\ backoff \in BOOLEAN
    /\ request \in [Slots -> Requests]
    /\ event \in Seq(Rows)
    /\ Len(event) <= MaxEvents
    /\ job \in Seq([Handlers -> Jobs])
    /\ Len(job) = Len(event)
    /\ worker \in [Workers -> Tasks]
    /\ \A w \in Workers : worker[w].at # "idle" =>
          /\ worker[w].of \in DOMAIN job
          /\ worker[w].handler \in Handlers
    /\ kills \in 0 .. MaxKills

\* No window holds more events of a source than its limit and the requests that the API
\* is in the middle of beside one another, those included that their client has given up
\* on: the count and the insert are two transactions (events.py _enforce_rate_limit,
\* _store_and_dispatch; watcher.py REQUEST_TIMEOUT).
AllowanceIsBounded ==
    \A t \in 0 .. MaxTime :
        Cardinality({i \in DOMAIN event : event[i].at <= t /\ event[i].at + Window > t})
            <= Limit + Cardinality(Slots) - 1

\* "There is no state in which an event is stored with no work queued against it": what
\* `events stats` calls pending, and the dedupe index turns later events away for, has a
\* job that is queued or running, through failures, retries and killed workers; unless
\* all its jobs are in the dead letter, by handlers that raise and, of a handler that does
\* not, by as many killed workers as it has attempts (events.py dispatch, handlers.py
\* handle_event, worker.py _settle).
PendingHasWork ==
    \A i \in DOMAIN event : ~ event[i].processed =>
        \/ \E h \in Handlers : job[i][h].at \in {"queued", "running"}
        \/ \A h \in Handlers : /\ job[i][h].at = "dead"
                               /\ h \notin Faulty => job[i][h].lost = MaxAttempts

\* The jobs nobody has, and those that are with each worker.
Unclaimed == {p \in (DOMAIN job) \X Handlers : job[p[1]][p[2]].at = "queued"}
InHands ==
    [w \in Workers |-> IF worker[w].at = "idle" THEN {}
                         ELSE {<<worker[w].of, worker[w].handler>>}]

Handout == INSTANCE JobHandout WITH
    Jobs <- (1 .. MaxEvents) \X Handlers, waiting <- Unclaimed, held <- InHands

\* What Events assumes to happen to the queue are legal steps of it, and a job leaves it by
\* its own worker alone: one handler's success, failure or death is nothing to the other
\* handlers of its event (job_queue.py claim, complete; events.py _store_and_dispatch;
\* handlers.py handle_event).
TakesHandout == Handout!Spec

=============================================================================
