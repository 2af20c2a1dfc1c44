------------------------------- MODULE MCEvents -------------------------------
(* Events on a small instance.                                             *)
EXTENDS Events, TLC

\* What a state is looked at for: a path that would be pruned is as good as
\* forgotten; nothing reads the attempts of a job that is settled, the attempts
\* lost by a handler that may raise, the time of a request that has collided, or,
\* once an event is processed, its key and how its jobs were settled; and events
\* and requests are told apart by what is in them, not by their numbers.
AtWork(i) == {<<w, worker[w].at, worker[w].handler>> :
                w \in {v \in Workers : worker[v].at # "idle" /\ worker[v].of = i}}
Over(j) == j.at \in {"done", "dead"}
Work(i, h) ==
  LET j == job[i][h]
  IN  <<IF event[i].processed /\ Over(j) THEN "over" ELSE j.at,
        IF Over(j) THEN 0 ELSE j.tries,
        IF event[i].processed \/ h \in Faulty THEN 0 ELSE j.lost>>
Row(i) == <<event[i].at, event[i].processed,
            IF event[i].processed THEN None ELSE event[i].key,
            [h \in Handlers |-> Work(i, h)], AtWork(i)>>
Rowed == [i \in DOMAIN event |-> Row(i)]
Requested == [s \in Slots |-> IF request[s].at = "colliding"
                                THEN [request[s] EXCEPT !.now = 0] ELSE request[s]]
Bag(f) == LET g == f @@ <<>>
          IN  {<<g[x], Cardinality({y \in DOMAIN g : g[y] = g[x]})>> : x \in DOMAIN g}
Seen == <<clock, Pruned, backoff, kills, Bag(Requested), Bag(Rowed)>>

=============================================================================
