----------------------------- MODULE MCDecisions -----------------------------
(* Decisions on a small instance.                                          *)
EXTENDS Decisions, TLC

CONSTANTS x, y, u, v

Offer(c, o) == [chosen |-> c, others |-> o]
Choose(c) == [chosen |-> c, lists |-> FALSE, options |-> {}, close |-> FALSE]
List(c, o, closes) == [chosen |-> c, lists |-> TRUE, options |-> o, close |-> closes]

\* A draft in order, and one whose only alternative is the choice itself.
TwoOffers == {Offer(x, {y}), Offer(x, {x})}

\* The choice alone; the options alone; both, and closing it.
SomeEdits == {Choose(y), List(None, {y}, FALSE),
              List(y, {x}, TRUE)}

\* What a state is looked at for: of a record that no suggestion and no request names,
\* nobody asks what it was once given, and of outcomes nobody asks what else they cite.
Named(kind) ==
    {suggestion[i].made : i \in {n \in DOMAIN suggestion : suggestion[n].kind = kind}}
        \cup {person[w].made : w \in {q \in People : /\ person[q].at = "recorded"
                                                   /\ suggestion[person[q].of].kind = kind}}
Decisive == [d \in DOMAIN decision |->
    LET row == decision[d]
    IN  <<row.chosen, row.options, row.open, row.cites,
          IF d \in Named("decision") THEN Given(row) ELSE {}>>]
Outcomes == [o \in DOMAIN outcome |->
    <<outcome[o].of, IF o \in Named("outcome") THEN Given(outcome[o]) ELSE {}>>]
Seen == <<there, Decisive, Outcomes, suggestion, reader, person>>

\* Requests are interchangeable.
Alike == Permutations({u, v})

=============================================================================
