---------------------------- MODULE DecisionsProofs ----------------------------
(***************************************************************************)
(* The safety of Decisions for any number of passages, readers, people and *)
(* rows.  What an acceptance relies on between its transactions is that    *)
(* the record it has made stays, and that its evidence goes only with the  *)
(* rows it was linked to; what an edit relies on is that nobody else edits *)
(* the row it has read.                                                    *)
(***************************************************************************)
EXTENDS Decisions, TLAPS

\* Among these records there is `made`, and it was given the passage of suggestion s.
Among(decisions, outcomes, s, made) ==
    /\ made # 0
    /\ s.kind = "decision" =>
          made \in DOMAIN decisions /\ s.passage \in Given(decisions[made])
    /\ s.kind = "outcome" =>
          /\ made \in DOMAIN outcomes
          /\ outcomes[made].of = s.of
          /\ s.passage \in Given(outcomes[made])

Rests(s, made) == Among(decision, outcome, s, made)

\* A suggestion names a record exactly when it is accepted, and that record was given its
\* passage.
Honest(s) == /\ s.status = "accepted" <=> s.made # 0
             /\ s.status = "accepted" => Rests(s, s.made)

AllHonest == \A i \in DOMAIN suggestion : Honest(suggestion[i])

\* Between recording and marking, the record is there.
RecordedRests ==
    \A u \in People : person[u].at = "recorded" =>
        Rests(suggestion[person[u].of], person[u].made)

IInv == DecisionsTypeOK /\ AllHonest /\ RecordedRests

\* Tables only grow, and what a record was given stays given.
Extended ==
    /\ Len(decision) <= Len(decision')
    /\ \A d \in DOMAIN decision : Given(decision[d]) \subseteq Given(decision'[d])
    /\ Len(outcome) <= Len(outcome')
    /\ \A o \in DOMAIN outcome :
          outcome'[o].of = outcome[o].of /\ Given(outcome[o]) \subseteq Given(outcome'[o])

-----------------------------------------------------------------------------
\* Where the tables grow, the rows there were are still there.
LEMMA Grown ==
  ASSUME RecordsOK, RecordsOK', Extended
  PROVE  DOMAIN decision \subseteq DOMAIN decision' /\ DOMAIN outcome \subseteq DOMAIN outcome'
  BY DEF RecordsOK, Extended

LEMMA RestsStays ==
  ASSUME RecordsOK, RecordsOK', Extended,
         NEW s, NEW made, Among(decision, outcome, s, made)
  PROVE  Among(decision', outcome', s, made)
  BY Grown DEF Among, Extended

LEMMA InitIInv == Init => IInv
  <1> SUFFICES ASSUME Init PROVE IInv
    OBVIOUS
  <1> USE DEF Init
  <1>1. RecordsOK /\ SuggestionsOK /\ AllHonest
    BY DecisionsAssumption DEF RecordsOK, SuggestionsOK, AllHonest
  <1>2. ReadersOK
    BY DecisionsAssumption DEF ReadersOK, Readings, Resting, Kinds
  <1>3. PeopleOK /\ RecordedRests
    BY DecisionsAssumption DEF PeopleOK, RecordedRests, Requests, Made, Away
  <1>4. QED
    BY <1>1, <1>2, <1>3 DEF IInv, DecisionsTypeOK

\* A step of a reader that leaves the queues alone.
LEMMA ReaderStep ==
  ASSUME IInv, NEW r \in Readers, NEW s \in Readings, ReaderGoes(r, s),
         UNCHANGED suggestion,
         IF s.kind = "decision" THEN s.of = 0 ELSE s.of \in DOMAIN decision,
         s.at = "queueing" <=> s.passage # None
  PROVE  IInv'
  <1> USE DEF IInv, DecisionsTypeOK, ReaderGoes
  <1>1. RecordsOK' /\ SuggestionsOK' /\ PeopleOK'
    BY DEF RecordsOK, SuggestionsOK, PeopleOK
  <1>2. ReadersOK'
    BY DEF ReadersOK
  <1>3. AllHonest' /\ RecordedRests'
    BY DEF AllHonest, Honest, RecordedRests, Rests
  <1>4. QED
    BY <1>1, <1>2, <1>3

LEMMA RestingType ==
    Resting \in Readings /\ Resting.kind = "decision" /\ Resting.of = 0
        /\ Resting.at = "idle" /\ Resting.passage = None
  BY DecisionsAssumption DEF Resting, Readings, Kinds

LEMMA FindPassagesIInv ==
  ASSUME IInv, NEW r \in Readers, FindPassages(r) PROVE IInv'
  <1> DEFINE todo == {p \in there : ~ Reviewed(p)}
             s == [Resting EXCEPT !.at = "reading", !.todo = todo]
  <1>1. todo \subseteq Passages
    BY DEF IInv, DecisionsTypeOK
  <1>2. s \in Readings /\ s.kind = "decision" /\ s.of = 0 /\ s.at = "reading"
        /\ s.passage = None
    BY <1>1, RestingType DEF Readings
  <1>3. QED
    BY <1>2, ReaderStep DEF FindPassages

LEMMA FindCandidatesIInv ==
  ASSUME IInv, NEW r \in Readers, NEW d \in DOMAIN decision, FindCandidates(r, d)
  PROVE  IInv'
  <1> DEFINE todo == there \ decision[d].cites
             s == [Resting EXCEPT !.at = "reading", !.kind = "outcome",
                          !.of = d, !.todo = todo]
  <1>1. todo \subseteq Passages /\ d \in 0 .. MaxDecisions
    BY DecisionsAssumption DEF IInv, DecisionsTypeOK, RecordsOK
  <1>2. s \in Readings /\ s.kind = "outcome" /\ s.of = d /\ s.at = "reading"
        /\ s.passage = None
    BY <1>1, RestingType DEF Readings, Kinds
  <1>3. QED
    BY <1>2, ReaderStep DEF FindCandidates

LEMMA ProposeIInv ==
  ASSUME IInv, NEW r \in Readers, NEW p \in Passages, NEW drafts \in SUBSET Kept,
         Propose(r, p, drafts)
  PROVE  IInv'
  <1> DEFINE s == [reader[r] EXCEPT !.todo = @ \ {p}, !.passage = p,
                          !.drafts = drafts, !.at = "queueing"]
  <1>1. reader[r] \in Readings
    BY DEF IInv, DecisionsTypeOK, ReadersOK
  <1>2. s \in Readings /\ s.kind = reader[r].kind /\ s.of = reader[r].of
        /\ s.at = "queueing" /\ s.passage = p
    BY <1>1 DEF Readings
  <1>3. p # None
    BY DecisionsAssumption
  <1>4. QED
    BY <1>2, <1>3, ReaderStep DEF Propose, IInv, DecisionsTypeOK, ReadersOK

LEMMA NextPassageIInv ==
  ASSUME IInv, NEW r \in Readers, NextPassage(r) PROVE IInv'
  <1> DEFINE s == [reader[r] EXCEPT !.at = "reading", !.passage = None]
  <1>1. reader[r] \in Readings
    BY DEF IInv, DecisionsTypeOK, ReadersOK
  <1>2. s \in Readings /\ s.kind = reader[r].kind /\ s.of = reader[r].of
        /\ s.at = "reading" /\ s.passage = None
    BY <1>1 DEF Readings
  <1>3. QED
    BY <1>2, ReaderStep DEF NextPassage, IInv, DecisionsTypeOK, ReadersOK

LEMMA StopReadingIInv ==
  ASSUME IInv, NEW r \in Readers, StopReading(r) PROVE IInv'
  BY RestingType, ReaderStep DEF StopReading

LEMMA QueueOneIInv ==
  ASSUME IInv, NEW r \in Readers, NEW draft \in Kept, QueueOne(r, draft)
  PROVE  IInv'
  <1> DEFINE s == [reader[r] EXCEPT !.drafts = @ \ {draft}]
             row == Row(r, draft)
  <1>1. reader[r] \in Readings /\ reader[r].at = "queueing" /\ reader[r].passage \in Passages
    BY DEF IInv, DecisionsTypeOK, ReadersOK, Readings, QueueOne
  <1>2. s \in Readings /\ s.kind = reader[r].kind /\ s.of = reader[r].of
        /\ s.at = "queueing" /\ s.passage = reader[r].passage
    BY <1>1 DEF Readings
  <1>3. CASE UNCHANGED suggestion
    BY <1>2, <1>3, ReaderStep DEF QueueOne, IInv, DecisionsTypeOK, ReadersOK
  <1>4. CASE Len(suggestion) < MaxSuggestions /\ suggestion' = Append(suggestion, row)
    <2>1. row \in Suggested /\ row.kind = reader[r].kind /\ row.of = reader[r].of
          /\ row.status = "pending" /\ row.made = 0
      BY <1>1, DecisionsAssumption DEF Row, Suggested, Readings, Statuses, Made
    <2>2. /\ suggestion' \in Seq(Suggested) /\ Len(suggestion') <= MaxSuggestions
          /\ DOMAIN suggestion \subseteq DOMAIN suggestion'
          /\ \A i \in DOMAIN suggestion : suggestion'[i] = suggestion[i]
          /\ \A i \in DOMAIN suggestion' : i \in DOMAIN suggestion \/ suggestion'[i] = row
      BY <1>4, <2>1, DecisionsAssumption DEF IInv, DecisionsTypeOK, SuggestionsOK
    <2>3. reader' = [reader EXCEPT ![r] = s] /\ UNCHANGED <<there, decision, outcome, person>>
      BY DEF QueueOne, ReaderGoes
    <2>4. RecordsOK' /\ there' \subseteq Passages
      BY <2>3 DEF IInv, DecisionsTypeOK, RecordsOK
    <2>5. SuggestionsOK'
      BY <2>1, <2>2, <2>3 DEF IInv, DecisionsTypeOK, SuggestionsOK, ReadersOK
    <2>6. ReadersOK'
      BY <1>2, <2>3 DEF IInv, DecisionsTypeOK, ReadersOK
    <2>7. PeopleOK'
      BY <2>2, <2>3 DEF IInv, DecisionsTypeOK, PeopleOK
    <2>8. AllHonest'
      BY <2>1, <2>2, <2>3 DEF IInv, AllHonest, Honest, Rests
    <2>9. RecordedRests'
      BY <2>2, <2>3 DEF IInv, DecisionsTypeOK, PeopleOK, RecordedRests, Rests
    <2>10. QED
      BY <2>4, <2>5, <2>6, <2>7, <2>8, <2>9 DEF IInv, DecisionsTypeOK
  <1>5. QED
    BY <1>3, <1>4 DEF QueueOne

\* Files come and go beside everything else.
LEMMA MovesIInv ==
  ASSUME IInv, there' \subseteq Passages,
         UNCHANGED <<decision, outcome, suggestion, reader, person>>
  PROVE  IInv'
  <1>1. RecordsOK' /\ SuggestionsOK' /\ ReadersOK' /\ PeopleOK'
    BY DEF IInv, DecisionsTypeOK, RecordsOK, SuggestionsOK, ReadersOK, PeopleOK
  <1>2. AllHonest' /\ RecordedRests'
    BY DEF IInv, AllHonest, Honest, RecordedRests, Rests
  <1>3. QED
    BY <1>1, <1>2 DEF IInv, DecisionsTypeOK

\* Evidence that goes is evidence a record was given, and nothing else of the record goes.
LEMMA CascadeDecisions ==
  ASSUME RecordsOK, NEW p \in Passages
  PROVE  /\ Cascade(decision, p) \in Seq(Decided)
         /\ Len(Cascade(decision, p)) = Len(decision)
         /\ DOMAIN Cascade(decision, p) = DOMAIN decision
         /\ \A d \in DOMAIN decision :
               /\ Given(Cascade(decision, p)[d]) = Given(decision[d])
               /\ Cascade(decision, p)[d].chosen = decision[d].chosen
               /\ Cascade(decision, p)[d].options = decision[d].options
  <1> DEFINE Gone(row) == [row EXCEPT !.cites = @ \ {p}, !.lost = @ \cup {p}]
             new == Cascade(decision, p)
  <1>1. ASSUME NEW d \in DOMAIN decision
        PROVE  /\ new[d] \in Decided /\ Given(new[d]) = Given(decision[d])
               /\ new[d].chosen = decision[d].chosen /\ new[d].options = decision[d].options
    <2>0. decision[d] \in Decided
      BY DEF RecordsOK
    <2>1. CASE p \notin decision[d].cites
      BY <2>0, <2>1 DEF Cascade
    <2>2. CASE p \in decision[d].cites
      <3>1. new[d] = Gone(decision[d])
        BY <2>2 DEF Cascade
      <3>2. /\ Gone(decision[d]) \in Decided
            /\ Gone(decision[d]).cites = decision[d].cites \ {p}
            /\ Gone(decision[d]).lost = decision[d].lost \cup {p}
            /\ Gone(decision[d]).chosen = decision[d].chosen
            /\ Gone(decision[d]).options = decision[d].options
        BY <2>0 DEF Decided
      <3>3. QED
        BY <2>2, <3>1, <3>2 DEF Given
    <2>3. QED
      BY <2>1, <2>2
  <1>2. DOMAIN decision = 1 .. Len(decision) /\ Len(decision) \in Nat
    BY DEF RecordsOK
  <1>3. new = [d \in 1 .. Len(decision) |-> new[d]]
    BY <1>2 DEF Cascade
  <1> HIDE DEF new
  <1>4. new \in Seq(Decided) /\ Len(new) = Len(decision)
    BY <1>1, <1>2, <1>3
  <1>5. QED
    BY <1>1, <1>2, <1>4 DEF new

LEMMA CascadeOutcomes ==
  ASSUME RecordsOK, NEW p \in Passages
  PROVE  /\ Cascade(outcome, p) \in Seq(Observed)
         /\ Len(Cascade(outcome, p)) = Len(outcome)
         /\ DOMAIN Cascade(outcome, p) = DOMAIN outcome
         /\ \A o \in DOMAIN outcome :
               /\ Given(Cascade(outcome, p)[o]) = Given(outcome[o])
               /\ Cascade(outcome, p)[o].of = outcome[o].of
  <1> DEFINE Gone(row) == [row EXCEPT !.cites = @ \ {p}, !.lost = @ \cup {p}]
             new == Cascade(outcome, p)
  <1>1. ASSUME NEW o \in DOMAIN outcome
        PROVE  /\ new[o] \in Observed /\ Given(new[o]) = Given(outcome[o])
               /\ new[o].of = outcome[o].of
    <2>0. outcome[o] \in Observed
      BY DEF RecordsOK
    <2>1. CASE p \notin outcome[o].cites
      BY <2>0, <2>1 DEF Cascade
    <2>2. CASE p \in outcome[o].cites
      <3>1. new[o] = Gone(outcome[o])
        BY <2>2 DEF Cascade
      <3>2. /\ Gone(outcome[o]) \in Observed
            /\ Gone(outcome[o]).cites = outcome[o].cites \ {p}
            /\ Gone(outcome[o]).lost = outcome[o].lost \cup {p}
            /\ Gone(outcome[o]).of = outcome[o].of
        BY <2>0 DEF Observed
      <3>3. QED
        BY <2>2, <3>1, <3>2 DEF Given
    <2>3. QED
      BY <2>1, <2>2
  <1>2. DOMAIN outcome = 1 .. Len(outcome) /\ Len(outcome) \in Nat
    BY DEF RecordsOK
  <1>3. new = [o \in 1 .. Len(outcome) |-> new[o]]
    BY <1>2 DEF Cascade
  <1> HIDE DEF new
  <1>4. new \in Seq(Observed) /\ Len(new) = Len(outcome)
    BY <1>1, <1>2, <1>3
  <1>5. QED
    BY <1>1, <1>2, <1>4 DEF new

-----------------------------------------------------------------------------
\* What a request may hold.
Fits(suggestions, decisions, s) ==
    /\ s.at \in {"accepting", "recorded", "rejecting"} => s.of \in DOMAIN suggestions
    /\ s.at = "accepting" => s.draft \in Offers
    /\ s.at = "editing" =>
          /\ s.of \in DOMAIN decisions
          /\ s.read \in Texts
          /\ s.changes \in Edits

\* A request goes on, and tables grow: the shape of the state.
LEMMA PersonType ==
  ASSUME IInv, RecordsOK', Extended, UNCHANGED <<there, reader>>,
         NEW u \in People, NEW s \in Requests, person' = [person EXCEPT ![u] = s],
         Fits(suggestion', decision', s),
         suggestion' \in Seq(Suggested), Len(suggestion') = Len(suggestion),
         \A i \in DOMAIN suggestion : /\ suggestion'[i].kind = suggestion[i].kind
                                      /\ suggestion'[i].of = suggestion[i].of
  PROVE  DecisionsTypeOK'
  <1>1. DOMAIN decision \subseteq DOMAIN decision'
    BY Grown DEF IInv, DecisionsTypeOK
  <1>2. DOMAIN suggestion' = DOMAIN suggestion
    BY DEF IInv, DecisionsTypeOK, SuggestionsOK
  <1>3. SuggestionsOK'
    BY <1>1, <1>2 DEF IInv, DecisionsTypeOK, SuggestionsOK
  <1>4. ReadersOK'
    BY <1>1 DEF IInv, DecisionsTypeOK, ReadersOK
  <1>5. PeopleOK'
    BY <1>1, <1>2 DEF IInv, DecisionsTypeOK, PeopleOK, Fits
  <1>6. QED
    BY <1>3, <1>4, <1>5 DEF IInv, DecisionsTypeOK

\* A request goes on, tables of records grow, and no suggestion is touched.
LEMMA PersonStep ==
  ASSUME IInv, RecordsOK', Extended, UNCHANGED <<there, reader, suggestion>>,
         NEW u \in People, NEW s \in Requests, person' = [person EXCEPT ![u] = s],
         Fits(suggestion', decision', s),
         s.at = "recorded" => Among(decision', outcome', suggestion[s.of], s.made)
  PROVE  IInv'
  <1>1. DecisionsTypeOK'
    BY PersonType DEF IInv, DecisionsTypeOK, SuggestionsOK
  <1>2. RecordsOK
    BY DEF IInv, DecisionsTypeOK
  <1>3. AllHonest'
    <2> SUFFICES ASSUME NEW i \in DOMAIN suggestion, suggestion[i].status = "accepted"
                 PROVE  Among(decision', outcome', suggestion[i], suggestion[i].made)
      BY DEF IInv, AllHonest, Honest, Rests
    <2>1. Among(decision, outcome, suggestion[i], suggestion[i].made)
      BY DEF IInv, AllHonest, Honest, Rests
    <2>2. QED
      BY <1>2, <2>1, RestsStays
  <1>4. RecordedRests'
    <2> SUFFICES ASSUME NEW v \in People, person'[v].at = "recorded"
                 PROVE  Among(decision', outcome', suggestion[person'[v].of], person'[v].made)
      BY DEF RecordedRests, Rests
    <2>1. CASE v = u
      BY <2>1 DEF IInv, DecisionsTypeOK, PeopleOK
    <2>2. CASE v # u
      <3>1. person'[v] = person[v]
        BY <2>2 DEF IInv, DecisionsTypeOK, PeopleOK
      <3>2. Among(decision, outcome, suggestion[person[v].of], person[v].made)
        BY <3>1 DEF IInv, RecordedRests, Rests
      <3>3. QED
        BY <1>2, <3>1, <3>2, RestsStays
    <2>3. QED
      BY <2>1, <2>2
  <1>5. QED
    BY <1>1, <1>3, <1>4 DEF IInv

\* Where the tables are as they were.
LEMMA SameRecords ==
  ASSUME IInv, UNCHANGED <<decision, outcome>>
  PROVE  RecordsOK' /\ Extended
  BY DEF IInv, DecisionsTypeOK, RecordsOK, Extended

LEMMA AwayType ==
    Away \in Requests /\ Away.at = "idle"
  BY DecisionsAssumption DEF Away, Requests, Made

LEMMA CrashIInv == ASSUME IInv, NEW u \in People, Crash(u) PROVE IInv'
  BY AwayType, SameRecords, PersonStep DEF Crash, PersonGoes, Fits

LEMMA AcceptReadIInv ==
  ASSUME IInv, NEW u \in People, NEW i \in DOMAIN suggestion, NEW draft \in Offers,
         AcceptRead(u, i, draft)
  PROVE  IInv'
  <1> DEFINE s == [Away EXCEPT !.at = "accepting", !.of = i, !.draft = draft]
  <1>0. i \in Nat
    BY DEF IInv, DecisionsTypeOK, SuggestionsOK
  <1>1. s \in Requests /\ s.at = "accepting" /\ s.of = i /\ s.draft = draft
    BY <1>0, AwayType DEF Requests
  <1>2. Fits(suggestion', decision', s)
    BY <1>1 DEF Fits, AcceptRead
  <1>3. QED
    BY <1>1, <1>2, SameRecords, PersonStep DEF AcceptRead, PersonGoes

LEMMA RejectReadIInv ==
  ASSUME IInv, NEW u \in People, NEW i \in DOMAIN suggestion, RejectRead(u, i)
  PROVE  IInv'
  <1> DEFINE s == [Away EXCEPT !.at = "rejecting", !.of = i]
  <1>0. i \in Nat
    BY DEF IInv, DecisionsTypeOK, SuggestionsOK
  <1>1. s \in Requests /\ s.at = "rejecting" /\ s.of = i
    BY <1>0, AwayType DEF Requests
  <1>2. Fits(suggestion', decision', s)
    BY <1>1 DEF Fits, RejectRead
  <1>3. QED
    BY <1>1, <1>2, SameRecords, PersonStep DEF RejectRead, PersonGoes

LEMMA EditReadIInv ==
  ASSUME IInv, NEW u \in People, NEW d \in DOMAIN decision, NEW changes \in Edits,
         EditRead(u, d, changes)
  PROVE  IInv'
  <1> DEFINE s == [Away EXCEPT !.at = "editing", !.of = d,
                          !.read = decision[d].chosen, !.changes = changes]
  <1>0. d \in Nat /\ decision[d] \in Decided
    BY DEF IInv, DecisionsTypeOK, RecordsOK
  <1>1. decision[d].chosen \in Texts
    BY <1>0 DEF Decided
  <1>2. s \in Requests /\ s.at = "editing" /\ s.of = d /\ s.read = decision[d].chosen
        /\ s.changes = changes
    BY <1>0, <1>1, AwayType DEF Requests
  <1>3. Fits(suggestion', decision', s)
    BY <1>1, <1>2 DEF Fits, EditRead
  <1>4. QED
    BY <1>2, <1>3, SameRecords, PersonStep DEF EditRead, PersonGoes

\* The rows of a choice and its alternatives: options, of which the choice alone has won.
LEMMA OptionsType ==
  ASSUME NEW c \in Texts, NEW A \in SUBSET Texts
  PROVE  /\ OptionsOf(c, A) \subseteq [text : Texts, won : BOOLEAN]
         /\ {o \in OptionsOf(c, A) : o.won} = {[text |-> c, won |-> TRUE]}
  <1>1. ASSUME NEW a \in Texts, NEW b \in BOOLEAN
        PROVE  /\ [text |-> a, won |-> b] \in [text : Texts, won : BOOLEAN]
               /\ [text |-> a, won |-> b].won = b
    OBVIOUS
  <1>2. ASSUME NEW o \in OptionsOf(c, A)
        PROVE  /\ o \in [text : Texts, won : BOOLEAN]
               /\ o.won => o = [text |-> c, won |-> TRUE]
    <2>1. CASE o = [text |-> c, won |-> TRUE]
      BY <1>1, <2>1
    <2>2. CASE \E a \in A : o = [text |-> a, won |-> FALSE]
      BY <1>1, <2>2
    <2>3. QED
      BY <2>1, <2>2 DEF OptionsOf
  <1>3. [text |-> c, won |-> TRUE] \in OptionsOf(c, A) /\ [text |-> c, won |-> TRUE].won
    BY DEF OptionsOf
  <1>4. QED
    BY <1>2, <1>3

\* A decision made of a draft is a row of the table.
LEMMA DecisionType ==
  ASSUME NEW draft \in Offers, NEW cites \in SUBSET Passages
  PROVE  /\ Decision(draft, cites) \in Decided
         /\ Given(Decision(draft, cites)) = cites
         /\ Decision(draft, cites).chosen = draft.chosen
         /\ Decision(draft, cites).options = OptionsOf(draft.chosen, Alternatives(draft))
  <1>1. draft.chosen \in Texts /\ draft.others \subseteq Texts
    BY DecisionsAssumption DEF Drafts
  <1>2. OptionsOf(draft.chosen, Alternatives(draft)) \subseteq [text : Texts, won : BOOLEAN]
    BY <1>1, OptionsType DEF Alternatives
  <1>3. QED
    BY <1>1, <1>2 DEF Decision, Decided, Given

\* Recording a decision keeps the rows there were.
LEMMA AppendedDecision ==
  ASSUME IInv, NEW row \in Decided, Len(decision) < MaxDecisions,
         decision' = Append(decision, row), UNCHANGED outcome
  PROVE  /\ RecordsOK' /\ Extended
         /\ DOMAIN decision' = DOMAIN decision \cup {Len(decision) + 1}
         /\ decision'[Len(decision) + 1] = row
         /\ \A d \in DOMAIN decision : decision'[d] = decision[d]
         /\ Len(decision) + 1 \in Made /\ Len(decision) + 1 # 0
  BY DecisionsAssumption DEF IInv, DecisionsTypeOK, RecordsOK, Extended, Made

\* What the second transaction of an acceptance has at hand.
LEMMA Accepting ==
  ASSUME IInv, NEW u \in People, person[u].at \in {"accepting", "recorded", "rejecting"}
  PROVE  /\ person[u] \in Requests /\ person[u].of \in DOMAIN suggestion
         /\ suggestion[person[u].of] \in Suggested
         /\ person[u].at = "accepting" => person[u].draft \in Offers
  BY DEF IInv, DecisionsTypeOK, PeopleOK, SuggestionsOK

LEMMA RecordDecisionIInv == ASSUME IInv, NEW u \in People, RecordDecision(u) PROVE IInv'
  <1> DEFINE g == suggestion[person[u].of]
             row == Decision(person[u].draft, {g.passage})
             s == [person[u] EXCEPT !.at = "recorded", !.made = Len(decision) + 1]
  <1>1. /\ person[u] \in Requests /\ person[u].of \in DOMAIN suggestion /\ g \in Suggested
        /\ person[u].draft \in Offers /\ g.kind = "decision"
    BY Accepting DEF RecordDecision
  <1>2. CASE ~ (Valid(person[u].draft) /\ g.passage \in there)
    BY <1>2, AwayType, SameRecords, PersonStep DEF RecordDecision, PersonGoes, Fits
  <1>3. CASE Valid(person[u].draft) /\ g.passage \in there
    <2>1. row \in Decided /\ Given(row) = {g.passage}
      BY <1>1, DecisionType DEF Suggested
    <2>2. /\ Len(decision) < MaxDecisions /\ decision' = Append(decision, row)
          /\ person' = [person EXCEPT ![u] = s]
          /\ UNCHANGED <<there, outcome, suggestion, reader>>
      BY <1>3 DEF RecordDecision, PersonGoes
    <2>3. s \in Requests /\ s.at = "recorded" /\ s.made = Len(decision) + 1
          /\ s.of = person[u].of
      BY <1>1, <2>1, <2>2, AppendedDecision DEF Requests
    <2>4. Fits(suggestion', decision', s)
      BY <1>1, <2>2, <2>3 DEF Fits
    <2>5. Among(decision', outcome', suggestion[s.of], s.made)
      BY <1>1, <2>1, <2>2, <2>3, AppendedDecision DEF Among
    <2>6. QED
      BY <2>1, <2>2, <2>3, <2>4, <2>5, AppendedDecision, PersonStep
  <1>4. QED
    BY <1>2, <1>3

\* Recording an outcome keeps the rows there were.
LEMMA AppendedOutcome ==
  ASSUME IInv, NEW row \in Observed, row.of \in DOMAIN decision, Len(outcome) < MaxOutcomes,
         outcome' = Append(outcome, row), UNCHANGED decision
  PROVE  /\ RecordsOK' /\ Extended
         /\ Len(outcome) + 1 \in DOMAIN outcome' /\ outcome'[Len(outcome) + 1] = row
         /\ Len(outcome) + 1 \in Made /\ Len(outcome) + 1 # 0
  BY DecisionsAssumption DEF IInv, DecisionsTypeOK, RecordsOK, Extended, Made

LEMMA RecordOutcomeIInv == ASSUME IInv, NEW u \in People, RecordOutcome(u) PROVE IInv'
  <1> DEFINE g == suggestion[person[u].of]
             row == Outcome(g.of, {g.passage})
             new == Len(outcome) + 1
             s == [person[u] EXCEPT !.at = "recorded", !.made = new]
  <1>1. /\ person[u] \in Requests /\ person[u].of \in DOMAIN suggestion /\ g \in Suggested
        /\ g.kind = "outcome"
    BY Accepting DEF RecordOutcome
  <1>2. CASE g.passage \notin there
    BY <1>2, AwayType, SameRecords, PersonStep DEF RecordOutcome, PersonGoes, Fits
  <1>3. CASE g.passage \in there
    <2>1. /\ g.of \in DOMAIN decision /\ row \in Observed
          /\ row.of = g.of /\ Given(row) = {g.passage}
      <3>1. g.of \in DOMAIN decision /\ g.passage \in Passages
        BY <1>1 DEF IInv, DecisionsTypeOK, SuggestionsOK, Suggested
      <3>2. g.of \in 1 .. MaxDecisions
        BY <3>1, DecisionsAssumption DEF IInv, DecisionsTypeOK, RecordsOK
      <3>3. QED
        BY <3>1, <3>2 DEF Outcome, Observed, Given
    <2>2. /\ Len(outcome) < MaxOutcomes /\ outcome' = Append(outcome, row)
          /\ person' = [person EXCEPT ![u] = s]
          /\ UNCHANGED <<there, decision, suggestion, reader>>
      BY <1>3 DEF RecordOutcome, PersonGoes
    <2>3. /\ RecordsOK' /\ Extended
          /\ new \in DOMAIN outcome' /\ outcome'[new] = row
          /\ new \in Made /\ new # 0
      <3> HIDE DEF row
      <3>1. QED
        BY <2>1, <2>2, AppendedOutcome
    <2>4. s \in Requests /\ s.at = "recorded" /\ s.made = new /\ s.of = person[u].of
      BY <1>1, <2>3 DEF Requests
    <2>5. Fits(suggestion', decision', s)
      BY <1>1, <2>2, <2>4 DEF Fits
    <2>6. Among(decision', outcome', suggestion[s.of], s.made)
      <3> HIDE DEF row
      <3>1. QED
        BY <1>1, <2>1, <2>3, <2>4 DEF Among
    <2>7. QED
      BY <2>2, <2>3, <2>4, <2>5, <2>6, PersonStep
  <1>4. QED
    BY <1>2, <1>3

\* Records grow, or their evidence changes, and nobody else notices.
LEMMA RecordsStep ==
  ASSUME IInv, RecordsOK', Extended, there' \subseteq Passages,
         UNCHANGED <<suggestion, reader, person>>
  PROVE  IInv'
  <1>1. RecordsOK /\ DOMAIN decision \subseteq DOMAIN decision'
    BY Grown DEF IInv, DecisionsTypeOK
  <1>2. DecisionsTypeOK'
    BY <1>1 DEF IInv, DecisionsTypeOK, SuggestionsOK, ReadersOK, PeopleOK
  <1>3. AllHonest' /\ RecordedRests'
    BY <1>1, RestsStays DEF IInv, AllHonest, Honest, RecordedRests, Rests
  <1>4. QED
    BY <1>2, <1>3 DEF IInv

LEMMA RecordOwnIInv ==
  ASSUME IInv, NEW u \in People, NEW draft \in Offers, NEW cites \in SUBSET Passages,
         RecordOwn(u, draft, cites)
  PROVE  IInv'
  BY DecisionType, AppendedDecision, RecordsStep DEF RecordOwn, IInv, DecisionsTypeOK

LEMMA RecordOwnOutcomeIInv ==
  ASSUME IInv, NEW u \in People, NEW d \in DOMAIN decision, NEW cites \in SUBSET Passages,
         RecordOwnOutcome(u, d, cites)
  PROVE  IInv'
  <1> DEFINE row == Outcome(d, cites)
  <1>0. d \in 1 .. MaxDecisions
    BY DecisionsAssumption DEF IInv, DecisionsTypeOK, RecordsOK
  <1>1. row \in Observed /\ row.of = d
    BY <1>0 DEF Outcome, Observed
  <1> HIDE DEF row
  <1>2. RecordsOK' /\ Extended
    <2>1. Len(outcome) < MaxOutcomes /\ outcome' = Append(outcome, row) /\ decision' = decision
      BY DEF RecordOwnOutcome, row
    <2>2. QED
      BY <1>1, <2>1, AppendedOutcome
  <1>3. QED
    BY <1>2, RecordsStep DEF RecordOwnOutcome, IInv, DecisionsTypeOK

\* One more piece of evidence: the row of a decision it leaves.
Linked(d, p) == [decision[d] EXCEPT !.cites = @ \cup {p}]

LEMMA LinkDecisionStep ==
  ASSUME IInv, NEW u \in People, NEW d \in DOMAIN decision, NEW p \in Passages,
         LinkDecision(u, d, p)
  PROVE  /\ Linked(d, p) \in Decided
         /\ Linked(d, p).chosen = decision[d].chosen
         /\ Linked(d, p).options = decision[d].options
         /\ Given(decision[d]) \subseteq Given(Linked(d, p))
         /\ DOMAIN decision' = DOMAIN decision /\ Len(decision') = Len(decision)
         /\ decision' \in Seq(Decided)
         /\ \A n \in DOMAIN decision :
               decision'[n] = IF n = d THEN Linked(d, p) ELSE decision[n]
  <1>1. decision[d] \in Decided /\ decision' = [decision EXCEPT ![d] = Linked(d, p)]
    BY DEF LinkDecision, Linked, IInv, DecisionsTypeOK, RecordsOK
  <1>2. /\ Linked(d, p) \in Decided
        /\ Linked(d, p).chosen = decision[d].chosen
        /\ Linked(d, p).options = decision[d].options
        /\ Given(decision[d]) \subseteq Given(Linked(d, p))
    BY <1>1 DEF Linked, Decided, Given
  <1>3. QED
    BY <1>1, <1>2 DEF IInv, DecisionsTypeOK, RecordsOK

LEMMA LinkDecisionIInv ==
  ASSUME IInv, NEW u \in People, NEW d \in DOMAIN decision, NEW p \in Passages,
         LinkDecision(u, d, p)
  PROVE  IInv'
  <1>1. UNCHANGED <<there, outcome, suggestion, reader, person>>
    BY DEF LinkDecision
  <1>2. RecordsOK' /\ Extended
    BY <1>1, LinkDecisionStep DEF IInv, DecisionsTypeOK, RecordsOK, Extended
  <1>3. QED
    BY <1>1, <1>2, RecordsStep DEF IInv, DecisionsTypeOK

LEMMA LinkOutcomeIInv ==
  ASSUME IInv, NEW u \in People, NEW o \in DOMAIN outcome, NEW p \in Passages,
         LinkOutcome(u, o, p)
  PROVE  IInv'
  <1> DEFINE row == [outcome[o] EXCEPT !.cites = @ \cup {p}]
  <1>1. outcome[o] \in Observed
    BY DEF IInv, DecisionsTypeOK, RecordsOK
  <1>2. row \in Observed /\ row.of = outcome[o].of /\ Given(outcome[o]) \subseteq Given(row)
    BY <1>1 DEF Observed, Given
  <1>3. outcome' = [outcome EXCEPT ![o] = row]
        /\ UNCHANGED <<there, decision, suggestion, reader, person>>
    BY DEF LinkOutcome
  <1> HIDE DEF row
  <1>4. /\ outcome' \in Seq(Observed) /\ Len(outcome') = Len(outcome)
        /\ DOMAIN outcome' = DOMAIN outcome
        /\ \A n \in DOMAIN outcome : outcome'[n] = IF n = o THEN row ELSE outcome[n]
    BY <1>2, <1>3 DEF IInv, DecisionsTypeOK, RecordsOK
  <1>5. RecordsOK' /\ Extended
    <2>1. \A n \in DOMAIN outcome : /\ outcome'[n].of = outcome[n].of
                                    /\ Given(outcome[n]) \subseteq Given(outcome'[n])
      BY <1>2, <1>4
    <2>2. decision' = decision
      BY <1>3
    <2>3. RecordsOK'
      BY <1>4, <2>1, <2>2 DEF IInv, DecisionsTypeOK, RecordsOK
    <2>4. QED
      BY <1>4, <2>1, <2>2, <2>3 DEF IInv, DecisionsTypeOK, RecordsOK, Extended
  <1>6. there' \subseteq Passages
    BY <1>3 DEF IInv, DecisionsTypeOK
  <1>7. QED
    BY <1>3, <1>5, <1>6, RecordsStep

\* Rows are deleted: records stay, with less evidence.
LEMMA DeleteRowsIInv == ASSUME IInv, NEW p \in Passages, DeleteRows(p) PROVE IInv'
  <1>1. /\ decision' = Cascade(decision, p) /\ outcome' = Cascade(outcome, p)
        /\ UNCHANGED <<suggestion, reader, person>>
    BY DEF DeleteRows
  <1>2. there' \subseteq Passages
    BY DEF DeleteRows, IInv, DecisionsTypeOK
  <1>3. RecordsOK' /\ Extended
    BY <1>1, CascadeDecisions, CascadeOutcomes DEF IInv, DecisionsTypeOK, RecordsOK, Extended
  <1>4. QED
    BY <1>1, <1>2, <1>3, RecordsStep

\* A request ends by writing the status and the record of one suggestion.
LEMMA SuggestionStep ==
  ASSUME IInv, NEW u \in People, person' = [person EXCEPT ![u] = Away],
         UNCHANGED <<there, decision, outcome, reader>>,
         NEW i \in DOMAIN suggestion, NEW row \in Suggested,
         row.kind = suggestion[i].kind, row.of = suggestion[i].of,
         row.passage = suggestion[i].passage,
         suggestion' = [suggestion EXCEPT ![i] = row],
         Honest(row)
  PROVE  IInv'
  <1>1. /\ suggestion' \in Seq(Suggested) /\ Len(suggestion') = Len(suggestion)
        /\ DOMAIN suggestion' = DOMAIN suggestion
        /\ \A n \in DOMAIN suggestion :
              suggestion'[n] = IF n = i THEN row ELSE suggestion[n]
    BY DEF IInv, DecisionsTypeOK, SuggestionsOK
  <1>2. DecisionsTypeOK'
    BY <1>1, AwayType, SameRecords, PersonType DEF Fits
  <1>3. AllHonest'
    BY <1>1 DEF IInv, AllHonest, Honest, Rests
  <1>4. RecordedRests'
    <2> SUFFICES ASSUME NEW v \in People, person'[v].at = "recorded"
                 PROVE  Among(decision, outcome, suggestion'[person'[v].of], person'[v].made)
      BY DEF RecordedRests, Rests
    <2>1. person'[v] = person[v]
      BY AwayType DEF IInv, DecisionsTypeOK, PeopleOK
    <2>2. Among(decision, outcome, suggestion[person[v].of], person[v].made)
      BY <2>1 DEF IInv, RecordedRests, Rests
    <2>3. person[v].of \in DOMAIN suggestion
      BY <2>1, Accepting
    <2>4. QED
      BY <1>1, <2>1, <2>2, <2>3 DEF Among
  <1>5. QED
    BY <1>2, <1>3, <1>4 DEF IInv

LEMMA MarkAcceptedIInv == ASSUME IInv, NEW u \in People, MarkAccepted(u) PROVE IInv'
  <1> DEFINE i == person[u].of
             row == [suggestion[i] EXCEPT !.status = "accepted", !.made = person[u].made]
  <1>1. person[u] \in Requests /\ i \in DOMAIN suggestion /\ suggestion[i] \in Suggested
    BY Accepting DEF MarkAccepted
  <1>2. /\ row \in Suggested /\ row.kind = suggestion[i].kind /\ row.of = suggestion[i].of
        /\ row.passage = suggestion[i].passage
        /\ row.status = "accepted" /\ row.made = person[u].made
    BY <1>1 DEF Suggested, Statuses, Requests
  <1>3. suggestion' = [suggestion EXCEPT ![i] = row]
        /\ person' = [person EXCEPT ![u] = Away]
        /\ UNCHANGED <<there, decision, outcome, reader>>
    BY <1>1 DEF MarkAccepted, PersonGoes, IInv, DecisionsTypeOK, SuggestionsOK
  <1>4. Among(decision, outcome, suggestion[i], person[u].made)
    BY DEF MarkAccepted, IInv, RecordedRests, Rests
  <1>5. Honest(row)
    BY <1>2, <1>4 DEF Honest, Rests, Among
  <1>6. QED
    BY <1>1, <1>2, <1>3, <1>5, SuggestionStep

LEMMA RejectMarkIInv == ASSUME IInv, NEW u \in People, RejectMark(u) PROVE IInv'
  <1> DEFINE i == person[u].of
             row == [suggestion[i] EXCEPT !.status = "rejected"]
  <1>1. person[u] \in Requests /\ i \in DOMAIN suggestion /\ suggestion[i] \in Suggested
    BY Accepting DEF RejectMark
  <1>2. CASE suggestion[i].made = 0
    <2>1. /\ row \in Suggested /\ row.kind = suggestion[i].kind /\ row.of = suggestion[i].of
          /\ row.passage = suggestion[i].passage
          /\ row.status = "rejected" /\ row.made = 0
      BY <1>1, <1>2 DEF Suggested, Statuses
    <2>2. suggestion' = [suggestion EXCEPT ![i] = row]
          /\ person' = [person EXCEPT ![u] = Away]
          /\ UNCHANGED <<there, decision, outcome, reader>>
      BY <1>1, <1>2 DEF RejectMark, PersonGoes, IInv, DecisionsTypeOK, SuggestionsOK
    <2>3. Honest(row)
      BY <2>1 DEF Honest
    <2>4. QED
      BY <1>1, <2>1, <2>2, <2>3, SuggestionStep
  <1>3. CASE suggestion[i].made # 0
    BY <1>3, AwayType, SameRecords, PersonStep DEF RejectMark, PersonGoes, Fits
  <1>4. QED
    BY <1>2, <1>3

\* An edit: what it chooses, the rows it leaves, and that it writes one row or none.
Edited(u) ==
    [decision[person[u].of] EXCEPT
        !.chosen = IF ChosenBy(u) = person[u].read THEN @ ELSE ChosenBy(u),
        !.options = EditedOptions(u),
        !.open = @ /\ ~ person[u].changes.close]

LEMMA EditedType ==
  ASSUME IInv, NEW u \in People, person[u].at = "editing"
  PROVE  /\ person[u].of \in DOMAIN decision /\ decision[person[u].of] \in Decided
         /\ ChosenBy(u) \in Texts /\ Edited(u) \in Decided
         /\ Given(Edited(u)) = Given(decision[person[u].of])
         /\ Edited(u).options = EditedOptions(u)
         /\ Edited(u).chosen = IF ChosenBy(u) = person[u].read
                                 THEN decision[person[u].of].chosen ELSE ChosenBy(u)
  <1> DEFINE d == person[u].of
             c == person[u].changes
             AnyOption == [text : Texts, won : BOOLEAN]
  <1>1. d \in DOMAIN decision /\ decision[d] \in Decided /\ person[u].read \in Texts
        /\ c \in Changes
    BY DecisionsAssumption DEF IInv, DecisionsTypeOK, PeopleOK, RecordsOK
  <1>2. ChosenBy(u) \in Texts /\ c.options \subseteq Texts
    BY <1>1 DEF ChosenBy, Changes
  <1>3. EditedOptions(u) \subseteq AnyOption
    <2>1. OptionsOf(ChosenBy(u), c.options \ {ChosenBy(u)}) \subseteq AnyOption
          /\ OptionsOf(ChosenBy(u), {}) \subseteq AnyOption
      BY <1>2, OptionsType
    <2>2. decision[d].options \subseteq AnyOption
      BY <1>1 DEF Decided
    <2>3. QED
      BY <2>1, <2>2 DEF EditedOptions
  <1>4. QED
    BY <1>1, <1>2, <1>3 DEF Edited, Decided, Given

LEMMA EditWriteStep ==
  ASSUME IInv, NEW u \in People, EditWrite(u)
  PROVE  /\ decision' = decision \/ decision' = [decision EXCEPT ![person[u].of] = Edited(u)]
         /\ person' = [person EXCEPT ![u] = Away]
         /\ UNCHANGED <<there, outcome, suggestion, reader>>
  BY EditedType DEF EditWrite, Edited, PersonGoes, IInv, DecisionsTypeOK, RecordsOK

LEMMA EditWriteIInv == ASSUME IInv, NEW u \in People, EditWrite(u) PROVE IInv'
  <1> DEFINE d == person[u].of
  <1>0. /\ d \in DOMAIN decision /\ Edited(u) \in Decided
        /\ Given(Edited(u)) = Given(decision[d])
    BY EditedType DEF EditWrite
  <1>1. RecordsOK' /\ Extended
    <2>1. CASE decision' = decision
      BY <2>1, EditWriteStep, SameRecords
    <2>2. CASE decision' = [decision EXCEPT ![d] = Edited(u)]
      <3>1. /\ decision' \in Seq(Decided) /\ Len(decision') = Len(decision)
            /\ DOMAIN decision' = DOMAIN decision
            /\ \A n \in DOMAIN decision :
                  decision'[n] = IF n = d THEN Edited(u) ELSE decision[n]
        BY <1>0, <2>2 DEF IInv, DecisionsTypeOK, RecordsOK
      <3>2. outcome' = outcome
        BY EditWriteStep
      <3>3. QED
        BY <1>0, <3>1, <3>2 DEF IInv, DecisionsTypeOK, RecordsOK, Extended
    <2>3. QED
      BY <2>1, <2>2, EditWriteStep
  <1>2. QED
    BY <1>1, EditWriteStep, AwayType, PersonStep DEF Fits

-----------------------------------------------------------------------------
LEMMA NextIInv == ASSUME IInv, [Next]_vars PROVE IInv'
  <1>1. ASSUME NEW p \in Passages, Come(p) \/ Leave(p) PROVE IInv'
    BY <1>1, MovesIInv DEF Come, Leave, IInv, DecisionsTypeOK
  <1>6. ASSUME NEW p \in Passages, DeleteRows(p) PROVE IInv'
    BY <1>6, DeleteRowsIInv
  <1>2. ASSUME NEW r \in Readers, Reads(r) PROVE IInv'
    BY <1>2, FindPassagesIInv, FindCandidatesIInv, ProposeIInv, QueueOneIInv,
       NextPassageIInv, StopReadingIInv DEF Reads
  <1>3. ASSUME NEW u \in People, Reviews(u) PROVE IInv'
    BY <1>3, AcceptReadIInv, RecordDecisionIInv, RecordOutcomeIInv, MarkAcceptedIInv,
       RejectReadIInv, RejectMarkIInv DEF Reviews
  <1>4. ASSUME NEW u \in People, Writes(u) \/ Crash(u) PROVE IInv'
    BY <1>4, RecordOwnIInv, RecordOwnOutcomeIInv, LinkDecisionIInv, LinkOutcomeIInv,
       EditReadIInv, EditWriteIInv, CrashIInv DEF Writes
  <1>5. CASE UNCHANGED vars
    BY <1>5, MovesIInv DEF vars, IInv, DecisionsTypeOK
  <1>7. QED
    BY <1>1, <1>2, <1>3, <1>4, <1>5, <1>6 DEF Next

\* The invariant holds throughout, whoever dies between which transactions.
THEOREM Invariance == Spec => []IInv
  <1>1. Init => IInv
    BY InitIInv
  <1>2. IInv /\ [Next]_vars => IInv'
    BY NextIInv
  <1>3. QED
    BY <1>1, <1>2, PTL DEF Spec

\* The rows of the four tables and what requests hold keep their types (models.py
\* Decision, DecisionSuggestion, DecisionOutcome, OutcomeSuggestion).
THEOREM TypeCorrect == Spec => []DecisionsTypeOK
  <1>1. IInv => DecisionsTypeOK
    BY DEF IInv
  <1>2. QED
    BY <1>1, Invariance, PTL

\* An accepted suggestion names a record of its kind that was given its passage as evidence
\* and has it unless the rows of the passage were deleted; no other suggestion names one
\* (decision_suggest.py accept and reject, outcome_suggest.py accept and reject).
THEOREM AcceptanceIsHonest == Spec => []AcceptedMeansRecorded
  <1>1. IInv => AcceptedMeansRecorded
    BY DEF IInv, AllHonest, Honest, Rests, Among, AcceptedMeansRecorded
  <1>2. QED
    BY <1>1, Invariance, PTL

-----------------------------------------------------------------------------
(* The choice and the options of a decision, when edits do not overlap.    *)

\* The one option of a row that has won is its choice.
Agrees(row) == {o \in row.options : o.won} = {[text |-> row.chosen, won |-> TRUE]}

\* Nobody else edits the row an edit has read.
EditsAlone ==
    \A u \in People : person[u].at = "editing" =>
        /\ person[u].read = decision[person[u].of].chosen
        /\ \A v \in People \ {u} :
              person[v].at = "editing" => person[v].of # person[u].of

EInv == ChosenAgrees /\ EditsAlone

\* A step that starts and ends no edit, and leaves the decisions there are alone.
LEMMA Uninvolved ==
  ASSUME IInv, EInv,
         \A d \in DOMAIN decision : d \in DOMAIN decision' /\ decision'[d] = decision[d],
         \A d \in DOMAIN decision' : d \in DOMAIN decision \/ Agrees(decision'[d]),
         \A v \in People : person'[v].at = "editing" => person'[v] = person[v]
  PROVE  EInv'
  <1>1. ChosenAgrees'
    BY DEF EInv, ChosenAgrees, Agrees
  <1>2. EditsAlone'
    BY DEF EInv, EditsAlone, IInv, DecisionsTypeOK, PeopleOK
  <1>3. QED
    BY <1>1, <1>2 DEF EInv

\* A request that goes on without editing.
LEMMA GoesOn ==
  ASSUME IInv, NEW u \in People, NEW s, PersonGoes(u, s), s.at # "editing"
  PROVE  \A v \in People : person'[v].at = "editing" => person'[v] = person[v]
  BY DEF PersonGoes, IInv, DecisionsTypeOK, PeopleOK

\* A decision is recorded with the choice as its one winner.
LEMMA RecordedAgrees ==
  ASSUME IInv, EInv, NEW draft \in Offers, NEW cites \in SUBSET Passages,
         Len(decision) < MaxDecisions, decision' = Append(decision, Decision(draft, cites)),
         \A v \in People : person'[v].at = "editing" => person'[v] = person[v]
  PROVE  EInv'
  <1> DEFINE row == Decision(draft, cites)
  <1>1. Agrees(row)
    <2>1. draft.chosen \in Texts /\ Alternatives(draft) \subseteq Texts
      BY DecisionsAssumption DEF Drafts, Alternatives
    <2>2. QED
      BY <2>1, DecisionType, OptionsType DEF Agrees
  <1>2. /\ \A d \in DOMAIN decision : d \in DOMAIN decision' /\ decision'[d] = decision[d]
        /\ \A d \in DOMAIN decision' : d \in DOMAIN decision \/ decision'[d] = row
    BY DecisionType DEF IInv, DecisionsTypeOK, RecordsOK
  <1>3. QED
    BY <1>1, <1>2, Uninvolved

LEMMA ReviewsEInv == ASSUME IInv, EInv, NEW u \in People, Reviews(u) PROVE EInv'
  <1>1. ASSUME NEW i \in DOMAIN suggestion, NEW draft \in Offers, AcceptRead(u, i, draft)
        PROVE  EInv'
    <2> DEFINE s == [Away EXCEPT !.at = "accepting", !.of = i, !.draft = draft]
    <2>1. s.at = "accepting"
      BY AwayType DEF Requests
    <2>2. QED
      BY <1>1, <2>1, GoesOn, Uninvolved DEF AcceptRead
  <1>2. ASSUME NEW i \in DOMAIN suggestion, RejectRead(u, i) PROVE EInv'
    <2> DEFINE s == [Away EXCEPT !.at = "rejecting", !.of = i]
    <2>1. s.at = "rejecting"
      BY AwayType DEF Requests
    <2>2. QED
      BY <1>2, <2>1, GoesOn, Uninvolved DEF RejectRead
  <1>3. CASE RecordDecision(u)
    <2> DEFINE g == suggestion[person[u].of]
               s == [person[u] EXCEPT !.at = "recorded", !.made = Len(decision) + 1]
    <2>1. person[u] \in Requests /\ person[u].draft \in Offers /\ g \in Suggested
      BY <1>3, Accepting DEF RecordDecision
    <2>2. s.at = "recorded"
      BY <2>1 DEF Requests
    <2>3. {g.passage} \in SUBSET Passages
      BY <2>1 DEF Suggested
    <2>4. \A v \in People : person'[v].at = "editing" => person'[v] = person[v]
      BY <1>3, <2>2, AwayType, GoesOn DEF RecordDecision
    <2>5. QED
      BY <1>3, <2>1, <2>3, <2>4, RecordedAgrees, Uninvolved DEF RecordDecision
  <1>4. CASE RecordOutcome(u)
    <2> DEFINE s == [person[u] EXCEPT !.at = "recorded", !.made = Len(outcome) + 1]
    <2>1. person[u] \in Requests
      BY DEF IInv, DecisionsTypeOK, PeopleOK
    <2>2. s.at = "recorded"
      BY <2>1 DEF Requests
    <2>3. QED
      BY <1>4, <2>2, AwayType, GoesOn, Uninvolved DEF RecordOutcome
  <1>5. CASE MarkAccepted(u) \/ RejectMark(u)
    BY <1>5, AwayType, GoesOn, Uninvolved DEF MarkAccepted, RejectMark
  <1>6. QED
    BY <1>1, <1>2, <1>3, <1>4, <1>5 DEF Reviews

LEMMA EditReadEInv ==
  ASSUME IInv, EInv, ~ Overlapping, NEW u \in People, NEW d \in DOMAIN decision,
         NEW changes \in Edits, EditRead(u, d, changes)
  PROVE  EInv'
  <1> DEFINE s == [Away EXCEPT !.at = "editing", !.of = d,
                          !.read = decision[d].chosen, !.changes = changes]
  <1>1. s.of = d /\ s.read = decision[d].chosen
    BY AwayType DEF Requests
  <1>2. /\ person' = [person EXCEPT ![u] = s] /\ decision' = decision
        /\ \A v \in People : ~ (person[v].at = "editing" /\ person[v].of = d)
    BY DEF EditRead, PersonGoes, Editing
  <1>3. \A v \in People : person'[v] = IF v = u THEN s ELSE person[v]
    BY <1>2 DEF IInv, DecisionsTypeOK, PeopleOK
  <1>4. EditsAlone'
    BY <1>1, <1>2, <1>3 DEF EInv, EditsAlone
  <1>5. QED
    BY <1>2, <1>4 DEF EInv, ChosenAgrees

\* Whatever an edit gives, the row it writes agrees, if what it has read is still so.
LEMMA EditedAgrees ==
  ASSUME IInv, EInv, NEW u \in People, person[u].at = "editing"
  PROVE  Agrees(Edited(u))
  <1> DEFINE c == person[u].changes
             row == decision[person[u].of]
  <1>1. ChosenBy(u) \in Texts /\ Edited(u).chosen = ChosenBy(u)
        /\ Edited(u).options = EditedOptions(u) /\ c \in Changes
    BY EditedType, DecisionsAssumption DEF EInv, EditsAlone, IInv, DecisionsTypeOK, PeopleOK
  <1>2. CASE c.lists
    <2>1. c.options \ {ChosenBy(u)} \subseteq Texts
      BY <1>1 DEF Changes
    <2>2. QED
      BY <1>1, <1>2, <2>1, OptionsType DEF EditedOptions, Agrees
  <1>3. CASE ~ c.lists /\ c.chosen # None
    <2>1. EditedOptions(u) = {o \in row.options : ~ o.won} \cup OptionsOf(ChosenBy(u), {})
      BY <1>3 DEF EditedOptions
    <2>2. {o \in EditedOptions(u) : o.won} = {o \in OptionsOf(ChosenBy(u), {}) : o.won}
      BY <2>1
    <2>3. QED
      BY <1>1, <2>2, OptionsType DEF Agrees
  <1>4. CASE ~ c.lists /\ c.chosen = None
    <2>1. EditedOptions(u) = row.options /\ ChosenBy(u) = row.chosen
      BY <1>4 DEF EditedOptions, ChosenBy, EInv, EditsAlone
    <2>2. QED
      BY <1>1, <2>1, EditedType DEF EInv, ChosenAgrees, Agrees
  <1>5. QED
    BY <1>2, <1>3, <1>4

LEMMA EditWriteEInv == ASSUME IInv, EInv, NEW u \in People, EditWrite(u) PROVE EInv'
  <1> DEFINE d == person[u].of
  <1>0. person[u].at = "editing" /\ \A v \in People : person'[v] = IF v = u THEN Away ELSE person[v]
    BY EditWriteStep DEF EditWrite, IInv, DecisionsTypeOK, PeopleOK
  <1>1. CASE decision' = decision
    BY <1>0, <1>1, AwayType, Uninvolved
  <1>2. CASE decision' = [decision EXCEPT ![d] = Edited(u)]
    <2>1. /\ d \in DOMAIN decision /\ DOMAIN decision' = DOMAIN decision
          /\ \A n \in DOMAIN decision : decision'[n] = IF n = d THEN Edited(u) ELSE decision[n]
      BY <1>0, <1>2, EditedType DEF IInv, DecisionsTypeOK, RecordsOK
    <2>2. ChosenAgrees'
      BY <1>0, <2>1, EditedAgrees DEF EInv, ChosenAgrees, Agrees
    <2>3. EditsAlone'
      BY <1>0, <2>1, AwayType DEF EInv, EditsAlone, IInv, DecisionsTypeOK, PeopleOK
    <2>4. QED
      BY <2>2, <2>3 DEF EInv
  <1>3. QED
    BY <1>1, <1>2, EditWriteStep

\* Evidence does not touch the choice.
LEMMA LinkDecisionEInv ==
  ASSUME IInv, EInv, NEW u \in People, NEW d \in DOMAIN decision, NEW p \in Passages,
         LinkDecision(u, d, p)
  PROVE  EInv'
  <1>1. \A n \in DOMAIN decision' : /\ n \in DOMAIN decision
                                    /\ decision'[n].chosen = decision[n].chosen
                                    /\ decision'[n].options = decision[n].options
    BY LinkDecisionStep
  <1>2. person' = person
    BY DEF LinkDecision
  <1>3. ChosenAgrees'
    BY <1>1 DEF EInv, ChosenAgrees
  <1>4. EditsAlone'
    BY <1>1, <1>2, LinkDecisionStep DEF EInv, EditsAlone, IInv, DecisionsTypeOK, PeopleOK
  <1>5. QED
    BY <1>3, <1>4 DEF EInv

LEMMA DeleteRowsEInv ==
  ASSUME IInv, EInv, NEW p \in Passages, DeleteRows(p)
  PROVE  EInv'
  <1>1. \A n \in DOMAIN decision' : /\ n \in DOMAIN decision
                                    /\ decision'[n].chosen = decision[n].chosen
                                    /\ decision'[n].options = decision[n].options
    BY CascadeDecisions DEF DeleteRows, IInv, DecisionsTypeOK
  <1>2. person' = person /\ DOMAIN decision' = DOMAIN decision
    BY CascadeDecisions DEF DeleteRows, IInv, DecisionsTypeOK
  <1>3. ChosenAgrees'
    BY <1>1 DEF EInv, ChosenAgrees
  <1>4. EditsAlone'
    BY <1>1, <1>2 DEF EInv, EditsAlone, IInv, DecisionsTypeOK, PeopleOK
  <1>5. QED
    BY <1>3, <1>4 DEF EInv

LEMMA NextEInv ==
  ASSUME IInv, EInv, ~ Overlapping, [Next]_vars
  PROVE  EInv'
  <1>1. CASE UNCHANGED <<decision, person>>
    BY <1>1, Uninvolved
  <1>2. ASSUME NEW p \in Passages, Come(p) \/ Leave(p) PROVE EInv'
    BY <1>1, <1>2 DEF Come, Leave
  <1>3. ASSUME NEW r \in Readers, Reads(r) PROVE EInv'
    BY <1>1, <1>3 DEF Reads, FindPassages, FindCandidates, Propose, QueueOne, NextPassage,
                      StopReading, ReaderGoes
  <1>4. ASSUME NEW u \in People, Writes(u) PROVE EInv'
    <2>1. ASSUME NEW draft \in Offers, NEW cites \in SUBSET Passages,
                 RecordOwn(u, draft, cites)
          PROVE  EInv'
      BY <2>1, RecordedAgrees DEF RecordOwn
    <2>2. ASSUME NEW d \in DOMAIN decision, NEW cites \in SUBSET Passages,
                 RecordOwnOutcome(u, d, cites)
          PROVE  EInv'
      BY <1>1, <2>2 DEF RecordOwnOutcome
    <2>3. ASSUME NEW o \in DOMAIN outcome, NEW p \in Passages, LinkOutcome(u, o, p)
          PROVE  EInv'
      BY <1>1, <2>3 DEF LinkOutcome
    <2>4. QED
      BY <1>4, <2>1, <2>2, <2>3, LinkDecisionEInv, EditReadEInv, EditWriteEInv DEF Writes
  <1>5. ASSUME NEW u \in People, Crash(u) PROVE EInv'
    BY <1>5, AwayType, GoesOn, Uninvolved DEF Crash
  <1>6. CASE UNCHANGED vars
    BY <1>1, <1>6 DEF vars
  <1>7. QED
    BY <1>2, <1>3, <1>4, <1>5, <1>6, ReviewsEInv, DeleteRowsEInv DEF Next

\* The choice of a decision and the option flagged as chosen cannot part, however it is
\* recorded and edited, as long as no two edits of it overlap (decisions.py record and edit).
THEOREM ChoiceAgrees ==
  ASSUME ~ Overlapping
  PROVE  Spec => []ChosenAgrees
  <1>1. Init => EInv
    BY DecisionsAssumption DEF Init, EInv, ChosenAgrees, EditsAlone, Away
  <1>2. IInv /\ EInv /\ [Next]_vars => EInv'
    BY NextEInv
  <1>3. EInv => ChosenAgrees
    BY DEF EInv
  <1>4. QED
    BY <1>1, <1>2, <1>3, Invariance, PTL DEF Spec
=============================================================================
