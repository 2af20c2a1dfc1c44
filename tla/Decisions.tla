------------------------------ MODULE Decisions ------------------------------
(***************************************************************************)
(* The two review queues and what is accepted out of them                  *)
(* (application/decision_suggest.py, outcome_suggest.py, decisions.py and  *)
(* outcomes.py).  A reader (`suggest`) asks a model about passages and     *)
(* queues drafts; a person accepts or rejects a draft, records a decision  *)
(* of their own, or edits one.  Every box below is one transaction:        *)
(* accepting takes three of them, and the process may die between any two. *)
(*                                                                         *)
(* A passage is one item of the corpus with the one chunk a draft is read  *)
(* from, and which evidence is linked to; with the rows of that chunk its  *)
(* evidence goes.  A text is what a decision or an option says, up to      *)
(* casefold().                                                             *)
(***************************************************************************)
EXTENDS Naturals, FiniteSets, Sequences

CONSTANTS Passages,        \* items a draft can be read from
          Texts,           \* what an option can say
          Readers,         \* processes running `suggest`
          People,          \* requests reviewing, recording or editing
          None,            \* the absence of a value
          Offers,          \* the drafts a model, a form or a reviewer comes up with
          Edits,           \* the edits a person asks for
          Overlapping,     \* whether two edits of one decision may overlap
          MaxDecisions,    \* bound on the rows of `decisions`
          MaxOutcomes,     \* bound on the rows of `decision_outcomes`
          MaxSuggestions   \* bound on the rows of the two queues

VARIABLES there,       \* the passages whose item is current and not deleted
          decision,    \* the rows of `decisions` with their options and evidence
          outcome,     \* the rows of `decision_outcomes` with their evidence
          suggestion,  \* the rows of the two suggestion tables
          reader,      \* where each reader is
          person       \* where each person's request is

vars == <<there, decision, outcome, suggestion, reader, person>>

-----------------------------------------------------------------------------
(* Data.                                                                   *)

Kinds    == {"decision", "outcome"}
Statuses == {"pending", "accepted", "rejected"}

\* What a model or a form proposes: a choice and what else was on the table.
Drafts == [chosen : Texts, others : SUBSET Texts]

\* An option equal to the chosen text is the winner, not an alternative.
Alternatives(draft) == draft.others \ {draft.chosen}
Valid(draft) == Alternatives(draft) # {}

\* What a reader keeps of the model's answer: the drafts `record` would take.
Kept == {draft \in Offers : draft.others # {} /\ draft.chosen \notin draft.others}

\* The rows of `decision_options`: the winner, written from `chosen`, and the rest.
OptionsOf(chosen, alternatives) ==
    {[text |-> chosen, won |-> TRUE]}
        \cup {[text |-> a, won |-> FALSE] : a \in alternatives}

Decision(draft, cites) ==
    [chosen  |-> draft.chosen,
     options |-> OptionsOf(draft.chosen, Alternatives(draft)),
     cites   |-> cites,
     lost    |-> {},
     open    |-> TRUE]

Outcome(d, cites) == [of |-> d, cites |-> cites, lost |-> {}]

\* What an edit asks for; None is a field the caller left out.
Changes == [chosen : Texts \cup {None},
            lists  : BOOLEAN,            \* whether it gives the options at all
            options : SUBSET Texts,
            close  : BOOLEAN]

ASSUME DecisionsAssumption ==
    /\ None \notin Texts \cup Passages
    /\ Offers \subseteq Drafts
    /\ Edits \subseteq Changes
    /\ Overlapping \in BOOLEAN
    /\ MaxDecisions \in Nat /\ MaxOutcomes \in Nat /\ MaxSuggestions \in Nat

\* The rows of the four tables, and what a reader and a request hold.  `lost` is the
\* evidence that went with the rows it was linked to (history).
Decided  == [chosen : Texts, options : SUBSET [text : Texts, won : BOOLEAN],
             cites : SUBSET Passages, lost : SUBSET Passages, open : BOOLEAN]
Observed == [of : 1 .. MaxDecisions, cites : SUBSET Passages, lost : SUBSET Passages]
Made     == 0 .. (MaxDecisions + MaxOutcomes)
Suggested == [kind : Kinds, of : 0 .. MaxDecisions, passage : Passages, draft : Kept,
              status : Statuses, made : Made]
Readings == [at : {"idle", "reading", "queueing"}, kind : Kinds, of : 0 .. MaxDecisions,
             todo : SUBSET Passages, passage : Passages \cup {None}, drafts : SUBSET Kept]
Requests == [at : {"idle", "accepting", "recorded", "rejecting", "editing"}, of : Nat,
             made : Made, draft : Offers \cup {None}, read : Texts \cup {None},
             changes : Edits \cup {None}]

Resting == [at |-> "idle", kind |-> "decision", of |-> 0,
            todo |-> {}, passage |-> None, drafts |-> {}]
Away == [at |-> "idle", of |-> 0, made |-> 0, draft |-> None,
         read |-> None, changes |-> None]

\* The partial unique index: one pending row for a passage (and a decision).
Queued(kind, d, p) ==
    \E i \in DOMAIN suggestion :
        /\ suggestion[i].kind = kind
        /\ suggestion[i].of = d
        /\ suggestion[i].passage = p
        /\ suggestion[i].status = "pending"

Reviewed(p) ==
    \E i \in DOMAIN suggestion :
        /\ suggestion[i].kind = "decision"
        /\ suggestion[i].passage = p

-----------------------------------------------------------------------------
Init ==
    /\ there \in SUBSET Passages
    /\ decision = <<>>
    /\ outcome = <<>>
    /\ suggestion = <<>>
    /\ reader = [r \in Readers |-> Resting]
    /\ person = [u \in People |-> Away]

(* The corpus moves under both queues: a file goes, or comes back; what is *)
(* only hidden keeps its rows, and its evidence with them.                 *)
Come(p) ==
    /\ p \notin there
    /\ there' = there \cup {p}
    /\ UNCHANGED <<decision, outcome, suggestion, reader, person>>

Leave(p) ==
    /\ p \in there
    /\ there' = there \ {p}
    /\ UNCHANGED <<decision, outcome, suggestion, reader, person>>

\* ON DELETE CASCADE of decision_evidence and outcome_evidence.
Cascade(rows, p) ==
    [i \in DOMAIN rows |->
        IF p \in rows[i].cites
          THEN [rows[i] EXCEPT !.cites = @ \ {p}, !.lost = @ \cup {p}]
          ELSE rows[i]]

\* The item is purged, or its chunks are replaced by those of another version: the rows
\* that were linked to are deleted.
DeleteRows(p) ==
    /\ there' \in {there, there \ {p}}
    /\ decision' = Cascade(decision, p)
    /\ outcome' = Cascade(outcome, p)
    /\ UNCHANGED <<suggestion, reader, person>>

-----------------------------------------------------------------------------
(* Readers.                                                                *)

ReaderGoes(r, s) ==
    /\ reader' = [reader EXCEPT ![r] = s]
    /\ UNCHANGED <<there, decision, outcome, person>>

\* decision_suggest.find_passages: nothing that was ever queued is read again.
FindPassages(r) ==
    /\ reader[r].at = "idle"
    /\ ReaderGoes(r, [Resting EXCEPT !.at = "reading",
                          !.todo = {p \in there : ~ Reviewed(p)}])
    /\ UNCHANGED suggestion

\* outcome_suggest.find_candidates, of one open decision: what it cites is not
\* its outcome; what was reviewed before is not left out.
FindCandidates(r, d) ==
    /\ reader[r].at = "idle"
    /\ decision[d].open
    /\ ReaderGoes(r, [Resting EXCEPT !.at = "reading", !.kind = "outcome",
                          !.of = d, !.todo = there \ decision[d].cites])
    /\ UNCHANGED suggestion

\* One model call: any number of drafts of a passage, at most one of a candidate.
Propose(r, p, drafts) ==
    /\ reader[r].at = "reading"
    /\ p \in reader[r].todo
    /\ reader[r].kind = "outcome" => Cardinality(drafts) <= 1
    /\ ReaderGoes(r, [reader[r] EXCEPT !.todo = @ \ {p}, !.passage = p,
                          !.drafts = drafts, !.at = "queueing"])
    /\ UNCHANGED suggestion

Row(r, draft) ==
    [kind |-> reader[r].kind, of |-> reader[r].of, passage |-> reader[r].passage,
     draft |-> draft, status |-> "pending", made |-> 0]

\* INSERT ... ON CONFLICT DO NOTHING: a draft of a passage already waiting is dropped.
QueueOne(r, draft) ==
    /\ reader[r].at = "queueing"
    /\ draft \in reader[r].drafts
    /\ IF Queued(reader[r].kind, reader[r].of, reader[r].passage)
         THEN UNCHANGED suggestion
         ELSE /\ Len(suggestion) < MaxSuggestions
              /\ suggestion' = Append(suggestion, Row(r, draft))
    /\ ReaderGoes(r, [reader[r] EXCEPT !.drafts = @ \ {draft}])

NextPassage(r) ==
    /\ reader[r].at = "queueing"
    /\ reader[r].drafts = {}
    /\ ReaderGoes(r, [reader[r] EXCEPT !.at = "reading", !.passage = None])
    /\ UNCHANGED suggestion

\* The list is done, a model call failed for the last time, or the process died.
StopReading(r) ==
    /\ reader[r].at # "idle"
    /\ ReaderGoes(r, Resting)
    /\ UNCHANGED suggestion

-----------------------------------------------------------------------------
(* People: accepting.                                                      *)

PersonGoes(u, s) ==
    /\ person' = [person EXCEPT ![u] = s]
    /\ UNCHANGED <<there, reader>>

\* The first transaction only reads; the draft is the model's or the reviewer's own.
AcceptRead(u, i, draft) ==
    /\ person[u].at = "idle"
    /\ suggestion[i].status = "pending"
    /\ PersonGoes(u, [Away EXCEPT !.at = "accepting", !.of = i, !.draft = draft])
    /\ UNCHANGED <<decision, outcome, suggestion>>

\* The second writes the record with the passage as its evidence.  A draft with no
\* alternative (InvalidDecision) or an item that left (UnresolvedEvidence) ends it.
RecordDecision(u) ==
    LET s == suggestion[person[u].of]
    IN  /\ person[u].at = "accepting"
        /\ s.kind = "decision"
        /\ Len(decision) < MaxDecisions
        /\ IF Valid(person[u].draft) /\ s.passage \in there
             THEN /\ decision' = Append(decision, Decision(person[u].draft, {s.passage}))
                  /\ PersonGoes(u, [person[u] EXCEPT !.at = "recorded",
                                        !.made = Len(decision) + 1])
             ELSE /\ UNCHANGED decision
                  /\ PersonGoes(u, Away)
        /\ UNCHANGED <<outcome, suggestion>>

RecordOutcome(u) ==
    LET s == suggestion[person[u].of]
    IN  /\ person[u].at = "accepting"
        /\ s.kind = "outcome"
        /\ Len(outcome) < MaxOutcomes
        /\ IF s.passage \in there
             THEN /\ outcome' = Append(outcome, Outcome(s.of, {s.passage}))
                  /\ PersonGoes(u, [person[u] EXCEPT !.at = "recorded",
                                        !.made = Len(outcome) + 1])
             ELSE /\ UNCHANGED outcome
                  /\ PersonGoes(u, Away)
        /\ UNCHANGED <<decision, suggestion>>

\* The third marks the row without looking at it again.
MarkAccepted(u) ==
    /\ person[u].at = "recorded"
    /\ suggestion' = [suggestion EXCEPT ![person[u].of].status = "accepted",
                                        ![person[u].of].made = person[u].made]
    /\ PersonGoes(u, Away)
    /\ UNCHANGED <<decision, outcome>>

(* People: rejecting.  One transaction, but its read takes no lock.        *)
RejectRead(u, i) ==
    /\ person[u].at = "idle"
    /\ suggestion[i].status = "pending"
    /\ PersonGoes(u, [Away EXCEPT !.at = "rejecting", !.of = i])
    /\ UNCHANGED <<decision, outcome, suggestion>>

\* Mutant: no CHECK, so a rejection that read first overwrites an acceptance.
RejectMarkUnchecked(u) ==
    /\ person[u].at = "rejecting"
    /\ suggestion' = [suggestion EXCEPT ![person[u].of].status = "rejected"]
    /\ PersonGoes(u, Away)
    /\ UNCHANGED <<decision, outcome>>

\* The CHECK refuses a rejected row that names a record, and the transaction fails.
RejectMark(u) ==
    /\ person[u].at = "rejecting"
    /\ suggestion' = IF suggestion[person[u].of].made = 0
                       THEN [suggestion EXCEPT ![person[u].of].status = "rejected"]
                       ELSE suggestion
    /\ PersonGoes(u, Away)
    /\ UNCHANGED <<decision, outcome>>

-----------------------------------------------------------------------------
(* People: a record of their own, more evidence for one, editing one.      *)

\* decisions.record with no suggestion behind it.
RecordOwn(u, draft, cites) ==
    /\ person[u].at = "idle"
    /\ Valid(draft)
    /\ cites \subseteq there
    /\ Len(decision) < MaxDecisions
    /\ decision' = Append(decision, Decision(draft, cites))
    /\ UNCHANGED <<there, outcome, suggestion, reader, person>>

\* outcomes.record with no suggestion behind it, for any decision there is.
RecordOwnOutcome(u, d, cites) ==
    /\ person[u].at = "idle"
    /\ cites \subseteq there
    /\ Len(outcome) < MaxOutcomes
    /\ outcome' = Append(outcome, Outcome(d, cites))
    /\ UNCHANGED <<there, decision, suggestion, reader, person>>

\* decisions.link_evidence and outcomes.link_evidence: one more item as evidence.
LinkDecision(u, d, p) ==
    /\ person[u].at = "idle"
    /\ p \in there
    /\ decision' = [decision EXCEPT ![d].cites = @ \cup {p}]
    /\ UNCHANGED <<there, outcome, suggestion, reader, person>>

LinkOutcome(u, o, p) ==
    /\ person[u].at = "idle"
    /\ p \in there
    /\ outcome' = [outcome EXCEPT ![o].cites = @ \cup {p}]
    /\ UNCHANGED <<there, decision, suggestion, reader, person>>

Editing(d) == \E v \in People : person[v].at = "editing" /\ person[v].of = d

\* The row is read without a lock ...
EditRead(u, d, changes) ==
    /\ person[u].at = "idle"
    /\ Overlapping \/ ~ Editing(d)
    /\ PersonGoes(u, [Away EXCEPT !.at = "editing", !.of = d,
                          !.read = decision[d].chosen, !.changes = changes])
    /\ UNCHANGED <<decision, outcome, suggestion>>

\* ... the choice is what the edit says, or what the row said when it was read ...
ChosenBy(u) == IF person[u].changes.chosen = None
                 THEN person[u].read ELSE person[u].changes.chosen

\* Mutant: a choice alone leaves the row of the old winner.
EditedOptionsOfAList(u) ==
    LET c == person[u].changes
    IN  IF c.lists THEN OptionsOf(ChosenBy(u), c.options \ {ChosenBy(u)})
        ELSE decision[person[u].of].options

\* ... a list of options replaces them all; a choice alone replaces the winner's row ...
EditedOptions(u) ==
    LET c == person[u].changes
        rows == decision[person[u].of].options
    IN  IF c.lists THEN OptionsOf(ChosenBy(u), c.options \ {ChosenBy(u)})
        ELSE IF c.chosen # None THEN {o \in rows : ~ o.won} \cup OptionsOf(ChosenBy(u), {})
        ELSE rows

\* ... and an edit that would leave no alternative is refused; only a choice the edit
\* changed is written to the row.
EditWrite(u) ==
    LET c == person[u].changes
        d == person[u].of
    IN  /\ person[u].at = "editing"
        /\ decision' =
             IF c.lists /\ c.options \ {ChosenBy(u)} = {} THEN decision
             ELSE [decision EXCEPT
                     ![d].chosen = IF ChosenBy(u) = person[u].read THEN @ ELSE ChosenBy(u),
                     ![d].options = EditedOptions(u),
                     ![d].open = @ /\ ~ c.close]
        /\ PersonGoes(u, Away)
        /\ UNCHANGED <<outcome, suggestion>>

\* The process dies between two transactions: what was committed stays.
Crash(u) ==
    /\ person[u].at # "idle"
    /\ PersonGoes(u, Away)
    /\ UNCHANGED <<decision, outcome, suggestion>>

-----------------------------------------------------------------------------
Reads(r) ==
    \/ FindPassages(r)
    \/ \E d \in DOMAIN decision : FindCandidates(r, d)
    \/ \E p \in Passages, drafts \in SUBSET Kept : Propose(r, p, drafts)
    \/ \E draft \in Kept : QueueOne(r, draft)
    \/ NextPassage(r)
    \/ StopReading(r)

Reviews(u) ==
    \/ \E i \in DOMAIN suggestion, draft \in Offers : AcceptRead(u, i, draft)
    \/ RecordDecision(u)
    \/ RecordOutcome(u)
    \/ MarkAccepted(u)
    \/ \E i \in DOMAIN suggestion : RejectRead(u, i)
    \/ RejectMark(u)

Writes(u) ==
    \/ \E draft \in Offers, cites \in SUBSET Passages : RecordOwn(u, draft, cites)
    \/ \E d \in DOMAIN decision, cites \in SUBSET Passages : RecordOwnOutcome(u, d, cites)
    \/ \E d \in DOMAIN decision, p \in Passages : LinkDecision(u, d, p)
    \/ \E o \in DOMAIN outcome, p \in Passages : LinkOutcome(u, o, p)
    \/ \E d \in DOMAIN decision, changes \in Edits : EditRead(u, d, changes)
    \/ EditWrite(u)

Next ==
    \/ \E p \in Passages : Come(p) \/ Leave(p) \/ DeleteRows(p)
    \/ \E r \in Readers : Reads(r)
    \/ \E u \in People : Reviews(u) \/ Writes(u) \/ Crash(u)

Spec == Init /\ [][Next]_vars

-----------------------------------------------------------------------------
(* Properties.                                                             *)

RecordsOK ==
    /\ decision \in Seq(Decided) /\ Len(decision) <= MaxDecisions
    /\ outcome \in Seq(Observed) /\ Len(outcome) <= MaxOutcomes
    /\ \A i \in DOMAIN outcome : outcome[i].of \in DOMAIN decision

SuggestionsOK ==
    /\ suggestion \in Seq(Suggested) /\ Len(suggestion) <= MaxSuggestions
    /\ \A i \in DOMAIN suggestion :
          IF suggestion[i].kind = "decision" THEN suggestion[i].of = 0
          ELSE suggestion[i].of \in DOMAIN decision

ReadersOK ==
    /\ reader \in [Readers -> Readings]
    /\ \A r \in Readers :
          /\ IF reader[r].kind = "decision" THEN reader[r].of = 0
             ELSE reader[r].of \in DOMAIN decision
          /\ reader[r].at = "queueing" <=> reader[r].passage # None

PeopleOK ==
    /\ person \in [People -> Requests]
    /\ \A u \in People :
          /\ person[u].at \in {"accepting", "recorded", "rejecting"} =>
                person[u].of \in DOMAIN suggestion
          /\ person[u].at = "accepting" => person[u].draft \in Offers
          /\ person[u].at = "editing" =>
                /\ person[u].of \in DOMAIN decision
                /\ person[u].read \in Texts
                /\ person[u].changes \in Edits

\* Every row has the shape the code gives it, and what a process holds between
\* two transactions is something it has read.
DecisionsTypeOK ==
    there \subseteq Passages /\ RecordsOK /\ SuggestionsOK /\ ReadersOK /\ PeopleOK

\* decisions.record: "the winner named in the decision and the winner flagged in the
\* options cannot disagree" - after any edits too, as long as no two of them overlap.
ChosenAgrees ==
    \A d \in DOMAIN decision :
        {o \in decision[d].options : o.won} = {[text |-> decision[d].chosen, won |-> TRUE]}

\* What a record was ever given as evidence.
Given(row) == row.cites \cup row.lost

\* A suggestion names a record exactly when it is accepted, and that record is of its kind
\* and was given the passage it came from as evidence, which it still has unless the rows
\* of the passage have been deleted under it - whoever reviews at once, wherever one dies
\* (decision_suggest.py accept and reject, outcome_suggest.py accept and reject).
AcceptedMeansRecorded ==
    \A i \in DOMAIN suggestion :
        LET s == suggestion[i] IN
        /\ s.status = "accepted" <=> s.made # 0
        /\ s.status = "accepted" /\ s.kind = "decision" =>
              /\ s.made \in DOMAIN decision
              /\ s.passage \in Given(decision[s.made])
        /\ s.status = "accepted" /\ s.kind = "outcome" =>
              /\ s.made \in DOMAIN outcome
              /\ outcome[s.made].of = s.of
              /\ s.passage \in Given(outcome[s.made])

\* Not checked by a run, because the code breaks it: an edit of `chosen` alone can name
\* the one alternative there was ("an edit cannot remove the last alternative").
EditKeepsAnAlternative ==
    \A d \in DOMAIN decision :
        \E o \in decision[d].options : ~ o.won /\ o.text # decision[d].chosen

=============================================================================
