---------------------------- MODULE MCGraphSync ----------------------------
(* Instances of GraphSync for TLC. *)
EXTENDS GraphSync, TLC

CONSTANTS m1, m2, a, b

\* m2 is the next version of m1; a and b may name one place in the text.
Versioned == m1 :> None @@ m2 :> m1
Apart == m1 :> None @@ m2 :> None
OnePlace == a :> 1 @@ b :> 1
\* A memory that has been looked at mentions one name.
FewFindings == {{a}, {b}}

\* Nothing tells two items, or two names found at one place, from each other.
Alike == Permutations({m1, m2}) \cup Permutations({a, b})
\* What a state is looked at for.  A memory that will not be extracted again has
\* no use for its marker, which is only ever compared with the version; an
\* undone merge is not read again; with one extractor that runs undisturbed the
\* mentions of a memory are of one extraction, and the ids of an earlier one
\* do not come back; what a merge that runs undisturbed has read is still so.
Sights(ids) == {<<i.mem, i.of>> : i \in ids}
Seen == <<memory,
          [m \in Memories |-> memory[m] \notin {"hidden", "purged"} /\ marker[m] = version],
          entity, merged,
          {<<r.id.mem, r.id.of, r.ent>> : r \in mentions},
          [i \in DOMAIN merges |->
             IF merges[i].applied
               THEN <<merges[i].winner, merges[i].loser,
                      Sights(merges[i].moved \cap {r.id : r \in mentions})>>
               ELSE None],
          [w \in Extractors |->
             CASE extractor[w].at = "deleting" -> [extractor[w] EXCEPT !.doomed = {}]
               [] extractor[w].at = "storing" ->
                    [extractor[w] EXCEPT !.doomed = {},
                       !.target = [n \in extractor[w].found |-> extractor[w].target[n]]]
               [] OTHER -> extractor[w]],
          [r \in Resolvers |->
             IF resolver[r].at = "merging"
               THEN <<resolver[r].winner, resolver[r].loser>> ELSE resolver[r]],
          version, pending, syncer, graph, history>>
=============================================================================
