----------------------------- MODULE MCPipeline -----------------------------
(* Instances of Pipeline for TLC. *)
EXTENDS Pipeline, TLC

Symmetry == Permutations(Workers) \cup Permutations(Texts)

\* Extraction is queued here and claimed by nobody: whether a job of it waits
\* already changes no step but the one that queues it.
Seen == <<memories, store, {j \in queue : j.kind # "extract"}, dead, task>>

=============================================================================
