------------------------------ MODULE MCCorpus ------------------------------
(* Instances of Corpus for TLC. *)
EXTENDS Corpus, TLC

AllOps == {"full", "incremental", "hide", "restore", "purge"}
Incremental == {"incremental"}
Reversible == {"full", "incremental", "hide", "restore"}
SyncAndPurge == {"full", "purge"}

\* A file's content, an item and an actor are only ever compared.
SymmetryAlone == Permutations(Items) \cup Permutations(Hashes)
SymmetryRaces == Permutations(Actors) \cup Permutations(Hashes)

=============================================================================
