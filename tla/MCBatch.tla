------------------------------- MODULE MCBatch -------------------------------
(* Instances of Batch for TLC. *)
EXTENDS Batch, TLC

(* Threads, contexts and operation objects are interchangeable. *)
Symmetry ==
    Permutations(Threads) \cup Permutations(Contexts) \cup Permutations(BatchOps)

=============================================================================
