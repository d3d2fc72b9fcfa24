--------------------------- MODULE MCFileLifecycle ---------------------------
(* Instances of FileLifecycle for TLC. *)
EXTENDS FileLifecycle, TLC

(* Threads, inodes, descriptor numbers and addresses are interchangeable. *)
Symmetry ==
    Permutations(Threads) \cup Permutations(Inodes) \cup Permutations(Fds)
        \cup Permutations(Files)

=============================================================================
