---------------------------- MODULE MCDriverState ----------------------------
(* Instances of DriverState for TLC. *)
EXTENDS DriverState, TLC

(* Addresses, threads and descriptors are interchangeable. *)
Symmetry ==
    Permutations(Threads) \cup Permutations(Handles) \cup Permutations(BufObjs)
        \cup Permutations(Fds)

=============================================================================
