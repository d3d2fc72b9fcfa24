---------------------------- MODULE MCAsyncMonitor ----------------------------
(* Instances of AsyncMonitor for TLC. *)
EXTENDS AsyncMonitor, TLC

(* Operations and HIP streams are interchangeable. *)
Symmetry == Permutations(Ops) \cup Permutations(HipStreams)

=============================================================================
