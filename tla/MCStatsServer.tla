---------------------------- MODULE MCStatsServer ----------------------------
(* Instances of StatsServer for TLC. *)
EXTENDS StatsServer

=============================================================================
