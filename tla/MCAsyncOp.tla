------------------------------ MODULE MCAsyncOp ------------------------------
(* Instances of AsyncOp for TLC. *)
EXTENDS AsyncOp

=============================================================================
