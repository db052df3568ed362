----------------------------- MODULE MCTsQueue ------------------------------
(* Instances of TsQueue for TLC. *)
EXTENDS TsQueue
=============================================================================
