---------------------------- MODULE MCRpcSystem -----------------------------
(* Instances of RpcSystem for TLC. *)
EXTENDS RpcSystem
=============================================================================
