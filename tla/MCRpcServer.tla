---------------------------- MODULE MCRpcServer -----------------------------
(* Instances of RpcServer for TLC. *)
EXTENDS RpcServer
=============================================================================
