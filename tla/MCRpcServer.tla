---------------------------- MODULE MCRpcServer ----------------------------
(* Instances of the RPC server for model checking. *)
EXTENDS RpcServer
=============================================================================
