---------------------------- MODULE MCRpcClient ----------------------------
(* A small instance of RpcClient for TLC.                                   *)
EXTENDS RpcClient
=============================================================================
