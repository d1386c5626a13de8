---------------------------- MODULE MCRpcBreaker ----------------------------
(* Small instances of RpcBreaker for TLC.                                  *)
EXTENDS RpcBreaker
=============================================================================
