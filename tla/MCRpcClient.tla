----------------------------- MODULE MCRpcClient -----------------------------
(* Two tasks call one client; nodes n1 and n2 are of the expected chain.     *)
EXTENDS RpcClient
=============================================================================
