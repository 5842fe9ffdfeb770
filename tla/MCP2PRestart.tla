----------------------------- MODULE MCP2PRestart -----------------------------
(* Two tasks, one bootstrap peer, which they dial too.                       *)
EXTENDS P2PRestart

OneBootstrap == <<CHOOSE p \in Peers : TRUE>>
=============================================================================
