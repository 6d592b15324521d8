----------------------------- MODULE MCP2PCall -----------------------------
(* Small instances of P2PCall for TLC. *)
EXTENDS P2PCall

=============================================================================
