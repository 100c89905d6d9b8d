---------------------------- MODULE MCPushOutbox ----------------------------
(* The send queue for TLC: two jobs.                                       *)
EXTENDS PushOutbox
=============================================================================
