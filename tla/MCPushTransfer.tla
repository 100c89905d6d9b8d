--------------------------- MODULE MCPushTransfer ---------------------------
(* File push for TLC.                                                      *)
EXTENDS PushTransfer, TLC

Sym == Permutations(Links)
=============================================================================
