--------------------------- MODULE MCChatDelivery ---------------------------
(***************************************************************************)
(* Instances of ChatDelivery for TLC: how many texts each side writes.     *)
(***************************************************************************)
EXTENDS ChatDelivery

OneEach == <<1, 1>>
TwoAndOne == <<2, 1>>
TwoAndNone == <<2, 0>>
=============================================================================
