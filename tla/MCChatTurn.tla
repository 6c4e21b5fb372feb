---------------------------- MODULE MCChatTurn ----------------------------
(* Model-checking instances of ChatTurn. *)
EXTENDS ChatTurn
=============================================================================
