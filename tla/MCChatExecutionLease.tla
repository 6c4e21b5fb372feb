------------------------ MODULE MCChatExecutionLease ------------------------
(* Model-checking instance of ChatExecutionLease.  The chats, and the      *)
(* revisions of a chat, are interchangeable.                               *)
EXTENDS ChatExecutionLease, TLC

Symmetry == Permutations(Chats) \cup Permutations(Revisions)
=============================================================================
