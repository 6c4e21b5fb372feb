--------------------------- MODULE MCSyncReceipt ---------------------------
(* Model-checking instance of SyncReceipt. *)
EXTENDS SyncReceipt
=============================================================================
