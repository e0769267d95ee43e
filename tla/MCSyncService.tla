--------------------------- MODULE MCSyncService ---------------------------
(* Model-checking instance of SyncService: a file of two blocks.           *)
EXTENDS SyncService

File == <<"b1", "b2">>
=============================================================================
