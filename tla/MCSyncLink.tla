----------------------------- MODULE MCSyncLink -----------------------------
(* SyncLink on a small instance: the times in proportion, 300 s as 3.      *)
EXTENDS SyncLink
=============================================================================
