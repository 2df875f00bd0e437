----------------------------- MODULE MCSyncPush -----------------------------
(* Instances of SyncPush small enough for TLC. *)
EXTENDS SyncPush

CONSTANTS j1, j2

=============================================================================
