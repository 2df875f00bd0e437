--------------------------- MODULE MCSyncHandover ---------------------------
(* Instances of SyncHandover small enough for TLC. *)
EXTENDS SyncHandover

CONSTANTS j1, j2, a1, a2

\* Every take-over is about the same job.
OneJob == [a \in Asks |-> j1]

=============================================================================
