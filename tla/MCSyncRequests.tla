--------------------------- MODULE MCSyncRequests ---------------------------
(* SyncRequests on a small instance: one job with an application and,      *)
(* where it is wanted, a proposal.                                         *)
EXTENDS SyncRequests

CONSTANT TheJob

OneJob == {TheJob}
OfTheJob == [t \in Targets |-> TheJob]
=============================================================================
