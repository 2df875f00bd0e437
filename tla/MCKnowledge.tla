---------------------------- MODULE MCKnowledge ----------------------------
(* Knowledge on a small instance. *)
EXTENDS Knowledge, TLC

Alike == Permutations(Points) \cup Permutations(Items) \cup Permutations(Texts)
=============================================================================
