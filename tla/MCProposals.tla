---------------------------- MODULE MCProposals ----------------------------
(* Proposals on a small instance: every application is of the one job. *)
EXTENDS Proposals, TLC

CONSTANTS TheJob

OneJob == {TheJob}
OfTheJob == [a \in Applications |-> TheJob]

(* What tells two states apart for the steps and the properties: a row that *)
(* can be neither expired nor reopened is not asked for its age, nor one    *)
(* that is closed for its consent.  An overlap may still move such a row.   *)
Matters ==
  IF Windows # {} THEN vars
  ELSE <<[p \in Proposals |->
            IF props[p].status \in Terminal \cup {"submission_uncertain"}
              THEN [props[p] EXCEPT !.filed = 0]
              ELSE props[p]],
         [p \in Proposals |->
            IF props[p].status \in {"rejected", "expired"} THEN {} ELSE ledger[p]],
         apps, dropped, requests, lock, day>>

Alike == Permutations(Proposals) \cup Permutations(Applications) \cup Permutations(Requests)
=============================================================================
