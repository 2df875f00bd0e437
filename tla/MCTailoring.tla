---------------------------- MODULE MCTailoring ----------------------------
(* Tailoring on a small instance. *)
EXTENDS Tailoring, TLC

Alike ==
  Permutations(Sessions) \cup Permutations(Requests) \cup Permutations(Bases) \cup Permutations(Revs)

(* Two states are one to TLC if they differ only in what no step reads and *)
(* no property speaks of: whether a closed analysis had answers, and what  *)
(* a file shows that no row names and no render is about to name.          *)
Compiled(a) == \E r \in Requests : Is(r, "render") /\ requests[r].app = a /\ requests[r].compiled
Named(a) == (Live(a) /\ apps[a].pdf) \/ Compiled(a)
Matters ==
  <<content, apps, versions, doomed, requests,
    [s \in Sessions |-> IF IsOpen(s) THEN sessions[s] ELSE [sessions[s] EXCEPT !.worked = FALSE]],
    [a \in Apps |-> IF Named(a) THEN file[a] ELSE NoDraft]>>
=============================================================================
