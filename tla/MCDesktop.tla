----------------------------- MODULE MCDesktop -----------------------------
(* Desktop on a small instance. *)
EXTENDS Desktop
=============================================================================
