----------------------------- MODULE MCUserOverlap -----------------------------
(* The instances of MCUserService, with the history of UserOverlap. *)
EXTENDS MCUserService, UserOverlap
=============================================================================
