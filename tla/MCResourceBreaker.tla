-------------------------- MODULE MCResourceBreaker --------------------------
(* ResourceBreaker for TLC: see the .cfg files for the instances. *)
EXTENDS ResourceBreaker
==============================================================================
