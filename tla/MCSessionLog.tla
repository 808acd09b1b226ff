---------------------------- MODULE MCSessionLog ----------------------------
(* SessionLog for TLC: see the .cfg files for the instances. *)
EXTENDS SessionLog
=============================================================================
