-------------------------- MODULE MCEventSequencer --------------------------
(* EventSequencer for TLC: see the .cfg files for the instances. *)
EXTENDS EventSequencer
=============================================================================
