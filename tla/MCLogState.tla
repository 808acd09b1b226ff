----------------------------- MODULE MCLogState -----------------------------
(* LogState for TLC: see the .cfg files for the instances. *)
EXTENDS LogState
=============================================================================
