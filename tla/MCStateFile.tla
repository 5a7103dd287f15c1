---------------------------- MODULE MCStateFile ----------------------------
(* A small instance of StateFile: three changes, one orderly stop, a crash. *)
EXTENDS StateFile
=============================================================================
