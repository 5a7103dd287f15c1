---------------------------- MODULE MCConfigSwap ----------------------------
(* A small instance of ConfigSwap: three shards, so that a loop has a middle. *)
EXTENDS ConfigSwap
=============================================================================
