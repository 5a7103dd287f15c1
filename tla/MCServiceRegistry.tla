------------------------- MODULE MCServiceRegistry -------------------------
(* Small instances of ServiceRegistry. *)
EXTENDS ServiceRegistry
=============================================================================
