----------------------------- MODULE MCSinkSwap -----------------------------
(* A small instance of SinkSwap: a file (the --sink), an lls:// and a plain *)
(* UDP output.                                                              *)
EXTENDS SinkSwap
=============================================================================
