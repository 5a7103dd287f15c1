----------------------------- MODULE MCIngress -----------------------------
(* A small instance of Ingress: two frames of lengths 0, 1 (the cap) and 2   *)
(* (above it), with a chunk that can hold the end of a frame and the whole   *)
(* header of the next.  The second may also have a length that 4 + length    *)
(* wraps, to nothing or to 3 bytes.  A peer need not send all of a stream.   *)
EXTENDS Ingress

Two(n, m) == <<[at |-> 0, len |-> n], [at |-> n + 4, len |-> m]>>

MCStream ==
  {Two(0, m) : m \in {1, 2, Word - 4}} \cup {Two(1, m) : m \in {0, Word - 1}}
  \cup {<<[at |-> 0, len |-> 2]>>}
=============================================================================
