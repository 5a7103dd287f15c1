---------------------------- MODULE AtomicOutput ----------------------------
(***************************************************************************)
(* What one shard of the gateway promises about its output, stated without *)
(* semaphores, coroutines or sink objects: the shard has one output URI;   *)
(* a payload is either rejected or goes, in one instant, to the URI that   *)
(* is configured at that instant; replacing the URI is one instant too     *)
(* ("Atomically (per shard) replace the output sink", gw/atsc3_gw.h).      *)
(* SinkSwap implements this specification.                                 *)
(***************************************************************************)
CONSTANTS Writer,    \* payloads handed to the shard
          Uri,       \* output URIs
          RawUri,    \* the lls:// URIs: payloads bypass the encoder
          BootUri,   \* the URI of --sink
          Nowhere    \* not a URI: the payload has not been delivered

VARIABLES uri,       \* the configured output URI
          route,     \* where each payload went
          form       \* how it went: "raw" or "tlv"

vars == <<uri, route, form>>

FormFor(u) == IF u \in RawUri THEN "raw" ELSE "tlv"

Init == /\ uri = BootUri
        /\ route = [w \in Writer |-> Nowhere]
        /\ form = [w \in Writer |-> "none"]

\* One payload goes to the current URI, in the form that URI calls for.
Deliver(w) ==
  /\ route[w] = Nowhere
  /\ route' = [route EXCEPT ![w] = uri]
  /\ form' = [form EXCEPT ![w] = FormFor(uri)]
  /\ UNCHANGED uri

\* The output is replaced, between two deliveries.
Replace(u) ==
  /\ uri' = u
  /\ UNCHANGED <<route, form>>

Next == \/ \E w \in Writer : Deliver(w)
        \/ \E u \in Uri : Replace(u)

Spec == Init /\ [][Next]_vars
=============================================================================
