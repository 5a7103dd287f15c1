------------------------------ MODULE LabFile ------------------------------
(***************************************************************************)
(* Codecs alone, and the way of scripts/ipv4udp_file_integration_test.sh:  *)
(* units are encoded (Codec), each is written to an ipv4udp-file sink that *)
(* is closed or lost in a crash (Ipv4Udp), m8_bin_to_pcap.py takes their   *)
(* octets out of the file again, and verify decodes these unit by unit.    *)
(***************************************************************************)
EXTENDS Codec

CONSTANTS Flows, Limit, MaxWrites,
          Muxed       \* the protocol whose units a sink is given, tlv_mux

Word == {n \in Nat : n < 65536}

ASSUME LabFileAssumption ==
  /\ Limit \in Nat /\ Limit <= 65000 /\ MaxWrites \in Nat
  /\ Flows \subseteq [src : [1..4 -> Octet], dst : [1..4 -> Octet],
                     srcport : Word, dstport : Word, ttl : Octet]

VARIABLES flow, ident, units, file, phase,    \* of Ipv4Udp
          shipped,    \* what was encoded into the frames that a sink took
          read        \* what verify has decoded

Sink == INSTANCE Ipv4Udp

sinkVars == <<flow, ident, units, file, phase>>
fileVars == <<sinkVars, shipped, read>>
vars == <<callVars, fileVars>>

-----------------------------------------------------------------------------

\* The calls of a codec; what is received has nothing to do with a file.
Calls ==
  /\ \/ Generates
     \/ phase = "open" /\ ident < MaxWrites /\ Encodes
     \/ ident = 0 /\ Receives
     \/ Decodes
  /\ UNCHANGED fileVars

\* The gateway writes a unit.
Ships ==
  /\ stage = "encoded" /\ name = Muxed
  /\ Sink!Writes(wire)
  /\ shipped' = IF units' = units THEN shipped ELSE Append(shipped, sent)
  /\ stage' = "generated" /\ sent' = None
  /\ UNCHANGED <<lib, name, value, wire, result, read>>

\* The sink comes to an end, orderly or not.
SinkEnds ==
  /\ stage = "generated" /\ ident > 0
  /\ Sink!Closes \/ Sink!Crashes
  /\ UNCHANGED <<callVars, shipped, read>>

\* m8_bin_to_pcap.py --extract-tlvmux
Extracts ==
  /\ stage = "generated" /\ phase # "open"
  /\ LET out == Sink!ExtractAll(file) IN
     /\ stage' = IF out.ok THEN "extracted" ELSE "cut"
     /\ wire' = out.payload
  /\ UNCHANGED <<lib, name, value, sent, result, fileVars>>

\* One turn of the loop of do_verify.
Verifies ==
  /\ stage = "extracted"
  /\ IF wire = <<>>
     THEN stage' = "verified" /\ UNCHANGED <<value, wire, result, read>>
     ELSE /\ result' = Decode(lib, name, wire)
          /\ IF result'.ok
             THEN /\ read' = Append(read, result'.value)
                  /\ wire' = SubSeq(wire, result'.consumed + 1, Len(wire))
                  /\ UNCHANGED <<stage, value>>
             ELSE stage' = "unverified" /\ UNCHANGED <<value, wire, read>>
  /\ UNCHANGED <<lib, name, sent, sinkVars, shipped>>

Ended ==
  /\ stage \in {"refused", "failed", "decoded", "verified", "cut", "unverified"}
  /\ UNCHANGED vars

Init == Uncalled /\ Sink!Opened /\ shipped = <<>> /\ read = <<>>
Next == Calls \/ Ships \/ SinkEnds \/ Extracts \/ Verifies \/ Ended
Spec == Init /\ [][Next]_vars

-----------------------------------------------------------------------------
(* Properties; those of one call are in Codec *)

\* Both checksums of every datagram are right for a receiver (Ipv4Udp).
ChecksumsVerify == Sink!ChecksumsVerify

\* What verify reads from a file is what was encoded, unit by unit and in order:
\* all of it when the sink was closed.  A file that a crash has cut is refused,
\* or read as the units that were put out first; no cut is ever read as data.
FileReadsBack ==
  LET written == [i \in DOMAIN shipped |-> Derived(lib, name, shipped[i])] IN
  (\A i \in DOMAIN shipped : Fits(lib, name, shipped[i])) =>
    /\ IsPrefix(read, written)
    /\ stage # "unverified"
    /\ stage = "verified" /\ phase = "closed" => read = written
    /\ stage = "cut" => phase = "crashed"
=============================================================================
