------------------------------ MODULE Ipv4Udp ------------------------------
(***************************************************************************)
(* The ipv4udp-file sink, octet by octet: each frame becomes an IPv4 and   *)
(* UDP datagram (encapsulate_ipv4_udp), the datagrams stand in the file    *)
(* one behind the other, and tools/m8_bin_to_pcap.py takes them apart by   *)
(* their length fields.  A crash leaves what the stream had put out: the   *)
(* file is then cut anywhere.                                              *)
(***************************************************************************)
EXTENDS Integers, Sequences, SequencesExt

CONSTANTS Flows,       \* addresses (4 octets), ports and ttl of a sink
          Limit,       \* octets encapsulate_ipv4_udp takes (65000)
          MaxWrites

VARIABLES flow,    \* the members of the sink made from the URI
          ident,   \* _ident
          units,   \* the datagrams handed to the stream, oldest first
          file,    \* what the file holds in the end
          phase    \* the sink is open, closed, or was lost in a crash

-----------------------------------------------------------------------------
(* ipv4_udp.cc *)

\* put_be16, of a value cut to 16 bits; be16_load
Be16(v) == <<(v \div 256) % 256, v % 256>>
Load16(octets, at) == 256 * octets[at] + octets[at + 1]

\* fold32: a second turn of its loop leaves no carry of a 32-bit sum.
FoldOnce(sum) == (sum % 65536) + (sum \div 65536)
Fold(sum) == FoldOnce(FoldOnce(sum))

\* Mutant of OnesComplementSum: the carry is lost.
CarryLost(octets) ==
  LET words[i \in 0..Len(octets) \div 2] ==
        IF i = 0 THEN 0 ELSE (words[i - 1] + Load16(octets, 2 * i - 1)) % 65536
      even == words[Len(octets) \div 2]
  IN 65535 - (IF Len(octets) % 2 = 0 THEN even ELSE (even + 256 * Last(octets)) % 65536)

OnesComplementSum(octets) ==
  LET words[i \in 0..Len(octets) \div 2] ==
        IF i = 0 THEN 0 ELSE Fold(words[i - 1] + Load16(octets, 2 * i - 1))
      even == words[Len(octets) \div 2]
  IN 65535 - (IF Len(octets) % 2 = 0 THEN even ELSE Fold(even + 256 * Last(octets)))

\* The first 20 octets: version and length, total length, identification, DF,
\* ttl, UDP, checksum, addresses.
IpHeader(f, id, total, csum) ==
  <<69, 0>> \o Be16(total) \o Be16(id) \o <<64, 0>> \o <<f.ttl, 17>>
  \o Be16(csum) \o f.src \o f.dst

UdpHeader(f, len, csum) == Be16(f.srcport) \o Be16(f.dstport) \o Be16(len) \o Be16(csum)

\* What the UDP checksum is computed over.
Pseudo(f, len) == f.src \o f.dst \o <<0, 17>> \o Be16(len)

Padded(payload) == IF Len(payload) % 2 = 0 THEN payload ELSE Append(payload, 0)

UdpChecksum(f, payload) ==
  LET len == 8 + Len(payload)
      sum == OnesComplementSum(Pseudo(f, len) \o UdpHeader(f, len, 0) \o Padded(payload))
  IN IF sum = 0 THEN 65535 ELSE sum

\* Mutant of TotalLength: the UDP header is forgotten.
TotalWithoutUdp(payload) == 20 + Len(payload)

TotalLength(payload) == 20 + 8 + Len(payload)

\* encapsulate_ipv4_udp: empty if the payload is too large.
Encapsulate(f, id, payload) ==
  IF Len(payload) > Limit THEN <<>>
  ELSE LET total == TotalLength(payload) IN
       IpHeader(f, id, total, OnesComplementSum(IpHeader(f, id, total, 0)))
       \o UdpHeader(f, 8 + Len(payload), UdpChecksum(f, payload)) \o payload

-----------------------------------------------------------------------------
(* m8_bin_to_pcap.py: the datagrams of a file, or an error *)

Refused == [ok |-> FALSE, pkts |-> <<>>]

\* One turn of the loop of split_ipv4_chain
SplitTurn(data, s) ==
  LET ihl == 4 * (data[s.at + 1] % 16)
      total == Load16(data, s.at + 3)
  IN IF s.at + 20 > Len(data) \/ ~s.ok THEN s
     ELSE IF data[s.at + 1] \div 16 # 4 \/ ihl < 20 \/ total < ihl \/ s.at + total > Len(data)
     THEN [s EXCEPT !.ok = FALSE]
     ELSE [s EXCEPT !.at = @ + total,
                    !.pkts = Append(@, SubSeq(data, s.at + 1, s.at + total))]

\* A turn that does not fail takes 20 octets at least.
Split(data) ==
  LET turns[i \in 0..Len(data) \div 20] ==
        IF i = 0 THEN [at |-> 0, pkts |-> <<>>, ok |-> TRUE]
        ELSE SplitTurn(data, turns[i - 1])
      last == turns[Len(data) \div 20]
  IN IF last.ok /\ last.at = Len(data) THEN [ok |-> TRUE, pkts |-> last.pkts] ELSE Refused

\* concat_udp_payloads, of one datagram
Extract(pkt) ==
  LET ihl == 4 * (pkt[1] % 16)
      inside == Load16(pkt, 3) - ihl
      udp == Load16(pkt, ihl + 5)
  IN IF /\ Len(pkt) >= ihl + 8 /\ pkt[10] = 17
        /\ inside >= 8 /\ udp = inside /\ ihl + udp = Len(pkt)
     THEN [ok |-> TRUE, payload |-> SubSeq(pkt, ihl + 9, ihl + udp)]
     ELSE [ok |-> FALSE, payload |-> <<>>]

\* --extract-tlvmux: the payloads of all datagrams, one behind the other.
ExtractAll(data) ==
  LET s == Split(data)
      es == [i \in DOMAIN s.pkts |-> Extract(s.pkts[i])]
  IN IF s.ok /\ \A i \in DOMAIN es : es[i].ok
     THEN [ok |-> TRUE, payload |-> FlattenSeq([i \in DOMAIN es |-> es[i].payload])]
     ELSE [ok |-> FALSE, payload |-> <<>>]

-----------------------------------------------------------------------------
(* ipv4udp_file_sink *)

\* write: the identification is used up also if the frame is refused.
Writes(frame) ==
  /\ phase = "open" /\ ident < MaxWrites
  /\ ident' = (ident + 1) % 65536
  /\ LET wire == Encapsulate(flow, ident, frame) IN
     units' = IF wire = <<>> THEN units ELSE Append(units, wire)
  /\ UNCHANGED <<flow, file, phase>>

\* flush and close: all of the stream is in the file.
Closes ==
  /\ phase = "open"
  /\ phase' = "closed"
  /\ file' = FlattenSeq(units)
  /\ UNCHANGED <<flow, ident, units>>

\* The process crashes: any part of the stream may still have been in it.
Crashes ==
  /\ phase = "open"
  /\ phase' = "crashed"
  /\ LET all == FlattenSeq(units) IN
     \E n \in 0..Len(all) : file' = SubSeq(all, 1, n)
  /\ UNCHANGED <<flow, ident, units>>

Opened ==
  /\ flow \in Flows /\ ident = 0 /\ phase = "open"
  /\ units = <<>> /\ file = <<>>

-----------------------------------------------------------------------------
(* Properties *)

\* What a receiver checks: the 16-bit words add up to a multiple of 65535.
AddsUp(octets) ==
  LET even == IF Len(octets) % 2 = 0 THEN octets ELSE Append(octets, 0)
      sum[i \in 0..Len(even) \div 2] ==
        IF i = 0 THEN 0 ELSE sum[i - 1] + Load16(even, 2 * i - 1)
  IN sum[Len(even) \div 2] % 65535 = 0

\* Both checksums of every datagram are right for a receiver, for payloads of odd
\* length, sums that carry, and the sum whose complement is 0; and none says 0,
\* which means "no checksum" (ipv4_udp.cc computes them folding as it adds, no
\* test checks the UDP one).
ChecksumsVerify ==
  \A i \in DOMAIN units :
    LET u == units[i] IN
    /\ AddsUp(SubSeq(u, 1, 20))
    /\ AddsUp(Pseudo(flow, Len(u) - 20) \o SubSeq(u, 21, Len(u)))
    /\ Load16(u, 27) # 0
=============================================================================
