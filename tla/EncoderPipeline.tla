---- MODULE EncoderPipeline ----
(* encoder_pipeline::encode of gw/encoder_pipeline.cc: one ingress payload    *)
(* becomes one TLV-mux packet, or an error.  A packet is a sequence of        *)
(* segments in wire order; a segment has a kind, its octets, what its length  *)
(* field says of the octets it covers (word-0: the payload type it gives), and*)
(* the flags it carries.                                                      *)
(*                                                                            *)
(* A configuration cfg has                                                    *)
(*   flags       the prepend_* and validate_mmt_si_* switches that are on     *)
(*   payload_type, extensions (the size of each value), rows (PA table rows)  *)
(*   message_id, sig (signalling prefix), iso (ISOBMFF prefix), gfd_reserved, *)
(*   lct (session and object identifier, header_length_words)                 *)
(* An ingress payload p has n octets; when it is a table, that table, and in  *)
(* front of it the pa octets of a PA index (0: none); p.loops tells in which  *)
(* forms ("bare", "with_pa": behind the PA index) its octets decode as a loop *)
(* of descriptors, which only the receiving end looks at.                     *)
EXTENDS LayoutPairs, SequencesExt

CONSTANT NoTable    \* the payload is not a table

AlpMax == 2047
TlvMax == 65535
U16(n) == n % 65536
U11(n) == n % 2048

SiSuffix == {"envelope", "loop", "message", "pa"}
On(cfg, flag) == flag \in cfg.flags
OnAny(cfg, flags) == flags \cap cfg.flags # {}

Seg(kind, octets, says, marks) ==
    [kind |-> kind, octets |-> octets, says |-> says, marks |-> marks]
Octets(wire) == SumFunction([i \in DOMAIN wire |-> wire[i].octets])
If(cond, wire) == IF cond THEN wire ELSE <<>>
\* a header in front of what its length field covers
Wrap(cond, kind, octets, inner) ==
    If(cond, <<Seg(kind, octets, Octets(inner), {})>>) \o inner

----
(* Configurations refused whatever the payload is *)

PrefixesAgree(cfg) ==
    /\ ~On(cfg, "word0") =>
          /\ ~OnAny(cfg, {"ts_psn", "counter", "signalling", "isobmff", "gfd"})
          /\ cfg.extensions = <<>>
    /\ ~({"isobmff", "signalling"} \subseteq cfg.flags)
    /\ ~({"gfd", "signalling"} \subseteq cfg.flags)
    /\ ~({"gfd", "isobmff"} \subseteq cfg.flags)
    /\ On(cfg, "isobmff") => cfg.payload_type = 0
    /\ On(cfg, "gfd") => cfg.payload_type = 1 /\ cfg.gfd_reserved <= 31
    /\ On(cfg, "du_header") => On(cfg, "isobmff") /\ cfg.iso.fragment_type = 2
    /\ On(cfg, "counter") => On(cfg, "ts_psn")

SuffixAgrees(cfg) ==
    OnAny(cfg, SiSuffix) =>
        /\ On(cfg, "signalling")
        /\ On(cfg, "word0")
        /\ cfg.payload_type = 2
        /\ ~cfg.sig.aggregation
        /\ cfg.sig.bodies = <<>>

LayoutsAgree(cfg) ==
    /\ ~({"mpt_table_body", "plt_table_body"} \subseteq cfg.flags)
    /\ BodyRequired(cfg.flags)
    /\ ~Excluded(EncoderExcludes, cfg.flags)

\* lab_lct_trailing_octets: 0 for a combination the lab does not know
LctOctets(cfg) ==
    CASE ~cfg.lct.tsi /\ ~cfg.lct.toi /\ cfg.lct.words = 1 -> 4
      [] cfg.lct.tsi /\ cfg.lct.toi /\ cfg.lct.words = 3 -> 12
      [] cfg.lct.tsi /\ ~cfg.lct.toi /\ cfg.lct.words = 2 -> 8
      [] ~cfg.lct.tsi /\ cfg.lct.toi /\ cfg.lct.words = 2 -> 8
      [] OTHER -> 0
LctKnown(cfg) == On(cfg, "lct") => LctOctets(cfg) > 0

----
(* Payloads refused *)

\* The table that the validation looks at: the whole payload; or, under a
\* message header that carries no PA index of the gateway's own, what follows
\* the payload's PA index.
TableOf(cfg, p) ==
    IF /\ p.table # NoTable
       /\ p.pa = 0 \/ (On(cfg, "message") /\ ~On(cfg, "pa"))
       /\ TableDecodes(p.table)
    THEN p.table ELSE NoTable

MptHolds(cfg, p) ==
    LET t == TableOf(cfg, p) IN
    /\ t # NoTable
    /\ t.table_id = MptTableId
    /\ MptLayoutsHold(cfg.flags, t)

PltHolds(cfg, p) ==
    LET t == TableOf(cfg, p) IN
    /\ t # NoTable
    /\ t.table_id = PltTableId
    /\ PltLayoutsHold(cfg.flags, t)

TablesHold(cfg, p) ==
    /\ On(cfg, "mpt_table_body") => MptHolds(cfg, p)
    /\ On(cfg, "plt_table_body") => PltHolds(cfg, p)

RowsTotal(rows) == SumFunction([i \in DOMAIN rows |-> rows[i].length])

\* the rows of the PA index against the table that follows it
RowsHold(cfg, p) ==
    LET rows == cfg.rows
        lengths == {rows[i].length : i \in DOMAIN rows}
    IN  On(cfg, "pa") =>
        /\ On(cfg, "message")
        /\ cfg.message_id = 0
        /\ Len(rows) \in 1..255
        /\ \A i \in DOMAIN rows :
              /\ \/ On(cfg, "mpt_table_body") /\ rows[i].id = MptTableId
                 \/ On(cfg, "plt_table_body") /\ rows[i].id = PltTableId
              => rows[i].length \in {0, p.n}
        /\ RowsTotal(rows) <= p.n
        /\ Len(rows) = 1 => rows[1].length \in {0, p.n}
        /\ Len(rows) > 1 /\ 0 \notin lengths => RowsTotal(rows) = p.n

----
(* What is put together *)

Raw(p) == Seg("payload", p.n, 0, {})

Word0(cfg) ==
    Seg("word0", 4, cfg.payload_type,
        {mark \in {"X"} : cfg.extensions # <<>>} \cup {mark \in {"C"} : On(cfg, "counter")})

Extension(n) == Seg("extension", 4 + n, U16(n), {})

SigBody(cfg, n) ==
    IF cfg.sig.wide THEN Seg("body", 4 + n, n, {}) ELSE Seg("body", 2 + n, U16(n), {})

MmtpHeader(cfg) ==
    IF ~On(cfg, "word0") THEN <<>>
    ELSE <<Word0(cfg)>>
         \o If(On(cfg, "ts_psn"), <<Seg("ts_psn", 8, 0, {})>>)
         \o If(On(cfg, "counter"), <<Seg("counter", 4, 0, {})>>)
         \o [i \in DOMAIN cfg.extensions |-> Extension(cfg.extensions[i])]

\* Mutant of SiBlob: the loop is put around the envelope.
SiBlobLoopOutside(cfg, p) ==
    LET pa == If(On(cfg, "pa"), <<Seg("pa", 3 + 4 * Len(cfg.rows), 0, {})>>) \o <<Raw(p)>>
        envelope == Wrap(On(cfg, "envelope"), "envelope", 4, pa)
        loop == Wrap(On(cfg, "loop"), "loop", 4, envelope)
    IN  Wrap(On(cfg, "message"), "message", 7, loop)

\* PA index, descriptor loop, envelope and message header, from the inside out
SiBlob(cfg, p) ==
    LET pa == If(On(cfg, "pa"), <<Seg("pa", 3 + 4 * Len(cfg.rows), 0, {})>>) \o <<Raw(p)>>
        loop == Wrap(On(cfg, "loop"), "loop", 4, pa)
        envelope == Wrap(On(cfg, "envelope"), "envelope", 4, loop)
    IN  Wrap(On(cfg, "message"), "message", 7, envelope)

SignallingFits(cfg) ==
    On(cfg, "signalling") =>
        /\ ~cfg.sig.aggregation => cfg.sig.bodies = <<>>
        /\ ~cfg.sig.wide => \A i \in DOMAIN cfg.sig.bodies : cfg.sig.bodies[i] <= 65535

Signalling(cfg) ==
    <<Seg("signalling", 2, 0, IF cfg.sig.aggregation THEN {"A"} ELSE {})>>
    \o [i \in DOMAIN cfg.sig.bodies |-> SigBody(cfg, cfg.sig.bodies[i])]

DuHeader(cfg) == IF ~On(cfg, "du_header") THEN 0 ELSE IF cfg.iso.timed THEN 14 ELSE 4

\* the data units of an aggregate, each behind its length and its DU header
UnitOctets(cfg) ==
    SumFunction([i \in DOMAIN cfg.iso.bodies |-> 2 + DuHeader(cfg) + cfg.iso.bodies[i]])

\* Mutant of IsobmffLength: the LCT header behind is forgotten.
IsobmffLengthWithoutLct(cfg, p) ==
    6 + p.n + (IF cfg.iso.aggregation THEN UnitOctets(cfg) ELSE DuHeader(cfg))

\* what payload_length_excluding_length_field is to cover: the lab's own sum
IsobmffLength(cfg, p) ==
    LET tail == (IF On(cfg, "lct") THEN LctOctets(cfg) ELSE 0) + p.n
    IN  6 + tail + (IF cfg.iso.aggregation THEN UnitOctets(cfg) ELSE DuHeader(cfg))

IsobmffFits(cfg, p) ==
    On(cfg, "isobmff") =>
        /\ cfg.iso.fragment_type <= 15
        /\ cfg.iso.aggregation <=> cfg.iso.bodies # <<>>
        /\ \A i \in DOMAIN cfg.iso.bodies : DuHeader(cfg) + cfg.iso.bodies[i] <= 65535
        /\ IsobmffLength(cfg, p) <= 65535

\* aggregated, timed, fragment type 2 (a data unit)
IsobmffMarks(cfg) ==
    {mark \in {"A"} : cfg.iso.aggregation}
    \cup {mark \in {"T"} : cfg.iso.timed}
    \cup {mark \in {"2"} : cfg.iso.fragment_type = 2}

Isobmff(cfg, p) ==
    <<Seg("isobmff", 8, U16(IsobmffLength(cfg, p)), IsobmffMarks(cfg))>>
    \o If(On(cfg, "du_header") /\ ~cfg.iso.aggregation,
          <<Seg("du_header", DuHeader(cfg), 0, {})>>)
    \o [i \in DOMAIN cfg.iso.bodies |->
           LET n == DuHeader(cfg) + cfg.iso.bodies[i] IN Seg("du", 2 + n, U16(n), {})]

MmtpPayload(cfg, p) ==
    CASE ~On(cfg, "word0") -> <<>>
      [] On(cfg, "signalling") ->
            Signalling(cfg) \o If(OnAny(cfg, SiSuffix), SiBlob(cfg, p))
      [] On(cfg, "isobmff") -> Isobmff(cfg, p)
      [] On(cfg, "gfd") -> <<Seg("gfd", 12, 0, {})>>
      [] OTHER -> <<>>

\* The LCT header follows the MMTP part, and the payload follows it, unless the
\* signalling suffix has taken the payload in already.
Body(cfg, p) ==
    MmtpHeader(cfg) \o MmtpPayload(cfg, p)
    \o If(On(cfg, "lct"), <<Seg("lct", LctOctets(cfg), 0, {})>>)
    \o If(~(On(cfg, "word0") /\ OnAny(cfg, SiSuffix)), <<Raw(p)>>)

Encodes(cfg, p) ==
    /\ PrefixesAgree(cfg)
    /\ SuffixAgrees(cfg)
    /\ LayoutsAgree(cfg)
    /\ TablesHold(cfg, p)
    /\ RowsHold(cfg, p)
    /\ SignallingFits(cfg)
    /\ LctKnown(cfg)
    /\ IsobmffFits(cfg, p)
    /\ Octets(Body(cfg, p)) <= AlpMax

Packet(cfg, p) ==
    LET body == Body(cfg, p)
        alp == <<Seg("alp", 2, U11(Octets(body)), {})>> \o body
    IN  <<Seg("tlv", 3, U16(Octets(alp)), {})>> \o alp

----
(* What the length fields of a packet have to say *)

\* An LCT header behind the signalling suffix is inside of nothing.
InsideOctets(wire) ==
    SumFunction([i \in DOMAIN wire |-> IF wire[i].kind = "lct" THEN 0 ELSE wire[i].octets])

\* the octets a segment's length field covers, of the segment and of those after
\* it: of the ISOBMFF prefix, also 6 octets of its own
CoveredOctets(cfg, segment, after) ==
    CASE segment.kind \in {"tlv", "alp"} -> Octets(after)
      [] segment.kind \in {"message", "envelope", "loop"} -> InsideOctets(after)
      [] segment.kind = "isobmff" -> 6 + Octets(after)
      [] segment.kind = "extension" -> segment.octets - 4
      [] segment.kind = "body" -> segment.octets - (IF cfg.sig.wide THEN 4 ELSE 2)
      [] segment.kind = "du" -> segment.octets - 2
LengthKinds ==
    {"tlv", "alp", "message", "envelope", "loop", "isobmff", "extension", "body", "du"}

LengthsExact(cfg, packet) ==
    \A i \in DOMAIN packet :
        packet[i].kind \in LengthKinds =>
            packet[i].says = CoveredOctets(cfg, packet[i], SubSeq(packet, i + 1, Len(packet)))

====
