---- MODULE Probe ----
(* mmt_probe verify (mmt_probe/main.cc): the other end of the lab.  It takes  *)
(* the octets a sink has written for a sequence of TLV-mux packets and peels  *)
(* off each what its --strip-* options name; what is left must be the payload *)
(* that --expected-payloads gives.  The options are a record s:               *)
(*   flags        the strips, and "table" (the fields of an MMT table are     *)
(*                given)                                                      *)
(*   type         --expect-mmtp-payload-type (NoType: not given)              *)
(*   extensions, bodies   how many extensions, aggregated signalling bodies   *)
(*   units        the sizes given with --expect-mmtp-isobmff-aggregate-hex    *)
(* The values of header fields are not modelled: taking one header for        *)
(* another of the same size fails.                                            *)
EXTENDS CommandLine, ProbeTables

NoType == 64     \* no payload_type has this value
ExtensionsMax == 32
BodiesMax == 256

SiStrips == {"message", "envelope", "loop", "pa"}

----
(* Options refused (exit code 2) *)

HeaderStripsAgree(s) ==
    /\ s.type # NoType => "word0" \in s.flags
    /\ "ts_psn" \in s.flags => "word0" \in s.flags
    /\ "counter" \in s.flags => {"ts_psn", "word0"} \subseteq s.flags
    /\ "extension" \in s.flags => "word0" \in s.flags /\ s.extensions \in 1..ExtensionsMax
    /\ s.extensions # 0 => "extension" \in s.flags

SignallingStripsAgree(s) ==
    /\ "signalling" \in s.flags => "word0" \in s.flags
    /\ s.bodies # 0 => "signalling" \in s.flags /\ s.bodies <= BodiesMax

SuffixStripsAgree(s) ==
    s.flags \cap SiStrips # {} =>
        /\ {"word0", "signalling"} \subseteq s.flags
        /\ s.bodies = 0
        /\ s.type = 2
        /\ s.flags \cap {"isobmff", "gfd"} = {}

ModeStripsAgree(s) ==
    /\ Cardinality(s.flags \cap {"signalling", "isobmff", "gfd"}) <= 1
    /\ "isobmff" \in s.flags => "word0" \in s.flags /\ s.type = 0
    /\ "gfd" \in s.flags => "word0" \in s.flags /\ s.type = 1
    /\ s.units # <<>> => "isobmff" \in s.flags
    /\ "du_header" \in s.flags => "isobmff" \in s.flags

StripsAgree(s) ==
    /\ HeaderStripsAgree(s)
    /\ SignallingStripsAgree(s)
    /\ SuffixStripsAgree(s)
    /\ ModeStripsAgree(s)

----
(* Peeling.  r.work is what is left of the packet, r.type the payload type    *)
(* read from word-0, r.ok whether verify has gone on so far.                  *)

Fail(r) == [r EXCEPT !.ok = FALSE]
Begins(r, kind) == r.work # <<>> /\ Head(r.work).kind = kind
Behind(r, n) == [r EXCEPT !.work = SubSeq(@, n + 1, Len(@))]

\* n headers of one kind, one after another
Peel(r, kind, n) ==
    IF n <= Len(r.work) /\ \A i \in 1..n : r.work[i].kind = kind THEN Behind(r, n) ELSE Fail(r)

\* a header, and of what follows it only the octets its length field covers
PeelCovering(r, kind) ==
    LET tail == Behind(r, 1).work
        Covered(k) == Octets(SubSeq(tail, 1, k)) = Head(r.work).says
        cuts == {k \in 0..Len(tail) : Covered(k)}
    IN  IF Begins(r, kind) /\ cuts # {}
        THEN [r EXCEPT !.work = SubSeq(tail, 1, Max(cuts))]
        ELSE Fail(r)

PeelWord0(s, r) ==
    IF ~Begins(r, "word0") \/ s.type \notin {NoType, Head(r.work).says} THEN Fail(r)
    ELSE [Behind(r, 1) EXCEPT !.type = Head(r.work).says]

PeelTsPsn(s, r) == Peel(r, "ts_psn", 1)
PeelCounter(s, r) == Peel(r, "counter", 1)
PeelExtension(s, r) == Peel(r, "extension", s.extensions)

PeelSignalling(s, r) ==
    IF Begins(r, "signalling") /\ (s.bodies # 0 => "A" \in Head(r.work).marks)
    THEN Peel(Behind(r, 1), "body", s.bodies)
    ELSE Fail(r)

PeelMessage(s, r) == IF r.type = 2 THEN PeelCovering(r, "message") ELSE Fail(r)
PeelEnvelope(s, r) == IF r.type = 2 THEN PeelCovering(r, "envelope") ELSE Fail(r)

\* what the loop covers must decode as descriptors
PeelLoop(s, r, p) ==
    LET inside == PeelCovering(r, "loop")
        form == IF Begins(inside, "pa") THEN "with_pa" ELSE "bare"
    IN  IF r.type = 2 /\ form \in p.loops THEN inside ELSE Fail(r)

PeelPa(s, r) == IF r.type = 2 THEN Peel(r, "pa", 1) ELSE Fail(r)

\* the table is read and left in place
ReadTable(s, r, p) ==
    IF p.table # NoTable /\ p.pa = 0 /\ r.work = <<Raw(p)>> /\ TableRead(p.table)
    THEN r ELSE Fail(r)

PeelGfd(s, r) == IF r.type = 1 THEN Peel(r, "gfd", 1) ELSE Fail(r)

\* the octets of the DU header in front of a data unit
DuHeaderStripped(s, timed) ==
    IF "du_header" \notin s.flags THEN 0 ELSE IF timed THEN 14 ELSE 4

\* The data units of an aggregate: those that are given, of the sizes given;
\* none given, everything that follows is taken for data units.
UnitsGiven(s, timed, work) ==
    /\ Len(s.units) <= Len(work)
    /\ \A i \in DOMAIN s.units : /\ work[i].kind = "du"
                                 /\ work[i].says = DuHeaderStripped(s, timed) + s.units[i]

PeelUnits(s, r, timed) ==
    IF s.units = <<>> THEN Peel(r, "du", Len(r.work))
    ELSE IF UnitsGiven(s, timed, r.work) THEN Behind(r, Len(s.units)) ELSE Fail(r)

PeelIsobmff(s, r) ==
    LET prefix == Head(r.work)
        tail == Behind(r, 1)
    IN  IF /\ Begins(r, "isobmff")
           /\ prefix.says = 6 + Octets(tail.work)
           /\ "du_header" \in s.flags => "2" \in prefix.marks
        THEN CASE "A" \in prefix.marks -> PeelUnits(s, tail, "T" \in prefix.marks)
               [] "A" \notin prefix.marks /\ s.units # <<>> -> Fail(r)
               [] OTHER -> IF "du_header" \in s.flags THEN Peel(tail, "du_header", 1) ELSE tail
        ELSE Fail(r)

PeelLct(s, r) == Peel(r, "lct", 1)

----
(* The strips in the order verify takes them *)

\* one step: skipped when its option is not given, or after a failure
Step(s, flag, r, peeled) == IF r.ok /\ flag \in s.flags THEN peeled ELSE r

HeaderPeeled(s, r0) ==
    LET r1 == Step(s, "word0", r0, PeelWord0(s, r0))
        r2 == Step(s, "ts_psn", r1, PeelTsPsn(s, r1))
        r3 == Step(s, "counter", r2, PeelCounter(s, r2))
    IN  Step(s, "extension", r3, PeelExtension(s, r3))

SignallingPeeled(s, r0, p) ==
    LET r1 == Step(s, "signalling", r0, PeelSignalling(s, r0))
        r2 == Step(s, "message", r1, PeelMessage(s, r1))
        r3 == Step(s, "envelope", r2, PeelEnvelope(s, r2))
        r4 == Step(s, "loop", r3, PeelLoop(s, r3, p))
        r5 == Step(s, "pa", r4, PeelPa(s, r4))
    IN  Step(s, "table", r5, ReadTable(s, r5, p))

PayloadPeeled(s, r0) ==
    LET r1 == Step(s, "gfd", r0, PeelGfd(s, r0))
        r2 == Step(s, "isobmff", r1, PeelIsobmff(s, r1))
    IN  Step(s, "lct", r2, PeelLct(s, r2))

\* TLV-mux and ALP give the octets their length fields cover, and what follows
\* is the next packet.
Opens(packet) ==
    /\ packet[1].says = Octets(Tail(packet))
    /\ packet[2].says = Octets(Behind([work |-> packet], 2).work)

PacketVerifies(s, packet, p) ==
    LET r0 == [ok |-> TRUE, type |-> NoType, work |-> SubSeq(packet, 3, Len(packet))]
        r == PayloadPeeled(s, SignallingPeeled(s, HeaderPeeled(s, r0), p))
    IN  Opens(packet) /\ r.ok /\ r.work = <<Raw(p)>>

\* no packet too many and none too few
Verifies(s, packets, payloads) ==
    /\ StripsAgree(s)
    /\ Len(packets) = Len(payloads)
    /\ \A i \in DOMAIN packets : PacketVerifies(s, packets[i], payloads[i])

----
(* The strips that undo a configuration, as the lab's scripts pair them.  An  *)
(* LCT header behind the signalling suffix is outside every length, so that   *)
(* the suffix's strips drop it.                                               *)

Undoing(cfg) ==
    LET suffix == OnAny(cfg, SiSuffix)
        given == cfg.flags \cap (HeaderFlags \cup SiStrips
                                 \cup {"signalling", "isobmff", "du_header", "gfd"})
    IN  [flags |-> given
                   \cup {f \in {"extension"} : cfg.extensions # <<>>}
                   \cup {f \in {"lct"} : On(cfg, "lct") /\ ~suffix},
         type |-> IF On(cfg, "word0") THEN cfg.payload_type ELSE NoType,
         extensions |-> Len(cfg.extensions),
         bodies |-> Len(cfg.sig.bodies),
         units |-> cfg.iso.bodies]

\* The gateway has no limit to what it puts one behind the other; verify has.
WithinCounts(cfg) ==
    Len(cfg.extensions) <= ExtensionsMax /\ Len(cfg.sig.bodies) <= BodiesMax

ReadingTables(s) == [s EXCEPT !.flags = @ \cup {"table"}]

====
