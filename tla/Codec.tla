------------------------------- MODULE Codec -------------------------------
(***************************************************************************)
(* From the description of a protocol to octets and back: lint_protomap.py *)
(* says which descriptions are generated, the templates encoder.cc.j2 and  *)
(* decoder.cc.j2 become one encode and one decode per description, and     *)
(* these go through msb_bit_writer and msb_bit_reader (lib/runtime).       *)
(*                                                                         *)
(* A description is a record: the bits of its header, its fields (name,    *)
(* first bit, width, type) in order, and its trailer: none, a payload, or  *)
(* repeated elements of another protocol, with the field that holds its    *)
(* length.  A decoded_t is a record: a value for each field, the payload,  *)
(* the elements.  A field of type "unknown" is one whose type, or whose    *)
(* enum, is not defined.                                                   *)
(*                                                                         *)
(* In protocol/ no element has elements of its own, and no field is wider  *)
(* than the 64 bits of the runtime: CodecAssumption.  A length field may   *)
(* be so wide that decode's sum of header and length wraps in size_t;      *)
(* Narrow is where it cannot.  "Alone" is said of units without elements.  *)
(***************************************************************************)
EXTENDS Integers, Sequences, FiniteSets, SequencesExt

CONSTANTS Libraries,        \* sets of descriptions: functions from names
          Samples,          \* values a member may be given
          Octets,           \* octets of a payload that is encoded
          MaxPayload,       \* their greatest number
          MaxElements,      \* the greatest number of elements encoded
          Wires,            \* inputs of decode that no encode has made
          Tails,            \* what may follow a unit in an input
          SizeT             \* the number of values of a std::size_t, 2^64

Octet == 0..255

FieldDescr == [name : STRING, off : Int, width : Int, type : STRING]
Description ==
  [bits : Int, fields : Seq(FieldDescr),
   trailer : {"none", "payload", "repeated", "both"},
   length : STRING, element : STRING]

\* The bit reader and writer say "width (1..64)", and the linter does not ask.
WithinRuntime(doc) == \A i \in DOMAIN doc.fields : doc.fields[i].width <= 64

ASSUME CodecAssumption ==
  /\ MaxPayload \in Nat /\ MaxElements \in Nat /\ Samples \subseteq Nat
  /\ SizeT \in Nat \ {0}
  /\ Octets \subseteq Octet
  /\ Wires \subseteq Seq(Octet) /\ Tails \subseteq Seq(Octet)
  /\ \A l \in Libraries : \A p \in DOMAIN l :
       /\ l[p] \in Description /\ WithinRuntime(l[p])
       /\ l[p].bits < SizeT                    \* k_header_bits is a size_t
       /\ l[p].trailer = "repeated" /\ l[p].element \in DOMAIN l =>
            l[l[p].element].trailer # "repeated"

VARIABLES lib,     \* the descriptions given to codegen.py
          name,    \* the protocol in use
          stage,   \* what was done last
          value,   \* the decoded_t to be encoded, or decoded
          wire,    \* octets encoded, or given to decode
          sent,    \* the decoded_t that was encoded, or None
          result   \* what the last encode or decode returned

callVars == <<lib, name, stage, value, wire, sent, result>>

None == [fields |-> <<>>, payload |-> <<>>, elements |-> <<>>]
Failed(why) == [ok |-> FALSE, error |-> why]

Names(doc) == {doc.fields[i].name : i \in DOMAIN doc.fields}
FieldBits(f) == f.off..(f.off + f.width - 1)

-----------------------------------------------------------------------------
(* lint_protomap.py *)

\* Mutant of BitsFree: fields may overlap.
OverlapsPass(doc) == TRUE

\* No bit belongs to two fields, no name is used twice.
BitsFree(doc) ==
  \A i, j \in DOMAIN doc.fields : i # j =>
    /\ FieldBits(doc.fields[i]) \cap FieldBits(doc.fields[j]) = {}
    /\ doc.fields[i].name # doc.fields[j].name

\* Mutant of FieldFits: the range check is off by one.
FieldFitsByOne(doc, f) ==
  /\ f.off >= 0 /\ f.width > 0 /\ f.off + f.width <= doc.bits + 1
  /\ f.type \in {"uint", "bool", "enum"}
  /\ f.type = "bool" => f.width = 1

FieldFits(doc, f) ==
  /\ f.off >= 0 /\ f.width > 0 /\ f.off + f.width <= doc.bits
  /\ f.type \in {"uint", "bool", "enum"}
  /\ f.type = "bool" => f.width = 1

HeaderLints(doc) ==
  /\ doc.bits > 0 /\ doc.bits % 8 = 0
  /\ BitsFree(doc)
  /\ \A i \in DOMAIN doc.fields : FieldFits(doc, doc.fields[i])

\* The length of a trailer is a field; elements are of a known protocol.
TrailerLints(doc, known) ==
  CASE doc.trailer = "none"     -> TRUE
    [] doc.trailer = "payload"  -> doc.length \in Names(doc)
    [] doc.trailer = "repeated" -> doc.length \in Names(doc) /\ doc.element \in known
    [] doc.trailer = "both"     -> FALSE

Lints(doc, known) == HeaderLints(doc) /\ TrailerLints(doc, known)

-----------------------------------------------------------------------------
(* msb_bit_reader, msb_bit_writer *)

Pow2[n \in Nat] == IF n = 0 THEN 1 ELSE 2 * Pow2[n - 1]

Shift(bit) == 7 - (bit % 8)
BitAt(octets, bit) == (octets[bit \div 8 + 1] \div Pow2[Shift(bit)]) % 2

ReadBits(octets, off, width) ==
  LET v[i \in 0..width] ==
        IF i = 0 THEN 0 ELSE 2 * v[i - 1] + BitAt(octets, off + i - 1)
  IN v[width]

\* One bit is ORed in.
OrBit(octets, bit, b) ==
  IF b = 1 /\ BitAt(octets, bit) = 0
  THEN [octets EXCEPT ![bit \div 8 + 1] = @ + Pow2[Shift(bit)]]
  ELSE octets

\* The bits of v above width are ignored.
WriteBits(octets, off, width, v) ==
  LET out[i \in 0..width] ==
        IF i = 0 THEN octets
        ELSE OrBit(out[i - 1], off + i - 1, (v \div Pow2[width - i]) % 2)
  IN out[width]

-----------------------------------------------------------------------------
(* The members of decoded_t *)

\* c_uint_type; an enum class is one octet wide.
TypeOctets(f) ==
  CASE f.type # "uint" \/ f.width <= 8 -> 1
    [] f.type = "uint" /\ f.width \in 9..16 -> 2
    [] f.type = "uint" /\ f.width \in 17..32 -> 4
    [] f.type = "uint" /\ f.width > 32 -> 8

Member(f) == IF f.type = "bool" THEN {0, 1} ELSE 0..Pow2[8 * TypeOctets(f)] - 1

\* The static_cast of what was read to the type of the member.
Cast(f, v) == IF f.type = "bool" THEN v ELSE v % Pow2[8 * TypeOctets(f)]

HeaderOctets(doc) == (doc.bits + 7) \div 8

-----------------------------------------------------------------------------
(* encoder.cc.j2 *)

Zeros(n) == FlattenSeq([i \in 1..n |-> <<0>>])

\* The fields are written in order.
Header(doc, members) ==
  LET out[i \in 0..Len(doc.fields)] ==
        IF i = 0 THEN Zeros(HeaderOctets(doc))
        ELSE LET f == doc.fields[i]
             IN WriteBits(out[i - 1], f.off, f.width, members[f.name])
  IN out[Len(doc.fields)]

Bytes(octets) == [ok |-> TRUE, bytes |-> octets]

\* A payload must be as long as its member says.
EncodeAlone(doc, d) ==
  IF doc.trailer = "payload" /\ d.fields[doc.length] # Len(d.payload)
  THEN Failed("payload size")
  ELSE Bytes(Header(doc, d.fields) \o d.payload)

EncodedElements(l, p, d) ==
  [i \in DOMAIN d.elements |-> EncodeAlone(l[l[p].element], d.elements[i])]
Body(l, p, d) ==
  LET es == EncodedElements(l, p, d) IN FlattenSeq([i \in DOMAIN es |-> es[i].bytes])

\* In front of elements their length is written, whatever the member says.
Derived(l, p, d) ==
  IF l[p].trailer # "repeated" THEN d
  ELSE [d EXCEPT !.fields = [d.fields EXCEPT ![l[p].length] = Len(Body(l, p, d))]]

\* Elements must be as long as the member says, unless it says 0.
Encode(l, p, d) ==
  LET doc == l[p]
      es == EncodedElements(l, p, d)
      body == Body(l, p, d)
  IN IF doc.trailer # "repeated" THEN EncodeAlone(doc, d)
     ELSE IF \E i \in DOMAIN es : ~es[i].ok THEN Failed("element")
     ELSE IF d.fields[doc.length] \notin {0, Len(body)} THEN Failed("loop length")
     ELSE Bytes(Header(doc, Derived(l, p, d).fields) \o body)

-----------------------------------------------------------------------------
(* decoder.cc.j2 *)

Members(doc, octets) ==
  [n \in Names(doc) |->
     LET i == CHOOSE i \in DOMAIN doc.fields : doc.fields[i].name = n
         f == doc.fields[i]
     IN Cast(f, ReadBits(octets, f.off, f.width))]

Unit(members, payload, elements, consumed) ==
  [ok |-> TRUE, consumed |-> consumed,
   value |-> [fields |-> members, payload |-> payload, elements |-> elements]]

\* Mutant of SubInput: every element is decoded from the start of the loop.
SubInputFromStart(octets, off) == octets

\* The input left to the next element.
SubInput(octets, off) == SubSeq(octets, off + 1, Len(octets))

\* Mutant of Trailer: the trailer is taken to be all that follows the header.
TrailerToEnd(octets, head, len) == SubSeq(octets, head + 1, Len(octets))

\* The span of the trailer.  Of one that goes past the input, the octets that
\* are in the input.
Trailer(octets, head, len) ==
  SubSeq(octets, head + 1, IF head + len < Len(octets) THEN head + len ELSE Len(octets))

\* What the length field says; a description without a trailer has none.
Declared(doc, members) == IF doc.trailer = "none" THEN 0 ELSE members[doc.length]

\* Elements are taken for a payload here.  The sum is one of size_t: a length
\* field of 64 bits can bring it back to 0, and the span past the input.
DecodeAlone(doc, octets) ==
  LET head == HeaderOctets(doc)
      members == Members(doc, octets)
      len == Declared(doc, members)
      end == (head + len) % SizeT
  IN IF Len(octets) < head THEN Failed("short header")
     ELSE IF Len(octets) < end THEN Failed("short trailer")
     ELSE Unit(members, Trailer(octets, head, len), <<>>, end)

\* One turn of the loop over the elements of a trailer.
Turn(doc, octets, s) ==
  LET sub == DecodeAlone(doc, SubInput(octets, s.off)) IN
  IF s.off >= Len(octets) \/ s.why # "none" THEN s
  ELSE IF ~sub.ok THEN [s EXCEPT !.why = "element"]
  ELSE IF sub.consumed = 0 THEN [s EXCEPT !.why = "consumed nothing"]
  ELSE [s EXCEPT !.off = @ + sub.consumed, !.elements = Append(@, sub.value)]

\* A turn that does not fail takes one octet at least, and no more than there are.
Elements(doc, octets) ==
  LET turns[i \in 0..Len(octets)] ==
        IF i = 0 THEN [off |-> 0, elements |-> <<>>, why |-> "none"]
        ELSE Turn(doc, octets, turns[i - 1])
      last == turns[Len(octets)]
  IN IF last.why # "none" THEN Failed(last.why)
     ELSE IF last.off # Len(octets) THEN Failed("overran")
     ELSE [ok |-> TRUE, elements |-> last.elements]

\* The loop over a span that goes past the input reads what is there: what comes
\* of that is not followed.
Decode(l, p, octets) ==
  LET doc == l[p]
      unit == DecodeAlone(doc, octets)
      es == Elements(l[doc.element], unit.value.payload)
  IN IF doc.trailer # "repeated" \/ ~unit.ok THEN unit
     ELSE IF HeaderOctets(doc) + Declared(doc, unit.value.fields) >= SizeT
          THEN Failed("undefined")
     ELSE IF ~es.ok THEN es
     ELSE Unit(unit.value.fields, <<>>, es.elements, unit.consumed)

-----------------------------------------------------------------------------
(* What the program around them does *)

\* A member is given a sample that fits its field, or the first value that does
\* not, if its type holds one.
FieldValues(doc) ==
  LET Given(f) == {v \in Samples : v \in Member(f) /\ v <= Pow2[f.width]}
      all == {doc.fields[i] : i \in DOMAIN doc.fields}
  IN {m \in [Names(doc) -> UNION {Given(f) : f \in all}] : \A f \in all : m[f.name] \in Given(f)}

\* The values a caller may hand to encode.
ValuesAlone(doc) ==
  [fields : FieldValues(doc),
   payload : IF doc.trailer = "payload" THEN BoundedSeq(Octets, MaxPayload) ELSE {<<>>},
   elements : {<<>>}]
Values(l, p) ==
  IF l[p].trailer # "repeated" THEN ValuesAlone(l[p])
  ELSE [fields : FieldValues(l[p]), payload : {<<>>},
        elements : BoundedSeq(ValuesAlone(l[l[p].element]), MaxElements)]

\* Every bit of every field is in the octets of the header.
StaysInHeader(doc) ==
  \A i \in DOMAIN doc.fields : \A b \in FieldBits(doc.fields[i]) :
    b \div 8 \in 0..HeaderOctets(doc) - 1

\* What encode returns, of a description it can write, is in memory.
ASSUME MemoryAssumption ==
  \A l \in Libraries :
    (\A p \in DOMAIN l : Lints(l[p], DOMAIN l) /\ StaysInHeader(l[p])) =>
    \A p \in DOMAIN l : \A d \in Values(l, p) :
      Encode(l, p, d).ok => Len(Encode(l, p, d).bytes) < SizeT

\* codegen.py: every description has to pass before anything is generated.
Generates ==
  /\ stage = "described"
  /\ stage' = IF \A p \in DOMAIN lib : Lints(lib[p], DOMAIN lib)
              THEN "generated" ELSE "refused"
  /\ \E p \in DOMAIN lib : name' = p
  /\ UNCHANGED <<lib, value, wire, sent, result>>

Encodes ==
  /\ stage = "generated"
  /\ \E d \in Values(lib, name) :
       /\ value' = d
       /\ result' = Encode(lib, name, d)
       /\ IF result'.ok
          THEN stage' = "encoded" /\ wire' = result'.bytes /\ sent' = d
          ELSE stage' = "failed" /\ UNCHANGED <<wire, sent>>
  /\ UNCHANGED <<lib, name>>

\* An input comes from encode, with other units behind it, or from elsewhere.
Receives ==
  /\ \/ stage = "encoded" /\ \E t \in Tails : wire' = wire \o t
     \/ stage = "generated" /\ wire' \in Wires
  /\ stage' = "received"
  /\ UNCHANGED <<lib, name, value, sent, result>>

Decodes ==
  /\ stage = "received"
  /\ result' = Decode(lib, name, wire)
  /\ IF result'.ok THEN stage' = "decoded" /\ value' = result'.value
     ELSE stage' = "failed" /\ UNCHANGED value
  /\ UNCHANGED <<lib, name, wire, sent>>

Uncalled ==
  /\ lib \in Libraries /\ name = "" /\ stage = "described"
  /\ value = None /\ wire = <<>> /\ sent = None
  /\ result = Failed("not called")

-----------------------------------------------------------------------------
(* Properties *)

Accepted == stage \notin {"described", "refused"}

\* Encode cuts a value to its field, decode to the type of its member: a value
\* within both stays what it is.
FitsAlone(doc, members) ==
  \A i \in DOMAIN doc.fields :
    LET f == doc.fields[i] IN
    members[f.name] \in Member(f) /\ members[f.name] < Pow2[f.width]
Fits(l, p, d) ==
  /\ FitsAlone(l[p], Derived(l, p, d).fields)
  /\ \A i \in DOMAIN d.elements : FitsAlone(l[l[p].element], d.elements[i].fields)

\* For every description that the linter accepts: a unit whose values fit their
\* fields is decoded, with its payload and its elements, to what was encoded, and
\* takes the octets that encode made, whatever follows it.
EncodedReadsBack ==
  Accepted /\ sent # None /\ stage \in {"decoded", "failed"} /\ Fits(lib, name, sent) =>
    /\ stage = "decoded"
    /\ value = Derived(lib, name, sent)
    /\ result.consumed = Len(Encode(lib, name, sent).bytes)

\* A description of which no bit is lost: its fields cover the header (the linter
\* records the bits and does not ask for all of them), and enums hold an octet.
LosslessAlone(doc) ==
  /\ UNION {FieldBits(doc.fields[i]) : i \in DOMAIN doc.fields} = 0..(doc.bits - 1)
  /\ \A i \in DOMAIN doc.fields :
       doc.fields[i].type = "enum" => doc.fields[i].width <= 8
Lossless(l, p) ==
  LosslessAlone(l[p]) /\ (l[p].trailer = "repeated" => LosslessAlone(l[l[p].element]))

\* A description whose length field is too narrow to make the sum of the header
\* and the trailer wrap, as all of protocol/ are (the linter does not ask).
NarrowAlone(doc) ==
  doc.trailer # "none" =>
    \A i \in DOMAIN doc.fields : doc.fields[i].name = doc.length =>
      HeaderOctets(doc) + Pow2[doc.fields[i].width] <= SizeT
Narrow(l, p) ==
  NarrowAlone(l[p]) /\ (l[p].trailer = "repeated" => NarrowAlone(l[l[p].element]))

\* A unit that was decoded is encoded, as it is, to the octets it was decoded
\* from, if its description loses no bit and its length fields are narrow.
DecodedWritesBack ==
  Accepted /\ stage = "decoded" /\ Lossless(lib, name) /\ Narrow(lib, name) =>
    Encode(lib, name, value) = Bytes(SubSeq(wire, 1, result.consumed))

\* With length fields that are narrow, the checks at the end of the loop over
\* elements never fire: a unit of an accepted description takes one octet at
\* least, and never more than its input (so that the loop ends, and reads no octet
\* that belongs to another unit; verify loops over units in the same way, and
\* makes no such checks).
LoopEndsOnTime ==
  Accepted /\ Narrow(lib, name) =>
    /\ result.ok = FALSE => result.error \notin {"overran", "consumed nothing", "undefined"}
    /\ stage = "decoded" => result.consumed \in 1..Len(wire)
    /\ stage = "extracted" /\ "consumed" \in DOMAIN result => result.consumed > 0

\* The reader and the writer check no bounds; what the linter accepts lets them
\* touch only octets of the header that decode has looked for and encode has
\* made.
TouchesItsHeader == Accepted => \A p \in DOMAIN lib : StaysInHeader(lib[p])
=============================================================================
