----------------------------- MODULE MCLabFile -----------------------------
(* Small descriptions after those of protocol/ (tlv_mux; alp, whose length   *)
(* spans octets; mmtp_desc and its loop; a header alone and a frame of       *)
(* these), bits no field covers, an enum wider than an octet, and one breach *)
(* of each check of the linter.  Sums of size_t wrap at 65539: a header of 3 *)
(* octets is the longest whose length of 16 bits cannot make one wrap, and   *)
(* those of Wide, of 5, can.  Two flows: that of the unit test, and one whose *)
(* ports make a UDP sum 0, which is sent as 65535.                           *)
EXTENDS LabFile

F(n, off, width, type) == [name |-> n, off |-> off, width |-> width, type |-> type]
Doc(bits, fields, trailer, length, element) ==
  [bits |-> bits, fields |-> fields, trailer |-> trailer,
   length |-> length, element |-> element]
Alone(doc) == [unit |-> doc]
Framed(doc, frame) == [unit |-> doc, frame |-> frame]

TlvMux == Doc(24, <<F("type", 0, 8, "enum"), F("length", 8, 16, "uint")>>,
              "payload", "length", "")
Alp == Doc(16, <<F("type", 0, 3, "enum"), F("config", 3, 1, "bool"),
                 F("mode", 4, 1, "bool"), F("length", 5, 11, "uint")>>,
           "payload", "length", "")
Fixed == Doc(16, <<F("flag", 15, 1, "bool"), F("kind", 0, 15, "uint")>>, "none", "", "")
Desc == Doc(16, <<F("tag", 0, 8, "uint"), F("length", 8, 8, "uint")>>,
            "payload", "length", "")
Gap == Doc(16, <<F("kind", 0, 6, "uint"), F("length", 7, 9, "uint")>>,
           "payload", "length", "")
WideEnum == Doc(16, <<F("type", 0, 9, "enum"), F("length", 9, 7, "uint")>>,
                "payload", "length", "")
Loop == Doc(16, <<F("length", 0, 16, "uint")>>, "repeated", "length", "unit")
Frame == Doc(24, <<F("version", 0, 8, "uint"), F("length", 8, 16, "uint")>>,
             "repeated", "length", "unit")
Wide == Doc(40, <<F("kind", 0, 8, "uint"), F("tag", 8, 16, "uint"),
                  F("length", 24, 16, "uint")>>, "payload", "length", "")
WideFlag == [Wide EXCEPT !.fields = <<F("flag", 7, 1, "bool"), F("length", 24, 16, "uint")>>]
WideLoop == [WideFlag EXCEPT !.trailer = "repeated", !.element = "unit"]

MCLibraries ==
  {[tlv_mux |-> TlvMux]}
  \cup {Alone(d) : d \in {Alp, Gap, WideEnum, Wide}}
  \cup {Framed(Desc, Loop), Framed(Fixed, Frame), Framed(WideFlag, Loop), Framed(Fixed, WideLoop)}
  \cup {Alone(d) : d \in
         {[Fixed EXCEPT !.fields[1].off = 14],                       \* overlap
          [Fixed EXCEPT !.fields[1].name = "kind"],                  \* name twice
          [Fixed EXCEPT !.fields[1].off = 16],                       \* out of range
          [Fixed EXCEPT !.fields[2].off = -1],
          [Fixed EXCEPT !.fields[2].type = "unknown"],
          [Fixed EXCEPT !.fields[2].type = "bool"],
          [Fixed EXCEPT !.bits = 17],                                \* no whole octets
          [Alp EXCEPT !.length = "size"],
          [Alp EXCEPT !.trailer = "both"]}}
  \cup {Framed(Desc, [Loop EXCEPT !.element = "packet"])}

MCSamples == {0, 1, 2, 4, 255, 256, 2048}
MCWires == BoundedSeq({0, 1, 2, 129, 255}, 4)
             \cup {<<0, 4>> \o w : w \in [1..4 -> {0, 1, 2}]}
             \cup {<<0, 0, 0, 255, 254>>, <<0, 0, 0, 255, 255>>,  \* sums 0 and 1
                   <<0, 5, 0, 0, 0, 255, 254>>}
MCTails == {<<>>, <<1>>, <<255, 0, 2>>}

Flow(srcport, ttl) == [src |-> <<10, 0, 0, 2>>, dst |-> <<224, 0, 23, 60>>,
                       srcport |-> srcport, dstport |-> 4937, ttl |-> ttl]
MCFlows == {Flow(49152, 32), Flow(60240, 64)}
=============================================================================
