---- MODULE CommandLine ----
(* The command line of atsc3_gw as far as it shapes packets: which            *)
(* combinations of options main refuses (exit code 2), and the encoder        *)
(* configuration it makes of the others (gw/main.cc).  An option record o has *)
(*   flags       the switches given, under the names the encoder's            *)
(*               configuration uses, and "extension", "tsi", "toi",           *)
(*               "codepoint" (one other than 0)                               *)
(*   payload_type, message_id, fragment_type, aggregations, wide, timed,      *)
(*   gfd_reserved                                                             *)
(*   ext_list    the sizes of the --mmtp-extension values (<<>>: not given)   *)
(*   ext_hex     the size of --mmtp-extension-hex                             *)
(*   sig_hex, iso_hex   the sizes of the --mmtp-X-aggregate-hex values        *)
(*   rows        the --mmtp-si-pa-table-row values                            *)
(*   bad         the groups of options with a value that is out of range or   *)
(*               does not parse                                               *)
(* aggregations is the subset of {"sig", "iso"} whose switch is on.           *)
EXTENDS EncoderPipeline

\* A switch refused unless another one is on.
Needs(o, flag, others) == flag \in o.flags => others \subseteq o.flags
\* Values looked at only under a switch.
Sound(o, flag, group) == flag \in o.flags => group \notin o.bad
Apart(o, flag, other) == ~({flag, other} \subseteq o.flags)

PrependFlags ==
    {"lct", "word0", "ts_psn", "counter", "signalling", "isobmff", "gfd", "du_header",
     "message", "envelope", "loop", "pa"}
TableBodies == {"mpt_table_body", "plt_table_body"}

Switches ==
    PrependFlags \cup TableBodies \cup Layouts \cup {"extension", "tsi", "toi", "codepoint"}

\* numbers are unsigned, values are given by their sizes
Options ==
    [flags : SUBSET Switches, payload_type : Nat, message_id : Nat, fragment_type : Nat,
     aggregations : SUBSET {"sig", "iso"}, wide : BOOLEAN, timed : BOOLEAN, gfd_reserved : Nat,
     ext_list : Seq(Nat), ext_hex : Nat, sig_hex : Seq(Nat), iso_hex : Seq(Nat),
     rows : Seq([id : Nat, length : Nat]), bad : SUBSET STRING]

\* the defaults of the options
NoOptions ==
    [flags |-> {}, payload_type |-> 2, message_id |-> 0, fragment_type |-> 0,
     aggregations |-> {}, wide |-> FALSE, timed |-> FALSE, gfd_reserved |-> 0,
     ext_list |-> <<>>, ext_hex |-> 0, sig_hex |-> <<>>, iso_hex |-> <<>>, rows |-> <<>>,
     bad |-> {}]

----
(* What is refused, in the order of the checks *)

LctAccepted(o) ==
    \A flag \in {"codepoint", "tsi", "toi"} : Needs(o, flag, {"lct"})

HeaderAccepted(o) ==
    /\ "word0" \in o.flags => o.payload_type <= 63
    /\ {"isobmff", "word0"} \subseteq o.flags => o.payload_type = 0
    /\ {"gfd", "word0"} \subseteq o.flags => o.payload_type = 1
    /\ Sound(o, "word0", "packet_id")
    /\ Needs(o, "ts_psn", {"word0"})
    /\ Needs(o, "counter", {"ts_psn", "word0"})
    /\ Needs(o, "extension", {"word0"})
    /\ Sound(o, "extension", "extension_type")
    /\ o.ext_list # <<>> => "extension" \in o.flags

SignallingAccepted(o) == Needs(o, "signalling", {"word0"}) /\ Sound(o, "signalling", "signalling")

ModesAccepted(o) ==
    /\ Needs(o, "isobmff", {"word0"})
    /\ Apart(o, "isobmff", "signalling")
    /\ Needs(o, "gfd", {"word0"})
    /\ Apart(o, "gfd", "signalling")
    /\ Apart(o, "gfd", "isobmff")

GfdAccepted(o) == "gfd" \in o.flags => "gfd" \notin o.bad /\ o.gfd_reserved <= 31

IsobmffAccepted(o) ==
    /\ "isobmff" \in o.flags =>
          /\ "isobmff" \notin o.bad
          /\ o.fragment_type <= 15
          /\ "iso" \in o.aggregations => o.iso_hex # <<>>
    /\ o.iso_hex # <<>> => "isobmff" \in o.flags /\ "iso" \in o.aggregations

DuHeaderAccepted(o) ==
    "du_header" \in o.flags =>
        /\ "isobmff" \in o.flags
        /\ o.fragment_type = 2
        /\ "du_header" \notin o.bad

BodiesAccepted(o) ==
    o.sig_hex # <<>> => "signalling" \in o.flags /\ "sig" \in o.aggregations

\* Mutant of SuffixAccepted: the check of the aggregation is left out.
SuffixAcceptedAggregated(o, flag) ==
    flag \in o.flags => {"signalling", "word0"} \subseteq o.flags /\ o.payload_type = 2

\* the four checks each of the envelope, the loop, the message header, the PA index
SuffixAccepted(o, flag) ==
    flag \in o.flags =>
        /\ {"signalling", "word0"} \subseteq o.flags
        /\ o.payload_type = 2
        /\ "sig" \notin o.aggregations

MessageAccepted(o) == SuffixAccepted(o, "message") /\ "message" \notin o.bad

PaAccepted(o) ==
    /\ o.rows # <<>> => "pa" \in o.flags
    /\ "pa" \in o.flags => "message" \in o.flags /\ o.message_id = 0
    /\ SuffixAccepted(o, "pa")

TablesAccepted(o) ==
    /\ Apart(o, "mpt_table_body", "plt_table_body")
    /\ \A body \in TableBodies : Needs(o, body, {"signalling"})

LayoutsAccepted(o) == BodyRequired(o.flags) /\ ~Excluded(MainExcludes, o.flags)

\* Tokens are parsed after the combinations have been accepted.
TokensAccepted(o) ==
    /\ Sound(o, "pa", "pa_row")
    /\ "extension" \in o.flags =>
          IF o.ext_list = <<>> THEN "ext_hex" \notin o.bad ELSE "ext_list" \notin o.bad
    /\ Sound(o, "signalling", "sig_hex")
    /\ Sound(o, "isobmff", "iso_hex")
    /\ "codepoint" \notin o.bad

Accepted(o) ==
    /\ LctAccepted(o)
    /\ HeaderAccepted(o)
    /\ SignallingAccepted(o)
    /\ ModesAccepted(o)
    /\ GfdAccepted(o)
    /\ IsobmffAccepted(o)
    /\ DuHeaderAccepted(o)
    /\ BodiesAccepted(o)
    /\ SuffixAccepted(o, "envelope")
    /\ SuffixAccepted(o, "loop")
    /\ MessageAccepted(o)
    /\ PaAccepted(o)
    /\ TablesAccepted(o)
    /\ LayoutsAccepted(o)
    /\ TokensAccepted(o)

----
(* The configuration made of what is accepted *)

LctConfig(o) ==
    [tsi |-> "tsi" \in o.flags,
     toi |-> "toi" \in o.flags,
     words |-> 1 + Cardinality({"tsi", "toi"} \cap o.flags)]

Extensions(o) ==
    IF "extension" \notin o.flags THEN <<>>
    ELSE IF o.ext_list # <<>> THEN o.ext_list ELSE <<o.ext_hex>>

SignallingFlags == {"signalling"} \cup SiSuffix \cup TableBodies \cup Layouts
HeaderFlags == {"word0", "ts_psn", "counter"}

\* the branch taken under the MMTP header, and the switches it hands over
ModeFlags(o) ==
    CASE "signalling" \in o.flags -> SignallingFlags
      [] "signalling" \notin o.flags /\ "isobmff" \in o.flags -> {"isobmff", "du_header"}
      [] o.flags \cap {"signalling", "isobmff"} = {} /\ "gfd" \in o.flags -> {"gfd"}
      [] OTHER -> {}

ConfigFlags(o) ==
    ({"lct"} \cup (IF "word0" \in o.flags THEN HeaderFlags \cup ModeFlags(o) ELSE {}))
    \cap o.flags

Config(o) ==
    LET flags == ConfigFlags(o)
        Taken(flag, bodies) == IF flag \in flags THEN bodies ELSE <<>>
    IN  [flags |-> flags,
         payload_type |-> o.payload_type,
         extensions |-> IF "word0" \in flags THEN Extensions(o) ELSE <<>>,
         rows |-> Taken("pa", o.rows),
         message_id |-> o.message_id,
         sig |-> [aggregation |-> "signalling" \in flags /\ "sig" \in o.aggregations,
                  wide |-> o.wide, bodies |-> Taken("signalling", o.sig_hex)],
         iso |-> [aggregation |-> "isobmff" \in flags /\ "iso" \in o.aggregations,
                  timed |-> o.timed, fragment_type |-> o.fragment_type,
                  bodies |-> Taken("isobmff", o.iso_hex)],
         gfd_reserved |-> o.gfd_reserved,
         lct |-> LctConfig(o)]

LayoutsOn(flags) == flags \cap Layouts

\* cfg has all that o asks for, and is consistent in itself.
Honours(cfg, o) ==
    /\ o.flags \cap (PrependFlags \cup TableBodies \cup Layouts) \subseteq cfg.flags
    /\ "extension" \in o.flags <=> cfg.extensions # <<>>
    /\ <<cfg.rows, cfg.sig.bodies, cfg.iso.bodies>> = <<o.rows, o.sig_hex, o.iso_hex>>
    /\ cfg.sig.bodies # <<>> => cfg.sig.aggregation
    /\ cfg.iso.bodies # <<>> <=> cfg.iso.aggregation
    /\ On(cfg, "pa") => On(cfg, "message") /\ cfg.message_id = 0
    /\ Cardinality(LayoutsOn(cfg.flags)) <= 1 =>
          /\ PrefixesAgree(cfg) /\ SuffixAgrees(cfg) /\ LayoutsAgree(cfg)
          /\ LctKnown(cfg)

====
