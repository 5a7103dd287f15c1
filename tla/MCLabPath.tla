----------------------------- MODULE MCLabPath -----------------------------
(* Launches of the gateway, in families: every combination of the packet     *)
(* headers, the values that go with them, payloads at the limits, every      *)
(* table layout and every pair of them, every kind of sink, every way to      *)
(* start and to stop.  Where the end of the process is not what a family is   *)
(* about it ends early, in an admin listener that cannot read its key.       *)
EXTENDS LabPath

CONSTANTS s1, s2

MCShard == {s1, s2}

Sink(kind) == [scheme |-> kind, wrong |-> {}]
Launch(opts, uri, admin, shards, feed, most) ==
  [opts |-> opts, uri |-> uri, admin |-> admin, smp |-> shards, feed |-> feed, most |-> most]
Brief(opts, feed, most) == Launch(opts, Sink("null"), "bad_key_file", {s1}, feed, most)

----------------------------------------------------------------------------
(* Payloads *)

Plain(id, n) ==
  [id |-> id, n |-> n, table |-> NoTable, pa |-> 0, loops |-> {}, form |-> "plain", zip |-> n]
Descriptors == [Plain("descriptors", 12) EXCEPT !.loops = {"bare"}]
DescriptorsBehindPa == [Plain("after_pa", 12) EXCEPT !.loops = {"with_pa"}]
TablePayload(t) ==
  [Plain("table", TableHeader + t.octets) EXCEPT !.table = t, !.loops = {"bare"}]

Table(id, prefix, entries, deliveries, item, octets) ==
  [table_id |-> id, table_length |-> prefix + octets, octets |-> prefix + octets,
   entries |-> entries, deliveries |-> deliveries, item |-> item]

AssetItems ==
  {Named(id, item) : id \in {<<>>, Id8, Id16},
                     item \in {Bare, With(DeadBeef, Bare), At("packet_id"), At("ipv4"),
                               Lab("ipv4"), At("ipv6"), Lab("ipv6")}}
EntryItems ==
  {Named(id, item) : id \in {<<>>, Id8},
                     item \in {At("packet_id"), At("ipv4"), Lab("ipv4"), At("ipv6"), Lab("ipv6")}}
DeliveryItems ==
  {Bare, At("ipv4"), Lab("ipv4"), At("ipv6"), Lab("ipv6"), At("url"),
   With(<<108, 97, 98>>, At("url")), With(<<104, 116, 116, 112>>, At("url"))}

Mpts ==
  {Table(MptTableId, MptPrefix, 0, 0, Bare, 0),
   Table(MptTableId, MptPrefix, 2, 0, Bare, 0),
   Table(MptTableId, MptPrefix, 1, 0, Named(Id16, At("ipv6")), 50)}
  \cup {Table(MptTableId, MptPrefix, 1, 0, item, AssetOctets(item)) : item \in AssetItems}
Plts ==
  {Table(PltTableId, PltPrefix, 0, 0, Bare, 0), Table(PltTableId, PltPrefix, 1, 1, Bare, 0)}
  \cup {Table(PltTableId, PltPrefix, 1, 0, item, EntryOctets(item)) : item \in EntryItems}
  \cup {Table(PltTableId, PltPrefix, 0, 1, item, DeliveryOctets(item)) : item \in DeliveryItems}
Cut(t) == [t EXCEPT !.octets = @ - 1]
BehindPa(p) == [p EXCEPT !.pa = 7, !.n = @ + 7]
Tables == {TablePayload(t) : t \in Mpts \cup Plts}

MCFeeds ==
  [small |-> {Plain("small", 12)},
   headers |-> {Plain("small", 12), Descriptors, DescriptorsBehindPa},
   \* packets at the 2047 octets that ALP can say, and payloads too large for any
   limits |-> {Plain(n, n) : n \in {0, 2039, 2040, 2041, 2047, 2048, 65535}},
   tables |-> Tables \cup {TablePayload(Cut(t)) : t \in Mpts \cup Plts},
   behind_pa |-> {BehindPa(p) : p \in Tables},
   \* at the limits of the udp and the stltp sink, and of ALP
   datagrams |-> {Plain(n, n) : n \in {1282, 1283, 1395, 1396, 2048}},
   lls |-> {Plain("a", 40), Plain("b", 40), Plain("big", 65398),
            [Plain("g", 30) EXCEPT !.form = "gzip"], [Plain("r", 30) EXCEPT !.form = "ready"]}]

----------------------------------------------------------------------------
(* Every combination of the headers, with the values they require *)

HeaderOptions ==
  {[NoOptions EXCEPT !.flags = flags,
                     !.payload_type = IF "isobmff" \in flags THEN 0
                                      ELSE IF "gfd" \in flags THEN 1 ELSE 2,
                     !.fragment_type = IF "du_header" \in flags THEN 2 ELSE 0,
                     !.rows = IF "pa" \in flags THEN <<[id |-> 7, length |-> 0]>> ELSE <<>>] :
     flags \in SUBSET PrependFlags}

\* The same with other values: sessions, extensions, aggregates, PA rows, timed data units.
Valued(o) ==
  {[o EXCEPT !.flags = @ \cup session, !.timed = timed, !.wide = timed] :
     session \in SUBSET ({"tsi", "toi"} \cap (IF "lct" \in o.flags THEN {"tsi", "toi"} ELSE {})),
     timed \in BOOLEAN}
  \cup (IF "word0" \notin o.flags THEN {}
        ELSE {[o EXCEPT !.flags = @ \cup {"extension"}, !.ext_list = list, !.ext_hex = 3] :
                list \in {<<>>, <<2, 0>>}})
  \cup (IF "signalling" \notin o.flags THEN {}
        ELSE {[o EXCEPT !.sig_hex = hex, !.wide = wide, !.aggregations = {"sig"}] :
                hex \in {<<>>, <<5, 3>>}, wide \in BOOLEAN})
  \cup (IF "isobmff" \notin o.flags THEN {}
        ELSE {[o EXCEPT !.iso_hex = <<5, 3>>, !.timed = timed, !.aggregations = {"iso"}] :
                timed \in BOOLEAN})
  \cup (IF "pa" \notin o.flags THEN {}
        ELSE {[o EXCEPT !.rows = rows] :
                rows \in {<<>>, <<[id |-> 7, length |-> 9]>>,
                          <<[id |-> 7, length |-> 4], [id |-> 9, length |-> 8]>>}})

\* One value out of place in an otherwise accepted command line.
Spoilt ==
  LET lct == [NoOptions EXCEPT !.flags = {"lct"}]
      word0 == [NoOptions EXCEPT !.flags = {"word0"}]
      signalling == [word0 EXCEPT !.flags = @ \cup {"signalling"}]
      isobmff == [word0 EXCEPT !.flags = @ \cup {"isobmff"}, !.payload_type = 0]
      gfd == [word0 EXCEPT !.flags = @ \cup {"gfd"}, !.payload_type = 1]
  IN  {[NoOptions EXCEPT !.flags = {flag}] : flag \in {"tsi", "toi", "codepoint", "extension"}}
      \cup {[o EXCEPT !.bad = {group}] :
              o \in {lct, word0, signalling, isobmff, gfd},
              group \in {"packet_id", "codepoint", "signalling", "isobmff", "gfd", "sig_hex"}}
      \cup {[o EXCEPT !.payload_type = type] :
              o \in {word0, signalling, isobmff, gfd}, type \in {0, 1, 2, 64}}
      \cup {[isobmff EXCEPT !.fragment_type = 16], [gfd EXCEPT !.gfd_reserved = 32],
            [isobmff EXCEPT !.aggregations = {"iso"}], [isobmff EXCEPT !.iso_hex = <<1>>],
            [signalling EXCEPT !.sig_hex = <<1>>], [word0 EXCEPT !.sig_hex = <<1>>],
            [word0 EXCEPT !.aggregations = {"sig", "iso"}],
            [signalling EXCEPT !.flags = @ \cup {"message"}, !.aggregations = {"sig"}],
            [signalling EXCEPT !.flags = @ \cup {"message", "pa"}, !.message_id = 1],
            [signalling EXCEPT !.rows = <<[id |-> 7, length |-> 0]>>]}

HeaderLaunches ==
  {Brief(o, "headers", 2) :
     o \in HeaderOptions \cup Spoilt \cup UNION {Valued(o) : o \in {x \in HeaderOptions : Accepted(x)}}}

\* packets at the 2047 octets that ALP can say, and values too large for any
LimitLaunches ==
  {Brief(o, "limits", 1) :
     o \in {x \in HeaderOptions : Accepted(x) /\ Cardinality(x.flags) <= 3}
           \cup {[NoOptions EXCEPT !.flags = {"word0", "extension"}, !.ext_hex = n] :
                   n \in {2036, 65535}}
           \cup {[NoOptions EXCEPT !.flags = {"word0", "signalling"}, !.sig_hex = <<n>>,
                                   !.wide = wide, !.aggregations = {"sig"}] :
                   n \in {2030, 65536}, wide \in BOOLEAN}}

----------------------------------------------------------------------------
(* Table layouts, alone and in pairs *)

Validating(layouts, others) ==
  [NoOptions EXCEPT !.flags =
     layouts \cup others \cup {"word0", "signalling"}
     \cup (IF layouts \cap MptLayouts # {} THEN {"mpt_table_body"} ELSE {})
     \cup (IF layouts \cap PltLayouts # {} THEN {"plt_table_body"} ELSE {})]

Pairs == {Validating({first, second}, {}) : first, second \in Layouts}
PairLaunches == {Brief(o, "tables", 1) : o \in Pairs}

LayoutLaunches ==
  {Brief(Validating({layout}, {"message"}), "behind_pa", 1) : layout \in Layouts}
  \cup {Brief(Validating({layout}, {"message", "envelope", "loop"}), "tables", 1) :
          layout \in Layouts}
  \cup {Brief([Validating({layout}, {"message", "pa"}) EXCEPT !.rows = rows], "tables", 1) :
          layout \in {"mpt_asset", "plt_package_entry"},
          rows \in {<<[id |-> MptTableId, length |-> 23]>>, <<[id |-> PltTableId, length |-> 0]>>,
                    <<[id |-> 7, length |-> 3], [id |-> PltTableId, length |-> 10]>>}}
  \cup {Brief([NoOptions EXCEPT !.flags = flags], "tables", 1) :
          flags \in {{"mpt_asset"}, {"word0", "signalling", "mpt_asset"},
                     {"word0", "signalling", "mpt_table_body"},
                     {"word0", "signalling", "plt_table_body"}, {"mpt_table_body"}}}

----------------------------------------------------------------------------
(* Sinks, starts and stops *)

SinkLaunches ==
  {Launch(NoOptions, Sink("lls"), "bad_key_file", {s1}, "lls", 4)}
  \cup {Launch(NoOptions, Sink(kind), "bad_key_file", {s1}, "datagrams", 4) :
          kind \in {"udp", "stltp", "ipv4udp-file"}}
  \cup {Launch(NoOptions, [scheme |-> kind, wrong |-> wrong], "bad_key_file", {s1}, "small", 0) :
          kind \in Schemes \cup {"tcp"},
          wrong \in {{}, {"path"}, {"port"}, {"host"}, {"query"}, {"table"}, {"ttl"}, {"address"}}}

LifeLaunches ==
  {Launch(NoOptions, Sink("file"), admin, MCShard, "small", 2) : admin \in Admins}

MCLaunches ==
  UNION {HeaderLaunches, LimitLaunches, PairLaunches, LayoutLaunches, SinkLaunches,
         LifeLaunches}
=============================================================================
