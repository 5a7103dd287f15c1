---- MODULE ProbeTables ----
(* How the probe's verify reads an MMT table it has peeled (mmt_probe/main.cc)*)
(* The command line does not name a layout: the codec a table is read with    *)
(* follows from which --expect-mmt-si-* fields are given, by a chain of       *)
(* else-ifs.  A reading is one link of such a chain: the item whose codec it  *)
(* uses, and the sets of fields any of which selects it.  What is given is    *)
(* compared where that codec has the field; "descriptors" stands for a        *)
(* descriptors_length other than 0.                                           *)
EXTENDS TableLayouts, SequencesExt

Reading(item, given) == [item |-> item, given |-> given]
Chosen(readings, fields) ==
    LET Selects(reading) == \E given \in reading.given : given \subseteq fields
    IN  readings[SelectInSeq(readings, Selects)].item

----
(* Assets *)

AssetId16Ipv6Nz == Reading(Named(Id16, Lab("ipv6")), {{"id16", "ipv6_address"}})
AssetId16Ipv4Nz == Reading(Named(Id16, Lab("ipv4")), {{"id16", "ipv4_address"}})
AssetId8Ipv4Nz == Reading(Named(Id8, Lab("ipv4")), {{"id8", "ipv4_address"}})
AssetId8Ipv6Nz == Reading(Named(Id8, Lab("ipv6")), {{"id8", "ipv6_address"}})
AssetId8Ipv6 == Reading(Named(Id8, At("ipv6")), {{"id8", "ipv6_port"}})
AssetId8Ipv4 == Reading(Named(Id8, At("ipv4")), {{"id8", "ipv4_port"}})
AssetIpv4Nz == Reading(Lab("ipv4"), {{"ipv4_address"}})
AssetId16Ipv6 == Reading(Named(Id16, At("ipv6")), {{"id16", "ipv6_port"}})
AssetId16Ipv4 == Reading(Named(Id16, At("ipv4")), {{"id16", "ipv4_port"}})
AssetIpv4 == Reading(At("ipv4"), {{"ipv4_port"}})
AssetIpv6Nz == Reading(Lab("ipv6"), {{"ipv6_address"}})
AssetIpv6 == Reading(At("ipv6"), {{"ipv6_port"}})
AssetLocation0 == Reading(At("packet_id"), {{"location_type"}, {"packet_id"}})
AssetId16 == Reading(Named(Id16, Bare), {{"id16"}})
AssetId8 == Reading(Named(Id8, Bare), {{"id8"}})
AssetDescriptors4 == Reading(With(DeadBeef, Bare), {{"descriptors"}})
AssetBare == Reading(Bare, {{}})

\* The links that a link before them makes unreachable are left out.
AssetReadings ==
    <<AssetId16Ipv6Nz, AssetId16Ipv4Nz, AssetId8Ipv4Nz, AssetId8Ipv6Nz, AssetId8Ipv6,
      AssetId8Ipv4, AssetIpv4Nz, AssetId16Ipv6, AssetId16Ipv4, AssetIpv4, AssetIpv6Nz,
      AssetIpv6, AssetLocation0, AssetId16, AssetId8, AssetDescriptors4, AssetBare>>

----
(* Package entries and deliveries *)

EntryId8Ipv6Nz == Reading(Named(Id8, Lab("ipv6")), {{"id8", "ipv6_address"}})
EntryId8Ipv6 == Reading(Named(Id8, At("ipv6")), {{"id8", "ipv6_port"}})
EntryId8Ipv4Nz == Reading(Named(Id8, Lab("ipv4")), {{"id8", "ipv4_address"}})
EntryId8Ipv4 == Reading(Named(Id8, At("ipv4")), {{"id8", "ipv4_port"}})
EntryId8 == Reading(Named(Id8, At("packet_id")), {{"id8"}})
EntryIpv4Nz == Reading(Lab("ipv4"), {{"ipv4_address"}})
EntryIpv4 == Reading(At("ipv4"), {{"ipv4_port"}})
EntryIpv6Nz == Reading(Lab("ipv6"), {{"ipv6_address"}})
EntryIpv6 == Reading(At("ipv6"), {{"ipv6_port"}})
EntryPacketId == Reading(At("packet_id"), {{}})

EntryReadings ==
    <<EntryId8Ipv6Nz, EntryId8Ipv6, EntryId8Ipv4Nz, EntryId8Ipv4, EntryId8, EntryIpv4Nz,
      EntryIpv4, EntryIpv6Nz, EntryIpv6, EntryPacketId>>

DeliveryIpv4Nz == Reading(Lab("ipv4"), {{"ipv4_address"}})
DeliveryIpv4 == Reading(At("ipv4"), {{"ipv4_port"}})
DeliveryIpv6 == Reading(At("ipv6"), {{"ipv6_port"}})
DeliveryUrl4 == Reading(With(<<104, 116, 116, 112>>, At("url")), {{"url_4"}})
DeliveryUrl3 == Reading(With(<<108, 97, 98>>, At("url")), {{"url_3"}})
DeliveryUrl == Reading(At("url"), {{"url_length"}})
DeliveryBare == Reading(Bare, {{}})

DeliveryReadings ==
    <<DeliveryIpv4Nz, DeliveryIpv4, DeliveryIpv6, DeliveryUrl4, DeliveryUrl3, DeliveryUrl,
      DeliveryBare>>

----
(* What the lab's scripts expect of the item they have sent *)

LocationFields(item) ==
    CASE item.location = "none" -> {}
      [] item.location = "packet_id" -> {"packet_id"}
      [] item.location = "ipv4" ->
            {"ipv4_port"} \cup {f \in {"ipv4_address"} : item.address # "zero"}
      [] item.location = "ipv6" ->
            {"ipv6_port"} \cup {f \in {"ipv6_address"} : item.address # "zero"}
      [] item.location = "url" ->
            {"url_length"} \cup {f \in {"url_3"} : Len(item.tail) = 3}
                           \cup {f \in {"url_4"} : Len(item.tail) = 4}

IdFields(item) ==
    {"id_length"} \cup {f \in {"id8"} : Len(item.id) = 1} \cup {f \in {"id16"} : Len(item.id) = 2}

AssetFields(item) ==
    IdFields(item) \cup LocationFields(item) \cup {"location_count", "descriptors_length"}
    \cup {f \in {"location_type"} : item.location # "none"}
    \cup {f \in {"descriptors"} : item.tail # <<>>}
EntryFields(item) == IdFields(item) \cup LocationFields(item) \cup {"location_type"}
DeliveryFields(item) == LocationFields(item) \cup {"location_type", "loop_length"}

----
(* Reading a field of one item with the codec of another *)

\* what decides where a field begins
Ahead(field, item) ==
    CASE field = "id_length" -> <<>>
      [] field \in {"id8", "id16", "location_count", "location_type"} -> <<Len(item.id)>>
      [] field = "loop_length" -> <<Len(item.id), item.location, Len(item.tail)>>
      [] OTHER -> <<Len(item.id), item.location>>

InPlace(fields, item, codec) == \A f \in fields : Ahead(f, item) = Ahead(f, codec)

\* Mutant of AssetRoom: the probe does not complete what the encoder completes.
AssetRoomExact(t, codec) == t.octets

\* the codec of a two-octet id and an IPv6 location completes a short table
AssetRoom(t, codec) ==
    IF codec = AssetId16Ipv6.item THEN Padded(t.octets) ELSE t.octets

AssetRead(t) ==
    LET codec == Chosen(AssetReadings, AssetFields(t.item)) IN
    /\ MptPrefix + AssetOctets(codec) <= AssetRoom(t, codec)
    /\ InPlace(AssetFields(t.item) \cap AssetFields(codec), t.item, codec)

EntryRead(t) ==
    LET codec == Chosen(EntryReadings, EntryFields(t.item)) IN
    /\ PltPrefix + EntryOctets(codec) <= t.octets
    /\ InPlace(EntryFields(t.item) \cap EntryFields(codec), t.item, codec)

DeliveryRead(t) ==
    LET codec == Chosen(DeliveryReadings, DeliveryFields(t.item)) IN
    /\ PltPrefix + DeliveryOctets(codec) <= t.octets
    /\ InPlace(DeliveryFields(t.item) \cap DeliveryFields(codec), t.item, codec)

\* The header and the counts, then the item, if there is one.  A layout of the
\* counts alone says nothing of how many they are: the item is expected of a
\* table that has octets for it.
TableRead(t) ==
    IF t.table_id = MptTableId
    THEN /\ TableDecodes(t)
         /\ MptPrefix <= t.octets
         /\ t.entries > 0 /\ MptPrefix < t.octets => AssetRead(t)
    ELSE /\ TableDecodes(t)
         /\ PltPrefix <= t.octets
         /\ t.entries > 0 /\ PltPrefix < t.octets => EntryRead(t)
         /\ t.entries = 0 /\ t.deliveries > 0 /\ PltPrefix < t.octets => DeliveryRead(t)

====
