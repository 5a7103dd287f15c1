---- MODULE TableLayouts ----
(* MMT signalling tables as the encoder reads them before it sends one, and   *)
(* the lab layouts it accepts: gw/encoder_pipeline.cc, the blocks guarded by  *)
(* validate_mmt_si_*.  A table is a record:                                   *)
(*   table_id, table_length   what its header says                            *)
(*   octets                   how many octets follow that header              *)
(*   entries                  number_of_assets, or num_of_packages            *)
(*   deliveries               num_of_ip_delivery (package list only)          *)
(*   item                     its one asset, package entry or delivery        *)
(* An item has an id (<<>>, <<1>>, ...), a location, the address and the port *)
(* of an IP location, and a tail: its descriptors, or the letters of a URL.   *)
(* A codec has a fixed size and reads its fields in wire order, so the first  *)
(* field in which a table differs from the codec's layout is read in place.   *)
EXTENDS Integers, Sequences

MptTableId == 32
PltTableId == 128
TableHeader == 4     \* table_id, version, table_length
MptPrefix == 5
PltPrefix == 2

DeadBeef == <<222, 173, 190, 239>>

Item(id, location, address, port, tail) ==
    [id |-> id, location |-> location, address |-> address, port |-> port, tail |-> tail]
Bare == Item(<<>>, "none", "zero", 0, <<>>)
At(location) == Item(<<>>, location, "zero", 0, <<>>)
Lab(location) == Item(<<>>, location, "lab", 5000, <<>>)
Named(id, item) == Item(id, item.location, item.address, item.port, item.tail)
With(tail, item) == Item(item.id, item.location, item.address, item.port, tail)
Id8 == <<1>>
Id16 == <<1, 2>>

Locations == {"none", "packet_id", "ipv4", "ipv6", "url"}
Items ==
    [id : Seq(Nat), location : Locations, address : {"zero", "lab"}, port : Nat, tail : Seq(Nat)]
SiTables ==
    [table_id : Nat, table_length : Nat, octets : Nat, entries : Nat, deliveries : Nat,
     item : Items]

\* location_type and what follows it
LocationOctets(item) ==
    CASE item.location = "none" -> 0
      [] item.location = "packet_id" -> 3
      [] item.location = "ipv4" -> 11
      [] item.location = "ipv6" -> 35
      [] item.location = "url" -> 2

AssetOctets(item) == 14 + Len(item.id) + LocationOctets(item) + Len(item.tail)
EntryOctets(item) == 1 + Len(item.id) + LocationOctets(item)
\* in a delivery location_type 0 stands alone
DeliveryOctets(item) ==
    6 + (IF item.location = "none" THEN 1 ELSE LocationOctets(item)) + Len(item.tail)

\* mmt_si_mpt_table / mmt_si_plt_table decode, all of the octets and no more
TableDecodes(t) == t.table_length = t.octets

AssetIn(octets, t, length, item) ==
    /\ t.table_length = length
    /\ t.entries = 1
    /\ octets = MptPrefix + AssetOctets(item)
    /\ t.item = item

Asset(t, length, item) == AssetIn(t.octets, t, length, item)

Delivery(t, length, item) ==
    /\ t.table_length = length
    /\ t.entries = 0
    /\ t.deliveries = 1
    /\ t.octets = PltPrefix + DeliveryOctets(item)
    /\ t.item = item

Entry(t, length, item) ==
    /\ t.table_length = length
    /\ t.entries = 1
    /\ t.deliveries = 0
    /\ t.octets = PltPrefix + EntryOctets(item)
    /\ t.item = item

\* The IP deliveries without _nz: neither addresses nor port are looked at.
AnyAddress(t, length, location) ==
    Delivery([t EXCEPT !.item.address = "zero", !.item.port = 0], length, At(location))

\* The one layout that is lengthened before it is decoded: 50 asset octets get
\* a zero octet, which completes the 51 of its codec.
Padded(octets) == IF octets = MptPrefix + 50 THEN octets + 1 ELSE octets

----
(* Layouts of the MPT *)

MptTableBodyPrefix(t) == t.table_length = 5 /\ t.octets = MptPrefix
MptAsset(t) == Asset(t, 19, Bare)
MptAssetId8(t) == Asset(t, 20, Named(Id8, Bare))
MptAssetId16(t) == Asset(t, 21, Named(Id16, Bare))
MptAssetLocation0(t) == Asset(t, 22, At("packet_id"))
MptAssetLocationIpv4(t) == Asset(t, 30, At("ipv4"))
MptAssetLocationIpv4Nz(t) == Asset(t, 30, Lab("ipv4"))
MptAssetId8LocationIpv4Nz(t) == Asset(t, 31, Named(Id8, Lab("ipv4")))
MptAssetId8LocationIpv6Nz(t) == Asset(t, 55, Named(Id8, Lab("ipv6")))
MptAssetId16LocationIpv4(t) == Asset(t, 32, Named(Id16, At("ipv4")))
MptAssetId16LocationIpv4Nz(t) == Asset(t, 32, Named(Id16, Lab("ipv4")))
MptAssetId16LocationIpv6(t) == AssetIn(Padded(t.octets), t, 55, Named(Id16, At("ipv6")))
MptAssetId16LocationIpv6Nz(t) == Asset(t, 56, Named(Id16, Lab("ipv6")))
MptAssetId16Descriptors4(t) == Asset(t, 25, Named(Id16, With(DeadBeef, Bare)))
MptAssetId8Descriptors4(t) == Asset(t, 24, Named(Id8, With(DeadBeef, Bare)))
MptAssetLocationIpv6(t) == Asset(t, 54, At("ipv6"))
MptAssetLocationIpv6Nz(t) == Asset(t, 54, Lab("ipv6"))
MptAssetId8LocationIpv4(t) == Asset(t, 31, Named(Id8, At("ipv4")))
MptAssetId8LocationIpv6(t) == Asset(t, 55, Named(Id8, At("ipv6")))
MptAssetDescriptors4(t) == Asset(t, 23, With(DeadBeef, Bare))

----
(* Layouts of the PLT *)

PltTableBodyPrefix(t) == t.table_length = 2 /\ t.octets = PltPrefix
PltDeliveryInfo(t) == Delivery(t, 9, Bare)
PltDeliveryInfoIpv4(t) == AnyAddress(t, 19, "ipv4")
PltDeliveryInfoIpv4Nz(t) == Delivery(t, 19, Lab("ipv4"))
PltDeliveryInfoIpv6(t) == AnyAddress(t, 43, "ipv6")
PltDeliveryInfoUrl(t) == Delivery(t, 10, At("url"))
PltDeliveryInfoUrl3(t) == Delivery(t, 13, With(<<108, 97, 98>>, At("url")))
PltDeliveryInfoUrl4(t) == Delivery(t, 14, With(<<104, 116, 116, 112>>, At("url")))
PltPackageEntry(t) == Entry(t, 6, At("packet_id"))
PltPackageEntryId8(t) == Entry(t, 7, Named(Id8, At("packet_id")))
PltPackageEntryIpv4(t) == Entry(t, 14, At("ipv4"))
PltPackageEntryIpv4Nz(t) == Entry(t, 14, Lab("ipv4"))
PltPackageEntryId8LocationIpv4Nz(t) == Entry(t, 15, Named(Id8, Lab("ipv4")))
PltPackageEntryId8LocationIpv6Nz(t) == Entry(t, 39, Named(Id8, Lab("ipv6")))
PltPackageEntryId8LocationIpv4(t) == Entry(t, 15, Named(Id8, At("ipv4")))
PltPackageEntryId8LocationIpv6(t) == Entry(t, 39, Named(Id8, At("ipv6")))
PltPackageEntryIpv6(t) == Entry(t, 38, At("ipv6"))
PltPackageEntryIpv6Nz(t) == Entry(t, 38, Lab("ipv6"))

----
(* The validation of a table under a set of configuration flags *)

MptLayoutsHold(flags, t) ==
    /\ "mpt_table_body_prefix" \in flags => MptTableBodyPrefix(t)
    /\ "mpt_asset" \in flags => MptAsset(t)
    /\ "mpt_asset_id8" \in flags => MptAssetId8(t)
    /\ "mpt_asset_id16" \in flags => MptAssetId16(t)
    /\ "mpt_asset_location0" \in flags => MptAssetLocation0(t)
    /\ "mpt_asset_location_ipv4" \in flags => MptAssetLocationIpv4(t)
    /\ "mpt_asset_location_ipv4_nz" \in flags => MptAssetLocationIpv4Nz(t)
    /\ "mpt_asset_id8_location_ipv4_nz" \in flags => MptAssetId8LocationIpv4Nz(t)
    /\ "mpt_asset_id8_location_ipv6_nz" \in flags => MptAssetId8LocationIpv6Nz(t)
    /\ "mpt_asset_id16_location_ipv4" \in flags => MptAssetId16LocationIpv4(t)
    /\ "mpt_asset_id16_location_ipv4_nz" \in flags => MptAssetId16LocationIpv4Nz(t)
    /\ "mpt_asset_id16_location_ipv6" \in flags => MptAssetId16LocationIpv6(t)
    /\ "mpt_asset_id16_location_ipv6_nz" \in flags => MptAssetId16LocationIpv6Nz(t)
    /\ "mpt_asset_id16_descriptors4" \in flags => MptAssetId16Descriptors4(t)
    /\ "mpt_asset_id8_descriptors4" \in flags => MptAssetId8Descriptors4(t)
    /\ "mpt_asset_location_ipv6" \in flags => MptAssetLocationIpv6(t)
    /\ "mpt_asset_location_ipv6_nz" \in flags => MptAssetLocationIpv6Nz(t)
    /\ "mpt_asset_id8_location_ipv4" \in flags => MptAssetId8LocationIpv4(t)
    /\ "mpt_asset_id8_location_ipv6" \in flags => MptAssetId8LocationIpv6(t)
    /\ "mpt_asset_descriptors4" \in flags => MptAssetDescriptors4(t)

PltLayoutsHold(flags, t) ==
    /\ "plt_table_body_prefix" \in flags => PltTableBodyPrefix(t)
    /\ "plt_delivery_info" \in flags => PltDeliveryInfo(t)
    /\ "plt_delivery_info_ipv4" \in flags => PltDeliveryInfoIpv4(t)
    /\ "plt_delivery_info_ipv4_nz" \in flags => PltDeliveryInfoIpv4Nz(t)
    /\ "plt_delivery_info_ipv6" \in flags => PltDeliveryInfoIpv6(t)
    /\ "plt_delivery_info_url" \in flags => PltDeliveryInfoUrl(t)
    /\ "plt_delivery_info_url_3" \in flags => PltDeliveryInfoUrl3(t)
    /\ "plt_delivery_info_url_4" \in flags => PltDeliveryInfoUrl4(t)
    /\ "plt_package_entry" \in flags => PltPackageEntry(t)
    /\ "plt_package_entry_id8" \in flags => PltPackageEntryId8(t)
    /\ "plt_package_entry_ipv4" \in flags => PltPackageEntryIpv4(t)
    /\ "plt_package_entry_ipv4_nz" \in flags => PltPackageEntryIpv4Nz(t)
    /\ "plt_package_entry_id8_location_ipv4_nz" \in flags => PltPackageEntryId8LocationIpv4Nz(t)
    /\ "plt_package_entry_id8_location_ipv6_nz" \in flags => PltPackageEntryId8LocationIpv6Nz(t)
    /\ "plt_package_entry_id8_location_ipv4" \in flags => PltPackageEntryId8LocationIpv4(t)
    /\ "plt_package_entry_id8_location_ipv6" \in flags => PltPackageEntryId8LocationIpv6(t)
    /\ "plt_package_entry_ipv6" \in flags => PltPackageEntryIpv6(t)
    /\ "plt_package_entry_ipv6_nz" \in flags => PltPackageEntryIpv6Nz(t)

MptLayouts == {
    "mpt_table_body_prefix",
    "mpt_asset",
    "mpt_asset_id8",
    "mpt_asset_id16",
    "mpt_asset_location0",
    "mpt_asset_location_ipv4",
    "mpt_asset_location_ipv4_nz",
    "mpt_asset_id8_location_ipv4_nz",
    "mpt_asset_id8_location_ipv6_nz",
    "mpt_asset_id16_location_ipv4",
    "mpt_asset_id16_location_ipv4_nz",
    "mpt_asset_id16_location_ipv6",
    "mpt_asset_id16_location_ipv6_nz",
    "mpt_asset_id16_descriptors4",
    "mpt_asset_id8_descriptors4",
    "mpt_asset_location_ipv6",
    "mpt_asset_location_ipv6_nz",
    "mpt_asset_id8_location_ipv4",
    "mpt_asset_id8_location_ipv6",
    "mpt_asset_descriptors4"}

PltLayouts == {
    "plt_table_body_prefix",
    "plt_delivery_info",
    "plt_delivery_info_ipv4",
    "plt_delivery_info_ipv4_nz",
    "plt_delivery_info_ipv6",
    "plt_delivery_info_url",
    "plt_delivery_info_url_3",
    "plt_delivery_info_url_4",
    "plt_package_entry",
    "plt_package_entry_id8",
    "plt_package_entry_ipv4",
    "plt_package_entry_ipv4_nz",
    "plt_package_entry_id8_location_ipv4_nz",
    "plt_package_entry_id8_location_ipv6_nz",
    "plt_package_entry_id8_location_ipv4",
    "plt_package_entry_id8_location_ipv6",
    "plt_package_entry_ipv6",
    "plt_package_entry_ipv6_nz"}

Layouts == MptLayouts \cup PltLayouts

====
