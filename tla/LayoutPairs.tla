---- MODULE LayoutPairs ----
(* Which table layouts exclude one another, twice: as main refuses the        *)
(* command line (gw/main.cc, --validate-mmt-si-X and --validate-mmt-si-Y are  *)
(* mutually exclusive) and as the encoder refuses the payload                 *)
(* (gw/encoder_pipeline.cc, the same rule over its configuration).  The two   *)
(* lists were written by hand and differ.  Each definition is one stretch of  *)
(* the source, in its order; the "requires table_body" rules that stand       *)
(* between the pairs are BodyRequired.                                        *)
EXTENDS TableLayouts

Against(layout, others) == {{layout, other} : other \in others}

\* Every layout requires the validation of the table it is a layout of.
BodyRequired(flags) ==
    /\ flags \cap MptLayouts # {} => "mpt_table_body" \in flags
    /\ flags \cap PltLayouts # {} => "plt_table_body" \in flags

\* the assets with no id or a one-octet id, and the two-octet id alone
EarlierAssets ==
    {"mpt_asset", "mpt_asset_id8", "mpt_asset_id16", "mpt_asset_location0",
     "mpt_asset_location_ipv4", "mpt_asset_location_ipv4_nz", "mpt_asset_id8_location_ipv4_nz",
     "mpt_asset_id8_location_ipv6_nz", "mpt_asset_location_ipv6", "mpt_asset_location_ipv6_nz",
     "mpt_asset_id8_location_ipv4", "mpt_asset_id8_location_ipv6", "mpt_asset_descriptors4"}

----
(* The encoder *)

EncoderMptPairs1 ==
    Against("mpt_table_body_prefix",
        {"mpt_asset", "mpt_asset_id8", "mpt_asset_id16", "mpt_asset_location0",
         "mpt_asset_location_ipv4", "mpt_asset_location_ipv4_nz"})
    \cup Against("mpt_asset",
        {"mpt_asset_id8", "mpt_asset_id16", "mpt_asset_location0", "mpt_asset_location_ipv4"})
    \cup Against("mpt_asset_id8", {"mpt_asset_id16", "mpt_asset_location0"})

EncoderMptPairs2 ==
    Against("mpt_asset_id8_location_ipv4_nz",
        {"mpt_table_body_prefix", "mpt_asset", "mpt_asset_id8", "mpt_asset_location0",
         "mpt_asset_location_ipv4", "mpt_asset_location_ipv4_nz", "mpt_asset_id8_location_ipv4"})
    \cup Against("mpt_asset_id8_location_ipv6_nz",
        {"mpt_table_body_prefix", "mpt_asset", "mpt_asset_id8", "mpt_asset_location0"})
    \cup Against("mpt_asset_location_ipv4_nz",
        {"mpt_asset", "mpt_asset_id8", "mpt_asset_location0"})
    \cup Against("mpt_asset_location_ipv4", {"mpt_asset_id8", "mpt_asset_location0"})

EncoderMptPairs3 ==
    Against("mpt_asset_id8_location_ipv6_nz",
        {"mpt_asset_location_ipv4", "mpt_asset_location_ipv4_nz",
         "mpt_asset_id8_location_ipv4_nz", "mpt_asset_location_ipv6",
         "mpt_asset_location_ipv6_nz", "mpt_asset_id8_location_ipv6"})
    \cup Against("mpt_asset_id8_location_ipv4",
        {"mpt_table_body_prefix", "mpt_asset", "mpt_asset_id8", "mpt_asset_location0",
         "mpt_asset_location_ipv4"})
    \cup Against("mpt_asset_location_ipv6",
        {"mpt_table_body_prefix", "mpt_asset", "mpt_asset_id8", "mpt_asset_location0",
         "mpt_asset_location_ipv4"})

EncoderMptPairs4 ==
    Against("mpt_asset_id8_location_ipv6",
        {"mpt_table_body_prefix", "mpt_asset", "mpt_asset_id8", "mpt_asset_location0",
         "mpt_asset_location_ipv4", "mpt_asset_location_ipv6", "mpt_asset_id8_location_ipv4"})
    \cup Against("mpt_asset_location_ipv6_nz",
        {"mpt_table_body_prefix", "mpt_asset", "mpt_asset_id8", "mpt_asset_location0",
         "mpt_asset_location_ipv4_nz", "mpt_asset_id8_location_ipv4_nz",
         "mpt_asset_location_ipv6"})
    \cup Against("mpt_asset_id8_location_ipv4", {"mpt_asset_location_ipv6"})
    \cup Against("mpt_asset_location_ipv4", {"mpt_asset_location_ipv4_nz"})

EncoderMptPairs5 ==
    Against("mpt_asset_descriptors4",
        {"mpt_table_body_prefix", "mpt_asset", "mpt_asset_id8", "mpt_asset_location0",
         "mpt_asset_location_ipv4", "mpt_asset_id8_location_ipv4_nz",
         "mpt_asset_id8_location_ipv6_nz", "mpt_asset_location_ipv6",
         "mpt_asset_id8_location_ipv4"})
    \cup Against("mpt_asset_id8_location_ipv4_nz",
        {"mpt_asset_id8_location_ipv6_nz", "mpt_asset_location_ipv6",
         "mpt_asset_location_ipv6_nz", "mpt_asset_id8_location_ipv6"})
    \cup Against("mpt_table_body_prefix",
        {"mpt_asset_id16_location_ipv4", "mpt_asset_id16_location_ipv4_nz"})
    \cup Against("mpt_asset_id8_location_ipv6", {"mpt_asset_id8_location_ipv6_nz"})

EncoderMptPairs6 ==
    Against("mpt_asset_id16_location_ipv4",
        {"mpt_asset", "mpt_asset_id8", "mpt_asset_id16", "mpt_asset_location0",
         "mpt_asset_location_ipv4", "mpt_asset_location_ipv4_nz",
         "mpt_asset_id8_location_ipv4_nz", "mpt_asset_location_ipv6",
         "mpt_asset_location_ipv6_nz", "mpt_asset_id8_location_ipv4",
         "mpt_asset_id8_location_ipv6", "mpt_asset_descriptors4"})
    \cup Against("mpt_table_body_prefix",
        {"mpt_asset_id16_location_ipv6", "mpt_asset_id16_location_ipv6_nz",
         "mpt_asset_id16_descriptors4", "mpt_asset_id8_descriptors4"})

EncoderMptPairs7 ==
    Against("mpt_asset_id16_location_ipv4_nz",
        EarlierAssets \cup {"mpt_asset_id16_location_ipv4", "mpt_asset_id16_location_ipv6"})
    \cup Against("mpt_asset_id16_location_ipv4",
        {"mpt_asset_id8_location_ipv6_nz", "mpt_asset_id16_location_ipv6",
         "mpt_asset_id16_location_ipv6_nz", "mpt_asset_id16_descriptors4",
         "mpt_asset_id8_descriptors4"})

EncoderMptPairs8 ==
    Against("mpt_asset_id16_location_ipv6",
        EarlierAssets \cup
        {"mpt_asset_id16_location_ipv4", "mpt_asset_id16_location_ipv4_nz",
         "mpt_asset_id16_location_ipv6_nz", "mpt_asset_id16_descriptors4",
         "mpt_asset_id8_descriptors4"})
    \cup Against("mpt_asset_id16_location_ipv4_nz",
        {"mpt_asset_id16_location_ipv6_nz", "mpt_asset_id16_descriptors4",
         "mpt_asset_id8_descriptors4"})

EncoderMptPairs9 ==
    Against("mpt_asset_id16_location_ipv6_nz",
        EarlierAssets \cup
        {"mpt_asset_id16_location_ipv4", "mpt_asset_id16_location_ipv4_nz",
         "mpt_asset_id16_location_ipv6", "mpt_asset_id16_descriptors4",
         "mpt_asset_id8_descriptors4"})
    \cup Against("mpt_asset_id16_descriptors4",
        {"mpt_asset", "mpt_asset_id8", "mpt_asset_descriptors4"})

EncoderMptPairs10 ==
    Against("mpt_asset_id16_descriptors4",
        {"mpt_asset_id16", "mpt_asset_location0", "mpt_asset_location_ipv4",
         "mpt_asset_location_ipv4_nz", "mpt_asset_id8_location_ipv4_nz",
         "mpt_asset_id8_location_ipv6_nz", "mpt_asset_id16_location_ipv4",
         "mpt_asset_id16_location_ipv4_nz", "mpt_asset_id16_location_ipv6",
         "mpt_asset_id16_location_ipv6_nz", "mpt_asset_id8_descriptors4",
         "mpt_asset_location_ipv6", "mpt_asset_location_ipv6_nz", "mpt_asset_id8_location_ipv4",
         "mpt_asset_id8_location_ipv6"})
    \cup Against("mpt_asset_id8_descriptors4",
        {"mpt_asset", "mpt_asset_id8", "mpt_asset_id16", "mpt_asset_location0",
         "mpt_asset_location_ipv4", "mpt_asset_descriptors4"})

EncoderMptPairs11 ==
    Against("mpt_asset_id8_descriptors4",
        {"mpt_asset_location_ipv4_nz", "mpt_asset_id8_location_ipv4_nz",
         "mpt_asset_id8_location_ipv6_nz", "mpt_asset_id16_location_ipv4",
         "mpt_asset_id16_location_ipv4_nz", "mpt_asset_id16_location_ipv6",
         "mpt_asset_id16_location_ipv6_nz", "mpt_asset_id16_descriptors4",
         "mpt_asset_location_ipv6", "mpt_asset_location_ipv6_nz", "mpt_asset_id8_location_ipv4",
         "mpt_asset_id8_location_ipv6"})

EncoderPltPairs1 ==
    Against("plt_delivery_info",
        {"plt_table_body_prefix", "plt_delivery_info_ipv4", "plt_delivery_info_ipv6",
         "plt_delivery_info_url", "plt_package_entry"})
    \cup Against("plt_table_body_prefix",
        {"plt_delivery_info_ipv4", "plt_delivery_info_ipv6", "plt_delivery_info_url",
         "plt_package_entry"})
    \cup Against("plt_delivery_info_ipv4", {"plt_delivery_info_ipv6", "plt_delivery_info_url"})
    \cup Against("plt_delivery_info_ipv6", {"plt_delivery_info_url"})

EncoderPltPairs2 ==
    Against("plt_delivery_info_url_3",
        {"plt_table_body_prefix", "plt_delivery_info", "plt_delivery_info_ipv4",
         "plt_delivery_info_ipv6", "plt_delivery_info_url"})
    \cup Against("plt_delivery_info_url_4",
        {"plt_table_body_prefix", "plt_delivery_info", "plt_delivery_info_ipv4",
         "plt_delivery_info_ipv6"})
    \cup Against("plt_delivery_info_ipv4_nz",
        {"plt_table_body_prefix", "plt_delivery_info", "plt_delivery_info_ipv4"})
    \cup Against("plt_package_entry",
        {"plt_delivery_info_ipv4", "plt_delivery_info_ipv6", "plt_delivery_info_url"})

EncoderPltPairs3 ==
    Against("plt_package_entry_id8",
        {"plt_table_body_prefix", "plt_delivery_info", "plt_delivery_info_ipv4",
         "plt_delivery_info_ipv6", "plt_delivery_info_url", "plt_delivery_info_url_3",
         "plt_delivery_info_url_4", "plt_package_entry"})
    \cup Against("plt_delivery_info_ipv4_nz",
        {"plt_delivery_info_ipv6", "plt_delivery_info_url", "plt_delivery_info_url_3"})
    \cup Against("plt_delivery_info_url_4",
        {"plt_delivery_info_url", "plt_delivery_info_url_3", "plt_package_entry"})
    \cup Against("plt_delivery_info_url_3", {"plt_package_entry"})
    \cup Against("plt_package_entry_ipv4", {"plt_table_body_prefix"})

EncoderPltPairs4 ==
    Against("plt_package_entry_ipv4_nz",
        {"plt_table_body_prefix", "plt_delivery_info", "plt_delivery_info_ipv4",
         "plt_delivery_info_ipv4_nz", "plt_delivery_info_ipv6", "plt_delivery_info_url",
         "plt_delivery_info_url_3", "plt_delivery_info_url_4", "plt_package_entry"})
    \cup Against("plt_package_entry_ipv4",
        {"plt_delivery_info", "plt_delivery_info_ipv4", "plt_delivery_info_ipv6",
         "plt_delivery_info_url", "plt_delivery_info_url_3", "plt_delivery_info_url_4",
         "plt_package_entry", "plt_package_entry_id8"})

EncoderPltPairs5 ==
    Against("plt_package_entry_id8_location_ipv4_nz",
        {"plt_table_body_prefix", "plt_delivery_info", "plt_delivery_info_ipv4",
         "plt_delivery_info_ipv4_nz", "plt_delivery_info_ipv6", "plt_delivery_info_url",
         "plt_delivery_info_url_3", "plt_delivery_info_url_4", "plt_package_entry",
         "plt_package_entry_id8", "plt_package_entry_ipv4", "plt_package_entry_ipv4_nz",
         "plt_package_entry_id8_location_ipv4"})
    \cup Against("plt_package_entry_ipv4_nz",
        {"plt_package_entry_id8", "plt_package_entry_ipv4",
         "plt_package_entry_id8_location_ipv4"})

EncoderPltPairs6 ==
    Against("plt_package_entry_id8_location_ipv6_nz",
        {"plt_table_body_prefix", "plt_delivery_info", "plt_delivery_info_ipv4",
         "plt_delivery_info_ipv4_nz", "plt_delivery_info_ipv6", "plt_delivery_info_url",
         "plt_delivery_info_url_3", "plt_delivery_info_url_4", "plt_package_entry",
         "plt_package_entry_id8", "plt_package_entry_ipv4", "plt_package_entry_ipv4_nz",
         "plt_package_entry_id8_location_ipv4_nz", "plt_package_entry_id8_location_ipv4",
         "plt_package_entry_id8_location_ipv6"})
    \cup Against("plt_package_entry_id8_location_ipv4",
        {"plt_table_body_prefix", "plt_delivery_info"})

EncoderPltPairs7 ==
    Against("plt_package_entry_id8_location_ipv4",
        {"plt_delivery_info_ipv4", "plt_delivery_info_ipv6", "plt_delivery_info_url",
         "plt_delivery_info_url_3", "plt_delivery_info_url_4", "plt_package_entry",
         "plt_package_entry_id8", "plt_package_entry_ipv4", "plt_package_entry_ipv4_nz"})
    \cup Against("plt_package_entry_ipv6",
        {"plt_table_body_prefix", "plt_delivery_info", "plt_delivery_info_ipv4",
         "plt_delivery_info_ipv6", "plt_delivery_info_url", "plt_delivery_info_url_3",
         "plt_delivery_info_url_4", "plt_package_entry"})

EncoderPltPairs8 ==
    Against("plt_package_entry_id8_location_ipv6",
        {"plt_table_body_prefix", "plt_delivery_info", "plt_delivery_info_ipv4",
         "plt_delivery_info_ipv6", "plt_delivery_info_url", "plt_delivery_info_url_3",
         "plt_delivery_info_url_4", "plt_package_entry", "plt_package_entry_id8",
         "plt_package_entry_ipv4", "plt_package_entry_id8_location_ipv4_nz",
         "plt_package_entry_id8_location_ipv4"})
    \cup Against("plt_package_entry_ipv6",
        {"plt_package_entry_id8", "plt_package_entry_ipv4",
         "plt_package_entry_id8_location_ipv4_nz", "plt_package_entry_id8_location_ipv6_nz",
         "plt_package_entry_id8_location_ipv4"})

EncoderPltPairs9 ==
    Against("plt_package_entry_ipv6_nz",
        {"plt_table_body_prefix", "plt_delivery_info", "plt_delivery_info_ipv4",
         "plt_delivery_info_ipv6", "plt_delivery_info_url", "plt_delivery_info_url_3",
         "plt_delivery_info_url_4", "plt_package_entry", "plt_package_entry_id8",
         "plt_package_entry_ipv4", "plt_package_entry_ipv4_nz",
         "plt_package_entry_id8_location_ipv4_nz", "plt_package_entry_id8_location_ipv6_nz",
         "plt_package_entry_id8_location_ipv4", "plt_package_entry_ipv6"})
    \cup Against("plt_package_entry_id8_location_ipv6",
        {"plt_package_entry_id8_location_ipv6_nz", "plt_package_entry_ipv6"})

EncoderExcludes ==
    UNION {EncoderMptPairs1, EncoderMptPairs2, EncoderMptPairs3, EncoderMptPairs4,
           EncoderMptPairs5, EncoderMptPairs6, EncoderMptPairs7, EncoderMptPairs8,
           EncoderMptPairs9, EncoderMptPairs10, EncoderMptPairs11, EncoderPltPairs1,
           EncoderPltPairs2, EncoderPltPairs3, EncoderPltPairs4, EncoderPltPairs5,
           EncoderPltPairs6, EncoderPltPairs7, EncoderPltPairs8, EncoderPltPairs9}

----
(* The command line *)

MainMptPairs1 ==
    Against("mpt_asset",
        {"mpt_table_body_prefix", "mpt_asset_id8", "mpt_asset_id16", "mpt_asset_location0",
         "mpt_asset_location_ipv4", "mpt_asset_location_ipv4_nz"})
    \cup Against("mpt_table_body_prefix",
        {"mpt_asset_id8", "mpt_asset_id16", "mpt_asset_location0", "mpt_asset_location_ipv4",
         "mpt_asset_location_ipv4_nz"})
    \cup Against("mpt_asset_id8",
        {"mpt_asset_id16", "mpt_asset_location0", "mpt_asset_location_ipv4"})
    \cup Against("mpt_asset_location0", {"mpt_asset_id16", "mpt_asset_location_ipv4"})
    \cup Against("mpt_asset_location_ipv4", {"mpt_asset_location_ipv4_nz"})

MainMptPairs2 ==
    Against("mpt_asset_id8_location_ipv4",
        {"mpt_table_body_prefix", "mpt_asset", "mpt_asset_id8", "mpt_asset_location0",
         "mpt_asset_location_ipv4", "mpt_asset_id8_location_ipv4_nz", "mpt_asset_location_ipv6"})
    \cup Against("mpt_asset_id8_location_ipv4_nz",
        {"mpt_table_body_prefix", "mpt_asset", "mpt_asset_id8", "mpt_asset_location0",
         "mpt_asset_location_ipv4", "mpt_asset_location_ipv4_nz"})
    \cup Against("mpt_asset_location_ipv6",
        {"mpt_table_body_prefix", "mpt_asset", "mpt_asset_id8", "mpt_asset_location0",
         "mpt_asset_location_ipv4", "mpt_asset_location_ipv6_nz"})
    \cup Against("mpt_asset_location_ipv4_nz", {"mpt_asset_id8", "mpt_asset_location0"})

MainMptPairs3 ==
    Against("mpt_asset_id8_location_ipv6_nz",
        {"mpt_table_body_prefix", "mpt_asset", "mpt_asset_id8", "mpt_asset_location0",
         "mpt_asset_location_ipv4", "mpt_asset_id8_location_ipv4_nz", "mpt_asset_location_ipv6",
         "mpt_asset_location_ipv6_nz", "mpt_asset_id8_location_ipv6"})
    \cup Against("mpt_asset_location_ipv6_nz",
        {"mpt_table_body_prefix", "mpt_asset", "mpt_asset_id8", "mpt_asset_id16",
         "mpt_asset_location0", "mpt_asset_location_ipv4_nz", "mpt_asset_id8_location_ipv4_nz"})
    \cup Against("mpt_asset_id8_location_ipv6",
        {"mpt_table_body_prefix", "mpt_asset", "mpt_asset_id8_location_ipv4_nz"})
    \cup Against("mpt_asset_id8_location_ipv4_nz", {"mpt_asset_location_ipv6"})

MainMptPairs4 ==
    Against("mpt_asset_descriptors4",
        {"mpt_table_body_prefix", "mpt_asset", "mpt_asset_id8", "mpt_asset_location0",
         "mpt_asset_location_ipv4", "mpt_asset_id8_location_ipv6_nz", "mpt_asset_location_ipv6",
         "mpt_asset_id8_location_ipv4", "mpt_asset_id8_location_ipv6"})
    \cup Against("mpt_asset_id8_location_ipv6",
        {"mpt_asset_id8", "mpt_asset_location0", "mpt_asset_location_ipv4",
         "mpt_asset_location_ipv6", "mpt_asset_id8_location_ipv4"})
    \cup Against("mpt_table_body_prefix",
        {"mpt_asset_id16_location_ipv4", "mpt_asset_id16_location_ipv4_nz",
         "mpt_asset_id16_location_ipv6", "mpt_asset_id16_location_ipv6_nz"})

MainMptPairs5 ==
    Against("mpt_asset_id16_location_ipv4",
        EarlierAssets \cup
        {"mpt_asset_id16_location_ipv4_nz", "mpt_asset_id16_location_ipv6",
         "mpt_asset_id16_location_ipv6_nz", "mpt_asset_id16_descriptors4",
         "mpt_asset_id8_descriptors4"})
    \cup Against("mpt_asset_id16_location_ipv4_nz",
        {"mpt_asset", "mpt_asset_id8", "mpt_asset_id16", "mpt_asset_descriptors4"})
    \cup Against("mpt_table_body_prefix",
        {"mpt_asset_id16_descriptors4", "mpt_asset_id8_descriptors4"})

MainMptPairs6 ==
    Against("mpt_asset_id16_location_ipv4_nz",
        {"mpt_asset_location0", "mpt_asset_location_ipv4", "mpt_asset_location_ipv4_nz",
         "mpt_asset_id8_location_ipv4_nz", "mpt_asset_id8_location_ipv6_nz",
         "mpt_asset_id16_location_ipv4", "mpt_asset_id16_location_ipv6",
         "mpt_asset_id16_location_ipv6_nz", "mpt_asset_id16_descriptors4",
         "mpt_asset_id8_descriptors4", "mpt_asset_location_ipv6", "mpt_asset_location_ipv6_nz",
         "mpt_asset_id8_location_ipv4", "mpt_asset_id8_location_ipv6"})
    \cup Against("mpt_asset_id16_location_ipv6",
        {"mpt_asset", "mpt_asset_id8", "mpt_asset_id16", "mpt_asset_location0",
         "mpt_asset_location_ipv4", "mpt_asset_location_ipv4_nz",
         "mpt_asset_id8_location_ipv4_nz", "mpt_asset_location_ipv6",
         "mpt_asset_location_ipv6_nz", "mpt_asset_id8_location_ipv4", "mpt_asset_descriptors4"})

MainMptPairs7 ==
    Against("mpt_asset_id16_location_ipv6_nz",
        EarlierAssets \cup
        {"mpt_asset_id16_location_ipv4", "mpt_asset_id16_location_ipv4_nz",
         "mpt_asset_id16_location_ipv6", "mpt_asset_id16_descriptors4",
         "mpt_asset_id8_descriptors4"})
    \cup Against("mpt_asset_id16_location_ipv6",
        {"mpt_asset_id8_location_ipv6_nz", "mpt_asset_id16_location_ipv4",
         "mpt_asset_id16_location_ipv4_nz", "mpt_asset_id16_descriptors4",
         "mpt_asset_id8_descriptors4", "mpt_asset_id8_location_ipv6"})

MainMptPairs8 ==
    Against("mpt_asset_id16_descriptors4",
        EarlierAssets \cup
        {"mpt_asset_id16_location_ipv4", "mpt_asset_id16_location_ipv4_nz",
         "mpt_asset_id16_location_ipv6", "mpt_asset_id16_location_ipv6_nz",
         "mpt_asset_id8_descriptors4"})
    \cup Against("mpt_asset_id8_descriptors4",
        {"mpt_asset", "mpt_asset_id8", "mpt_asset_id16", "mpt_asset_location0",
         "mpt_asset_location_ipv4", "mpt_asset_location_ipv4_nz", "mpt_asset_descriptors4"})

MainMptPairs9 ==
    Against("mpt_asset_id8_descriptors4",
        {"mpt_asset_id8_location_ipv4_nz", "mpt_asset_id8_location_ipv6_nz",
         "mpt_asset_id16_location_ipv4", "mpt_asset_id16_location_ipv4_nz",
         "mpt_asset_id16_location_ipv6", "mpt_asset_id16_location_ipv6_nz",
         "mpt_asset_id16_descriptors4", "mpt_asset_location_ipv6", "mpt_asset_location_ipv6_nz",
         "mpt_asset_id8_location_ipv4", "mpt_asset_id8_location_ipv6"})

MainPltPairs1 ==
    Against("plt_delivery_info",
        {"plt_table_body_prefix", "plt_delivery_info_ipv4", "plt_delivery_info_ipv4_nz",
         "plt_delivery_info_ipv6", "plt_delivery_info_url", "plt_package_entry"})
    \cup Against("plt_delivery_info_ipv4",
        {"plt_table_body_prefix", "plt_delivery_info_ipv4_nz", "plt_delivery_info_ipv6",
         "plt_delivery_info_url", "plt_package_entry"})
    \cup Against("plt_delivery_info_ipv6",
        {"plt_table_body_prefix", "plt_delivery_info_ipv4_nz", "plt_delivery_info_url",
         "plt_package_entry"})
    \cup Against("plt_table_body_prefix",
        {"plt_delivery_info_ipv4_nz", "plt_delivery_info_url", "plt_package_entry"})

MainPltPairs2 ==
    Against("plt_delivery_info_url_3",
        {"plt_table_body_prefix", "plt_delivery_info", "plt_delivery_info_ipv4",
         "plt_delivery_info_ipv4_nz", "plt_delivery_info_ipv6", "plt_delivery_info_url",
         "plt_delivery_info_url_4", "plt_package_entry"})
    \cup Against("plt_delivery_info_url_4",
        {"plt_table_body_prefix", "plt_delivery_info", "plt_delivery_info_ipv4",
         "plt_delivery_info_ipv4_nz", "plt_delivery_info_ipv6", "plt_delivery_info_url",
         "plt_package_entry"})
    \cup Against("plt_delivery_info_ipv4_nz",
        {"plt_delivery_info_url", "plt_package_entry", "plt_package_entry_id8",
         "plt_package_entry_ipv4", "plt_package_entry_ipv4_nz"})
    \cup Against("plt_delivery_info_url", {"plt_package_entry"})

MainPltPairs3 ==
    Against("plt_package_entry_id8",
        {"plt_table_body_prefix", "plt_delivery_info", "plt_delivery_info_ipv4",
         "plt_delivery_info_ipv6", "plt_delivery_info_url", "plt_delivery_info_url_3",
         "plt_delivery_info_url_4", "plt_package_entry", "plt_package_entry_ipv4_nz"})
    \cup Against("plt_package_entry_ipv4_nz",
        {"plt_table_body_prefix", "plt_delivery_info", "plt_delivery_info_ipv4",
         "plt_delivery_info_ipv6", "plt_delivery_info_url", "plt_delivery_info_url_3",
         "plt_package_entry", "plt_package_entry_ipv4"})
    \cup Against("plt_package_entry_ipv4",
        {"plt_table_body_prefix", "plt_delivery_info", "plt_delivery_info_ipv4",
         "plt_delivery_info_ipv6", "plt_delivery_info_url", "plt_delivery_info_url_3"})

MainPltPairs4 ==
    Against("plt_package_entry_id8_location_ipv4",
        {"plt_table_body_prefix", "plt_delivery_info", "plt_delivery_info_ipv4",
         "plt_delivery_info_ipv6", "plt_delivery_info_url", "plt_delivery_info_url_3",
         "plt_package_entry", "plt_package_entry_id8", "plt_package_entry_ipv4",
         "plt_package_entry_ipv4_nz", "plt_package_entry_id8_location_ipv4_nz"})
    \cup Against("plt_package_entry_id8_location_ipv4_nz",
        {"plt_table_body_prefix", "plt_delivery_info", "plt_delivery_info_ipv4",
         "plt_delivery_info_ipv6", "plt_delivery_info_url", "plt_package_entry_ipv4_nz"})
    \cup Against("plt_package_entry_ipv4", {"plt_package_entry", "plt_package_entry_id8"})

MainPltPairs5 ==
    Against("plt_package_entry_ipv6_nz",
        {"plt_table_body_prefix", "plt_delivery_info", "plt_delivery_info_ipv4",
         "plt_delivery_info_ipv6", "plt_delivery_info_url", "plt_delivery_info_url_3",
         "plt_package_entry", "plt_package_entry_id8", "plt_package_entry_ipv4",
         "plt_package_entry_ipv4_nz", "plt_package_entry_id8_location_ipv4_nz",
         "plt_package_entry_ipv6"})
    \cup Against("plt_package_entry_id8_location_ipv4_nz",
        {"plt_delivery_info_url_3", "plt_package_entry", "plt_package_entry_id8",
         "plt_package_entry_ipv4"})
    \cup Against("plt_package_entry_id8_location_ipv6_nz",
        {"plt_table_body_prefix", "plt_delivery_info", "plt_delivery_info_ipv4",
         "plt_package_entry_id8_location_ipv6"})

MainPltPairs6 ==
    Against("plt_package_entry_ipv6",
        {"plt_table_body_prefix", "plt_delivery_info", "plt_delivery_info_ipv4",
         "plt_delivery_info_ipv6", "plt_delivery_info_url", "plt_delivery_info_url_3",
         "plt_package_entry", "plt_package_entry_id8", "plt_package_entry_ipv4",
         "plt_package_entry_id8_location_ipv4_nz", "plt_package_entry_id8_location_ipv4"})
    \cup Against("plt_package_entry_id8_location_ipv6_nz",
        {"plt_delivery_info_ipv6", "plt_delivery_info_url", "plt_delivery_info_url_3",
         "plt_package_entry", "plt_package_entry_id8", "plt_package_entry_ipv4",
         "plt_package_entry_ipv4_nz", "plt_package_entry_id8_location_ipv4_nz",
         "plt_package_entry_id8_location_ipv4", "plt_package_entry_ipv6_nz"})

MainPltPairs7 ==
    Against("plt_package_entry_id8_location_ipv6",
        {"plt_table_body_prefix", "plt_delivery_info", "plt_delivery_info_ipv4",
         "plt_delivery_info_ipv6", "plt_delivery_info_url", "plt_delivery_info_url_3",
         "plt_delivery_info_url_4", "plt_package_entry", "plt_package_entry_id8",
         "plt_package_entry_ipv4", "plt_package_entry_id8_location_ipv4_nz",
         "plt_package_entry_id8_location_ipv6_nz", "plt_package_entry_id8_location_ipv4",
         "plt_package_entry_ipv6"})
    \cup Against("plt_delivery_info_url_4",
        {"plt_package_entry_ipv4", "plt_package_entry_id8_location_ipv4",
         "plt_package_entry_ipv6"})
    \cup Against("plt_package_entry_id8_location_ipv6_nz", {"plt_package_entry_ipv6"})

MainExcludes ==
    UNION {MainMptPairs1, MainMptPairs2, MainMptPairs3, MainMptPairs4, MainMptPairs5,
           MainMptPairs6, MainMptPairs7, MainMptPairs8, MainMptPairs9, MainPltPairs1,
           MainPltPairs2, MainPltPairs3, MainPltPairs4, MainPltPairs5, MainPltPairs6,
           MainPltPairs7}

\* Mutant of Excluded: the rule is written for assets only.
ExcludedAssets(pairs, flags) == \E pair \in pairs : pair \subseteq flags \cap MptLayouts

Excluded(pairs, flags) == \E pair \in pairs : pair \subseteq flags

====
