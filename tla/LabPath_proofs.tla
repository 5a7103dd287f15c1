-------------------------- MODULE LabPath_proofs --------------------------
(* Theorems about LabPath, for any launches, any payloads and any number of   *)
(* shards: what the sinks' counters tell a receiver, that main never leaves a *)
(* shard running, what it makes of the options it accepts, what is sent and   *)
(* what the totals count.  What they need of a single packet is in            *)
(* Packet_proofs.                                                             *)
EXTENDS LabPath, Packet_proofs

Payloads == UNION {Feeds[l.feed] : l \in Launches}
Packets == {<<>>} \cup {Packet(Config(l.opts), p) : l \in Launches, p \in Payloads}
                  \cup {Packet(NoConfig, p) : p \in Payloads}
Sendings ==
  [payload : Payloads, packet : Packets, number : Nat, own : BOOLEAN, gap : Nat]
Counters ==
  [number : 0..NumberMod - 1, last : Payloads \cup {None}, version : 0..VersionMod - 1]

\* TypeOK, and the types of what it leaves open.
TypeInv ==
  /\ TypeOK
  /\ launch \in Launches
  /\ counters \in [Shard -> Counters]
  /\ sent \in [Shard -> Seq(Sendings)]

----------------------------------------------------------------------------
(* Counters *)

LEMMA Moduli == NumberMod \in Nat /\ NumberMod > 0 /\ VersionMod \in Nat /\ VersionMod > 0
BY SinksAssumption

LEMMA Shards == ASSUME NEW l \in Launches PROVE l.smp \subseteq Shard /\ None \notin Feeds[l.feed]
BY LaunchesAssumption

\* Counting up modulo m.
LEMMA NextModulo ==
  ASSUME NEW m \in Nat, m > 0, NEW v \in 0..m - 1
  PROVE  /\ (v + 1) % m = (IF v = m - 1 THEN 0 ELSE v + 1)
         /\ (v + 1) % m \in 0..m - 1
<1>1. CASE v = m - 1
  <2>1. m % m = 0
    OBVIOUS
  <2> QED BY <1>1, <2>1
<1>2. CASE v # m - 1
  <2>1. v + 1 \in 0..m - 1
    BY <1>2
  <2>2. (v + 1) % m = v + 1
    BY <2>1
  <2> QED BY <1>2, <2>1, <2>2
<1> QED BY <1>1, <1>2

\* What a shard writes comes from a feed.
LEMMA FromFeed ==
  ASSUME NEW l \in Launches, NEW p \in Feeds[l.feed]
  PROVE  p \in Payloads /\ p # None
BY Shards DEF Payloads

\* An lls sink's counters after a frame: the frame is the last one, and the
\* version moves when it is another one.
LEMMA BumpVersionFacts ==
  ASSUME NEW c \in Counters, NEW p \in Payloads, p # None
  PROVE  /\ BumpVersion(c, p) \in Counters
         /\ BumpVersion(c, p).last = p
         /\ BumpVersion(c, p).number = c.number
         /\ c.last \in {None, p} => BumpVersion(c, p).version = c.version
         /\ c.last \notin {None, p} =>
              BumpVersion(c, p).version =
                 (IF c.version = VersionMod - 1 THEN 0 ELSE c.version + 1)
<1>1. c.version \in 0..VersionMod - 1 /\ c.last \in Payloads \cup {None}
  BY DEF Counters
<1>2. /\ (c.version + 1) % VersionMod = (IF c.version = VersionMod - 1 THEN 0 ELSE c.version + 1)
      /\ (c.version + 1) % VersionMod \in 0..VersionMod - 1
  BY <1>1, Moduli, NextModulo
<1>3. CASE c.last = None
  BY <1>3 DEF BumpVersion, Counters
<1>4. CASE c.last # None /\ p = c.last
  BY <1>4 DEF BumpVersion, Counters
<1>5. CASE c.last # None /\ p # c.last
  BY <1>2, <1>5 DEF BumpVersion, Counters
<1> QED BY <1>3, <1>4, <1>5

LEMMA StltpCountsFacts ==
  ASSUME NEW c \in Counters, NEW frame
  PROVE  /\ StltpCounts(c, frame) \in Counters
         /\ StltpAccepts(frame) => StltpCounts(c, frame).number = (c.number + 1) % NumberMod
         /\ ~StltpAccepts(frame) => StltpCounts(c, frame) = c
<1>1. c.number \in 0..NumberMod - 1
  BY DEF Counters
<1>2. (c.number + 1) % NumberMod \in 0..NumberMod - 1
  BY <1>1, Moduli, NextModulo
<1> QED BY <1>2 DEF StltpCounts, Counters

LEMMA Ipv4UdpFileCountsFacts ==
  ASSUME NEW c \in Counters
  PROVE  Ipv4UdpFileCounts(c) \in Counters
<1>1. c.number \in 0..NumberMod - 1
  BY DEF Counters
<1>2. (c.number + 1) % NumberMod \in 0..NumberMod - 1
  BY <1>1, Moduli, NextModulo
<1> QED BY <1>2 DEF Ipv4UdpFileCounts, Counters

\* Whatever the sink, a write leaves counters in their range.
LEMMA WriteCountsType ==
  ASSUME NEW c \in Counters, NEW p \in Payloads, p # None, NEW kind, NEW frame,
         kind = "lls" => frame = p
  PROVE  WriteCounts(kind, c, frame) \in Counters
<1>1. CASE kind = "lls"
  BY <1>1, BumpVersionFacts DEF WriteCounts, LlsCounts
<1>2. CASE kind = "stltp"
  BY <1>2, StltpCountsFacts DEF WriteCounts
<1>3. CASE kind = "ipv4udp-file"
  BY <1>3, Ipv4UdpFileCountsFacts DEF WriteCounts
<1>4. CASE kind \notin {"lls", "stltp", "ipv4udp-file"}
  BY <1>4 DEF WriteCounts
<1> QED BY <1>1, <1>2, <1>3, <1>4

----------------------------------------------------------------------------
(* The type invariant *)

\* The writes are the only steps that touch what has been sent.
StartStep ==
  \/ RefusesOptions \/ Configures
  \/ \E s \in smp : ShardStarts(s) \/ ShardFails(s)
  \/ AllStarted \/ StartFails
  \/ Ready \/ TlsRefused \/ AdminThrows
StopStep ==
  \/ Signal \/ AdminStops
  \/ \E s \in smp : TotalRead(s) \/ TotalWritten(s) \/ ShardStops(s)
  \/ TotalsLogged \/ Returns
  \/ Gone
PayloadStep(s, p) == EncodeFails(s, p) \/ WriteRefused(s, p) \/ Written(s, p)

LEMMA NextCases ==
  ASSUME Next
  PROVE  StartStep \/ StopStep \/ \E s \in smp, p \in Feeds[launch.feed] : PayloadStep(s, p)
BY DEF Next, StartStep, StopStep, PayloadStep

LEMMA StartKeepsData == ASSUME StartStep PROVE UNCHANGED <<launch, dataVars, totalVars, down>>
BY DEF StartStep, RefusesOptions, Configures, ShardStarts, ShardFails, AllStarted, StartFails,
       Ready, TlsRefused, AdminThrows, processVars, shardVars, dataVars, totalVars, Ends

LEMMA StopKeepsData == ASSUME StopStep PROVE UNCHANGED <<launch, cfg, up, failed, dataVars>>
BY DEF StopStep, Signal, AdminStops, TotalRead, TotalWritten, ShardStops, TotalsLogged, Returns,
       Gone, processVars, shardVars, dataVars, totalVars, vars, Ends

LEMMA PayloadKeepsProcess ==
  ASSUME NEW s, NEW p, PayloadStep(s, p)
  PROVE  UNCHANGED <<processVars, shardVars, totalVars>>
BY DEF PayloadStep, EncodeFails, WriteRefused, Written, Writes

\* What Next lets a shard write is a payload of the launch's feed.
LEMMA WriteContext ==
  ASSUME TypeInv, NEW s \in smp, NEW p \in Feeds[launch.feed]
  PROVE  /\ s \in Shard
         /\ p \in Payloads /\ p # None
         /\ counters[s] \in Counters
         /\ sent[s] \in Seq(Sendings)
         /\ gap[s] \in Nat
         /\ scheme = "lls" => Frame(p) = p
<1>1. s \in Shard
  BY DEF TypeInv, TypeOK
<1> QED BY <1>1, FromFeed DEF TypeInv, TypeOK, Frame

\* The packet of a write is one that some launch can build.
LEMMA PacketType ==
  ASSUME TypeInv, NEW p \in Payloads
  PROVE  PacketOf(p) \in Packets
<1>1. cfg = NoConfig \/ cfg = Config(launch.opts)
  BY DEF TypeInv, TypeOK
<1> QED BY <1>1 DEF PacketOf, Packets, TypeInv

\* What a write appends.
NewSending(s, p) ==
  LET gram == Datagram(scheme, counters'[s], Frame(p)) IN
  [payload |-> p, packet |-> PacketOf(p), number |-> gram.number, own |-> gram.own,
   gap |-> gap[s]]

LEMMA DatagramType ==
  ASSUME NEW c \in Counters, NEW kind, NEW frame
  PROVE  /\ Datagram(kind, c, frame).number \in Nat
         /\ Datagram(kind, c, frame).own \in BOOLEAN
<1>1. c.number \in 0..NumberMod - 1 /\ c.version \in 0..VersionMod - 1
  BY DEF Counters
<1>2. NumberMod \in Nat /\ NumberMod > 0
  BY Moduli
<1>3. (c.number - 1) % NumberMod \in 0..NumberMod - 1
  BY <1>1, <1>2
<1> QED BY <1>1, <1>2, <1>3, Moduli DEF Datagram

LEMMA WriteEffect ==
  ASSUME TypeInv, NEW s \in smp, NEW p \in Feeds[launch.feed],
         WriteRefused(s, p) \/ Written(s, p)
  PROVE  /\ counters' = [counters EXCEPT ![s] = WriteCounts(scheme, counters[s], Frame(p))]
         /\ counters'[s] = WriteCounts(scheme, counters[s], Frame(p))
         /\ counters'[s] \in Counters
         /\ counters' \in [Shard -> Counters]
         /\ Written(s, p) => sent' = [sent EXCEPT ![s] = Append(sent[s], NewSending(s, p))]
         /\ Written(s, p) => NewSending(s, p) \in Sendings
<1>1. counters' = [counters EXCEPT ![s] = WriteCounts(scheme, counters[s], Frame(p))]
  BY DEF WriteRefused, Written, Writes
<1>2. WriteCounts(scheme, counters[s], Frame(p)) \in Counters
  BY WriteContext, WriteCountsType
<1>3. s \in Shard /\ counters \in [Shard -> Counters]
  BY WriteContext DEF TypeInv
<1>4. counters'[s] = WriteCounts(scheme, counters[s], Frame(p))
  BY <1>1, <1>3
<1>5. counters' \in [Shard -> Counters]
  BY <1>1, <1>2, <1>3
<1>6. Written(s, p) => sent' = [sent EXCEPT ![s] = Append(sent[s], NewSending(s, p))]
  BY DEF Written, NewSending
<1>7. NewSending(s, p) \in Sendings
  <2>1. /\ Datagram(scheme, counters'[s], Frame(p)).number \in Nat
        /\ Datagram(scheme, counters'[s], Frame(p)).own \in BOOLEAN
    BY <1>2, <1>4, DatagramType
  <2> QED BY <2>1, WriteContext, PacketType DEF NewSending, Sendings
<1> QED BY <1>1, <1>2, <1>4, <1>5, <1>6, <1>7

LEMMA SentType ==
  ASSUME TypeInv, NEW s \in smp, NEW p \in Feeds[launch.feed], Written(s, p)
  PROVE  sent' \in [Shard -> Seq(Sendings)]
<1>1. s \in Shard /\ sent[s] \in Seq(Sendings) /\ sent \in [Shard -> Seq(Sendings)]
  BY WriteContext DEF TypeInv
<1>2. Append(sent[s], NewSending(s, p)) \in Seq(Sendings)
  BY <1>1, WriteEffect, AppendProperties
<1>3. sent' = [sent EXCEPT ![s] = Append(sent[s], NewSending(s, p))]
  BY WriteEffect
<1> QED BY <1>1, <1>2, <1>3

LEMMA TypeInit == ASSUME Init PROVE TypeInv
<1>1. launch \in Launches /\ smp \subseteq Shard
  BY Shards DEF Init, smp
<1>2. NewCounters \in Counters
  BY Moduli DEF NewCounters, Counters
<1>3. counters \in [Shard -> Counters] /\ sent \in [Shard -> Seq(Sendings)]
  BY <1>2 DEF Init
<1>4. TypeOK
  BY <1>1, <1>3 DEF Init, TypeOK, Stages, Exits
<1> QED BY <1>1, <1>3, <1>4 DEF TypeInv

LEMMA StartKeepsType == ASSUME TypeInv, StartStep PROVE TypeInv'
<1>1. UNCHANGED <<launch, counters, stats, sent, gap, total, adding, down, smp>>
  BY StartKeepsData DEF dataVars, totalVars, smp
<1>2. stage' \in Stages /\ exit' \in Exits /\ (cfg' = NoConfig \/ cfg' = Config(launch'.opts))
  <2>1. CASE RefusesOptions
    BY <2>1 DEF TypeInv, TypeOK, RefusesOptions, Ends, Stages, Exits
  <2>2. CASE Configures
    BY <2>2 DEF TypeInv, TypeOK, Configures, Stages, Exits
  <2>3. CASE \E s \in smp : ShardStarts(s) \/ ShardFails(s)
    BY <2>3 DEF TypeInv, TypeOK, ShardStarts, ShardFails, processVars
  <2>4. CASE AllStarted
    BY <2>4 DEF TypeInv, TypeOK, AllStarted, Stages
  <2>5. CASE StartFails
    BY <2>5 DEF TypeInv, TypeOK, StartFails, Ends, Stages, Exits
  <2>6. CASE Ready
    BY <2>6 DEF TypeInv, TypeOK, Ready, Stages
  <2>7. CASE TlsRefused
    BY <2>7 DEF TypeInv, TypeOK, TlsRefused, Stages
  <2>8. CASE AdminThrows
    BY <2>8 DEF TypeInv, TypeOK, AdminThrows, Ends, Stages, Exits
  <2> QED BY <2>1, <2>2, <2>3, <2>4, <2>5, <2>6, <2>7, <2>8 DEF StartStep
<1>3. up' \subseteq smp /\ failed' \subseteq smp
  BY DEF TypeInv, TypeOK, StartStep, RefusesOptions, Configures, ShardStarts, ShardFails,
         AllStarted, StartFails, Ready, TlsRefused, AdminThrows, shardVars
<1> QED BY <1>1, <1>2, <1>3 DEF TypeInv, TypeOK

LEMMA StopKeepsType == ASSUME TypeInv, StopStep PROVE TypeInv'
<1>1. UNCHANGED <<launch, cfg, up, failed, counters, stats, sent, gap, smp>>
  BY StopKeepsData DEF dataVars, smp
<1> DEFINE Typed == /\ stage' \in Stages /\ exit' \in Exits /\ down' \subseteq smp
                    /\ total' \in Nat
                    /\ adding' \in [Shard -> [at : {"idle", "read", "added"}, saw : Nat]]
<1>2. Typed
  <2>1. CASE Signal \/ AdminStops \/ TotalsLogged
    BY <2>1 DEF TypeInv, TypeOK, Signal, AdminStops, TotalsLogged, Stages, shardVars, totalVars
  <2>2. CASE Returns
    BY <2>2 DEF TypeInv, TypeOK, Returns, Ends, Stages, Exits, shardVars, totalVars
  <2>3. CASE Gone
    BY <2>3 DEF TypeInv, TypeOK, Gone, vars, processVars, shardVars, totalVars
  <2>4. ASSUME NEW s \in smp, TotalRead(s) PROVE Typed
    <3>1. s \in Shard /\ total + stats[s].payloads \in Nat
      BY <2>4 DEF TypeInv, TypeOK
    <3> QED BY <2>4, <3>1 DEF TypeInv, TypeOK, TotalRead, processVars, shardVars
  <2>5. ASSUME NEW s \in smp, TotalWritten(s) PROVE Typed
    <3>1. s \in Shard /\ adding[s].saw \in Nat
      BY <2>5 DEF TypeInv, TypeOK
    <3> QED BY <2>5, <3>1 DEF TypeInv, TypeOK, TotalWritten, processVars, shardVars
  <2>6. ASSUME NEW s \in smp, ShardStops(s) PROVE Typed
    BY <2>6 DEF TypeInv, TypeOK, ShardStops, processVars, totalVars
  <2> QED BY <2>1, <2>2, <2>3, <2>4, <2>5, <2>6 DEF StopStep
<1> QED BY <1>1, <1>2 DEF TypeInv, TypeOK

LEMMA PayloadKeepsType ==
  ASSUME TypeInv, NEW s \in smp, NEW p \in Feeds[launch.feed], PayloadStep(s, p)
  PROVE  TypeInv'
<1>1. UNCHANGED <<launch, stage, exit, cfg, up, failed, down, total, adding, smp>>
  BY PayloadKeepsProcess DEF processVars, shardVars, totalVars, smp
<1>2. s \in Shard
  BY WriteContext
<1>3. stats' \in [Shard -> [payloads : Nat, encode_errors : Nat]]
  <2>1. stats[s] \in [payloads : Nat, encode_errors : Nat]
    BY <1>2 DEF TypeInv, TypeOK
  <2>2. Counted(s, TRUE) \/ Counted(s, FALSE)
    BY DEF PayloadStep, EncodeFails, WriteRefused, Written, Writes
  <2>3. \E n \in {0, 1} :
          stats' = [stats EXCEPT ![s] = [payloads |-> stats[s].payloads + 1,
                                         encode_errors |-> stats[s].encode_errors + n]]
    BY <2>2 DEF Counted
  <2>4. PICK n \in {0, 1} :
          stats' = [stats EXCEPT ![s] = [payloads |-> stats[s].payloads + 1,
                                         encode_errors |-> stats[s].encode_errors + n]]
    BY <2>3
  <2>5. [payloads |-> stats[s].payloads + 1, encode_errors |-> stats[s].encode_errors + n]
          \in [payloads : Nat, encode_errors : Nat]
    BY <2>1
  <2>6. stats \in [Shard -> [payloads : Nat, encode_errors : Nat]]
    BY DEF TypeInv, TypeOK
  <2> QED BY <1>2, <2>4, <2>5, <2>6
<1>4. gap' \in [Shard -> Nat]
  <2>1. gap[s] \in Nat /\ gap \in [Shard -> Nat]
    BY <1>2 DEF TypeInv, TypeOK
  <2>2. \E n \in {0, gap[s], gap[s] + 1} : gap' = [gap EXCEPT ![s] = n]
    <3>1. gap = [gap EXCEPT ![s] = gap[s]]
      BY <2>1
    <3>2. CASE EncodeFails(s, p)
      BY <3>1, <3>2 DEF EncodeFails
    <3>3. CASE WriteRefused(s, p)
      BY <3>3 DEF WriteRefused
    <3>4. CASE Written(s, p)
      BY <3>4 DEF Written
    <3> QED BY <3>2, <3>3, <3>4 DEF PayloadStep
  <2> QED BY <1>2, <2>1, <2>2
<1>5. counters' \in [Shard -> Counters] /\ sent' \in [Shard -> Seq(Sendings)]
  <2>1. CASE EncodeFails(s, p)
    BY <2>1 DEF EncodeFails, TypeInv
  <2>2. CASE WriteRefused(s, p)
    BY <2>2, WriteEffect DEF WriteRefused, TypeInv
  <2>3. CASE Written(s, p)
    BY <2>3, WriteEffect, SentType
  <2> QED BY <2>1, <2>2, <2>3 DEF PayloadStep
<1> QED BY <1>1, <1>3, <1>4, <1>5 DEF TypeInv, TypeOK

LEMMA TypeStep == ASSUME TypeInv, [Next]_vars PROVE TypeInv'
<1>1. CASE Next
  BY <1>1, NextCases, StartKeepsType, StopKeepsType, PayloadKeepsType
<1>2. CASE UNCHANGED vars
  BY <1>2 DEF vars, processVars, shardVars, dataVars, totalVars, TypeInv, TypeOK, smp
<1> QED BY <1>1, <1>2

\* Every variable keeps its type; the configuration of the shards is that of
\* the command line from the time it is made.
THEOREM TypeCorrect == Spec => []TypeOK
<1>1. TypeInv => TypeOK
  BY DEF TypeInv
<1> QED BY <1>1, TypeInit, TypeStep, PTL DEF Spec

THEOREM AlwaysTyped == Spec => []TypeInv
BY TypeInit, TypeStep, PTL DEF Spec

----------------------------------------------------------------------------
(* Start and stop *)

\* Before the configuration is made nothing runs; and at the end, nothing is left running.
LifeInv ==
  /\ stage = "command_line" => up = {}
  /\ ReturnMeansStopped

LEMMA LifeStep == ASSUME TypeInv, LifeInv, [Next]_vars PROVE LifeInv'
<1>1. up \subseteq smp
  BY DEF TypeInv, TypeOK
<1>2. CASE StartStep
  BY <1>2 DEF LifeInv, ReturnMeansStopped, StartStep, RefusesOptions, Configures, ShardStarts,
              ShardFails, AllStarted, StartFails, Ready, TlsRefused, AdminThrows, Admin, Ends,
              processVars, shardVars
<1>3. CASE Returns
  BY <1>1, <1>3 DEF LifeInv, ReturnMeansStopped, Returns, Ends, shardVars
<1>4. CASE StopStep /\ ~Returns
  BY <1>4 DEF LifeInv, ReturnMeansStopped, StopStep, Signal, AdminStops, TotalRead, TotalWritten,
              ShardStops, TotalsLogged, Gone, processVars, shardVars, vars
<1>5. ASSUME NEW s \in smp, NEW p \in Feeds[launch.feed], PayloadStep(s, p) PROVE LifeInv'
  BY <1>5, PayloadKeepsProcess DEF LifeInv, ReturnMeansStopped, processVars, shardVars
<1>6. CASE UNCHANGED vars
  BY <1>6 DEF LifeInv, ReturnMeansStopped, vars, processVars, shardVars
<1> QED BY <1>2, <1>3, <1>4, <1>5, <1>6, NextCases

\* main comes to an end, other than by an abort, only when every shard that has
\* started has stopped: for any number of shards, any of which may fail to start.
THEOREM NothingLeftRunning == Spec => []ReturnMeansStopped
<1>1. Init => LifeInv
  BY DEF Init, LifeInv, ReturnMeansStopped
<1>2. LifeInv => ReturnMeansStopped
  BY DEF LifeInv
<1> QED BY <1>1, <1>2, LifeStep, AlwaysTyped, PTL DEF Spec

----------------------------------------------------------------------------
(* One layout per payload *)

\* The pair of layouts that a table can pass as both at once is one the encoder excludes.
LEMMA Ipv4DeliveriesExcluded ==
  ASSUME NEW flags, ~Excluded(EncoderExcludes, flags)
  PROVE  ~({"plt_delivery_info_ipv4", "plt_delivery_info_ipv4_nz"} \subseteq flags)
<1>1. {"plt_delivery_info_ipv4_nz", "plt_delivery_info_ipv4"}
        \in Against("plt_delivery_info_ipv4_nz",
              {"plt_table_body_prefix", "plt_delivery_info", "plt_delivery_info_ipv4"})
  BY DEF Against
<1>2. {"plt_delivery_info_ipv4_nz", "plt_delivery_info_ipv4"} \in EncoderPltPairs2
  BY <1>1 DEF EncoderPltPairs2
<1>3. {"plt_delivery_info_ipv4_nz", "plt_delivery_info_ipv4"} \in EncoderExcludes
  BY <1>2 DEF EncoderExcludes
<1> QED BY <1>3 DEF Excluded

\* A payload is encoded under one layout at most, whatever the configuration is.
LEMMA EncodedUnderOne ==
  ASSUME NEW c, NEW p, Encodes(c, p)
  PROVE  Cardinality(LayoutsOn(c.flags)) <= 1
<1>1. LayoutsAgree(c) /\ TablesHold(c, p)
  BY DEF Encodes
<1>2. ASSUME NEW f \in LayoutsOn(c.flags), NEW g \in LayoutsOn(c.flags) PROVE f = g
  <2>1. f \in c.flags /\ g \in c.flags /\ f \in Layouts /\ g \in Layouts
    BY DEF LayoutsOn
  <2>2. ASSUME NEW h \in c.flags \cap MptLayouts PROVE "mpt_table_body" \in c.flags
    BY <1>1, <2>2 DEF LayoutsAgree, BodyRequired
  <2>3. ASSUME NEW h \in c.flags \cap PltLayouts PROVE "plt_table_body" \in c.flags
    BY <1>1, <2>3 DEF LayoutsAgree, BodyRequired
  <2>4. ~("mpt_table_body" \in c.flags /\ "plt_table_body" \in c.flags)
    BY <1>1 DEF LayoutsAgree
  <2>5. CASE f \in MptLayouts
    <3>1. "mpt_table_body" \in c.flags
      BY <2>1, <2>2, <2>5
    <3>2. g \in MptLayouts
      BY <2>1, <2>3, <2>4, <3>1 DEF Layouts
    <3>3. PICK t : MptLayoutsHold(c.flags, t)
      BY <1>1, <3>1 DEF TablesHold, MptHolds, On
    <3> QED BY <2>1, <2>5, <3>2, <3>3, MptLayoutsApart
  <2>6. CASE f \in PltLayouts
    <3>1. "plt_table_body" \in c.flags
      BY <2>1, <2>3, <2>6
    <3>2. g \in PltLayouts
      BY <2>1, <2>2, <2>4, <3>1 DEF Layouts
    <3>3. PICK t : PltLayoutsHold(c.flags, t)
      BY <1>1, <3>1 DEF TablesHold, PltHolds, On
    <3>4. f = g \/ {f, g} = {"plt_delivery_info_ipv4", "plt_delivery_info_ipv4_nz"}
      BY <2>1, <2>6, <3>2, <3>3, PltLayoutsApart
    <3> QED BY <1>1, <2>1, <3>4, Ipv4DeliveriesExcluded DEF LayoutsAgree
  <2> QED BY <2>1, <2>5, <2>6 DEF Layouts
<1>3. CASE LayoutsOn(c.flags) = {}
  <2>1. Cardinality({}) = 0
    BY FS_EmptySet, Zenon
  <2> QED BY <1>3, <2>1
<1>4. CASE LayoutsOn(c.flags) # {}
  <2>1. PICK f : LayoutsOn(c.flags) = {f}
    BY <1>2, <1>4
  <2>2. Cardinality({f}) = 1
    BY FS_Singleton, Zenon
  <2>3. Cardinality(LayoutsOn(c.flags)) = 1
    BY <2>1, <2>2
  <2> HIDE DEF LayoutsOn
  <2> QED BY <2>3
<1> QED BY <1>3, <1>4

\* Nothing has been sent before there is a configuration.
OneLayoutInv ==
  /\ stage = "command_line" => \A s \in Shard : sent[s] = <<>>
  /\ OneLayoutPerPayload

LEMMA OneLayoutUntouched ==
  ASSUME OneLayoutInv, UNCHANGED <<launch, cfg, sent>>, stage' # "command_line" \/ stage' = stage
  PROVE  OneLayoutInv'
BY DEF OneLayoutInv, OneLayoutPerPayload, SentPackets, scheme

LEMMA OneLayoutStep == ASSUME TypeInv, LifeInv, OneLayoutInv, [Next]_vars PROVE OneLayoutInv'
<1>1. CASE Configures
  <2>1. \A s \in Shard : sent'[s] = <<>>
    BY <1>1 DEF OneLayoutInv, Configures, dataVars
  <2>2. SentPackets' = {}
    BY <2>1 DEF SentPackets, Range
  <2> QED BY <2>1, <2>2 DEF OneLayoutInv, OneLayoutPerPayload
<1>2. CASE StartStep /\ ~Configures
  <2>1. launch' = launch /\ sent' = sent
    BY <1>2, StartKeepsData DEF dataVars
  <2>2. cfg' = cfg /\ (stage' # "command_line" \/ stage' = stage)
    BY <1>2 DEF StartStep, RefusesOptions, ShardStarts, ShardFails, AllStarted, StartFails,
                Ready, TlsRefused, AdminThrows, processVars, Ends
  <2> QED BY <2>1, <2>2, OneLayoutUntouched
<1>3. CASE StopStep
  <2>1. launch' = launch /\ sent' = sent /\ cfg' = cfg
    BY <1>3, StopKeepsData DEF dataVars
  <2>2. stage' # "command_line" \/ stage' = stage
    BY <1>3 DEF StopStep, Signal, AdminStops, TotalRead, TotalWritten, ShardStops, TotalsLogged,
                Returns, Gone, processVars, vars, Ends
  <2> QED BY <2>1, <2>2, OneLayoutUntouched
<1>4. ASSUME NEW s \in smp, NEW p \in Feeds[launch.feed], PayloadStep(s, p) PROVE OneLayoutInv'
  <2>1. UNCHANGED <<launch, stage, cfg>>
    BY <1>4, PayloadKeepsProcess DEF processVars
  <2>2. CASE ~Written(s, p)
    <3>1. sent' = sent
      BY <1>4, <2>2 DEF PayloadStep, EncodeFails, WriteRefused
    <3> QED BY <2>1, <3>1, OneLayoutUntouched
  <2>3. CASE Written(s, p)
    <3>1. stage # "command_line"
      BY <2>3 DEF Written, Writes, Arrives, LifeInv
    <3>2. scheme = "lls" \/ Encodes(cfg, p)
      BY <2>3 DEF Written, Writes, Encoded
    <3>3. CASE scheme = "lls"
      BY <2>1, <3>1, <3>3 DEF OneLayoutInv, OneLayoutPerPayload, SentPackets, scheme
    <3>4. CASE Encodes(cfg, p)
      <4>1. Cardinality(LayoutsOn(cfg.flags)) <= 1
        BY <3>4, EncodedUnderOne
      <4>2. Cardinality(LayoutsOn(cfg'.flags)) <= 1
        BY <2>1, <4>1
      <4> QED BY <2>1, <3>1, <4>2 DEF OneLayoutInv, OneLayoutPerPayload, LayoutsOn
    <3> QED BY <3>2, <3>3, <3>4
  <2> QED BY <2>2, <2>3
<1>5. CASE UNCHANGED vars
  BY <1>5, OneLayoutUntouched DEF vars, processVars, dataVars
<1> QED BY <1>1, <1>2, <1>3, <1>4, <1>5, NextCases

LEMMA OneLayoutInit == ASSUME Init PROVE OneLayoutInv
<1>1. \A s \in Shard : sent[s] = <<>>
  BY DEF Init
<1>2. SentPackets = {}
  BY <1>1 DEF SentPackets, Range
<1> QED BY <1>1, <1>2 DEF OneLayoutInv, OneLayoutPerPayload

\* Whatever tables the peers send, of any size and content, and whatever the
\* command line asks for, no payload is sent under two layouts at once.
THEOREM SentUnderOneLayout == Spec => []OneLayoutPerPayload
<1>1. Init => OneLayoutInv
  BY OneLayoutInit
<1>2. OneLayoutInv => OneLayoutPerPayload
  BY DEF OneLayoutInv
<1>3. Init => LifeInv
  BY DEF Init, LifeInv, ReturnMeansStopped
<1> QED BY <1>1, <1>2, <1>3, LifeStep, OneLayoutStep, AlwaysTyped, PTL DEF Spec

----------------------------------------------------------------------------
(* STLTP *)

\* The counter of a shard is the number of its last datagram.
StltpInv ==
  scheme = "stltp" =>
    \A s \in Shard :
      /\ counters[s].number = (IF sent[s] = <<>> THEN 0 ELSE sent[s][Len(sent[s])].number)
      /\ \A i \in DOMAIN sent[s] :
           sent[s][i].number = ((IF i = 1 THEN 0 ELSE sent[s][i - 1].number) + 1) % NumberMod

\* What a sequence holds once something is appended.
LEMMA Appended ==
  ASSUME NEW S, NEW q \in Seq(S), NEW e \in S
  PROVE  /\ Len(q) \in Nat
         /\ DOMAIN q = 1..Len(q)
         /\ Append(q, e) \in Seq(S)
         /\ Append(q, e) # <<>>
         /\ Len(Append(q, e)) = Len(q) + 1
         /\ DOMAIN Append(q, e) = 1..Len(q) + 1
         /\ \A i \in 1..Len(q) : Append(q, e)[i] = q[i]
         /\ Append(q, e)[Len(q) + 1] = e
         /\ Len(q) = 0 <=> q = <<>>
BY AppendProperties

\* Written, for the shard that writes and for the others.
LEMMA WrittenEffect ==
  ASSUME TypeInv, NEW s \in smp, NEW p \in Feeds[launch.feed], Written(s, p)
  PROVE  /\ s \in Shard
         /\ sent'[s] = Append(sent[s], NewSending(s, p))
         /\ \A t \in Shard \ {s} : sent'[t] = sent[t]
<1>1. s \in Shard /\ sent \in [Shard -> Seq(Sendings)]
  BY WriteContext DEF TypeInv
<1>2. sent' = [sent EXCEPT ![s] = Append(sent[s], NewSending(s, p))]
  BY WriteEffect
<1> QED BY <1>1, <1>2

LEMMA StltpWritten ==
  ASSUME TypeInv, StltpInv, scheme = "stltp", scheme' = scheme,
         NEW s \in smp, NEW p \in Feeds[launch.feed], Written(s, p)
  PROVE  StltpInv'
<1> DEFINE q == sent[s]
           e == NewSending(s, p)
           n == Len(q)
<1>1. s \in Shard /\ q \in Seq(Sendings) /\ e \in Sendings /\ counters[s] \in Counters
  BY WriteContext, WriteEffect
<1>2. /\ sent'[s] = Append(q, e)
      /\ \A t \in Shard \ {s} : sent'[t] = sent[t]
  BY WrittenEffect
<1>3. /\ counters'[s] = StltpCounts(counters[s], Frame(p))
      /\ \A t \in Shard \ {s} : counters'[t] = counters[t]
  BY <1>1, WriteEffect DEF WriteCounts, TypeInv
<1>4. counters'[s].number = (counters[s].number + 1) % NumberMod
  <2>1. StltpAccepts(Frame(p))
    BY DEF Written, WriteAccepts
  <2> QED BY <1>1, <1>3, <2>1, StltpCountsFacts
<1>5. e.number = counters'[s].number
  BY DEF NewSending, Datagram
<1>6. counters[s].number = (IF q = <<>> THEN 0 ELSE q[n].number)
  BY <1>1 DEF StltpInv
<1>7. \A i \in 1..n : q[i].number = ((IF i = 1 THEN 0 ELSE q[i - 1].number) + 1) % NumberMod
  <2>1. DOMAIN q = 1..n
    BY <1>1, Appended
  <2>2. \A i \in DOMAIN q : q[i].number = ((IF i = 1 THEN 0 ELSE q[i - 1].number) + 1) % NumberMod
    BY <1>1 DEF StltpInv
  <2> QED BY <2>1, <2>2
<1> HIDE DEF e
<1>8. /\ n \in Nat /\ DOMAIN sent'[s] = 1..n + 1 /\ Len(sent'[s]) = n + 1 /\ sent'[s] # <<>>
      /\ \A i \in 1..n : sent'[s][i] = q[i]
      /\ sent'[s][n + 1] = e
      /\ n = 0 <=> q = <<>>
  BY <1>1, <1>2, Appended
<1>9. counters'[s].number = (IF sent'[s] = <<>> THEN 0 ELSE sent'[s][Len(sent'[s])].number)
  BY <1>5, <1>8
<1>10. ASSUME NEW i \in DOMAIN sent'[s]
       PROVE  sent'[s][i].number
                = ((IF i = 1 THEN 0 ELSE sent'[s][i - 1].number) + 1) % NumberMod
  <2>1. CASE i \in 1..n
    <3>1. i # 1 => i - 1 \in 1..n
      BY <1>8, <2>1
    <3> QED BY <1>7, <1>8, <2>1, <3>1
  <2>2. CASE i = n + 1
    <3>1. i # 1 => n \in 1..n /\ q # <<>> /\ i - 1 = n
      BY <1>8, <2>2
    <3>2. i = 1 => q = <<>>
      BY <1>8, <2>2
    <3>3. counters[s].number = (IF i = 1 THEN 0 ELSE sent'[s][i - 1].number)
      BY <1>6, <1>8, <3>1, <3>2
    <3> QED BY <1>4, <1>5, <1>8, <2>2, <3>3
  <2> QED BY <1>8, <1>10, <2>1, <2>2
<1>11. ASSUME NEW t \in Shard \ {s}
       PROVE  sent'[t] = sent[t] /\ counters'[t] = counters[t]
  BY <1>2, <1>3
<1> QED BY <1>9, <1>10, <1>11 DEF StltpInv

LEMMA StltpStep == ASSUME TypeInv, StltpInv, [Next]_vars PROVE StltpInv'
<1>1. CASE UNCHANGED <<launch, counters, sent>>
  BY <1>1 DEF StltpInv, scheme
<1>2. CASE StartStep \/ StopStep \/ UNCHANGED vars
  BY <1>1, <1>2, StartKeepsData, StopKeepsData DEF dataVars, vars, processVars
<1>3. ASSUME NEW s \in smp, NEW p \in Feeds[launch.feed], PayloadStep(s, p) PROVE StltpInv'
  <2>1. launch' = launch /\ scheme' = scheme
    BY <1>3, PayloadKeepsProcess DEF processVars, scheme
  <2>2. CASE EncodeFails(s, p)
    BY <1>1, <2>1, <2>2 DEF EncodeFails
  <2>3. CASE WriteRefused(s, p)
    <3>1. CASE scheme = "stltp"
      <4>1. counters[s] \in Counters /\ s \in Shard
        BY WriteContext
      <4>2. ~StltpAccepts(Frame(p))
        BY <2>3, <3>1 DEF WriteRefused, WriteAccepts
      <4>3. counters' = [counters EXCEPT ![s] = StltpCounts(counters[s], Frame(p))]
        BY <2>3, <3>1, WriteEffect DEF WriteCounts
      <4>4. counters' = counters
        BY <4>1, <4>2, <4>3, StltpCountsFacts DEF TypeInv
      <4> QED BY <1>1, <2>1, <2>3, <4>4 DEF WriteRefused
    <3>2. CASE scheme # "stltp"
      BY <2>1, <3>2 DEF StltpInv
    <3> QED BY <3>1, <3>2
  <2>4. CASE Written(s, p)
    <3>1. CASE scheme # "stltp"
      BY <2>1, <3>1 DEF StltpInv
    <3> QED BY <2>1, <2>4, <3>1, StltpWritten
  <2> QED BY <1>3, <2>2, <2>3, <2>4 DEF PayloadStep
<1> QED BY <1>2, <1>3, NextCases

\* The sequence numbers of every shard's STLTP datagrams follow one another,
\* whatever is refused in between and however often they wrap.
THEOREM StltpNumbersFollow == Spec => []StltpUnbroken
<1>1. Init => StltpInv
  BY DEF Init, StltpInv, NewCounters
<1>2. StltpInv => StltpUnbroken
  BY DEF StltpInv, StltpUnbroken
<1> QED BY <1>1, <1>2, StltpStep, AlwaysTyped, PTL DEF Spec

----------------------------------------------------------------------------
(* LLS *)

\* the datagram of a shard that was numbered last
LastNumbered(s, i) ==
  /\ sent[s][i].own
  /\ \A k \in i + 1 .. Len(sent[s]) : ~sent[s][k].own

\* version v is k steps behind n, counted round
Round(v, n, k) == v = n + k \/ v = n + k - VersionMod

\* The version of a shard is as many steps ahead of its last numbered datagram
\* as frames have changed since, which are refused frames; with no step taken
\* the frame seen last is that datagram's.
AheadOf(s, e) ==
  /\ counters[s].last # None
  /\ gap[s] < VersionMod =>
       \E k \in 0..gap[s] :
         Round(counters[s].version, e.number, k) /\ (k = 0 => counters[s].last = e.payload)

\* what two numbered datagrams in a row tell each other
Tells(first, second) ==
  /\ first.payload # second.payload /\ second.gap < VersionMod - 1 => first.number # second.number
  /\ first.payload = second.payload /\ second.gap = 0 => first.number = second.number

LlsInvOf(s) ==
  /\ \A i \in DOMAIN sent[s] :
       sent[s][i].own => scheme = "lls" /\ sent[s][i].number \in 0..VersionMod - 1
  /\ \A i \in DOMAIN sent[s] : LastNumbered(s, i) => AheadOf(s, sent[s][i])
  /\ \A i, j \in DOMAIN sent[s] : NextNumbered(s, i, j) => Tells(sent[s][i], sent[s][j])
LlsInv == \A s \in Shard : LlsInvOf(s)

\* Steps ahead, before and after one more frame.
LEMMA OneMoreFrame ==
  ASSUME NEW c \in Counters, NEW p \in Payloads, p # None, NEW n \in 0..VersionMod - 1,
         NEW g \in Nat, g < VersionMod, NEW q \in Payloads, c.last # None,
         \E k \in 0..g : Round(c.version, n, k) /\ (k = 0 => c.last = q)
  PROVE  /\ \E l \in 0..g + 1 :
              Round(BumpVersion(c, p).version, n, l) /\ (l = 0 => BumpVersion(c, p).last = q)
         /\ q # p /\ g < VersionMod - 1 => n # BumpVersion(c, p).version
         /\ q = p /\ g = 0 => n = BumpVersion(c, p).version
<1> DEFINE v == c.version
           w == BumpVersion(c, p).version
           m == VersionMod
<1> PICK k \in 0..g : Round(c.version, n, k) /\ (k = 0 => c.last = q)
  OBVIOUS
<1>1. v \in 0..m - 1 /\ n \in 0..m - 1 /\ m \in Nat /\ m > 0 /\ k \in 0..g /\ g \in Nat /\ g < m
  BY Moduli DEF Counters
<1>2. BumpVersion(c, p).last = p
  BY BumpVersionFacts
<1>3. v = n + k \/ v = n + k - m
  BY DEF Round
<1>4. CASE c.last = p
  <2>1. w = v
    BY <1>4, BumpVersionFacts
  <2>2. k = 0 => q = p
    BY <1>4
  <2> HIDE DEF v, w, m
  <2>3. k \in 0..g + 1
    BY <1>1
  <2>4. q # p => n # w
    BY <1>1, <1>3, <2>1, <2>2
  <2>5. g = 0 => n = w
    BY <1>1, <1>3, <2>1
  <2> QED BY <1>2, <1>3, <2>1, <2>2, <2>3, <2>4, <2>5 DEF Round, w, v, m
<1>5. CASE c.last # p
  <2>1. w = IF v = m - 1 THEN 0 ELSE v + 1
    BY <1>5, BumpVersionFacts
  <2>2. k = 0 => q # p
    BY <1>5
  <2> HIDE DEF v, w, m
  <2>3. k + 1 \in 0..g + 1 /\ k + 1 # 0
    BY <1>1
  <2>4. w = n + (k + 1) \/ w = n + (k + 1) - m
    BY <1>1, <1>3, <2>1
  <2>5. g < m - 1 => n # w
    BY <1>1, <1>3, <2>1
  <2>6. q = p => g # 0
    BY <1>1, <2>2
  <2> QED BY <2>3, <2>4, <2>5, <2>6 DEF Round, w, m
<1> QED BY <1>4, <1>5

\* A shard whose frames and counters stay as they are.
LEMMA LlsUntouched ==
  ASSUME NEW s, LlsInvOf(s), scheme' = scheme, counters'[s] = counters[s], gap'[s] = gap[s],
         sent'[s] = sent[s]
  PROVE  LlsInvOf(s)'
BY DEF LlsInvOf, LastNumbered, AheadOf, NextNumbered, Tells, Round

LEMMA LlsRefused ==
  ASSUME TypeInv, LlsInv, scheme' = scheme,
         NEW s \in smp, NEW p \in Feeds[launch.feed], WriteRefused(s, p)
  PROVE  LlsInvOf(s)'
<1>1. /\ s \in Shard /\ p \in Payloads /\ p # None /\ counters[s] \in Counters
      /\ sent[s] \in Seq(Sendings) /\ gap[s] \in Nat
  BY WriteContext
<1>2. sent' = sent /\ LlsInvOf(s)
  BY <1>1 DEF WriteRefused, LlsInv
<1>3. counters'[s] = WriteCounts(scheme, counters[s], Frame(p))
  BY WriteEffect
<1>4. gap'[s] = (IF scheme = "lls" /\ p.form # "ready" THEN gap[s] + 1 ELSE gap[s])
  BY <1>1 DEF WriteRefused, TypeInv, TypeOK
<1>5. CASE scheme # "lls"
  BY <1>2, <1>5 DEF LlsInvOf, LastNumbered, NextNumbered
<1>6. CASE scheme = "lls" /\ p.form = "ready"
  <2>1. counters'[s] = counters[s]
    BY <1>3, <1>6 DEF WriteCounts, LlsCounts, Frame
  <2> QED BY <1>2, <1>4, <1>6, <2>1, LlsUntouched
<1>7. CASE scheme = "lls" /\ p.form # "ready"
  <2>1. counters'[s] = BumpVersion(counters[s], p) /\ gap'[s] = gap[s] + 1
    BY <1>3, <1>4, <1>7 DEF WriteCounts, LlsCounts, Frame
  <2>2. ASSUME NEW i \in DOMAIN sent[s], LastNumbered(s, i) PROVE AheadOf(s, sent[s][i])'
    <3>1. AheadOf(s, sent[s][i]) /\ sent[s][i].number \in 0..VersionMod - 1
      BY <1>2, <2>2 DEF LlsInvOf, LastNumbered
    <3>2. counters'[s].last # None
      BY <1>1, <2>1, BumpVersionFacts
    <3> DEFINE c == counters[s]
               n == sent[s][i].number
               q == sent[s][i].payload
               g == gap[s]
    <3>3. sent[s][i] \in Sendings
      BY <1>1
    <3>4. ASSUME g + 1 < VersionMod
          PROVE  \E l \in 0..g + 1 :
                   Round(BumpVersion(c, p).version, n, l) /\ (l = 0 => BumpVersion(c, p).last = q)
      <4>1. g < VersionMod
        BY <1>1, <3>4, Moduli
      <4>2. \E k \in 0..g : Round(c.version, n, k) /\ (k = 0 => c.last = q)
        BY <3>1, <4>1 DEF AheadOf
      <4>3. c.last # None /\ q \in Payloads
        BY <3>1, <3>3 DEF AheadOf, Sendings
      <4>4. c \in Counters /\ n \in 0..VersionMod - 1 /\ g \in Nat
        BY <1>1, <3>1
      <4> HIDE DEF c, n, q, g
      <4> QED BY <1>1, <4>1, <4>2, <4>3, <4>4, OneMoreFrame
    <3>5. gap'[s] < VersionMod =>
            \E l \in 0..gap'[s] :
              Round(counters'[s].version, n, l) /\ (l = 0 => counters'[s].last = q)
      BY <2>1, <3>4
    <3> QED BY <1>2, <3>2, <3>5 DEF AheadOf, Round
  <2> QED BY <1>2, <1>7, <2>2 DEF LlsInvOf, LastNumbered, NextNumbered, Tells
<1> QED BY <1>5, <1>6, <1>7

LEMMA LlsWritten ==
  ASSUME TypeInv, LlsInv, scheme' = scheme,
         NEW s \in smp, NEW p \in Feeds[launch.feed], Written(s, p)
  PROVE  LlsInvOf(s)'
<1> DEFINE q == sent[s]
           e == NewSending(s, p)
           n == Len(q)
           ours == scheme = "lls" /\ p.form # "ready"
<1>1. /\ s \in Shard /\ p \in Payloads /\ p # None /\ counters[s] \in Counters
      /\ q \in Seq(Sendings) /\ gap[s] \in Nat /\ e \in Sendings /\ LlsInvOf(s)
  BY WriteContext, WriteEffect DEF LlsInv
<1>2. e.own = ours /\ e.payload = p /\ e.gap = gap[s]
  <2>1. scheme = "lls" => Frame(p) = p
    BY WriteContext
  <2> QED BY <2>1 DEF NewSending, Datagram
<1>3. ours => /\ counters'[s] = BumpVersion(counters[s], p)
              /\ e.number = BumpVersion(counters[s], p).version
  BY WriteEffect DEF WriteCounts, LlsCounts, Frame, NewSending, Datagram
<1>4. ~ours /\ scheme = "lls" => counters'[s] = counters[s]
  BY WriteEffect DEF WriteCounts, LlsCounts, Frame
<1>5. gap'[s] = (IF ours THEN 0 ELSE gap[s])
  <2>1. gap'[s] = (IF e.own THEN 0 ELSE gap[s])
    BY <1>1 DEF Written, NewSending, TypeInv, TypeOK
  <2> QED BY <1>2, <2>1
<1>6. sent'[s] = Append(q, e)
  BY WrittenEffect
<1> HIDE DEF e, ours
<1>7. /\ n \in Nat /\ DOMAIN q = 1..n /\ DOMAIN sent'[s] = 1..n + 1 /\ Len(sent'[s]) = n + 1
      /\ \A i \in 1..n : sent'[s][i] = q[i]
      /\ sent'[s][n + 1] = e
  BY <1>1, <1>6, Appended
<1>8. ASSUME NEW i \in DOMAIN sent'[s], sent'[s][i].own
      PROVE  scheme' = "lls" /\ sent'[s][i].number \in 0..VersionMod - 1
  <2>1. CASE i \in 1..n
    BY <1>1, <1>7, <1>8, <2>1 DEF LlsInvOf
  <2>2. CASE i = n + 1
    <3>1. BumpVersion(counters[s], p) \in Counters
      BY <1>1, BumpVersionFacts
    <3>2. BumpVersion(counters[s], p).version \in 0..VersionMod - 1
      BY <3>1 DEF Counters
    <3>3. ours
      BY <1>2, <1>7, <1>8, <2>2
    <3> QED BY <1>3, <1>7, <2>2, <3>2, <3>3 DEF ours
  <2> QED BY <1>7, <1>8, <2>1, <2>2
<1>9. ASSUME NEW i \in 1..n, ~ours PROVE LastNumbered(s, i)' <=> LastNumbered(s, i)
  <2>1. ~e.own
    BY <1>2, <1>9
  <2>2. /\ sent'[s][i] = q[i]
        /\ \A k \in i + 1 .. n : sent'[s][k] = q[k]
        /\ \A k \in i + 1 .. n + 1 : k \in i + 1 .. n \/ k = n + 1
    BY <1>7
  <2>3. \A k \in i + 1 .. n : k \in i + 1 .. n + 1
    BY <1>7
  <2> QED BY <1>7, <2>1, <2>2, <2>3 DEF LastNumbered
<1>10. ASSUME NEW i \in DOMAIN sent'[s], LastNumbered(s, i)' PROVE AheadOf(s, sent[s][i])'
  <2>1. CASE ours
    <3>1. i = n + 1
      <4>1. n + 1 \in 1..n + 1
        BY <1>7
      <4>2. sent'[s][n + 1].own
        BY <1>2, <1>7, <2>1
      <4>3. i \in 1..n + 1
        BY <1>7
      <4>4. i < n + 1 => n + 1 \in i + 1 .. n + 1
        BY <1>7, <4>3
      <4>5. \A k \in i + 1 .. n + 1 : ~sent'[s][k].own
        BY <1>7, <1>10 DEF LastNumbered
      <4> QED BY <1>7, <4>2, <4>3, <4>4, <4>5
    <3>2. counters'[s].last = p /\ counters'[s].version = e.number /\ gap'[s] = 0
      BY <1>1, <1>3, <1>5, <2>1, BumpVersionFacts
    <3>3. e.number \in Nat
      BY <1>1 DEF Sendings
    <3>4. 0 \in 0..gap'[s] /\ Round(counters'[s].version, e.number, 0)
      BY <3>2, <3>3 DEF Round
    <3>5. \E k \in 0..gap'[s] : /\ Round(counters'[s].version, e.number, k)
                                /\ k = 0 => counters'[s].last = e.payload
      BY <1>2, <3>2, <3>4
    <3>6. sent'[s][i] = e /\ counters'[s].last # None
      BY <1>1, <1>7, <3>1, <3>2
    <3> QED BY <3>5, <3>6 DEF AheadOf, Round
  <2>2. CASE ~ours
    <3>1. i \in 1..n
      <4>1. i # n + 1
        BY <1>2, <1>7, <1>10, <2>2 DEF LastNumbered
      <4> QED BY <1>7, <4>1
    <3>2. LastNumbered(s, i) /\ scheme = "lls"
      <4>1. LastNumbered(s, i)
        BY <1>9, <1>10, <2>2, <3>1
      <4> QED BY <1>1, <1>7, <3>1, <4>1 DEF LlsInvOf, LastNumbered
    <3>3. AheadOf(s, q[i])
      BY <1>1, <1>7, <3>1, <3>2 DEF LlsInvOf
    <3>4. counters'[s] = counters[s] /\ gap'[s] = gap[s] /\ sent'[s][i] = q[i]
      BY <1>4, <1>5, <1>7, <2>2, <3>1, <3>2
    <3>5. /\ counters'[s].last # None
          /\ gap'[s] < VersionMod =>
               \E k \in 0..gap'[s] :
                 /\ Round(counters'[s].version, sent'[s][i].number, k)
                 /\ k = 0 => counters'[s].last = sent'[s][i].payload
      BY <3>3, <3>4 DEF AheadOf
    <3> QED BY <3>5 DEF AheadOf, Round
  <2> QED BY <2>1, <2>2
<1>11. ASSUME NEW i \in DOMAIN sent'[s], NEW j \in DOMAIN sent'[s], NextNumbered(s, i, j)'
       PROVE  Tells(sent'[s][i], sent'[s][j])
  <2>1. i \in 1..n
    BY <1>7, <1>11 DEF NextNumbered
  <2>2. CASE j \in 1..n
    <3>1. \A k \in i + 1 .. j - 1 : k \in 1..n
      BY <1>7, <2>1, <2>2
    <3>2. NextNumbered(s, i, j)
      BY <1>7, <1>11, <2>1, <2>2, <3>1 DEF NextNumbered
    <3>3. Tells(q[i], q[j])
      BY <1>1, <1>7, <2>1, <2>2, <3>2 DEF LlsInvOf
    <3>4. sent'[s][i] = q[i] /\ sent'[s][j] = q[j]
      BY <1>7, <2>1, <2>2
    <3> QED BY <3>3, <3>4
  <2>3. CASE j = n + 1
    <3>1. ours
      BY <1>2, <1>7, <1>11, <2>3 DEF NextNumbered
    <3>2. LastNumbered(s, i)
      <4>1. \A k \in i + 1 .. n : k \in i + 1 .. j - 1 /\ sent'[s][k] = q[k]
        BY <1>7, <2>1, <2>3
      <4> QED BY <1>7, <1>11, <2>1, <4>1 DEF NextNumbered, LastNumbered
    <3>3. AheadOf(s, q[i]) /\ q[i].number \in 0..VersionMod - 1 /\ q[i].payload \in Payloads
      <4>1. q[i] \in Sendings
        BY <1>1, <1>7, <2>1
      <4> QED BY <1>1, <1>7, <2>1, <3>2, <4>1 DEF LlsInvOf, LastNumbered, Sendings
    <3> DEFINE c == counters[s]
               m == q[i].number
               r == q[i].payload
               g == gap[s]
               w == BumpVersion(c, p).version
    <3>4. ASSUME g < VersionMod
          PROVE  /\ r # p /\ g < VersionMod - 1 => m # w
                 /\ r = p /\ g = 0 => m = w
      <4>1. c.last # None
        BY <3>3 DEF AheadOf
      <4>2. \E k \in 0..g : Round(c.version, m, k) /\ (k = 0 => c.last = r)
        BY <3>3, <3>4 DEF AheadOf
      <4>3. c \in Counters /\ g \in Nat /\ m \in 0..VersionMod - 1 /\ r \in Payloads
        BY <1>1, <3>3
      <4> HIDE DEF c, m, r, g
      <4> QED BY <1>1, <3>4, <4>1, <4>2, <4>3, OneMoreFrame DEF w
    <3>5. (g < VersionMod - 1 => g < VersionMod) /\ (g = 0 => g < VersionMod)
      BY <1>1, Moduli
    <3>6. sent'[s][i] = q[i] /\ sent'[s][j] = e /\ e.payload = p /\ e.gap = g /\ e.number = w
      BY <1>2, <1>3, <1>7, <2>1, <2>3, <3>1
    <3> HIDE DEF g, w
    <3> QED BY <3>4, <3>5, <3>6 DEF Tells
  <2> QED BY <1>7, <1>11, <2>2, <2>3
<1>12. \A i, j \in DOMAIN sent'[s] : NextNumbered(s, i, j)' => Tells(sent'[s][i], sent'[s][j])
  BY <1>11
<1>13. \A i \in DOMAIN sent'[s] : LastNumbered(s, i)' => AheadOf(s, sent[s][i])'
  BY <1>10
<1>14. \A i \in DOMAIN sent'[s] :
         sent'[s][i].own => scheme' = "lls" /\ sent'[s][i].number \in 0..VersionMod - 1
  BY <1>8
<1> QED BY <1>12, <1>13, <1>14 DEF LlsInvOf, Tells, AheadOf, Round, NextNumbered, LastNumbered

LEMMA LlsStep == ASSUME TypeInv, LlsInv, [Next]_vars PROVE LlsInv'
<1>1. ASSUME UNCHANGED <<launch, counters, sent, gap>> PROVE LlsInv'
  BY <1>1, LlsUntouched DEF LlsInv, scheme
<1>2. CASE StartStep \/ StopStep \/ UNCHANGED vars
  BY <1>1, <1>2, StartKeepsData, StopKeepsData DEF dataVars, vars, processVars
<1>3. ASSUME NEW s \in smp, NEW p \in Feeds[launch.feed], PayloadStep(s, p) PROVE LlsInv'
  <2>1. launch' = launch /\ scheme' = scheme
    BY <1>3, PayloadKeepsProcess DEF processVars, scheme
  <2>2. CASE EncodeFails(s, p)
    BY <1>1, <2>1, <2>2 DEF EncodeFails
  <2>3. CASE WriteRefused(s, p) \/ Written(s, p)
    <3>1. ASSUME NEW t \in Shard, t # s
          PROVE  counters'[t] = counters[t] /\ gap'[t] = gap[t] /\ sent'[t] = sent[t]
      <4>1. counters' = [counters EXCEPT ![s] = WriteCounts(scheme, counters[s], Frame(p))]
        BY <2>3, WriteEffect
      <4>2. counters'[t] = counters[t]
        BY <3>1, <4>1 DEF TypeInv
      <4>3. gap'[t] = gap[t]
        BY <2>3, <3>1 DEF WriteRefused, Written, TypeInv, TypeOK
      <4>4. sent'[t] = sent[t]
        BY <2>3, <3>1, WrittenEffect DEF WriteRefused
      <4> QED BY <4>2, <4>3, <4>4
    <3>2. \A t \in Shard \ {s} : LlsInvOf(t)'
      BY <2>1, <3>1, LlsUntouched DEF LlsInv
    <3>3. LlsInvOf(s)'
      BY <2>1, <2>3, LlsRefused, LlsWritten
    <3> QED BY <3>2, <3>3 DEF LlsInv
  <2> QED BY <1>3, <2>2, <2>3 DEF PayloadStep
<1> QED BY <1>2, <1>3, NextCases

\* An LLS receiver of one shard sees the version change when the table has
\* changed and only then, unless refused frames have used the versions up: for
\* any number of versions, any tables and any number of them.
THEOREM LlsVersionsTell == Spec => []LlsVersionTellsChange
<1>1. Init => LlsInv
  BY DEF Init, LlsInv, LlsInvOf
<1>2. LlsInv => LlsVersionTellsChange
  BY DEF LlsInv, LlsInvOf, LlsVersionTellsChange, Tells
<1> QED BY <1>1, <1>2, LlsStep, AlwaysTyped, PTL DEF Spec

----------------------------------------------------------------------------
(* What main accepts, it does *)

LEMMA ConfigKept ==
  ASSUME StartStep \/ StopStep, ~Configures
  PROVE  cfg' = cfg
<1>1. StartStep => cfg' = cfg
  BY DEF StartStep, RefusesOptions, ShardStarts, ShardFails, AllStarted, StartFails, Ready,
         TlsRefused, AdminThrows, processVars
<1> QED BY <1>1, StopKeepsData

\* There is a configuration only of options that have been accepted.
ConfigInv == cfg # NoConfig => Accepted(launch.opts)

LEMMA ConfigStep == ASSUME ConfigInv, [Next]_vars PROVE ConfigInv'
<1>1. CASE Configures
  BY <1>1 DEF ConfigInv, Configures
<1>2. CASE (StartStep \/ StopStep) /\ ~Configures
  BY <1>2, ConfigKept, StartKeepsData, StopKeepsData DEF ConfigInv
<1>3. ASSUME NEW s \in smp, NEW p \in Feeds[launch.feed], PayloadStep(s, p) PROVE ConfigInv'
  BY <1>3, PayloadKeepsProcess DEF ConfigInv, processVars
<1>4. CASE UNCHANGED vars
  BY <1>4 DEF ConfigInv, vars, processVars
<1> QED BY <1>1, <1>2, <1>3, <1>4, NextCases

\* Whatever options main accepts, of any values and any number of them, the
\* configuration of every shard has what they ask for.
THEOREM AcceptedHonoured == Spec => []AcceptedIsHonoured
<1>1. Init => ConfigInv
  BY DEF Init, ConfigInv
<1>2. TypeInv /\ ConfigInv => AcceptedIsHonoured
  <2> SUFFICES ASSUME TypeInv, ConfigInv, cfg # NoConfig PROVE Honours(cfg, launch.opts)
    BY DEF AcceptedIsHonoured
  <2>1. Accepted(launch.opts) /\ cfg = Config(launch.opts) /\ launch.opts \in Options
    BY LaunchesAssumption DEF ConfigInv, TypeInv, TypeOK
  <2> QED BY <2>1, AcceptedConfigHonours
<1> QED BY <1>1, <1>2, ConfigStep, AlwaysTyped, PTL DEF Spec

----------------------------------------------------------------------------
(* The totals *)

Weights == [s \in Shard |-> stats[s].payloads]
Asked == {s \in Shard : adding[s].at # "idle"}

\* What main has added up, and what a shard is about to leave it at, counts
\* every shard that has been asked once at most.
TotalInv ==
  /\ total <= SumFunctionOnSet(Weights, Asked)
  /\ \A s \in Asked : adding[s].saw <= SumFunctionOnSet(Weights, Asked)

LEMMA WeightsType ==
  ASSUME TypeInv
  PROVE  /\ \A s \in Shard : Weights[s] \in Nat
         /\ \A T \in SUBSET Shard : IsFiniteSet(T) /\ SumFunctionOnSet(Weights, T) \in Nat
         /\ total \in Nat /\ \A s \in Shard : adding[s].saw \in Nat
<1>1. \A s \in Shard : Weights[s] \in Nat
  BY DEF TypeInv, TypeOK, Weights
<1>2. \A T \in SUBSET Shard : IsFiniteSet(T)
  BY ShardAssumption, FS_Subset
<1>3. \A T \in SUBSET Shard : SumFunctionOnSet(Weights, T) \in Nat
  BY <1>1, <1>2, SumNat
<1> QED BY <1>1, <1>2, <1>3 DEF TypeInv, TypeOK

LEMMA TotalsRead ==
  ASSUME TypeInv, TotalInv, NEW s \in smp, TotalRead(s)
  PROVE  TotalInv'
<1>1. s \in Shard \ Asked /\ total' = total /\ Weights' = Weights
  BY DEF TotalRead, TypeInv, TypeOK, Asked, dataVars, Weights
<1>2. adding' = [adding EXCEPT ![s] = [at |-> "read", saw |-> total + Weights[s]]]
  BY <1>1 DEF TotalRead, Weights
<1>3. Asked' = Asked \cup {s}
  BY <1>1, <1>2 DEF Asked, TypeInv, TypeOK
<1> DEFINE before == SumFunctionOnSet(Weights, Asked)
           after == SumFunctionOnSet(Weights, Asked \cup {s})
<1>4. after = before + Weights[s] /\ before \in Nat /\ Weights[s] \in Nat
  <2>1. Asked \subseteq Shard /\ IsFiniteSet(Asked)
    BY WeightsType DEF Asked
  <2>2. \A x \in Asked \cup {s} : Weights[x] \in Nat
    BY <1>1, <2>1, WeightsType
  <2> QED BY <1>1, <2>1, <2>2, SumAdd
<1>5. total <= before /\ \A t \in Asked : adding[t].saw <= before
  BY DEF TotalInv
<1>6. /\ adding'[s].saw = total + Weights[s]
      /\ \A t \in Asked : adding'[t].saw = adding[t].saw /\ t \in Shard
  BY <1>1, <1>2 DEF TypeInv, TypeOK, Asked
<1>7. total \in Nat /\ \A t \in Shard : adding[t].saw \in Nat
  BY WeightsType
<1> HIDE DEF before, after
<1>8. total' <= after
  BY <1>1, <1>4, <1>5, <1>7
<1>9. \A t \in Asked \cup {s} : adding'[t].saw <= after
  BY <1>4, <1>5, <1>6, <1>7
<1> QED BY <1>1, <1>3, <1>8, <1>9 DEF TotalInv, after

LEMMA TotalsWritten ==
  ASSUME TypeInv, TotalInv, NEW s \in smp, TotalWritten(s)
  PROVE  TotalInv'
<1>1. s \in Asked /\ Weights' = Weights
  BY DEF TotalWritten, TypeInv, TypeOK, Asked, dataVars, Weights
<1>2. /\ adding' = [adding EXCEPT ![s] = [at |-> "added", saw |-> 0]]
      /\ total' = adding[s].saw
  BY DEF TotalWritten
<1>3. Asked' = Asked
  BY <1>1, <1>2 DEF Asked, TypeInv, TypeOK
<1>4. \A t \in Asked : adding'[t].saw = adding[t].saw \/ adding'[t].saw = 0
  BY <1>1, <1>2 DEF Asked, TypeInv, TypeOK
<1>5. SumFunctionOnSet(Weights, Asked) \in Nat
  BY WeightsType DEF Asked
<1> QED BY <1>1, <1>2, <1>3, <1>4, <1>5 DEF TotalInv

LEMMA TotalsCounted ==
  ASSUME TypeInv, TotalInv, NEW s \in smp, NEW encoded \in BOOLEAN, Counted(s, encoded),
         UNCHANGED totalVars
  PROVE  TotalInv'
<1>1. s \in Shard /\ Asked' = Asked /\ Asked \subseteq Shard /\ UNCHANGED <<total, adding>>
  BY DEF TypeInv, TypeOK, Asked, totalVars
<1>2. \A t \in Shard : Weights'[t] \in Nat /\ Weights[t] <= Weights'[t]
  BY <1>1 DEF Counted, TypeInv, TypeOK, Weights
<1>3. SumFunctionOnSet(Weights, Asked) <= SumFunctionOnSet(Weights', Asked)
  BY <1>1, <1>2, WeightsType, SumMonotone
<1>4. SumFunctionOnSet(Weights, Asked) \in Nat /\ SumFunctionOnSet(Weights', Asked) \in Nat
  BY <1>1, <1>2, WeightsType, SumNat
<1>5. total \in Nat /\ \A t \in Asked : adding[t].saw \in Nat
  BY <1>1, WeightsType
<1> QED BY <1>1, <1>3, <1>4, <1>5 DEF TotalInv

LEMMA TotalsUntouched ==
  ASSUME TotalInv, UNCHANGED <<stats, total, adding>>
  PROVE  TotalInv'
BY DEF TotalInv, Weights, Asked

LEMMA TotalStep == ASSUME TypeInv, TotalInv, [Next]_vars PROVE TotalInv'
<1>1. CASE StartStep
  BY <1>1, StartKeepsData, TotalsUntouched DEF dataVars, totalVars
<1>2. CASE StopStep
  <2>1. CASE \E s \in smp : TotalRead(s) \/ TotalWritten(s)
    BY <2>1, TotalsRead, TotalsWritten
  <2>2. CASE ~ \E s \in smp : TotalRead(s) \/ TotalWritten(s)
    BY <1>2, <2>2, TotalsUntouched
       DEF StopStep, Signal, AdminStops, ShardStops, TotalsLogged, Returns, Gone, dataVars,
           totalVars, vars
  <2> QED BY <2>1, <2>2
<1>3. ASSUME NEW s \in smp, NEW p \in Feeds[launch.feed], PayloadStep(s, p) PROVE TotalInv'
  <2>1. UNCHANGED totalVars
    BY <1>3, PayloadKeepsProcess
  <2>2. \E encoded \in BOOLEAN : Counted(s, encoded)
    BY <1>3 DEF PayloadStep, EncodeFails, WriteRefused, Written, Writes
  <2> QED BY <2>1, <2>2, TotalsCounted
<1>4. CASE UNCHANGED vars
  BY <1>4, TotalsUntouched DEF vars, dataVars, totalVars
<1> QED BY <1>1, <1>2, <1>3, <1>4, NextCases

\* The total main logs never exceeds what the shards have counted, for any
\* number of shards that add to it without a lock while payloads still come.
THEOREM TotalsBounded == Spec => []TotalsNeverOvercount
<1>1. Init => TotalInv
  <2>1. Init => Asked = {} /\ total = 0
    BY DEF Init, Asked
  <2> QED BY <2>1, SumEmpty DEF TotalInv
<1>2. TypeInv /\ TotalInv => TotalsNeverOvercount
  <2> SUFFICES ASSUME TypeInv, TotalInv PROVE TotalsNeverOvercount
    OBVIOUS
  <2>1. Asked \subseteq Shard /\ DOMAIN Weights = Shard
    BY DEF Asked, Weights
  <2>2. SumFunctionOnSet(Weights, Asked) <= SumFunctionOnSet(Weights, Shard)
    BY <2>1, WeightsType, ShardAssumption, SumMonotone
  <2>3. SumFunction(Weights) = SumFunctionOnSet(Weights, Shard)
    BY <2>1 DEF SumFunction
  <2>4. /\ SumFunctionOnSet(Weights, Asked) \in Nat /\ SumFunctionOnSet(Weights, Shard) \in Nat
        /\ total \in Nat
    BY <2>1, WeightsType
  <2>5. total <= SumFunction(Weights)
    BY <2>2, <2>3, <2>4 DEF TotalInv
  <2> QED BY <2>5 DEF TotalsNeverOvercount, Weights
<1> QED BY <1>1, <1>2, TotalStep, AlwaysTyped, PTL DEF Spec

----------------------------------------------------------------------------
(* What is sent *)

\* Shards run under a configuration made of options that main has accepted.
ConfigMade == cfg = Config(launch.opts) /\ Accepted(launch.opts)

\* Everything sent is the encoding of its payload under that configuration.
Built(sending) ==
  ConfigMade /\ Encodes(cfg, sending.payload) /\ sending.packet = Packet(cfg, sending.payload)

SentInv ==
  /\ stage \notin {"command_line", "ended"} => ConfigMade
  /\ scheme # "lls" => \A s \in Shard : \A i \in DOMAIN sent[s] : Built(sent[s][i])

LEMMA SentUntouched ==
  ASSUME SentInv, UNCHANGED <<launch, cfg, sent>>,
         stage' \in {"command_line", "ended"} \/ stage \notin {"command_line", "ended"}
  PROVE  SentInv'
BY DEF SentInv, Built, ConfigMade, scheme

LEMMA SentWritten ==
  ASSUME TypeInv, LifeInv, SentInv, NEW s \in smp, NEW p \in Feeds[launch.feed], Written(s, p)
  PROVE  SentInv'
<1>1. UNCHANGED <<launch, stage, cfg>> /\ scheme' = scheme
  BY PayloadKeepsProcess DEF PayloadStep, processVars, scheme
<1>2. stage \notin {"command_line", "ended"} /\ ConfigMade
  BY DEF Written, Writes, Arrives, LifeInv, SentInv
<1>3. ASSUME scheme # "lls" PROVE Built(NewSending(s, p))
  <2>1. Encodes(cfg, p)
    BY <1>3 DEF Written, Writes, Encoded
  <2> QED BY <1>2, <1>3, <2>1 DEF Built, NewSending, PacketOf
<1>4. ASSUME scheme # "lls", NEW t \in Shard, NEW i \in DOMAIN sent'[t]
      PROVE  Built(sent'[t][i])
  <2>1. CASE t = s
    <3>1. NewSending(s, p) \in Sendings /\ sent[s] \in Seq(Sendings)
      BY WriteEffect, WriteContext
    <3>2. sent'[t] = Append(sent[s], NewSending(s, p))
      BY <2>1, WrittenEffect
    <3>3. \/ i \in DOMAIN sent[s] /\ sent'[t][i] = sent[s][i]
          \/ sent'[t][i] = NewSending(s, p)
      BY <1>4, <3>1, <3>2, Appended
    <3> QED BY <1>3, <1>4, <2>1, <3>3 DEF SentInv
  <2>2. CASE t # s
    BY <1>4, <2>2, WrittenEffect DEF SentInv
  <2> QED BY <2>1, <2>2
<1>5. ASSUME scheme' # "lls", NEW t \in Shard, NEW i \in DOMAIN sent'[t]
      PROVE  Built(sent[t][i])'
  BY <1>1, <1>4, <1>5 DEF Built, ConfigMade
<1> QED BY <1>1, <1>2, <1>5 DEF SentInv, ConfigMade

LEMMA SentStep == ASSUME TypeInv, LifeInv, OneLayoutInv, SentInv, [Next]_vars PROVE SentInv'
<1>1. CASE Configures
  <2>1. \A s \in Shard : DOMAIN sent'[s] = {}
    BY <1>1 DEF OneLayoutInv, Configures, dataVars
  <2>2. ConfigMade'
    BY <1>1 DEF Configures, ConfigMade
  <2> QED BY <2>1, <2>2 DEF SentInv
<1>2. CASE StartStep /\ ~Configures
  <2>1. launch' = launch /\ sent' = sent /\ cfg' = cfg
    BY <1>2, StartKeepsData, ConfigKept DEF dataVars
  <2>2. stage' \in {"command_line", "ended"} \/ stage \notin {"command_line", "ended"}
    BY <1>2 DEF StartStep, RefusesOptions, ShardStarts, ShardFails, AllStarted, StartFails,
                Ready, TlsRefused, AdminThrows, Admin, processVars, Ends
  <2> QED BY <2>1, <2>2, SentUntouched
<1>3. CASE StopStep
  <2>1. launch' = launch /\ sent' = sent /\ cfg' = cfg
    BY <1>3, StopKeepsData DEF dataVars
  <2>2. stage' \in {"command_line", "ended"} \/ stage \notin {"command_line", "ended"}
    BY <1>3 DEF StopStep, Signal, AdminStops, TotalRead, TotalWritten, ShardStops, TotalsLogged,
                Returns, Gone, processVars, vars, Ends
  <2> QED BY <2>1, <2>2, SentUntouched
<1>4. ASSUME NEW s \in smp, NEW p \in Feeds[launch.feed], PayloadStep(s, p) PROVE SentInv'
  <2>1. CASE Written(s, p)
    BY <2>1, SentWritten
  <2>2. CASE ~Written(s, p)
    <3>1. sent' = sent
      BY <1>4, <2>2 DEF PayloadStep, EncodeFails, WriteRefused
    <3>2. UNCHANGED <<launch, stage, cfg>>
      BY <1>4, PayloadKeepsProcess DEF processVars
    <3> QED BY <3>1, <3>2, SentUntouched
  <2> QED BY <2>1, <2>2
<1>5. CASE UNCHANGED vars
  BY <1>5, SentUntouched DEF vars, processVars, dataVars
<1> QED BY <1>1, <1>2, <1>3, <1>4, <1>5, NextCases

LEMMA AlwaysSent == Spec => []SentInv
<1>1. Init => LifeInv
  BY DEF Init, LifeInv, ReturnMeansStopped
<1>2. Init => OneLayoutInv
  BY OneLayoutInit
<1>3. Init => SentInv
  BY DEF Init, SentInv
<1> QED BY <1>1, <1>2, <1>3, LifeStep, OneLayoutStep, SentStep, AlwaysTyped, PTL DEF Spec

\* A sending of a shard, as the properties see it.
LEMMA SendingBuilt ==
  ASSUME TypeInv, SentInv, scheme # "lls", NEW s \in Shard, NEW i \in DOMAIN sent[s]
  PROVE  /\ Built(sent[s][i])
         /\ cfg = Config(launch.opts) /\ launch.opts \in Options /\ Accepted(launch.opts)
         /\ Shaped(cfg)
         /\ sent[s][i].payload.n \in Nat
         /\ sent[s][i].payload.table = NoTable \/ sent[s][i].payload.table \in SiTables
<1>1. Built(sent[s][i])
  BY DEF SentInv
<1>2. launch.opts \in Options /\ cfg = Config(launch.opts)
  BY <1>1, LaunchesAssumption DEF Built, ConfigMade, TypeInv
<1>3. sent[s][i].payload \in Payloads
  <2>1. sent[s] \in Seq(Sendings)
    BY DEF TypeInv
  <2>2. sent[s][i] \in Sendings
    BY <2>1
  <2> QED BY <2>2 DEF Sendings
<1>4. /\ sent[s][i].payload.n \in Nat
      /\ sent[s][i].payload.table = NoTable \/ sent[s][i].payload.table \in SiTables
  BY <1>3, LaunchesAssumption DEF Payloads
<1> QED BY <1>1, <1>2, <1>4, ConfigShaped DEF Built, ConfigMade

\* Every length field of every packet a shard has sent says what it covers,
\* whatever the options and the payloads: none of them wraps, and the sums the
\* encoder makes beforehand agree with what it builds.
THEOREM SentLengthsExact == Spec => []LengthFieldsExact
<1>1. TypeInv /\ SentInv => LengthFieldsExact
  <2> SUFFICES ASSUME TypeInv, SentInv, NEW sending \in SentPackets
               PROVE  LengthsExact(cfg, sending.packet)
    BY DEF LengthFieldsExact
  <2>1. scheme # "lls" /\ \E s \in Shard : sending \in Range(sent[s])
    BY DEF SentPackets
  <2>2. PICK s \in Shard : \E i \in DOMAIN sent[s] : sending = sent[s][i]
    BY <2>1 DEF Range
  <2>3. /\ Shaped(cfg) /\ sending.payload.n \in Nat
        /\ Encodes(cfg, sending.payload) /\ sending.packet = Packet(cfg, sending.payload)
    BY <2>1, <2>2, SendingBuilt DEF Built
  <2> QED BY <2>3, PacketLengthsExact
<1> QED BY <1>1, AlwaysSent, AlwaysTyped, PTL

----------------------------------------------------------------------------
(* What is read back *)

LEMMA SentSomewhere ==
  ASSUME TypeInv, SentInv, NEW sending \in SentPackets
  PROVE  /\ scheme # "lls" /\ Built(sending) /\ Shaped(cfg) /\ sending.payload.n \in Nat
         /\ sending.payload.table = NoTable \/ sending.payload.table \in SiTables
         /\ \E o \in Options : cfg = Config(o)
<1>1. scheme # "lls" /\ \E s \in Shard : sending \in Range(sent[s])
  BY DEF SentPackets
<1>2. PICK s \in Shard : \E i \in DOMAIN sent[s] : sending = sent[s][i]
  BY <1>1 DEF Range
<1> QED BY <1>1, <1>2, SendingBuilt

\* Bodies are given under their own header only.
LEMMA BodiesBehind ==
  ASSUME NEW o
  PROVE  LET c == Config(o) IN
         /\ c.sig.bodies # <<>> => On(c, "signalling")
         /\ c.iso.bodies # <<>> => On(c, "isobmff")
BY ConfigFields DEF On

\* What verify does to the packets of one shard.
LEMMA ShardReadBack ==
  ASSUME TypeInv, SentInv, SentPackets # {}, WithinCounts(cfg), NEW s \in Shard,
         \A i \in DOMAIN sent[s] : LoopsDecode(sent[s][i])
  PROVE  Verifies(Undoing(cfg),
                  [i \in DOMAIN sent[s] |-> sent[s][i].packet],
                  [i \in DOMAIN sent[s] |-> sent[s][i].payload])
<1> DEFINE strips == Undoing(cfg)
           packets == [i \in DOMAIN sent[s] |-> sent[s][i].packet]
           payloads == [i \in DOMAIN sent[s] |-> sent[s][i].payload]
<1>1. scheme # "lls" /\ StripsAgree(strips)
  <2>1. PICK sending \in SentPackets : TRUE
    OBVIOUS
  <2>2. /\ scheme # "lls" /\ Shaped(cfg) /\ Encodes(cfg, sending.payload)
        /\ \E o \in Options : cfg = Config(o)
    BY SentSomewhere DEF Built
  <2>3. /\ cfg.sig.bodies # <<>> => On(cfg, "signalling")
        /\ cfg.iso.bodies # <<>> => On(cfg, "isobmff")
    BY <2>2, BodiesBehind
  <2>4. Undoes(strips, cfg)
    BY UndoingUndoes
  <2> HIDE DEF strips
  <2> QED BY <2>2, <2>3, <2>4, UndoingAgrees
<1>2. Len(packets) = Len(payloads) /\ DOMAIN packets = DOMAIN sent[s]
  <2>1. sent[s] \in Seq(Sendings)
    BY DEF TypeInv
  <2>2. DOMAIN sent[s] = 1..Len(sent[s]) /\ Len(sent[s]) \in Nat
    BY <2>1
  <2>3. packets \in [1..Len(sent[s]) -> {sent[s][i].packet : i \in DOMAIN sent[s]}]
        /\ payloads \in [1..Len(sent[s]) -> {sent[s][i].payload : i \in DOMAIN sent[s]}]
    BY <2>2
  <2>4. Len(packets) = Len(sent[s]) /\ Len(payloads) = Len(sent[s])
    BY <2>2, <2>3, LenProperties, SeqDef
  <2> QED BY <2>4
<1>3. ASSUME NEW i \in DOMAIN sent[s]
      PROVE  PacketVerifies(strips, sent[s][i].packet, sent[s][i].payload)
  <2> DEFINE p == sent[s][i].payload
  <2>1. /\ Shaped(cfg) /\ p.n \in Nat /\ Encodes(cfg, p)
        /\ sent[s][i].packet = Packet(cfg, p)
    BY <1>1, SendingBuilt DEF Built
  <2>2. LoopDecodes(cfg, p)
    BY DEF LoopsDecode, LoopDecodes, LoopForm
  <2>3. Undoes(strips, cfg) /\ "table" \notin strips.flags
    BY UndoingUndoes
  <2> HIDE DEF strips, p
  <2>4. TableToRead(strips, cfg, p)
    BY <2>3 DEF TableToRead
  <2>5. PacketVerifies(strips, Packet(cfg, p), p)
    BY <2>1, <2>2, <2>3, <2>4, PacketReadBack
  <2> QED BY <2>1, <2>5 DEF p
<1>4. \A i \in DOMAIN packets : PacketVerifies(strips, packets[i], payloads[i])
  BY <1>2, <1>3
<1> HIDE DEF packets, payloads, strips
<1>5. Verifies(strips, packets, payloads)
  BY <1>1, <1>2, <1>4 DEF Verifies
<1> QED BY <1>5 DEF packets, payloads, strips

\* The other end gets every payload back, in the order of the writes, from what
\* each shard has sent, whatever the options that were accepted and the payloads.
THEOREM SentReadBack == Spec => []RoundTrip
<1>1. TypeInv /\ SentInv => RoundTrip
  BY ShardReadBack DEF RoundTrip
<1> QED BY <1>1, AlwaysSent, AlwaysTyped, PTL

\* A layout is on only behind a signalling header.
LEMMA LayoutsBehind ==
  ASSUME NEW o, LayoutsOn(Config(o).flags) # {}
  PROVE  On(Config(o), "signalling")
<1>1. Config(o).flags = ConfigFlags(o)
  BY ConfigFields
<1>2. PICK layout \in ConfigFlags(o) : layout \in Layouts
  BY <1>1 DEF LayoutsOn
<1>3. "signalling" \in o.flags /\ "word0" \in o.flags
  BY <1>2 DEF ConfigFlags, ModeFlags, HeaderFlags, Layouts, MptLayouts, PltLayouts
<1>4. "signalling" \in ConfigFlags(o)
  BY <1>3 DEF ConfigFlags, ModeFlags, SignallingFlags
<1> QED BY <1>1, <1>4 DEF On

\* A table that was sent under a layout is read back where it is, whatever
\* layout and headers main has let through, and whatever the table says.
THEOREM SentTablesReadBack == Spec => []TablesReadBack
<1>1. TypeInv /\ SentInv => TablesReadBack
  <2> SUFFICES ASSUME TypeInv, SentInv, NEW sending \in SentPackets,
                      LayoutsOn(cfg.flags) # {}, sending.payload.pa = 0,
                      On(cfg, "lct") => OnAny(cfg, SiSuffix), LoopsDecode(sending)
               PROVE  PacketVerifies(ReadingTables(Undoing(cfg)), sending.packet, sending.payload)
    BY DEF TablesReadBack
  <2> DEFINE p == sending.payload
             strips == ReadingTables(Undoing(cfg))
  <2>1. /\ Shaped(cfg) /\ p.n \in Nat /\ Encodes(cfg, p) /\ sending.packet = Packet(cfg, p)
        /\ p.table = NoTable \/ p.table \in SiTables
        /\ \E o \in Options : cfg = Config(o)
    BY SentSomewhere DEF Built
  <2>2. LoopDecodes(cfg, p)
    BY DEF LoopsDecode, LoopDecodes, LoopForm
  <2>3. Undoes(strips, cfg)
    BY UndoingUndoes
  <2>4. p.pa = 0
    OBVIOUS
  <2> HIDE DEF strips, p
  <2>5. p.table # NoTable /\ TableRead(p.table)
    BY <2>1, <2>4, ValidatedTableRead DEF Encodes
  <2>6. On(cfg, "signalling")
    BY <2>1, LayoutsBehind
  <2>7. TableToRead(strips, cfg, p)
    BY <2>4, <2>5, <2>6 DEF TableToRead
  <2>8. PacketVerifies(strips, Packet(cfg, p), p)
    BY <2>1, <2>2, <2>3, <2>7, PacketReadBack
  <2> QED BY <2>1, <2>8 DEF p, strips
<1> QED BY <1>1, AlwaysSent, AlwaysTyped, PTL

=============================================================================
