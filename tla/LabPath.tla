---- MODULE LabPath ----
(* The life of one gateway process (main of gw/main.cc), from its command     *)
(* line to its exit code, with the data path that runs inside it: shards that *)
(* start and stop, payloads that are encoded and written, the totals main     *)
(* adds up at the end.  What was written is then held against mmt_probe, and  *)
(* against the counters a receiver of the sink sees.                          *)
(*                                                                            *)
(* A launch of the process is a record: opts, uri, admin (what the --admin-*  *)
(* options lead to), smp (its shards), feed (which payloads its peers may send)*)
(* and most (how many of them each shard gets at most).                       *)
EXTENDS Probe, Sinks

CONSTANTS Shard,
          Launches,    \* the launches looked at
          Feeds,       \* by name, sets of payloads that peers may send
          NoConfig

ASSUME LaunchesAssumption ==
    \A l \in Launches :
        /\ l.smp \subseteq Shard
        /\ l.opts \in Options
        /\ None \notin Feeds[l.feed]
        /\ \A p \in Feeds[l.feed] : p.n \in Nat /\ (p.table = NoTable \/ p.table \in SiTables)

ASSUME ShardAssumption == IsFiniteSet(Shard)

Admins == {"none", "plain", "tls", "half_tls", "bad_key_file", "bad_credentials"}

VARIABLES launch,      \* how the process was started
          stage,       \* where main is
          exit,        \* how it ended
          cfg,         \* the encoder configuration of every shard
          up,          \* shards whose start() has returned
          failed,      \* shards whose start() has thrown
          down,        \* shards whose stop() has returned
          counters,    \* the sink counters of each shard
          stats,       \* payloads and encode_errors of each shard
          sent,        \* what each shard's sink has handed over, oldest first
          gap,         \* frames the lls sink numbered and refused since then
          total,       \* main's sum of the payloads
          adding       \* where each shard is in adding to it

processVars == <<launch, stage, exit, cfg>>
shardVars == <<up, failed, down>>
dataVars == <<counters, stats, sent, gap>>
totalVars == <<total, adding>>
vars == <<processVars, shardVars, dataVars, totalVars>>

Stages == {"command_line", "starting", "admin", "ready", "signalled", "totals", "stopping", "ended"}
Exits == {"none", "ok", "refused", "threw", "aborted"}

smp == launch.smp
scheme == launch.uri.scheme

TypeOK ==
    /\ smp \subseteq Shard
    /\ stage \in Stages
    /\ exit \in Exits
    /\ cfg = NoConfig \/ cfg = Config(launch.opts)
    /\ up \subseteq smp /\ failed \subseteq smp /\ down \subseteq smp
    /\ stats \in [Shard -> [payloads : Nat, encode_errors : Nat]]
    /\ gap \in [Shard -> Nat]
    /\ total \in Nat
    /\ adding \in [Shard -> [at : {"idle", "read", "added"}, saw : Nat]]
    /\ DOMAIN counters = Shard /\ DOMAIN sent = Shard

Init ==
    /\ launch \in Launches
    /\ stage = "command_line"
    /\ exit = "none"
    /\ cfg = NoConfig
    /\ up = {} /\ failed = {} /\ down = {}
    /\ counters = [s \in Shard |-> NewCounters]
    /\ stats = [s \in Shard |-> [payloads |-> 0, encode_errors |-> 0]]
    /\ sent = [s \in Shard |-> <<>>]
    /\ gap = [s \in Shard |-> 0]
    /\ total = 0
    /\ adding = [s \in Shard |-> [at |-> "idle", saw |-> 0]]

----
(* Start *)

Ends(code) == stage' = "ended" /\ exit' = code

RefusesOptions ==
    /\ stage = "command_line"
    /\ ~Accepted(launch.opts)
    /\ Ends("refused")
    /\ UNCHANGED <<launch, cfg, shardVars, dataVars, totalVars>>

Configures ==
    /\ stage = "command_line"
    /\ Accepted(launch.opts)
    /\ cfg' = Config(launch.opts)
    /\ stage' = "starting"
    /\ UNCHANGED <<launch, exit, shardVars, dataVars, totalVars>>

Unsettled == smp \ (up \cup failed)

\* gw_server::start on one shard: sink, listener, services
ShardStarts(s) ==
    /\ stage = "starting"
    /\ s \in Unsettled
    /\ SinkMade(launch.uri)
    /\ up' = up \cup {s}
    /\ UNCHANGED <<processVars, failed, down, dataVars, totalVars>>

\* no sink, or a port in use; a state file that cannot be read is only logged
ShardFails(s) ==
    /\ stage = "starting"
    /\ s \in Unsettled
    /\ failed' = failed \cup {s}
    /\ UNCHANGED <<processVars, up, down, dataVars, totalVars>>

\* invoke_on_all has waited for every shard
AllStarted ==
    /\ stage = "starting"
    /\ up = smp
    /\ stage' = "admin"
    /\ UNCHANGED <<launch, exit, cfg, shardVars, dataVars, totalVars>>

\* Nothing stops the shards that have started: the sharded<> object is
\* destroyed with its instances, which Seastar asserts against.
StartFails ==
    /\ stage = "starting"
    /\ Unsettled = {} /\ failed # {}
    /\ Ends("aborted")
    /\ UNCHANGED <<launch, cfg, shardVars, dataVars, totalVars>>

Admin(kinds) == stage = "admin" /\ launch.admin \in kinds

Ready ==
    /\ Admin({"none", "plain", "tls"})
    /\ stage' = "ready"
    /\ UNCHANGED <<launch, exit, cfg, shardVars, dataVars, totalVars>>

\* Mutant of TlsRefused: main returns without stopping the shards.
TlsRefusedAtOnce ==
    /\ Admin({"half_tls", "bad_credentials"})
    /\ Ends("refused")
    /\ UNCHANGED <<launch, cfg, shardVars, dataVars, totalVars>>

\* one of --admin-tls-cert and --admin-tls-key; credentials that do not build
TlsRefused ==
    /\ Admin({"half_tls", "bad_credentials"})
    /\ stage' = "stopping"
    /\ UNCHANGED <<launch, exit, cfg, shardVars, dataVars, totalVars>>

\* a key file that cannot be read; an address that cannot be listened on
AdminThrows ==
    /\ Admin({"bad_key_file", "plain", "tls"})
    /\ Ends("aborted")
    /\ UNCHANGED <<launch, cfg, shardVars, dataVars, totalVars>>

----
(* The data path of a shard.  Its listener is open from start() to stop().    *)

Counted(s, encoded) ==
    stats' = [stats EXCEPT ![s] =
                 [payloads |-> @.payloads + 1,
                  encode_errors |-> @.encode_errors + (IF encoded THEN 0 ELSE 1)]]

\* an lls sink is given the payload as it is
Encoded(p) == scheme = "lls" \/ Encodes(cfg, p)
PacketOf(p) == IF scheme = "lls" THEN <<>> ELSE Packet(cfg, p)
Frame(p) == IF scheme = "lls" THEN p ELSE [n |-> Octets(Packet(cfg, p))]

Arrives(s, p) ==
    /\ s \in up \ down
    /\ stage # "ended"
    /\ p \in Feeds[launch.feed]
    /\ stats[s].payloads < launch.most

EncodeFails(s, p) ==
    /\ Arrives(s, p)
    /\ ~Encoded(p)
    /\ Counted(s, FALSE)
    /\ UNCHANGED <<processVars, shardVars, counters, sent, gap, totalVars>>

Writes(s, p) ==
    /\ Arrives(s, p)
    /\ Encoded(p)
    /\ Counted(s, TRUE)
    /\ counters' = [counters EXCEPT ![s] = WriteCounts(scheme, @, Frame(p))]
    /\ UNCHANGED <<processVars, shardVars, totalVars>>

WriteRefused(s, p) ==
    /\ Writes(s, p)
    /\ ~WriteAccepts(scheme, Frame(p))
    /\ gap' = [gap EXCEPT ![s] = IF scheme = "lls" /\ p.form # "ready" THEN @ + 1 ELSE @]
    /\ UNCHANGED sent

\* handed to the file or the network, which may still lose it
Written(s, p) ==
    /\ Writes(s, p)
    /\ WriteAccepts(scheme, Frame(p))
    /\ LET gram == Datagram(scheme, counters'[s], Frame(p)) IN
       /\ sent' = [sent EXCEPT ![s] =
                     Append(@, [payload |-> p, packet |-> PacketOf(p),
                                number |-> gram.number, own |-> gram.own, gap |-> gap[s]])]
       /\ gap' = [gap EXCEPT ![s] = IF gram.own THEN 0 ELSE @]

----
(* Stop *)

Signal ==
    /\ stage = "ready"
    /\ stage' = "signalled"
    /\ UNCHANGED <<launch, exit, cfg, shardVars, dataVars, totalVars>>

AdminStops ==
    /\ stage = "signalled"
    /\ stage' = "totals"
    /\ UNCHANGED <<launch, exit, cfg, shardVars, dataVars, totalVars>>

\* Mutant of TotalRead: a shard may be asked again.
TotalReadAgain(s) ==
    /\ stage = "totals"
    /\ s \in smp /\ adding[s].at # "read"
    /\ adding' = [adding EXCEPT ![s] = [at |-> "read", saw |-> total + stats[s].payloads]]
    /\ UNCHANGED <<processVars, shardVars, dataVars, total>>

\* total.payloads += st.payloads runs on every shard's own thread, without a
\* lock: the read and the write of one shard may have those of others between
TotalRead(s) ==
    /\ stage = "totals"
    /\ s \in smp /\ adding[s].at = "idle"
    /\ adding' = [adding EXCEPT ![s] = [at |-> "read", saw |-> total + stats[s].payloads]]
    /\ UNCHANGED <<processVars, shardVars, dataVars, total>>

TotalWritten(s) ==
    /\ stage = "totals"
    /\ adding[s].at = "read"
    /\ total' = adding[s].saw
    /\ adding' = [adding EXCEPT ![s] = [at |-> "added", saw |-> 0]]
    /\ UNCHANGED <<processVars, shardVars, dataVars>>

TotalsLogged ==
    /\ stage = "totals"
    /\ \A s \in smp : adding[s].at = "added"
    /\ stage' = "stopping"
    /\ UNCHANGED <<launch, exit, cfg, shardVars, dataVars, totalVars>>

\* gw_server::stop, which may throw; server->stop() goes on to the others
ShardStops(s) ==
    /\ stage = "stopping"
    /\ s \in smp \ down
    /\ down' = down \cup {s}
    /\ UNCHANGED <<processVars, up, failed, dataVars, totalVars>>

Returns ==
    /\ stage = "stopping"
    /\ down = smp
    /\ \/ Ends(IF launch.admin \in {"half_tls", "bad_credentials"} THEN "refused" ELSE "ok")
       \/ Ends("threw")
    /\ UNCHANGED <<launch, cfg, shardVars, dataVars, totalVars>>

\* the process is gone
Gone == stage = "ended" /\ UNCHANGED vars

Next ==
    \/ RefusesOptions \/ Configures
    \/ \E s \in smp : ShardStarts(s) \/ ShardFails(s)
    \/ AllStarted \/ StartFails
    \/ Ready \/ TlsRefused \/ AdminThrows
    \/ \E s \in smp, p \in Feeds[launch.feed] : EncodeFails(s, p) \/ WriteRefused(s, p) \/ Written(s, p)
    \/ Signal \/ AdminStops
    \/ \E s \in smp : TotalRead(s) \/ TotalWritten(s) \/ ShardStops(s)
    \/ TotalsLogged \/ Returns
    \/ Gone

Spec == Init /\ [][Next]_vars

----
(* Properties *)

\* what the sinks have handed over, except of lls, whose frames are not packets
SentPackets == IF scheme = "lls" THEN {} ELSE UNION {Range(sent[s]) : s \in Shard}

\* No payload is sent as two layouts at once: a table that passes the
\* validation passes it as the one layout the configuration names, although
\* the pairs that exclude each other are written down by hand, twice and
\* differently, and although some layouts describe the same octets.
OneLayoutPerPayload == SentPackets # {} => Cardinality(LayoutsOn(cfg.flags)) <= 1

\* Every length field of every packet says what it covers, whichever headers
\* are combined and however large the payload is: the 11 bits of ALP and the
\* 16 bits of the others never wrap, and the sums the encoder makes before it
\* builds what they describe agree with what it builds.
LengthFieldsExact ==
    \A sending \in SentPackets : LengthsExact(cfg, sending.packet)

LoopsDecode(sending) ==
    On(cfg, "loop") => (IF On(cfg, "pa") THEN "with_pa" ELSE "bare") \in sending.payload.loops

\* verify, with the strips that undo the configuration, gets from a shard's
\* output every payload that was written, in the order of the writes, for every
\* combination of headers the command line accepts; but for a descriptor loop
\* around octets that are no descriptors, which verify refuses to decode, and
\* for more extensions or aggregated bodies than verify counts.
RoundTrip ==
    SentPackets # {} /\ WithinCounts(cfg) =>
        \A s \in Shard :
            (\A i \in DOMAIN sent[s] : LoopsDecode(sent[s][i])) =>
                Verifies(Undoing(cfg),
                         [i \in DOMAIN sent[s] |-> sent[s][i].packet],
                         [i \in DOMAIN sent[s] |-> sent[s][i].payload])

\* A table that was sent under one layout is read back: the chain of else-ifs
\* by which verify picks a codec picks, from the fields that are expected, one
\* that finds each of them where the table has it.
TablesReadBack ==
    \A sending \in SentPackets :
        /\ LayoutsOn(cfg.flags) # {}
        /\ sending.payload.pa = 0
        /\ On(cfg, "lct") => OnAny(cfg, SiSuffix)
        /\ LoopsDecode(sending)
        => PacketVerifies(ReadingTables(Undoing(cfg)), sending.packet, sending.payload)

\* A command line that is accepted is honoured: no header, body, row or
\* validation it asks for is left out of the configuration, and the encoder does
\* not refuse every payload because of a combination main has let through.
\* (Two layouts at once are refused by main or by the encoder, or never hold;
\* a PA index without rows is let through and refused for every payload, as is
\* a value too large for a packet.)
AcceptedIsHonoured == cfg # NoConfig => Honours(cfg, launch.opts)

\* two datagrams of a sink that are numbered, and none numbered between them
NextNumbered(s, i, j) ==
    /\ i < j
    /\ sent[s][i].own /\ sent[s][j].own
    /\ \A k \in i + 1 .. j - 1 : ~sent[s][k].own

\* Two LLS tables in a row have different versions when they differ, and the
\* same one when they do not, as long as no frame in between was numbered and
\* then found too large: such a frame uses up a version, and 255 of them bring
\* the version of another table back.
LlsVersionTellsChange ==
    \A s \in Shard : \A i, j \in DOMAIN sent[s] :
        NextNumbered(s, i, j) =>
            LET first == sent[s][i]
                second == sent[s][j]
            IN  /\ first.payload # second.payload /\ second.gap < VersionMod - 1
                   => first.number # second.number
                /\ first.payload = second.payload /\ second.gap = 0
                   => first.number = second.number

\* The sequence numbers an STLTP receiver sees have no gap that is not a lost
\* datagram: frames that the sink refuses do not use one up.
StltpUnbroken ==
    scheme = "stltp" =>
        \A s \in Shard : \A i \in DOMAIN sent[s] :
            sent[s][i].number =
                ((IF i = 1 THEN 0 ELSE sent[s][i - 1].number) + 1) % NumberMod

\* main never comes to an end with a shard that has started and not stopped;
\* where it would (a shard that fails to start, TLS or listener set-up that
\* throws) the process aborts.
ReturnMeansStopped == stage = "ended" /\ exit # "aborted" => up \subseteq down

\* The logged total never exceeds what the shards have counted, however their
\* unsynchronized additions overlap each other and the payloads that still come.
TotalsNeverOvercount ==
    total <= SumFunction([s \in Shard |-> stats[s].payloads])

====
