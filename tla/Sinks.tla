---- MODULE Sinks ----
(* The sinks of gw/sink.cc: which URIs make one, and what a write hands to    *)
(* the file or the network.  A URI is [scheme, wrong]: its scheme and the     *)
(* parts of it that do not parse or do not resolve.  A sink's counters are    *)
(*   number    ident of ipv4udp-file, RTP sequence number of stltp            *)
(*   last      the frame the lls sink numbered last (None: none yet)          *)
(*   version   LLS_table_version                                              *)
(* A frame is what write() is given: its octets n; for lls also its form      *)
(* ("ready": an LLS datagram already, "gzip", "plain") and zip, its octets    *)
(* compressed.                                                                *)
EXTENDS Integers, Sequences

CONSTANTS NumberMod,     \* values of the 16-bit counters
          VersionMod,    \* values of the 8-bit LLS_table_version
          None

ASSUME SinksAssumption ==
    /\ NumberMod \in Nat \ {0}
    /\ VersionMod \in Nat \ {0}

Schemes == {"file", "ipv4udp-file", "stdout", "null", "udp", "stltp", "lls"}

UdpMax == 1400
StltpMax == 1400
StltpOverhead == 113    \* CTP RTP header, L1B, L1D and time stubs, BBP mux type and length
LlsMax == 65400
LlsHeader == 4
Ipv4UdpMax == 65000

----
(* make_sink *)

FileMade(uri) == "path" \notin uri.wrong
Ipv4UdpFileMade(uri) == {"query", "path", "address", "port", "ttl"} \cap uri.wrong = {}
UdpMade(uri) == {"port", "host"} \cap uri.wrong = {}
StltpMade(uri) == {"port", "host"} \cap uri.wrong = {}
\* without a host the multicast address of the standard
LlsMade(uri) == {"query", "port", "host", "table"} \cap uri.wrong = {}

SinkMade(uri) ==
    CASE uri.scheme \in {"stdout", "null"} -> TRUE
      [] uri.scheme = "stltp" -> StltpMade(uri)
      [] uri.scheme = "lls" -> LlsMade(uri)
      [] uri.scheme = "udp" -> UdpMade(uri)
      [] uri.scheme = "ipv4udp-file" -> Ipv4UdpFileMade(uri)
      [] uri.scheme = "file" -> FileMade(uri)
      [] OTHER -> FALSE

NewCounters == [number |-> 0, last |-> None, version |-> 0]

----
(* write() of each sink: whether it passes its guards, the counters it leaves *)

UdpAccepts(frame) == frame.n <= UdpMax

Ipv4UdpFileAccepts(frame) == frame.n <= Ipv4UdpMax
\* ident is counted before the guard
Ipv4UdpFileCounts(c) == [c EXCEPT !.number = (@ + 1) % NumberMod]

StltpAccepts(frame) == frame.n <= 65535 /\ StltpOverhead + frame.n <= StltpMax
\* Mutant of StltpCounts: counted before the guards.
StltpCountsFirst(c, frame) == [c EXCEPT !.number = (@ + 1) % NumberMod]

\* sequence number and timestamp are counted behind the guards
StltpCounts(c, frame) ==
    IF StltpAccepts(frame) THEN [c EXCEPT !.number = (@ + 1) % NumberMod] ELSE c

LlsWire(frame) ==
    CASE frame.form = "ready" -> frame.n
      [] frame.form = "gzip" -> LlsHeader + frame.n
      [] frame.form = "plain" -> LlsHeader + frame.zip
LlsAccepts(frame) == LlsWire(frame) <= LlsMax

\* Mutant of BumpVersion: the frame is compared with the first one.
BumpVersionFromFirst(c, frame) ==
    IF c.last = None THEN [c EXCEPT !.last = frame]
    ELSE IF frame = c.last THEN c
    ELSE [c EXCEPT !.version = (@ + 1) % VersionMod]

\* bump_version_if_changed: the first frame keeps version 0
BumpVersion(c, frame) ==
    IF c.last = None THEN [c EXCEPT !.last = frame]
    ELSE IF frame = c.last THEN c
    ELSE [c EXCEPT !.last = frame, !.version = (@ + 1) % VersionMod]

\* before the guard; a ready datagram keeps its own number
LlsCounts(c, frame) == IF frame.form = "ready" THEN c ELSE BumpVersion(c, frame)

WriteAccepts(scheme, frame) ==
    CASE scheme = "udp" -> UdpAccepts(frame)
      [] scheme = "ipv4udp-file" -> Ipv4UdpFileAccepts(frame)
      [] scheme = "stltp" -> StltpAccepts(frame)
      [] scheme = "lls" -> LlsAccepts(frame)
      [] OTHER -> TRUE

WriteCounts(scheme, c, frame) ==
    CASE scheme = "ipv4udp-file" -> Ipv4UdpFileCounts(c)
      [] scheme = "stltp" -> StltpCounts(c, frame)
      [] scheme = "lls" -> LlsCounts(c, frame)
      [] OTHER -> c

\* what is handed over carries the counters the write has left
Datagram(scheme, c, frame) ==
    [frame |-> frame,
     number |-> IF scheme = "lls" THEN c.version
                ELSE IF scheme = "ipv4udp-file" THEN (c.number - 1) % NumberMod
                ELSE c.number,
     own |-> scheme = "lls" /\ frame.form # "ready"]

====
