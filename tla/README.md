# A verification development of the ATSC 3.0 gateway

`gw/` is a Seastar program: `atsc3_gw` accepts length-prefixed payloads over TCP,
encodes them into ATSC 3.0 packets (ALP, LCT/MMTP headers) and writes them to a
*sink* (a file, a UDP socket, an LLS table ...).  An optional admin HTTP server
changes the sink while the gateway runs, keeps a registry of *services* with sinks
of their own, and ingests payloads for them.  Seastar runs one thread per core
("shard"); on a shard, coroutines interleave at every `co_await`.  That, failing
I/O, and a state file that has to survive crashes are what can go wrong here, and
what half of these modules are about; the other half is about the packets: some
sixty options combine into them, and `mmt_probe`, a program of its own, has to read
them back.  Source lines are quoted as `file:line` of `gw/`.

## The parts of the system

| Part | State | Operations | Interacts with | Modules |
|---|---|---|---|---|
| Output path of a shard (`atsc3_gw.cc`) | `_sink`, `_cfg.sink_uri`, `_sink_sem` | `on_payload`, `ingest_payload`, `replace_sink_uri`, `stop` | ingress and admin HTTP call it; calls the encoder and the sink | `SinkSwap`, `AtomicOutput` |
| State file (`atsc3_gw.cc`, shard 0) | `<path>`, `<path>.tmp`, `_services_persist_sem` | persist, load, crash, restart | called by the `/services` handlers, `start`, `stop` | `StateFile`, `RegistryStore` |
| Services registry (`atsc3_gw.cc`, `admin_http.cc`, shard 0) | `_admin_services`, `_service_sinks`, `_next_admin_service_id` | POST, PATCH, DELETE `/services`, POST `/ingest` with a `service_id` | persists through the state file; makes, writes and closes sinks | `ServiceRegistry` |
| Configuration swap (`admin_http.cc`) | the sink URI of every shard | PATCH/PUT `/config`, POST `/config/sink` | calls `replace_sink_uri` on each shard | `ConfigSwap` |
| TCP ingress, length framer (`ingress_tcp.cc`, `length_framer.cc`) | connections; bytes buffered per connection | accept, read, feed, extract, stop | calls `on_payload` | `Ingress` |
| Encoder pipeline (`encoder_pipeline.cc`) | its configuration, never changed | `encode` | called by the output path | `EncoderPipeline`, `TableLayouts`, `LayoutPairs` |
| Sinks (`sink.cc`) | STLTP sequence number, LLS version, stream position | make, write, flush, close | called by the output path and the registry | `Sinks`; truncation and buffering of the file sink in `SinkSwap`; the octets of the ipv4udp-file sink in `Ipv4Udp` |
| Command line, start and stop (`main.cc`) | options, what has started, exit code | check the options, start the shards, admin set-up, signal, totals, stop | everything | `CommandLine`, `LabPath`; the stop of one shard in `SinkSwap`, `StateFile` |
| MMT probe (`mmt_probe/main.cc`) | the options of a call | `verify` (and `send`, generators of payloads) | reads what a sink wrote | `Probe`, `ProbeTables`: `verify` |
| Codecs (`tools/lint_protomap.py`, `codegen.py` and its templates, `lib/runtime`) | none that outlives a call | lint and generate (at build time); `encode`, `decode` of every protocol | called by encoder, sinks and probe | `Codec`; `encapsulate_ipv4_udp` in `Ipv4Udp` |
| Web application, scripts, tests | none that outlives a call | | | not modelled, see below |

What makes each part correct:

* *Output path*: a payload is never in the middle of a write to a sink that is
  being closed; payloads and swaps take effect in the order they came; what was
  buffered in an old sink is not lost; every request ends, whatever throws.
* *State file*: it is never torn; a change that was saved stays; it never goes back
  to an older registry; a failing disk blocks nobody.
* *Registry*: names and ids are unique, an id that was stored is never given again while the
  state file can be read, a service has a sink exactly if its row says so, payloads follow the
  row, the state file follows the registry.
* *Configuration swap*: all shards or none.
* *Ingress*: the payloads passed on are the frames that were sent, whole and in
  order, wherever TCP cuts the stream; none is above the cap; none waits in the buffer for bytes
  it does not need.
* *Encoder, command line, probe*: what the command line accepts is what gets encoded;
  the length fields are right in every combination of headers; a payload passes the
  validation of one table layout only; `verify`, told to strip what the
  gateway prepends, gives back the payloads.
* *Sinks*: their counters tell a receiver what was lost and what has changed.
* *Codecs*: whatever description the linter accepts, what is encoded is decoded to the
  same, and the reverse; a file of datagrams is taken apart where it was put together,
  also after a crash.
* *Start and stop*: whatever fails, `main` does not return over running shards.

`PROJECT.json` lists every hazard found in the code at its line, with the
properties that watch it or the reason why none does.

## Modules

### `SinkSwap`, `AtomicOutput`

`SinkSwap` is one shard.  Payloads of TCP connections and of POST `/ingest`
(`TcpWriter`, `HttpWriter`), sink replacements (`Swap`) and a stop run as coroutines,
with a program counter each and one action per stretch between two `co_await`s:
wait for `_sink_sem` (`owner` and the FIFO queue `waiters`), make the new sink, flush and
close the old one, install the new one; begin and end a write.  A sink object
has a life (open, closed, freed), bytes in its stream (`buf`) and bytes in the
file or on the network (`disk`).  Every
`co_await` that can fail has an action or disjunct in which it fails:
`make_sink` returns an error, `flush` or `close` throws after which the closed sink
stays installed (`atsc3_gw.cc:136-137`), `encode` fails, `write` throws.
`stop` does *not* take the semaphore (`atsc3_gw.cc:79-93`), and neither does the model's.
`AtomicOutput` is what a shard promises: a payload is delivered in one step to the
URI of that moment, in the form that URI wants (an `lls://` sink gets the payload
unencoded, `atsc3_gw.cc:525`), and a swap replaces the URI in one step or not at
all.  `ImplementsAtomicOutput` is the refinement.

### `StateFile`, `RegistryStore`

`StateFile` is `persist_admin_services_if_configured` and the load at start, with
the two files, crashes at any point and failures of open, write and rename.  A
registry is abstracted to the set of changes it has absorbed.  The process may
crash; the model assumes that what was written before survives and `rename_file` is atomic,
i.e. a crash of the process, not of the machine (the code does not sync the
directory).

A start may lose saved changes in two ways, and two ghosts remember them, so that `Durable` says
exactly what the code can promise.  A file that cannot be opened or read, is above 4 MiB or is not the
JSON expected (`GivesUp`, `atsc3_gw.cc:382-448`) counts as empty, and the next persist overwrites
it: all it had goes to `unread` and `lost`.  A file that is read (`Loads`) may have a
`sink_uri` whose sink `make_sink` refuses now (488-516): the row loses its
`sink_uri` in memory only, and the next persist, of any change or of stop, erases it from the file.
That can befall the changes in `Routed`, those that set a `sink_uri`; they go to `lost` only.

`RegistryStore` is the abstract store it implements: memory, a stored registry that only moves to later
registries, promises that hold.  Its restart may miss the whole store or some of what is `Fragile`
(`Routed` here), and nothing else may.

### `ServiceRegistry`

The registry with its vector of rows, the map of sinks, and a frame per coroutine.
A frame keeps what the C++ coroutine keeps across its awaits: the id, the new URI, the
reference to the row (an index here), the iterator to the sink.  The vector has
a capacity, and a `push_back` beyond it puts the suspended coroutines that refer to
rows into `dangling`; erased sinks become "freed".  Use of either is undefined
behaviour in C++, and the model continues with the harmless outcome.  No property is about such
use: requests that overlap do bring it about, no doc says that they may not overlap, and with changes one at a time
no reference is kept across another change.  Saving is one FIFO step here, which is what `StateFile`
proves of it.

`Restarts` is the load at start, with both its ways.  `Loads` reads the rows, goes on with the ids where they
stopped, and makes the sinks; a sink that is refused is taken out of its row.  `GivesUp` is the early return
(`atsc3_gw.cc:382-448`): the gateway serves an empty registry and gives ids from 1, while the file keeps
its rows until a persist succeeds.  The ghost `forgotten` has the POSTs that were answered before such
a start, `unsynced` the services that memory and file disagree about.  `IdsNeverReused` and `FileInSync` say what
holds nevertheless: ids are unique among those given since the last `GivesUp`, and the file follows again from the
first persist that succeeds.

The code has nothing that keeps two `/services` requests apart.  The constant
`Overlap` says whether clients do: with `Overlap = FALSE` changes come one at a time and a
service is not ingested into while it is changed (`Admitted`), and all
properties hold; with `Overlap = TRUE` the two violation runs show what breaks.

### `ConfigSwap`

The handler of PATCH `/config` over `N` shards: read shard 0's URI, replace shard
after shard, roll back when one refuses, give up when one throws.
`replace_sink_uri` is one step with three outcomes; `SinkSwap` is why that is right.

### `Ingress`

The accept loop of one shard, and per connection the coroutine `serve` with its
framer.  A peer sends a stream, a sequence of frames with a position and a
length; a read returns 1 to `MaxChunk` bytes of it.  `length_framer::_buf` is only ever appended
to at the end and erased at the front, so it is the interval of the stream from `from` to `to`, and
what `read_be_u32` may find at its front is in `Declared`.  `on_payload` is a place in
the FIFO queue of the shard's semaphore (`SinkSwap` models what happens there) that
ends in a value or an exception; an exception ends the connection
with what it has buffered.  `accept` may fail: the loop is then over, and only a log line says so.

`feed` checks the length at the front of the buffer when a chunk comes in, and
`try_extract` does not check the frames behind it.  `IngressAssumption` says when that is
enough: a read returns at most four bytes more than the cap (1 MiB; Seastar reads into
buffers of a few KiB), and that is below 2^32 (`Word`).

`try_extract` adds 4 to the length in 32 bits (`length_framer.cc:40-41`), which is `Framed`; a frame
`Wraps` when that sum does.  At the front of a chunk such a frame is above the cap, and
`feed` refuses it.  Behind another frame of a chunk it reaches `try_extract` unchecked: `HasFrame` holds
once its header is there, the copy of its payload cannot be allocated or reads past the buffer, and
`erase` takes up to three bytes instead of the frame.  The copy may therefore end the connection or the process
(`CopyFails`) or succeed (`Extracts`); from then on the connection is `Astray`, what is at the front of the buffer
need not be a header, and `Declared` is any length.  `WholeFrames`, `CapExact` and
`FramesFlow` say what holds of each connection until that happens, and nothing of it afterwards; `OneInFlight` holds throughout.
`length_framer.h:29-33` gives the cap as the bound on what a peer can make the framer hold, which for such a frame it is not.

### `TableLayouts`, `LayoutPairs`, `EncoderPipeline`

`encode` (`encoder_pipeline.cc:178-6759`) as operators: `Encodes(c, p)` says whether
configuration `c` takes payload `p`, `Packet(c, p)` what it makes of it.  A packet is a
sequence of segments, `[kind, octets, says]`: a header or a body, its size, and
what its length field says (modulo the width of the field).  Header values that no
check and no length depends on are left out.  The order in `Packet` is that of the
code, outermost first: ALP or TLV, MMTP word 0, time stamp and sequence number,
counter, extensions, then the signalling, ISOBMFF or GFD part, then LCT, then the
payload; the signalling part is built inside out by `SiBlob`
(PA index, descriptor loop, envelope, message header), as the code does at 6415-6491.

The validations of MMT tables are thirty-eight blocks of `encode` that look alike:
read the fixed fields, compare some of them with constants.  `TableLayouts` has one
definition for each: the conditions of the block on a payload's table, which is a record
of what they tell apart (its id, its declared and its real length, how many
entries and deliveries it has, and the first item: which id, which kind of location, which
address and port).  `LayoutPairs` is the two hand-written lists of layouts that
exclude each other, one in `main` and one in `encode`, pair by pair, because they differ.

### `CommandLine`

`Accepted(o)` are the checks of `main.cc:745-3370` in their order, `Config(o)` the
configuration made of what they accept (3371-3562).  Option records keep the switches
and the values that a check or a size depends on; a value that does not parse or is out of range
is the member `bad` for its group.

### `Sinks`

What `make_sink` accepts (the URI is its scheme and what is `wrong` with it), the size guard of
each sink, and what `write` does to its counters.  The counters of STLTP (16 bits)
and LLS (8 bits) count modulo `NumberMod` and `VersionMod`.  The LLS sink has three kinds of
frames: plain (zipped and given a header), zipped already (given a header), and ready
(sent as it is, not numbered); a fingerprint is taken to be the payload it is made of.

### `Codec`

From a description of a protocol (`protocol/*.yaml`) to octets and back.  A description is
a record: bits of the header, fields with their first bit, width and type, and a trailer
(none, payload, or repeated elements of another protocol).  `Lints` is what
`lint_protomap.py` lets pass; `Encode` and `Decode` are the templates
`encoder.cc.j2` and `decoder.cc.j2`, applied to a description; `ReadBits` and `WriteBits`
go bit by bit, as the runtime does, and touch whatever octet the description says.
Its actions generate (or refuse), encode a value, receive what was encoded with something
behind it or an input from elsewhere, and decode.  A field whose type
or enum is not defined is one of type "unknown".  `EncodeAlone` and `DecodeAlone` are the templates for
a unit without elements, `EncodedElements` and `Elements` (one `Turn` per element) their loops.

`decode` adds header and length as `std::size_t` (`decoder.cc.j2:43-54`), which is a sum modulo `SizeT` here.
The linter accepts a length field of 64 bits, and with it the sum can wrap: the check against the size of the
input passes, the span goes past the input, and the unit says that it consumed the wrapped sum, which may be 0.
A payload is then modelled as far as the input goes; the loop over elements would read behind the
input, and its outcome is "undefined".  `Narrow` are the descriptions whose length fields cannot make it wrap,
and `LoopEndsOnTime` and `DecodedWritesBack` are about those.  All of `protocol/` are: no length field there
has more than 32 bits.  (What `encode` makes has its true length in that field, and cannot wrap.)

`CodecAssumption` says three things of descriptions that the linter does not.  Elements have no elements of their own: so it is
in `protocol/` (`mmtp_desc_loop`, `mmt_si_descriptor_loop_u32`, `mmt_si_pa_table_headers`,
`tlv_mux_frame`), and a second level would be the same loop once more.  No field has more than 64
bits (`WithinRuntime`): the bit reader and writer take "`width` (1..64)" (`bit_reader.h:30`,
`bit_writer.h:26`) and lose the bits above, and neither linter nor generator asks; the widest field in
`protocol/` has 48.  The third is that a header fits `size_t`.  `MemoryAssumption` says that what `encode`
returns does, too: it is an object in memory.

The linter accepts two kinds of descriptions from which bits get lost: those with bits that no field covers,
and those with an enum wider than the `uint8_t` of the enum class.  `Lossless` is what `DecodedWritesBack` asks for
instead, and no file in `protocol/` needs the exception.  `encode` cuts a value that is
wider than its field without an error; `Fits` is the precondition of `EncodedReadsBack`.

### `Ipv4Udp`, `LabFile`

`Ipv4Udp` is the ipv4udp-file sink (`sink.cc:330-416`) octet by octet: `Encapsulate` with both
checksums, the datagrams one behind the other in a buffered stream, and
`tools/m8_bin_to_pcap.py`, which takes the file apart again (`Split`, `ExtractAll`).  A crash
leaves any prefix of the stream in the file (what Seastar may have padded its last block with
is left out).  The identification counts writes, also refused ones.

`LabFile` composes it with `Codec` into the way of `scripts/ipv4udp_file_integration_test.sh`: units are
encoded and written (`Ships`), the sink ends (`SinkEnds`), the tool takes the units out of the
file (`Extracts`), and `verify` decodes one after the other until nothing is left
(`Verifies`, one turn of the loop at `mmt_probe/main.cc:2294`, which has no check against a unit of no octets).
`Calls` are the calls of a codec without a file.

### `Probe`, `ProbeTables`

`verify`: which strips it accepts together (1467-1880 of `mmt_probe/main.cc`), then each
packet is peeled, from the outside (2326-6862).  `Verifies(s, sent, expected)` is its
verdict.  `ProbeTables` has the chain of else-ifs by which it picks a table codec from
the `--expect-mmt-si-*` options that are given: `Reading` and `Chosen` take the first
branch that applies, each branch is a definition.

### `LabPath`

One process of `main`, composed of all of these: options refused or a configuration made,
shards that start or fail in any order, the admin server with and without TLS and its
ways to fail, payloads that each started shard encodes and writes (`EncodeFails`,
`WriteRefused`, `Written`), the signal, the totals, stop, the exit code.
`total.payloads += st.payloads` is two steps, because shards are threads and the line
has no lock.  An exit by an exception out of the middle of `main` is "aborted": the
destructor of `seastar::sharded` asserts that nothing runs (external, modelled
from how `main` leaves it).  `sent` records what was handed over; the
properties hold it against `Verifies` with the strips that undo the
configuration, and against what a receiver of the counters expects.
`SinkSwap` has the interleavings of one shard's coroutines and `LabPath` leaves them out: a
payload is encoded and written in one step, which is what `ImplementsAtomicOutput` says of it.

## Runs

| Run | Instance | Result |
|---|---|---|
| `sink_swap` | a TCP and an HTTP payload, 2 swaps, a file, a UDP and an LLS URI, stop | 5 properties hold |
| `state_file` | 3 changes, 2 of them of a `sink_uri`, 1 stop, 1 crash | 6 properties hold |
| `state_rewritten` | 2 changes | **violated**: a 2xx without a rewritten file (README.md:305) |
| `registry_serial` | 2 POST, PATCH, DELETE, ingest, 1 restart, no overlap | 6 properties hold |
| `duplicate_name` | 2 overlapping POST | **violated**: both get a 201 (README.md:323 says 409) |
| `ingest_misrouted` | POST, PATCH, ingest, overlapping | **violated**: the payload goes to the default sink (README.md:325) |
| `config_swap` | 3 PATCH, 3 shards, 3 URIs, no overlap | 3 properties hold |
| `shard_divergence` | 2 overlapping PATCH, 2 shards, no failure | **violated**: the shards disagree after two 200s (README.md:316, `atsc3_gw.h:94`) |
| `ingress` | 2 connections, streams of 1 or 2 frames with lengths 0, 1, 2 and two that wrap, cap 1, `Word` 7, chunks of 1 to 5 bytes | 4 properties hold |
| `lab_path` | 6,047 launches (below), 1 or 2 shards | 9 properties hold |
| `lab_file` | 19 sets of descriptions, `SizeT` 65539, 2 flows, 2 writes, payload limit 4, one crash | 6 properties hold |
| `ready_but_deaf` | 1 connection | **violated**: after a failed accept a shard is ready and accepts nothing (README.md:314) |

Bounds, and why they are enough:

* Two payloads and two swaps give every pair of holder and waiter, a waiter behind a waiter, and a swap back to a
  URI that was left; more of them only lengthen the queue, and the theorems cover any number.
* Three changes, of which one sets no `sink_uri`, put one persist in the file, one in the middle of it and one in the
  queue, or two in the queue; one crash can fall between any two of their
  steps; a second crash finds what the first one could find.
* Two POSTs make the vector grow (capacity 0, 1, 2) and leave a row behind a deleted
  one; one restart exercises the ids and the sinks read back, or a file that cannot be read, with a POST after it.
* Three shards are the smallest number for which a rollback has a first, a middle and
  an untouched shard; three requests leave a split, fail to mend it, and mend it.
* Lengths 0, 1 and 2 around the cap 1 are the empty frame, the largest and the smallest one too large.
  With `Word = 7` the lengths 3 and 6 are the smallest that wraps, where nothing leaves the buffer, and
  the largest, where three bytes do.  A chunk of 5 bytes, the assumption's limit, can hold the end of a
  frame and the header of the next, or a whole frame.  Two connections meet in the queue.

* `lab_path` is a list of launches, each a command line, a sink, an admin set-up and a
  set of payloads.  *Headers*: every subset of the twelve `--prepend` switches with
  the values they ask for, the accepted ones again with sessions, extensions, aggregates, PA
  rows and timed data units, and command lines with one value out of place; two payloads, so that a
  strip can run from one into the next.  *Limits*: payloads around the 2047
  octets of an ALP packet and the 65535 of a TLV packet.  *Layouts*: every layout and
  every pair of them against every table that any layout describes, and
  against the same table cut short, alone, under the headers of the signalling part and behind a
  PA index.  *Sinks*: every scheme with every thing that can be wrong with it; four frames
  around each size guard; four LLS frames of five kinds with `VersionMod = 3`, so that
  versions wrap.  *Lives*: two shards, each admin set-up, two payloads.
  Families that are not about the end of the process end in a key file that cannot be read, which
  is a real way to end and keeps the run small.

* `lab_file`: the descriptions have the shapes of those in `protocol/` (a header alone, a payload
  with its length, a field that spans octets, frames of units with and without payload), a gap,
  a wide enum, and one breach of each check of the linter.  Members take the values around
  1, 8 and 11 bits (`Samples`), and the first value that no longer fits; inputs are all of up to four of five
  octets, and loops of four.  A length field of 16 bits behind a header of three octets is the widest that does not
  wrap at 65539; behind one of five octets it does, alone, as the length of a loop and inside one, and
  three inputs bring the sum to 0 and 1.  Fields of more than 16 bits are left out, as TLC's integers have 32.
  Of the flows one is that of the unit test, in the other the UDP sum of a frame
  comes out 0, which is sent as 65535.  Frames have 3 to 5 octets, the largest is above the limit.  Two writes
  are enough for every cut to fall into a header, a payload or between datagrams.

Runs do not use symmetry: most passing runs check liveness, where it is unsound,
and in the others the sets are of values that differ.

## Fairness

Only steps of the program are fair, never those of clients, of the operator or of a
crash: the Seastar reactor runs every ready task, and every I/O the model waits for
resolves, with a value or an exception (weak fairness of each coroutine's steps).
Failures may occur every time.  A `co_await` on a semaphore is a guard, not
fair by itself: that a waiter gets its turn is a result, not an assumption.

## Proofs

TLAPS checks the following for every value of the constants.

* `SinkSwap_proofs` (any number of payloads, swaps, URIs): type correctness; the
  semaphore's mutual exclusion (`OneHolder`); first come, first served
  (`ServedInOrder`); no write in a dead sink (`SinkOutlivesWrite`); the
  refinement of `AtomicOutput`.  The inductive invariant `IInv` adds to these what the
  queue says about arrival (`QueueInOrder`: whoever came before a waiter is
  done, holds the unit or waits in front of it), the life of the sinks around a swap
  (`SinkLife`) and that a payload under way was written to the installed sink
  (`TargetLife`).  Without them `ServedInOrder` says nothing of those who
  still wait, and the URI that is configured need not be that of the sink.
  `OutputKept` needs two more: a sink whose close is under way or over has nothing left in its
  stream (`Drained`), and the payload of a handler that ended normally is in its sink's
  stream or output (`Kept`).
* `ServiceRegistry_proofs` (any number of requests, names, URIs and restarts, `~Overlap`):
  type correctness and all five safety properties of the run.  The invariant has a part per piece of state:
  where each request is (`Control`), the rows in memory and in the file (`Tables`), that one
  change runs at a time and no ingest meets it (`Serial`), that the map of sinks belongs to the rows one to
  one except for the service in motion (`Routing`), the sinks themselves (`Sinks`), what each
  handler has kept across its awaits (`Handlers`: the row it refers to is still its row,
  nothing dangles), and what the file may lack (`Stored`).  `FileInSync` needs that a change not yet saved is one under way, `IdsNeverReused` that
  `next_id`, in memory and in the file, is above every id that was stored and not forgotten (`Below`).
* `StateFile_proofs` (any number of changes, stops, crashes): type correctness,
  `Durable`, `OneWriter`, `SnapshotsInOrder`, and the refinement of `RegistryStore`.
  `Durable` needs that a rename loses no stored change but those in `lost`, hence that snapshots in the
  queue include the rest of the file (`SnapshotsInOrder`), that a readable file loses only what is `Routed`, hence that the queue is exactly the
  set of requests inside persist (`QueueOK`) and that memory includes every
  snapshot (`ChangesOK`).
* `ConfigSwap_proofs` (any number of shards and requests, `~Overlap`): type
  correctness, `SplitOnlyByFault`, `AllOrNothing`.  The invariant says where each
  loop is: the shards before the current one have been dealt with, the others not
  (`LoopOK`).
* `Ingress_proofs` (any number of connections, any streams, cap and chunk size within
  `IngressAssumption`): type correctness, `WholeFrames`, `CapExact`, `OneInFlight`.
  `BufferOK` is what is needed besides: until a length wraps, the buffer starts with the first frame not
  passed on; while a chunk is awaited that frame is not whole, hence what
  follows it came with one chunk and cannot hide a whole frame above the cap.

* `Packet_proofs`, about the operators of the packet path, for every configuration and payload.
  - *One layout*: a table passes the validation as one MPT layout at most, whatever is
    excluded (`MptLayoutsApart`), and as one PLT layout at most but for the two of an IPv4
    delivery (`PltLayoutsApart`), one of which compares neither addresses nor ports.  The
    argument is a signature per layout (`MptSignatures`, `PltSignatures`): its table length and, where two
    layouts have the same, a field in which they differ.
  - *The command line*: `AcceptedConfigHonours`, switch by switch through `Accepted` and `Config`.
  - *Lengths*: `PacketLengthsExact`.  A packet is cut into what stands before each of its length
    fields and what stands behind it; the sum over a sequence comes with lemmas on
    concatenation (`OctetsCat` and its like), and each header that counts is shown to count
    what it was put in front of, below the width of its field.
  - *Read back*: `PacketReadBack`, with `UndoingAgrees` (the strips that undo a configuration are
    among those `verify` accepts together).  One lemma per layer says that peeling a packet of that
    layer leaves the packet of the next, and one that the last leaves the payloads.
  - *Tables*: `ValidatedTableRead`.  The layout the encoder accepted is the one whose
    expectation is given, the branch that `verify` chooses is the first in its chain that
    applies (`ChosenIsFirst`), and every branch in front of it asks for an option that was not given.
* `LabPath_proofs` (any launches, feeds, shards and moduli): type correctness
  (`TypeInv` adds the types of the counters and of what was sent) and each of the nine
  properties of `lab_path`.
  `ReturnMeansStopped` (`LifeInv`: nothing is up before the options are accepted);
  `OneLayoutPerPayload` (`OneLayoutInv`: what is sent was encoded under the
  configuration; `EncodedUnderOne` combines the signatures with the one pair that needs
  the encoder's list, `Ipv4DeliveriesExcluded`); `StltpUnbroken` (`StltpInv`: the counter
  is the number of the last datagram); `LlsVersionTellsChange` (`LlsInv`: the version is at most
  as many steps ahead of the last numbered frame as frames were refused since, and no step
  ahead only if the table is the same); `AcceptedIsHonoured`; `TotalsNeverOvercount` (`TotalInv`: the
  total is at most the sum over the shards that have added theirs, and what a shard has read is
  at most what was the total); `LengthFieldsExact`, `RoundTrip` and `TablesReadBack` (`SentInv`: whatever
  was sent is the packet of an encodable payload under the configuration of an accepted command line, then
  the theorems of `Packet_proofs`).

* `LabFile_proofs` (any descriptions within `CodecAssumption`, any values, inputs, flows, numbers of
  writes and limits up to 65000): each of the six properties of `lab_file`.
  - *Bits*: an octet is its eight bits (`OctetBits`); what `ReadBits` returns has, digit by digit, the bits of
    its field (`ReadBitsDigits`), and `WriteBits` sets these and no others (`WriteBitsSets`).  As the fields of
    an accepted description are apart, a header holds every member when the last was written (`HeaderHolds`).
  - *Units*: `EncodeThenDecode` and `DecodeThenEncode`, first without elements, then through the loop.
    What the loop has found, encoded again, is what it has gone through (`ElementsWrite`); on units that were encoded
    it stops behind each of them (`ElementsRead`).  `DecodeEnds` says which errors there can be.  Where a description is
    `Narrow`, the sum of header and length is the plain one (`SumStays`); what was encoded is in memory, hence
    below `SizeT`, and so is every element in it, and `EncodedReadsBack` needs no `Narrow`.
  - *Checksums*: the sum that folds as it adds is the sum of the words modulo 65535, and 0 only if they all are
    (`FoldingSums`); a word that completes it makes a multiple of 65535.  The pseudo header is in
    pairs, so that padding the datagram and padding the whole are the same (`PaddedBehind`).
  - *The file*: a datagram says its own length (`Carries`); through a file cut anywhere the splitter stays on the
    boundaries of datagrams, and ends on one or fails (`Along`, `SplitIs`).
  - *The invariant*, `LabInv`: what a codec is given is what an encode made, with something behind it (`From`);
    the datagrams carry the frames of the values that were shipped (`Shipped`); `verify` is at the start of a frame, and has read
    the values of those before it (`ReadSome`).

The type invariants (`TypeOK` of each module, with what the numbers and
references in it are bounded by) are proved for every value of the constants rather than checked in a run;
`StateFile`'s is checked too, because a torn file would break it.  `OneHolder`, a part of the inductive invariant, is proved only, too.

The assumptions on constants (the named `ASSUME` of each module)
are that request sets are disjoint and the set of shards is finite, bounds natural numbers, URIs what they are, that
`None` and the default sink are nobody's name, that the frames of a stream follow each other, that what is encoded
fits `size_t`, and
that a launch is made of options, payload sizes and tables of the types that the command line and
the wire give them.

Two of the proofs have hypotheses that only attempts at them brought to light.  `RoundTrip` needs
`WithinCounts`: `verify` takes at most 32 extensions and 256 bodies, which no run had reached.
`TablesReadBack` cannot expect the item of a table that announces entries and ends with its
prefix: the prefix layouts compare the length and not the counts
(`encoder_pipeline.cc:351-374`), so that such a table is sent and `verify` finds nothing to compare.
`MCLabPath` has these tables now.

Induction over a number works through well-foundedness, stated for sets (`WFMin` of the library with
`NatLessThanWellFounded`), where the library's induction theorems, which take an operator, cannot be used.
Recursion is written as recursive functions; that there is such a function is itself proved by that
induction, once per definition (`FlatteningExists`, `WritingExists`, `TakesTurnsExists` and their like).

Only model-checked: liveness (`EveryRequestEnds`, `EveryChangeAnswered`, `EveryPatchEnds`,
`FramesFlow`), which is outside the prover.  Every invariant of every passing run, and every action
property and refinement, is a theorem.

## Disagreements met

Those that a run shows are in the table of runs.  Met while reading, and modelled as the
code does:

* The file sink is called append-only (`sink.cc:242`), but `make_file_sink` truncates
  (`sink.cc:268-271`): a swap back, or a restart, erases what the file held.  `SinkSwap` models it
  (`clobbered`), and `OutputKept` says what is kept nevertheless.

* `encoder_pipeline.h:173-176` puts the PA index in front of the descriptor loop and the
  envelope; `encode` puts it inside them (`encoder_pipeline.cc:6415-6491`).
  With PA index and descriptor loop, the probe decodes the index as descriptors;
  `LoopsDecode` excludes payloads for which that fails.
* `encoder_pipeline.cc:96-97` says that the LCT header comes "before TCP ingress"; with a
  signalling suffix it comes after it.
* `main` and `encode` do not exclude the same pairs of layouts: nine pairs are refused
  by `encode` only, for every payload, seven by `main` only.  The pairs that neither
  excludes cannot hold of one table.  `OneLayoutPerPayload` is why that is harmless.
* A PA index without rows, and values too large for any packet, are accepted by `main` and refused
  for every payload; `--mmtp-signalling-aggregation` and `--mmtp-isobmff-aggregation` without
  their prefix are ignored.
* `verify` accepts at most 32 extensions and 256 bodies (`mmt_probe/main.cc:767-773`, 828-836), `atsc3_gw` any number; a
  prefix layout accepts a table that announces entries it does not have; without
  `--expect-mmtp-isobmff-aggregate-hex` it takes LCT header and payload for data units; five branches of its
  chain of codecs (`mmt_probe/main.cc:3467`, 4398, 4498, 4750, 4841) are never reached.

## Not modelled

* *JSON templates, fixtures, the generators of integration tests, the command lines of the
  tools*: text, at build time.  The generated code is not in the repository; the encoder and probe modules keep what they need of a
  codec (size and order of fields) as external in the map, and `Codec` says what the templates
  make of any description.
* *`mmt_probe send` and its generators of payloads*: print or send what the options say;
  no behaviour beyond a call.
* *Admin HTTP*: the GET handlers, bearer check, JSON and base64: each a function of a request and the
  state that the handlers above change.
* *Web application, scripts, tests*: they drive the program.  The strips and expectations the
  scripts pass to `verify` are `Undoing` and `ReadingTables`.
* A signal that comes before `main` has installed its handlers is Seastar's.
* The race of `main.cc:3737` is modelled as lost updates of `payloads`, the only ones a build makes
  of it on the platforms the program runs on; the other four sums are alike.
* `_next_admin_service_id` wrapping after 2^32 registrations.

## Plan

Done: the five modules of the shards and of shard 0, the packet path from command line to
probe, the codecs and the datagram file; proofs of every safety property of all of them.
Left: liveness stays with TLC; elements with elements of their own, should a protocol
have them; `mmt_probe send` and the GET handlers have no property of their own.
