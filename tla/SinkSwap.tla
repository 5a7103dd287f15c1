------------------------------ MODULE SinkSwap ------------------------------
(***************************************************************************)
(* One shard's output path (class gw_server in gw/atsc3_gw.cc): payloads   *)
(* from TCP connections (on_payload) and from POST /ingest without a       *)
(* routed service (ingest_payload) are written to _sink, replace_sink_uri  *)
(* puts another sink in its place, and stop flushes and closes it.         *)
(*                                                                         *)
(* Every handler is a coroutine: an action is the code between two         *)
(* co_awaits, and pc says which co_await a request is suspended in.        *)
(* _sink_sem is Seastar's FIFO semaphore with one unit; it hands its unit  *)
(* to the first waiter when it is released.                                *)
(*                                                                         *)
(* A sink object is named after the request that made it ("boot" for the   *)
(* one start() made).  Its output has two places: buf, bytes the stream    *)
(* still holds, and disk, bytes that reached the file (or the network).    *)
(***************************************************************************)
EXTENDS Integers, Sequences, FiniteSets

CONSTANTS TcpWriter,   \* payloads of TCP connections
          HttpWriter,  \* payloads of POST /ingest that use the default sink
          Swap,        \* calls of replace_sink_uri
          Uri,         \* sink URIs
          RawUri,      \* the lls:// ones: no encoding
          FileUri,     \* the file ones: make_sink truncates the file
          BootUri,     \* --sink
          None

Writer == TcpWriter \cup HttpWriter
Request == Writer \cup Swap
Sink == Swap \cup {"boot"}

ASSUME SinkSwapAssumption ==
  /\ IsFiniteSet(Request)
  /\ TcpWriter \cap HttpWriter = {} /\ Writer \cap Swap = {}
  /\ "boot" \notin Swap /\ BootUri \in Uri
  /\ RawUri \subseteq Uri /\ FileUri \subseteq Uri
  /\ None \notin Request \cup Sink \cup Uri

VARIABLES
  pc,         \* where each request is suspended
  owner,      \* the request that holds the unit of _sink_sem, or None
  waiters,    \* the requests queued in _sink_sem, oldest first
  cfgUri,     \* _cfg.sink_uri
  cur,        \* the sink object _sink points to
  sinkUri,    \* the URI a sink was, or will be, made from
  sinkSt,     \* life of a sink object
  faulty,     \* sinks whose flush or close threw
  clobbered,  \* sinks whose file a later make_sink truncated
  buf, disk,  \* payloads a sink holds in its stream, payloads it put out
  target,     \* the sink a payload was written to, or None
  form,       \* how the payload was written: "raw" or "tlv"
  res,        \* how a request ended
  before,     \* the requests already queued or served when one arrived
  stats,      \* _stats
  phase       \* the shard: serving, the awaits of stop(), gone

semVars == <<owner, waiters, before>>
sinkVars == <<cfgUri, cur, sinkUri, sinkSt, faulty, clobbered>>
outVars == <<buf, disk, target, form>>
vars == <<pc, semVars, sinkVars, outVars, res, stats, phase>>

Holding == {"granted", "writing", "making", "flushing", "closing"}
Pc == {"idle", "waiting", "done"} \cup Holding
Outcome == {"none", "written", "write_failed", "encode_error",
            "replaced", "rejected", "threw"}
Phase == {"serving", "stop_flush", "stop_close", "gone"}

-----------------------------------------------------------------------------
(* _sink_sem *)

\* get_units: the free unit at once, or a place at the end of the queue.
Acquire(r) ==
  /\ pc[r] = "idle"
  /\ before' = [before EXCEPT ![r] = {q \in Request : pc[q] # "idle"}]
  /\ \/ /\ owner = None
        /\ owner' = r
        /\ pc' = [pc EXCEPT ![r] = "granted"]
        /\ UNCHANGED waiters
     \/ /\ owner # None
        /\ waiters' = Append(waiters, r)
        /\ pc' = [pc EXCEPT ![r] = "waiting"]
        /\ UNCHANGED owner

\* Mutant of ReleaseAndFinish: the unit goes to the youngest waiter.
ReleaseToYoungest(r, outcome) ==
  /\ res' = [res EXCEPT ![r] = outcome]
  /\ \/ /\ waiters = <<>>
        /\ owner' = None
        /\ pc' = [pc EXCEPT ![r] = "done"]
        /\ UNCHANGED waiters
     \/ /\ waiters # <<>>
        /\ owner' = waiters[Len(waiters)]
        /\ waiters' = SubSeq(waiters, 1, Len(waiters) - 1)
        /\ pc' = [pc EXCEPT ![r] = "done", ![waiters[Len(waiters)]] = "granted"]
  /\ UNCHANGED before

\* Mutant of ReleaseAndFinish: the unit is not given back.
FinishWithoutRelease(r, outcome) ==
  /\ res' = [res EXCEPT ![r] = outcome]
  /\ pc' = [pc EXCEPT ![r] = "done"]
  /\ UNCHANGED semVars

\* The coroutine ends and its units are released: the oldest waiter gets them.
ReleaseAndFinish(r, outcome) ==
  /\ res' = [res EXCEPT ![r] = outcome]
  /\ \/ /\ waiters = <<>>
        /\ owner' = None
        /\ pc' = [pc EXCEPT ![r] = "done"]
        /\ UNCHANGED waiters
     \/ /\ waiters # <<>>
        /\ owner' = Head(waiters)
        /\ waiters' = Tail(waiters)
        /\ pc' = [pc EXCEPT ![r] = "done", ![Head(waiters)] = "granted"]
  /\ UNCHANGED before

-----------------------------------------------------------------------------
(* on_payload and ingest_payload *)

\* A sink's stream puts out all it holds.  Over a file that was truncated under
\* the stream, only part of what lands at the old position survives.
PushOut(s) ==
  /\ \E kept \in IF s \in clobbered THEN SUBSET buf[s] ELSE {buf[s]} :
       disk' = [disk EXCEPT ![s] = @ \cup kept]
  /\ buf' = [buf EXCEPT ![s] = {}]

\* A frame may still come from an open TCP connection while the shard stops;
\* the admin HTTP server takes no request once main() has begun to stop it.
PayloadArrives(w) ==
  /\ \/ w \in TcpWriter /\ phase # "gone"
     \/ w \in HttpWriter /\ phase = "serving"
  /\ Acquire(w)
  /\ UNCHANGED <<sinkVars, outVars, res, stats, phase>>

\* The unit is ours, but encode rejects the payload: it is counted and dropped.
EncodeFails(w) ==
  /\ phase # "gone"
  /\ pc[w] = "granted"
  /\ cfgUri \notin RawUri
  /\ stats' = [stats EXCEPT !.payloads = @ + 1, !.encode_errors = @ + 1]
  /\ ReleaseAndFinish(w, "encode_error")
  /\ UNCHANGED <<sinkVars, outVars, phase>>

\* The unit is ours: count the payload, encode it unless the URI is lls://,
\* count it out, and call write on the sink.  The sink may refuse (a size
\* guard), otherwise its stream takes the bytes.
BeginWrite(w) ==
  /\ phase # "gone"
  /\ pc[w] = "granted"
  /\ pc' = [pc EXCEPT ![w] = "writing"]
  /\ stats' = [stats EXCEPT !.payloads = @ + 1, !.frames_out = @ + 1]
  /\ target' = [target EXCEPT ![w] = cur]
  /\ form' = [form EXCEPT ![w] = IF cfgUri \in RawUri THEN "raw" ELSE "tlv"]
  /\ \E taken \in BOOLEAN :
       buf' = [buf EXCEPT ![cur] = IF taken THEN @ \cup {w} ELSE @]
  /\ UNCHANGED <<semVars, sinkVars, disk, res, phase>>

\* The write resolves; the stream may have pushed its buffer out meanwhile.
\* A refused payload, or an I/O error, makes the handler throw.
EndWrite(w) ==
  LET s == target[w] IN
  /\ phase # "gone"
  /\ pc[w] = "writing"
  /\ \/ UNCHANGED <<buf, disk>>
     \/ sinkSt[s] = "open" /\ PushOut(s)
  /\ \/ w \in buf[s] \cup disk[s] /\ ReleaseAndFinish(w, "written")
     \/ ReleaseAndFinish(w, "write_failed")
  /\ UNCHANGED <<sinkVars, target, form, stats, phase>>

-----------------------------------------------------------------------------
(* replace_sink_uri *)

\* Mutant of SwapArrives: replace_sink_uri does not take _sink_sem.
SwapArrivesUnlocked(s) ==
  /\ phase = "serving"
  /\ pc[s] = "idle"
  /\ pc' = [pc EXCEPT ![s] = "granted"]
  /\ \E u \in Uri : sinkUri' = [sinkUri EXCEPT ![s] = u]
  /\ UNCHANGED <<semVars, cfgUri, cur, sinkSt, faulty, clobbered, outVars, res, stats, phase>>

SwapArrives(s) ==
  /\ phase = "serving"
  /\ Acquire(s)
  /\ \E u \in Uri : sinkUri' = [sinkUri EXCEPT ![s] = u]
  /\ UNCHANGED <<cfgUri, cur, sinkSt, faulty, clobbered, outVars, res, stats, phase>>

\* make_sink is called.  A bad URI is refused before anything is touched; a
\* file is opened with O_TRUNC, also when an open sink still writes to it.
SwapMakesSink(s) ==
  /\ pc[s] = "granted"
  /\ \/ /\ ReleaseAndFinish(s, "rejected")
        /\ UNCHANGED <<sinkVars, outVars>>
     \/ /\ pc' = [pc EXCEPT ![s] = "making"]
        /\ LET hit == {t \in Sink : /\ sinkSt[t] # "unmade"
                                    /\ sinkUri[t] = sinkUri[s]
                                    /\ sinkUri[s] \in FileUri}
           IN /\ clobbered' = clobbered \cup hit
              /\ disk' = [t \in Sink |-> IF t \in hit THEN {} ELSE disk[t]]
        /\ UNCHANGED <<semVars, cfgUri, cur, sinkUri, sinkSt, faulty,
                       buf, target, form, res>>
  /\ UNCHANGED <<stats, phase>>

\* make_sink resolved, or, for a network sink, failed late (the host does not
\* resolve); the old sink's flush is called.
SwapFlushes(s) ==
  /\ pc[s] = "making"
  /\ \/ /\ pc' = [pc EXCEPT ![s] = "flushing"]
        /\ sinkSt' = [sinkSt EXCEPT ![s] = "open"]
        /\ UNCHANGED <<semVars, res>>
     \/ /\ sinkUri[s] \notin FileUri
        /\ ReleaseAndFinish(s, "rejected")
        /\ UNCHANGED sinkSt
  /\ UNCHANGED <<cfgUri, cur, sinkUri, faulty, clobbered, outVars, stats, phase>>

\* An exception of flush or close leaves the coroutine: the new sink is
\* destroyed and the old one stays _sink.
SwapThrows(s) ==
  /\ ReleaseAndFinish(s, "threw")
  /\ faulty' = faulty \cup {cur}
  /\ UNCHANGED <<cfgUri, cur, sinkUri, clobbered>>

\* Mutant of SwapCloses: the old sink is closed without a flush.
SwapClosesUnflushed(s) ==
  /\ pc[s] = "flushing"
  /\ pc' = [pc EXCEPT ![s] = "closing"]
  /\ buf' = [buf EXCEPT ![cur] = {}]
  /\ sinkSt' = [sinkSt EXCEPT ![cur] = "closed"]
  /\ UNCHANGED <<semVars, cfgUri, cur, sinkUri, faulty, clobbered, disk, res>>
  /\ UNCHANGED <<target, form, stats, phase>>

\* flush resolved; the old sink's close is called.
SwapCloses(s) ==
  /\ pc[s] = "flushing"
  /\ \/ /\ pc' = [pc EXCEPT ![s] = "closing"]
        /\ PushOut(cur)
        /\ sinkSt' = [sinkSt EXCEPT ![cur] = "closed"]
        /\ UNCHANGED <<semVars, cfgUri, cur, sinkUri, faulty, clobbered, res>>
     \/ /\ SwapThrows(s)
        /\ sinkSt' = [sinkSt EXCEPT ![s] = "freed"]
        /\ UNCHANGED <<buf, disk>>
  /\ UNCHANGED <<target, form, stats, phase>>

\* Mutant of SwapInstalls: the new sink is installed under the old URI.
SwapInstallsOldUri(s) ==
  /\ pc[s] = "closing"
  /\ cur' = s
  /\ sinkSt' = [sinkSt EXCEPT ![cur] = "freed"]
  /\ ReleaseAndFinish(s, "replaced")
  /\ UNCHANGED <<cfgUri, sinkUri, faulty, clobbered>>
  /\ UNCHANGED <<outVars, stats, phase>>

\* close resolved: the URI and the sink change together, the old sink is
\* destroyed.
SwapInstalls(s) ==
  /\ pc[s] = "closing"
  /\ \/ /\ cfgUri' = sinkUri[s]
        /\ cur' = s
        /\ sinkSt' = [sinkSt EXCEPT ![cur] = "freed"]
        /\ ReleaseAndFinish(s, "replaced")
        /\ UNCHANGED <<sinkUri, faulty, clobbered>>
     \/ /\ SwapThrows(s)
        /\ sinkSt' = [sinkSt EXCEPT ![s] = "freed"]
  /\ UNCHANGED <<outVars, stats, phase>>

-----------------------------------------------------------------------------
(* stop: main() has drained the admin HTTP server before it calls it; TCP *)
(* connections are not waited for, and _sink_sem is not taken.            *)

StopBegins ==
  /\ phase = "serving"
  /\ \A r \in HttpWriter \cup Swap : pc[r] \in {"idle", "done"}
  /\ phase' = "stop_flush"
  /\ UNCHANGED <<pc, semVars, sinkVars, outVars, res, stats>>

StopFlushes ==
  /\ phase = "stop_flush"
  /\ \/ /\ PushOut(cur)
        /\ sinkSt' = [sinkSt EXCEPT ![cur] = "closed"]
        /\ phase' = "stop_close"
        /\ UNCHANGED faulty
     \/ /\ phase' = "gone"
        /\ faulty' = faulty \cup {cur}
        /\ UNCHANGED <<buf, disk, sinkSt>>
  /\ UNCHANGED <<pc, semVars, cfgUri, cur, sinkUri, clobbered, target, form, res, stats>>

\* stop() resolves and sharded<gw_server>::stop destroys the shard's server.
StopEnds ==
  /\ phase = "stop_close"
  /\ phase' = "gone"
  /\ sinkSt' = [sinkSt EXCEPT ![cur] = "freed"]
  /\ UNCHANGED <<pc, semVars, cfgUri, cur, sinkUri, faulty, clobbered, outVars, res, stats>>

\* The process exits; nothing more happens on this shard.
Stopped == phase = "gone" /\ UNCHANGED vars

-----------------------------------------------------------------------------
Init ==
  /\ pc = [r \in Request |-> "idle"]
  /\ owner = None /\ waiters = <<>>
  /\ cfgUri = BootUri /\ cur = "boot"
  /\ sinkUri = [s \in Sink |-> IF s = "boot" THEN BootUri ELSE None]
  /\ sinkSt = [s \in Sink |-> IF s = "boot" THEN "open" ELSE "unmade"]
  /\ faulty = {} /\ clobbered = {}
  /\ buf = [s \in Sink |-> {}] /\ disk = [s \in Sink |-> {}]
  /\ target = [w \in Writer |-> None]
  /\ form = [w \in Writer |-> "none"]
  /\ res = [r \in Request |-> "none"]
  /\ before = [r \in Request |-> {}]
  /\ stats = [payloads |-> 0, encode_errors |-> 0, frames_out |-> 0]
  /\ phase = "serving"

WriterStep(w) == EncodeFails(w) \/ BeginWrite(w) \/ EndWrite(w)
SwapStep(s) ==
  SwapMakesSink(s) \/ SwapFlushes(s) \/ SwapCloses(s) \/ SwapInstalls(s)

Next ==
  \/ \E w \in Writer : PayloadArrives(w) \/ WriterStep(w)
  \/ \E s \in Swap : SwapArrives(s) \/ SwapStep(s)
  \/ StopBegins \/ StopFlushes \/ StopEnds \/ Stopped

\* The reactor runs every ready task, and every I/O of a sink resolves one
\* way or the other; nobody has to send a payload, or to stop the gateway.
Fairness ==
  /\ \A w \in Writer : WF_vars(WriterStep(w))
  /\ \A s \in Swap : WF_vars(SwapStep(s))
  /\ WF_vars(StopFlushes \/ StopEnds)

Spec == Init /\ [][Next]_vars
FairSpec == Spec /\ Fairness

-----------------------------------------------------------------------------
(* Properties *)

\* The variables keep their types.
TypeOK ==
  /\ pc \in [Request -> Pc]
  /\ owner \in Request \cup {None} /\ waiters \in Seq(Request)
  /\ cfgUri \in Uri /\ cur \in Sink
  /\ sinkUri \in [Sink -> Uri \cup {None}]
  /\ sinkSt \in [Sink -> {"unmade", "open", "closed", "freed"}]
  /\ faulty \subseteq Sink /\ clobbered \subseteq Sink
  /\ buf \in [Sink -> SUBSET Writer] /\ disk \in [Sink -> SUBSET Writer]
  /\ target \in [Writer -> Sink \cup {None}]
  /\ form \in [Writer -> {"none", "raw", "tlv"}]
  /\ res \in [Request -> Outcome]
  /\ before \in [Request -> SUBSET Request]
  /\ stats \in [payloads : Nat, encode_errors : Nat, frames_out : Nat]
  /\ phase \in Phase

\* _sink_sem serializes the handlers, and loses none of them: the requests past
\* get_units are exactly its holder, the suspended ones exactly its queue, each
\* queued once, and a free unit means an empty queue.
OneHolder ==
  /\ \A r \in Request : pc[r] \in Holding <=> owner = r
  /\ \A r \in Request : pc[r] = "waiting" <=> \E i \in DOMAIN waiters : waiters[i] = r
  /\ \A i, j \in DOMAIN waiters : waiters[i] = waiters[j] => i = j
  /\ owner = None => waiters = <<>>

\* While the shard serves, a write that is suspended in the sink refers to the
\* sink that is still installed, and that nobody has begun to close: the
\* reference write_through_encoder holds across its co_await stays valid.  (A
\* sink whose close threw stays installed, closed or not.)
SinkOutlivesWrite ==
  \A w \in Writer : phase = "serving" /\ pc[w] = "writing" =>
    /\ target[w] = cur
    /\ sinkSt[cur] = "open" \/ cur \in faulty

\* A payload whose handler ended normally is in the output it was written to,
\* or in its stream; once a swap has closed that sink it is in the output.
\* Outputs whose flush or close threw, or whose file was opened again, excepted.
OutputKept ==
  \A w \in Writer :
    LET s == target[w] IN
    res[w] = "written" /\ s \notin faulty \cup clobbered =>
      /\ w \in buf[s] \cup disk[s]
      /\ phase = "serving" /\ sinkSt[s] \in {"closed", "freed"} => w \in disk[s]

\* Requests take effect in the order they reached the semaphore: a payload that
\* came after a swap request is never written before that swap has ended, and a
\* swap never starts before the payloads ahead of it are out.
ServedInOrder ==
  \A r \in Request : \A q \in before[r] :
    pc[r] \in Holding \cup {"done"} => pc[q] = "done"

\* What the queue of _sink_sem says about arrival: whoever came before a waiter
\* is done, holds the unit, or waits in front of it.
QueueInOrder ==
  \A i \in DOMAIN waiters : \A q \in before[waiters[i]] :
    pc[q] = "done" \/ owner = q \/ \E j \in DOMAIN waiters : j < i /\ waiters[j] = q

\* The life of the sinks around a swap: a swap knows its URI; the sink it has
\* made is open, and not yet _sink, until it is installed; _sink was made by a
\* swap that is done and from the configured URI, and is open unless a close
\* is under way or threw; no swap is left when the shard stops.
SinkLife ==
  /\ \A s \in Swap : pc[s] # "idle" => sinkUri[s] \in Uri
  /\ \A s \in Swap : pc[s] \in {"flushing", "closing"} => sinkSt[s] = "open"
  /\ cur = "boot" \/ pc[cur] = "done"
  /\ cfgUri = sinkUri[cur]
  /\ phase = "serving" => \/ sinkSt[cur] = "open" \/ cur \in faulty
                          \/ \E s \in Swap : pc[s] = "closing"
  /\ phase # "serving" => \A s \in Swap : pc[s] \in {"idle", "done"}

\* The sink a payload was written to: none before the write, _sink during it.
TargetLife ==
  \A w \in Writer :
    /\ pc[w] \in {"idle", "waiting", "granted"} => target[w] = None
    /\ pc[w] = "writing" => target[w] = cur
    /\ target[w] # None => target[w] = "boot" \/ pc[target[w]] = "done"

\* What keeps output from being lost around a swap: a sink that is not yet
\* installed has taken nothing, one whose close is under way or over has nothing
\* left in its stream, faults excepted.
Drained ==
  /\ \A s \in Swap : pc[s] # "done" => buf[s] = {}
  /\ \A s \in Swap : pc[s] = "closing" => buf[cur] = {}
  /\ phase = "serving" => \A s \in Sink :
       sinkSt[s] \in {"closed", "freed"} /\ s \notin faulty => buf[s] = {}

\* A payload whose handler ended normally was written to a sink, which holds it
\* or has put it out.
Kept ==
  \A w \in Writer : res[w] = "written" =>
    /\ pc[w] = "done" /\ target[w] # None
    /\ target[w] \notin faulty \cup clobbered => w \in buf[target[w]] \cup disk[target[w]]

\* The inductive invariant behind the safety properties.
IInv == /\ TypeOK /\ OneHolder /\ QueueInOrder /\ ServedInOrder
        /\ SinkLife /\ TargetLife /\ Drained /\ Kept

\* A payload is written in the form the URI of its sink calls for: the URI that
\* decides on the lls:// bypass and the sink that is written to belong together.
\* With it, the shard implements the abstract output port.
Atomic == INSTANCE AtomicOutput WITH
  uri <- cfgUri, Nowhere <- None,
  route <- [w \in Writer |-> IF target[w] = None THEN None ELSE sinkUri[target[w]]]

ImplementsAtomicOutput == Atomic!Spec

\* Every request that reached the semaphore is answered, unless the shard is
\* stopped first: no swap, failed swap or failed write keeps the unit.
EveryRequestEnds ==
  \A r \in Request : pc[r] # "idle" ~> (pc[r] = "done" \/ phase = "gone")
=============================================================================
