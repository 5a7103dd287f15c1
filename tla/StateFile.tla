----------------------------- MODULE StateFile -----------------------------
(***************************************************************************)
(* The services state file of shard 0 (persist_admin_services_if_configured *)
(* and load_admin_services_from_file_if_set, gw/atsc3_gw.cc): the registry *)
(* is serialized, written to "<path>.tmp" and renamed over <path> after    *)
(* every successful POST, PATCH and DELETE of /services and once in stop,  *)
(* and read back by start.  The process may crash between any two awaits.  *)
(*                                                                         *)
(* A registry is the set of the changes it has absorbed: what is in an     *)
(* entry, and a half-done PATCH, are modelled in ServiceRegistry.  queue   *)
(* is _services_persist_sem, one unit and FIFO: its head holds the unit.   *)
(***************************************************************************)
EXTENDS Naturals, Sequences, FiniteSets

CONSTANTS Change,    \* requests that change the registry
          Routed,    \* those of them that give a service a sink_uri
          Stop,      \* orderly stops of the process
          MaxCrash   \* bound: crashes of the process

Request == Change \cup Stop
Registry == SUBSET Change

ASSUME StateFileAssumption ==
  Change \cap Stop = {} /\ Routed \subseteq Change /\ MaxCrash \in Nat

VARIABLES
  pc,       \* where each request is
  reg,      \* the registry in memory: _admin_services, _next_admin_service_id
  snap,     \* the registry a request has serialized (json)
  queue,    \* requests in _services_persist_sem, its holder first
  tmp,      \* contents of <path>.tmp
  path,     \* contents of <path>
  unread,   \* changes in a file that a start could not read
  lost,     \* these, and those whose sink a start could not make
  phase,    \* the process
  crashes   \* crashes so far

vars == <<pc, reg, snap, queue, tmp, path, unread, lost, phase, crashes>>

InQueue == {"queued", "opened", "written"}
Live == InQueue \cup {"changed", "saved", "unsaved"}
Pc == Live \cup {"idle", "confirmed", "warned", "rejected", "dead"}

\* What is in a file, and the registry a start reads from it.  A torn file is
\* empty or holds part of the JSON.
File == [kind : {"absent", "torn", "whole"}, reg : Registry]
Absent == [kind |-> "absent", reg |-> {}]
Torn == [kind |-> "torn", reg |-> {}]
Whole(s) == [kind |-> "whole", reg |-> s]

-----------------------------------------------------------------------------
(* The handlers of POST, PATCH and DELETE /services, and stop *)

\* add, patch or remove has changed the registry and returned: the handler
\* will persist it when its coroutine is resumed.
Changes(c) ==
  /\ phase = "up"
  /\ pc[c] = "idle"
  /\ reg' = reg \cup {c}
  /\ pc' = [pc EXCEPT ![c] = "changed"]
  /\ UNCHANGED <<snap, queue, tmp, path, unread, lost, phase, crashes>>

\* A PATCH that fails in make_sink has already dropped the routing it was to
\* replace: the registry has changed, and nothing is persisted.
ChangesAndRejects(c) ==
  /\ phase = "up"
  /\ pc[c] = "idle"
  /\ reg' = reg \cup {c}
  /\ pc' = [pc EXCEPT ![c] = "rejected"]
  /\ UNCHANGED <<snap, queue, tmp, path, unread, lost, phase, crashes>>

\* stop on shard 0, after the admin HTTP server has been drained.
StopBegins(z) ==
  /\ phase = "up"
  /\ pc[z] = "idle"
  /\ \A c \in Change : pc[c] \notin Live
  /\ phase' = "stopping"
  /\ pc' = [pc EXCEPT ![z] = "changed"]
  /\ UNCHANGED <<reg, snap, queue, tmp, path, unread, lost, crashes>>

\* Mutant of Serializes: the JSON is what the file had, with the new change.
SerializesFromFile(r) ==
  /\ pc[r] = "changed"
  /\ snap' = [snap EXCEPT ![r] = path.reg \cup ({r} \cap Change)]
  /\ queue' = Append(queue, r)
  /\ pc' = [pc EXCEPT ![r] = "queued"]
  /\ UNCHANGED <<reg, tmp, path, unread, lost, phase, crashes>>

\* persist: the JSON is made first, then the request queues for the semaphore.
Serializes(r) ==
  /\ pc[r] = "changed"
  /\ snap' = [snap EXCEPT ![r] = reg]
  /\ queue' = Append(queue, r)
  /\ pc' = [pc EXCEPT ![r] = "queued"]
  /\ UNCHANGED <<reg, tmp, path, unread, lost, phase, crashes>>

\* Mutant of LeavesQueue: the unit goes to the youngest waiter.
LeavesQueueToYoungest(r, outcome) ==
  /\ queue' = IF Len(queue) < 2 THEN <<>>
              ELSE <<queue[Len(queue)]>> \o SubSeq(queue, 2, Len(queue) - 1)
  /\ pc' = [pc EXCEPT ![r] = outcome]

\* persist ends, normally or by an exception it swallows; the unit is released.
LeavesQueue(r, outcome) ==
  /\ queue' = Tail(queue)
  /\ pc' = [pc EXCEPT ![r] = outcome]

\* Mutant of OpensTmp: the semaphore is not waited for.
OpensTmpUnqueued(r) ==
  /\ pc[r] = "queued"
  /\ tmp' = Torn
  /\ pc' = [pc EXCEPT ![r] = "opened"]
  /\ UNCHANGED <<reg, snap, queue, path, unread, lost, phase, crashes>>

\* <path>.tmp is opened for writing, created or truncated.
OpensTmp(r) ==
  /\ pc[r] = "queued" /\ Head(queue) = r
  /\ \/ /\ tmp' = Torn
        /\ pc' = [pc EXCEPT ![r] = "opened"]
        /\ UNCHANGED queue
     \/ /\ LeavesQueue(r, "unsaved")
        /\ UNCHANGED tmp
  /\ UNCHANGED <<reg, snap, path, unread, lost, phase, crashes>>

\* Mutant of WritesTmp: the JSON goes to <path> itself.
WritesInPlace(r) ==
  /\ pc[r] = "opened"
  /\ tmp' = Whole(snap[r])
  /\ \/ /\ path' = Whole(snap[r])
        /\ pc' = [pc EXCEPT ![r] = "written"]
        /\ UNCHANGED queue
     \/ path' = Torn /\ LeavesQueue(r, "unsaved")
  /\ UNCHANGED <<reg, snap, unread, lost, phase, crashes>>

\* Mutant of WritesTmp: a failed write starts over, without end.
WritesTmpUntilDone(r) ==
  /\ pc[r] = "opened"
  /\ \/ tmp' = Whole(snap[r]) /\ pc' = [pc EXCEPT ![r] = "written"]
     \/ pc' = [pc EXCEPT ![r] = "queued"] /\ UNCHANGED tmp
  /\ UNCHANGED <<reg, snap, queue, path, unread, lost, phase, crashes>>

\* write, flush and close of the stream, all or part of it.
WritesTmp(r) ==
  /\ pc[r] = "opened"
  /\ \/ /\ tmp' = Whole(snap[r])
        /\ pc' = [pc EXCEPT ![r] = "written"]
        /\ UNCHANGED queue
     \/ /\ LeavesQueue(r, "unsaved")
        /\ UNCHANGED tmp
  /\ UNCHANGED <<reg, snap, path, unread, lost, phase, crashes>>

\* rename_file(tmp, path), in one step or not at all.
Renames(r) ==
  /\ pc[r] = "written"
  /\ \/ /\ path' = tmp /\ tmp' = Absent
        /\ LeavesQueue(r, "saved")
     \/ /\ LeavesQueue(r, "unsaved")
        /\ UNCHANGED <<tmp, path>>
  /\ UNCHANGED <<reg, snap, unread, lost, phase, crashes>>

\* The client gets its 2xx; a failed persist is a line in the log.
Answers(c) ==
  /\ pc[c] \in {"saved", "unsaved"}
  /\ pc' = [pc EXCEPT ![c] = IF pc[c] = "saved" THEN "confirmed" ELSE "warned"]
  /\ UNCHANGED <<reg, snap, queue, tmp, path, unread, lost, phase, crashes>>

-----------------------------------------------------------------------------
(* The process *)

\* The process is gone: requests die where they are, the files stay.
Ends ==
  /\ phase' = "down"
  /\ reg' = {} /\ queue' = <<>>
  /\ pc' = [r \in Request |-> IF pc[r] \in Live THEN "dead" ELSE pc[r]]
  /\ UNCHANGED <<snap, tmp, path, unread, lost>>

\* A stop that has persisted ends the process.
StopEnds(z) ==
  /\ pc[z] \in {"saved", "unsaved"}
  /\ Ends
  /\ UNCHANGED crashes

Crashes ==
  /\ phase # "down" /\ crashes < MaxCrash
  /\ Ends
  /\ crashes' = crashes + 1

\* The gateway serves an empty registry, and the next persist overwrites the file.
GivesUp ==
  /\ reg' = {}
  /\ unread' = unread \cup path.reg
  /\ lost' = lost \cup path.reg

\* A sink_uri whose sink make_sink refuses is taken out of its row, in memory: it
\* is in the file until the next persist, of any change or of stop, erases it.
Loads(refused) ==
  /\ reg' = path.reg \ refused
  /\ lost' = lost \cup refused
  /\ UNCHANGED unread

\* Mutant of Restarts: the file is not read.
RestartsEmpty ==
  /\ phase = "down"
  /\ phase' = "up"
  /\ UNCHANGED <<pc, reg, snap, queue, tmp, path, unread, lost, crashes>>

\* start of shard 0, before the admin HTTP server listens: load gives up, with a
\* line in the log, on a file that it cannot open, read or parse, or that is too
\* large; otherwise it reads the registry from <path> and makes the sinks.
Restarts ==
  /\ phase = "down"
  /\ phase' = "up"
  /\ \/ GivesUp
     \/ \E refused \in SUBSET (path.reg \cap Routed) : Loads(refused)
  /\ UNCHANGED <<pc, snap, queue, tmp, path, crashes>>

\* No request is under way.
Quiet == (\A r \in Request : pc[r] \notin Live) /\ UNCHANGED vars

-----------------------------------------------------------------------------
Init ==
  /\ pc = [r \in Request |-> "idle"]
  /\ reg = {} /\ snap = [r \in Request |-> {}] /\ queue = <<>>
  /\ tmp = Absent /\ path = Absent
  /\ unread = {} /\ lost = {} /\ phase = "up" /\ crashes = 0

PersistStep(r) == Serializes(r) \/ OpensTmp(r) \/ WritesTmp(r) \/ Renames(r)

Next ==
  \/ \E c \in Change : Changes(c) \/ ChangesAndRejects(c) \/ Answers(c)
  \/ \E z \in Stop : StopBegins(z) \/ StopEnds(z)
  \/ \E r \in Request : PersistStep(r)
  \/ Crashes \/ Restarts \/ Quiet

\* The reactor runs every ready task and file I/O resolves one way or the
\* other; nobody has to send a request, stop the process or start it again.
Fairness ==
  /\ \A r \in Request : WF_vars(PersistStep(r))
  /\ \A c \in Change : WF_vars(Answers(c))
  /\ \A z \in Stop : WF_vars(StopEnds(z))

Spec == Init /\ [][Next]_vars
FairSpec == Spec /\ Fairness

-----------------------------------------------------------------------------
(* Properties *)

\* The variables keep their types; the state file is never half-written.
TypeOK ==
  /\ pc \in [Request -> Pc]
  /\ reg \in Registry /\ snap \in [Request -> Registry]
  /\ queue \in Seq(Request)
  /\ tmp \in File
  /\ path \in File /\ path.kind # "torn"
  /\ unread \in Registry /\ lost \in Registry
  /\ phase \in {"up", "stopping", "down"}
  /\ crashes \in 0..MaxCrash

\* A change whose answer was sent after its persist succeeded is in the state
\* file from then on, through later persists, failed persists, crashes and
\* restarts.  Two things alone undo it: a start that cannot read the file, and, if
\* the change has set a sink_uri, a start that cannot make its sink.
Durable ==
  \A c \in Change : pc[c] \in {"saved", "confirmed"} =>
    c \in path.reg \cup unread \cup (lost \cap Routed)

\* Only the holder of _services_persist_sem is past get_units, so only one
\* persist at a time writes <path>.tmp, and what it renames is what it wrote.
OneWriter ==
  /\ \A r \in Request :
       pc[r] \in {"opened", "written"} => queue # <<>> /\ Head(queue) = r
  /\ \A r \in Request : pc[r] = "written" => tmp = Whole(snap[r])

\* A snapshot never gets stale in the queue: it is taken before the request
\* queues, so a later one in the queue has every change of an earlier one, and
\* all of them have what the file has, but for what a start has lost.
SnapshotsInOrder ==
  /\ \A i, j \in DOMAIN queue : i < j => snap[queue[i]] \subseteq snap[queue[j]]
  /\ \A i \in DOMAIN queue : path.reg \ lost \subseteq snap[queue[i]]

\* The queue holds exactly the requests inside persist, each once.
QueueOK ==
  /\ \A r \in Request : pc[r] \in InQueue <=> \E i \in DOMAIN queue : queue[i] = r
  /\ \A i, j \in DOMAIN queue : queue[i] = queue[j] => i = j

\* Where the changes are: an unborn one nowhere, a live one in memory and not
\* among those an earlier start lost; memory has whatever the file has, and a
\* readable file loses nothing but sinks.
ChangesOK ==
  /\ \A c \in Change : pc[c] = "idle" => c \notin reg \cup path.reg \cup lost
  /\ \A c \in Change : pc[c] \in Live => c \in reg \ lost
  /\ \A c \in Change : pc[c] \in InQueue => c \in snap[c]
  /\ \A r \in Request : pc[r] \in InQueue => snap[r] \subseteq reg
  /\ phase # "down" => path.reg \ lost \subseteq reg
  /\ phase = "down" => reg = {} /\ \A r \in Request : pc[r] \notin Live
  /\ unread \subseteq lost /\ lost \subseteq unread \cup Routed
  /\ \A z \in Stop : pc[z] \in Live => phase = "stopping"
  /\ \A c \in Change : pc[c] = "saved" => c \in path.reg

\* The inductive invariant behind the safety properties.
IInv == /\ TypeOK /\ Durable /\ OneWriter /\ SnapshotsInOrder
        /\ QueueOK /\ ChangesOK

\* The state file implements the abstract store: it goes from registry to later
\* registry, and a confirmed change is stored when it is confirmed.
Store == INSTANCE RegistryStore WITH
  Fragile <- Routed,
  mem <- reg, stored <- path.reg,
  promised <- {c \in Change : pc[c] = "confirmed"},
  up <- phase # "down"

ImplementsRegistryStore == Store!Spec

\* A request that changed the registry is answered, unless the process ends:
\* no failure in persist keeps the semaphore.
EveryChangeAnswered ==
  \A c \in Change : pc[c] = "changed" ~> pc[c] \in {"confirmed", "warned", "dead"}

\* The README says of the state file: "the file is loaded at startup (if present)
\* and rewritten after each successful POST /services".  So an answered change
\* would be in the file.
RewrittenAfterSuccess ==
  \A c \in Change : pc[c] \in {"confirmed", "warned"} => c \in path.reg \cup lost
=============================================================================
