-------------------------- MODULE ServiceRegistry --------------------------
(***************************************************************************)
(* The services registry of shard 0 (gw/atsc3_gw.cc) as the admin HTTP     *)
(* handlers use it (gw/admin_http.cc): POST, PATCH and DELETE /services    *)
(* change _admin_services (rows) and _service_sinks (routes), persist the  *)
(* registry, and answer; POST /ingest with a service_id checks that the    *)
(* service exists and, in a later call, writes through its sink.           *)
(*                                                                         *)
(* A handler is a coroutine; pc says which co_await it is suspended in and *)
(* frame what it keeps across it: among others a reference into the vector *)
(* (at, an index, which a reallocation makes dangle) and the sink it has   *)
(* found (sk).  The state file is written in one step here; StateFile      *)
(* proves that its protocol amounts to that, in the order of the snapshots. *)
(***************************************************************************)
EXTENDS Integers, Sequences, FiniteSets

CONSTANTS Post, Patch, Delete, Ingest,  \* requests
          Name,        \* service names, trimmed, at most 256 bytes
          Uri,         \* sink URIs
          BadUri,      \* those make_sink rejects
          None,
          Overlap,     \* TRUE: clients send requests at any time
          MaxRestart   \* bound: crashes and stops of the process

Mutator == Post \cup Patch \cup Delete
Request == Mutator \cup Ingest
Id == 1..Cardinality(Post)
Loaded == {<<"loaded", i>> : i \in Id}   \* sinks made by start
Default == <<"default", 0>>              \* _sink
Sink == Post \cup Patch \cup Loaded      \* a sink is named after its maker

ASSUME ServiceRegistryAssumption ==
  /\ IsFiniteSet(Request) /\ BadUri \subseteq Uri
  /\ None \notin Name \cup Uri /\ None \notin Id /\ None \notin Sink \cup {Default}
  /\ Post \cap (Patch \cup Delete \cup Ingest) = {}
  /\ Patch \cap (Delete \cup Ingest) = {} /\ Delete \cap Ingest = {}
  /\ (Loaded \cup {Default}) \cap Request = {}
  /\ Overlap \in BOOLEAN /\ MaxRestart \in Nat

VARIABLES
  pc,         \* where each request is
  frame,      \* the coroutine frame of each request
  rows,       \* _admin_services
  capacity,   \* of that vector
  nextId,     \* _next_admin_service_id
  routes,     \* _service_sinks: from ids to sinks
  sinks,      \* each sink: its state and the URI it was made from
  dangling,   \* requests whose reference a reallocation has invalidated
  saving,     \* snapshots on their way to the state file, oldest first
  file,       \* the registry in the state file
  phase,      \* "up" or "down"
  restarts,
  given,      \* the id each POST was answered with, once stored
  forgotten,  \* those answered before a start that could not read the file
  faulty,     \* services whose sink failed to flush or to close
  unsynced    \* services that have changed in memory only

table == <<rows, capacity, nextId>>
store == <<saving, file>>
process == <<phase, restarts>>
ghosts == <<given, forgotten, faulty, unsynced>>
vars == <<pc, frame, table, routes, sinks, dangling, store, process, ghosts>>

Row == [id : Id, name : Name, uri : Uri \cup {None}]
Frame == [id : Id \cup {None}, name : Name \cup {None}, uri : Uri \cup {None},
          at : 0..Cardinality(Post), sk : Sink \cup {None, Default}]
NoFrame == [id |-> None, name |-> None, uri |-> None, at |-> 0, sk |-> None]
Unmade == [st |-> "unmade", uri |-> None]
Freed == [st |-> "freed", uri |-> None]
Open(u) == [st |-> "open", uri |-> u]

Active == {r \in Request : pc[r] \notin {"idle", "done"}}
Image == [rows |-> rows, next |-> nextId]

\* The row with a given id, as an index; 0 if there is none.
RowOf(i) == IF \E k \in DOMAIN rows : rows[k].id = i
            THEN CHOOSE k \in DOMAIN rows : rows[k].id = i ELSE 0

\* When requests do not overlap: changes come one at a time, and a service that
\* is being changed is not ingested into.
Admitted(r, i) ==
  /\ phase = "up" /\ pc[r] = "idle"
  /\ Overlap \/ \A q \in Active : \/ {q, r} \subseteq Ingest
                                  \/ ~({q, r} \subseteq Mutator) /\ frame[q].id # i

\* The coroutine goes on to its next co_await, or ends.
Suspends(r, at, f) == pc' = [pc EXCEPT ![r] = at] /\ frame' = [frame EXCEPT ![r] = f]
Returns(r) == Suspends(r, "done", NoFrame)

-----------------------------------------------------------------------------
(* POST /services: add_admin_service *)

\* push_back, which moves the rows when the vector is full.
AddRow(r, n, u) ==
  LET full == Len(rows) = capacity IN
  /\ rows' = Append(rows, [id |-> nextId, name |-> n, uri |-> u])
  /\ nextId' = nextId + 1
  /\ capacity' = IF ~full THEN capacity ELSE IF capacity = 0 THEN 1 ELSE 2 * capacity
  /\ dangling' = IF ~full THEN dangling
                 ELSE dangling \cup {q \in Active : frame[q].at # 0}
  /\ Suspends(r, "changed", [NoFrame EXCEPT !.id = nextId])

\* Mutant of PostArrives: the name is not compared.
PostArrivesUnchecked(r) ==
  /\ Admitted(r, None)
  /\ \E n \in Name : AddRow(r, n, None)
  /\ UNCHANGED <<routes, sinks, store, process, ghosts>>

\* The name must be new; with a sink_uri the sink is made before the row.
PostArrives(r) ==
  /\ Admitted(r, None)
  /\ \E n \in Name, u \in Uri \cup {None} :
       \/ /\ \E k \in DOMAIN rows : rows[k].name = n
          /\ Returns(r)
          /\ UNCHANGED <<table, dangling>>
       \/ /\ \A k \in DOMAIN rows : rows[k].name # n
          /\ u = None
          /\ AddRow(r, n, u)
       \/ /\ \A k \in DOMAIN rows : rows[k].name # n
          /\ u # None
          /\ Suspends(r, "making", [NoFrame EXCEPT !.name = n, !.uri = u])
          /\ UNCHANGED <<table, dangling>>
  /\ UNCHANGED <<routes, sinks, store, process, ghosts>>

PostMakesSink(r) ==
  LET u == frame[r].uri IN
  /\ pc[r] = "making"
  /\ u \notin BadUri
  /\ AddRow(r, frame[r].name, u)
  /\ sinks' = [sinks EXCEPT ![r] = Open(u)]
  /\ routes' = [i \in DOMAIN routes \cup {nextId} |-> IF i = nextId THEN r ELSE routes[i]]
  /\ UNCHANGED <<store, process, ghosts>>

PostFails(r) ==
  /\ pc[r] = "making"
  /\ Returns(r)
  /\ UNCHANGED <<table, routes, sinks, dangling, store, process, ghosts>>

-----------------------------------------------------------------------------
(* What PATCH and DELETE share: the row is found, then its sink, if it has *)
(* one, is flushed, closed, destroyed and erased.                          *)

\* The row a suspended request refers to: an index of rows, or 0 if the vector
\* was moved or has shrunk under the reference.  Its use is undefined behaviour
\* then, like that of a dead sink; we keep the outcome where the write is lost.
Target(r) == IF r \in dangling \/ frame[r].at \notin DOMAIN rows THEN 0 ELSE frame[r].at

\* The sink that r is closing was erased by another request.
SinkIsDead(r) == sinks[frame[r].sk].st = "freed"

\* The sink of the row is found: flush is called on it.
FindsSink(r, i, u) ==
  Suspends(r, "closing", [id |-> i, name |-> None, uri |-> u, at |-> RowOf(i),
                          sk |-> routes[i]])

\* The sink is flushed, closed and destroyed, and its entry erased.
Unroutes(r) ==
  LET i == frame[r].id  s == frame[r].sk IN
  /\ sinks' = [sinks EXCEPT ![s] = Freed]
  /\ routes' = IF i \in DOMAIN routes /\ routes[i] = s
               THEN [j \in DOMAIN routes \ {i} |-> routes[j]] ELSE routes

\* flush or close throws: a 500, and the sink, closed or not, stays in place.
CloseThrows(r) ==
  LET s == frame[r].sk IN
  /\ pc[r] = "closing"
  /\ Returns(r)
  /\ \E st \in {sinks[s].st, "closed"} :
       sinks' = IF SinkIsDead(r) THEN sinks ELSE [sinks EXCEPT ![s].st = st]
  /\ faulty' = faulty \cup {frame[r].id}
  /\ UNCHANGED <<table, routes, dangling, store, process, given, forgotten, unsynced>>

-----------------------------------------------------------------------------
(* PATCH /services: patch_admin_service_sink *)

\* The old sink is gone: the routing of row k is cleared, or set before its new
\* sink is asked for.
Rebinds(r, i, k, u) ==
  /\ rows' = IF k = 0 THEN rows ELSE [rows EXCEPT ![k].uri = u]
  /\ Suspends(r, IF u = None THEN "changed" ELSE "making",
              [id |-> i, name |-> None, uri |-> u, at |-> k, sk |-> None])

PatchArrives(r) ==
  /\ \E i \in Id, u \in Uri \cup {None} :
       /\ Admitted(r, i)
       /\ \/ RowOf(i) = 0 /\ Returns(r) /\ UNCHANGED rows
          \/ RowOf(i) # 0 /\ i \notin DOMAIN routes /\ Rebinds(r, i, RowOf(i), u)
          \/ RowOf(i) # 0 /\ i \in DOMAIN routes /\ FindsSink(r, i, u) /\ UNCHANGED rows
  /\ UNCHANGED <<capacity, nextId, routes, sinks, dangling, store, process, ghosts>>

PatchCloses(r) ==
  /\ pc[r] = "closing"
  /\ Unroutes(r)
  /\ Rebinds(r, frame[r].id, Target(r), frame[r].uri)
  /\ UNCHANGED <<capacity, nextId, dangling, store, process, ghosts>>

\* The new sink is made; emplace leaves an entry alone that is already there.
PatchMakesSink(r) ==
  LET i == frame[r].id  u == frame[r].uri IN
  /\ pc[r] = "making"
  /\ u \notin BadUri
  /\ \/ /\ i \notin DOMAIN routes
        /\ sinks' = [sinks EXCEPT ![r] = Open(u)]
        /\ routes' = [j \in DOMAIN routes \cup {i} |-> IF j = i THEN r ELSE routes[j]]
     \/ /\ i \in DOMAIN routes
        /\ sinks' = [sinks EXCEPT ![r] = Freed]
        /\ UNCHANGED routes
  /\ Suspends(r, "changed", [NoFrame EXCEPT !.id = i])
  /\ UNCHANGED <<table, dangling, store, process, ghosts>>

\* Mutant of PatchFails: the row keeps the URI that was refused.
PatchFailsOnly(r) ==
  /\ pc[r] = "making"
  /\ Returns(r)
  /\ unsynced' = unsynced \cup {frame[r].id}
  /\ UNCHANGED <<table, routes, sinks, dangling, store, process, given, forgotten, faulty>>

\* The new sink is refused: the old routing is gone, and nothing is persisted.
PatchFails(r) ==
  LET k == Target(r) IN
  /\ pc[r] = "making"
  /\ rows' = IF k = 0 THEN rows ELSE [rows EXCEPT ![k].uri = None]
  /\ Returns(r)
  /\ unsynced' = unsynced \cup {frame[r].id}
  /\ UNCHANGED <<capacity, nextId, routes, sinks, dangling, store, process, given, forgotten, faulty>>

-----------------------------------------------------------------------------
(* DELETE /services: remove_admin_service *)

\* The row at k is erased; those behind it move up.
EraseRow(r, i, k) ==
  /\ rows' = IF k = 0 THEN rows ELSE SubSeq(rows, 1, k - 1) \o SubSeq(rows, k + 1, Len(rows))
  /\ Suspends(r, "changed", [NoFrame EXCEPT !.id = i])

DeleteArrives(r) ==
  /\ \E i \in Id :
       /\ Admitted(r, i)
       /\ \/ RowOf(i) = 0 /\ Returns(r) /\ UNCHANGED rows
          \/ RowOf(i) # 0 /\ i \notin DOMAIN routes /\ EraseRow(r, i, RowOf(i))
          \/ RowOf(i) # 0 /\ i \in DOMAIN routes /\ FindsSink(r, i, None) /\ UNCHANGED rows
  /\ UNCHANGED <<capacity, nextId, routes, sinks, dangling, store, process, ghosts>>

\* Mutant of DeleteCloses: the handler answers without a persist.
DeleteClosesOnly(r) ==
  LET k == Target(r) IN
  /\ pc[r] = "closing"
  /\ Unroutes(r)
  /\ rows' = SubSeq(rows, 1, k - 1) \o SubSeq(rows, k + 1, Len(rows))
  /\ Returns(r)
  /\ UNCHANGED <<capacity, nextId, dangling, store, process, ghosts>>

DeleteCloses(r) ==
  /\ pc[r] = "closing"
  /\ Unroutes(r)
  /\ EraseRow(r, frame[r].id, Target(r))
  /\ UNCHANGED <<capacity, nextId, dangling, store, process, ghosts>>

-----------------------------------------------------------------------------
(* persist_admin_services_if_configured, the end of the three handlers *)

Serializes(r) ==
  /\ pc[r] = "changed"
  /\ saving' = Append(saving, [by |-> r, id |-> frame[r].id, image |-> Image])
  /\ Suspends(r, "saving", NoFrame)
  /\ UNCHANGED <<table, routes, sinks, dangling, file, process, ghosts>>

\* Mutant of Saves: a failed save is tried again, without end.
SavesUntilDone ==
  LET r == Head(saving).by  i == Head(saving).id IN
  /\ saving # <<>>
  /\ saving' = Tail(saving)
  /\ \/ file' = Head(saving).image /\ Returns(r)
     \/ UNCHANGED file /\ Suspends(r, "changed", [NoFrame EXCEPT !.id = i])
  /\ UNCHANGED <<table, routes, sinks, dangling, process, ghosts>>

\* The oldest snapshot reaches the file, or is lost with a line in the log; the
\* request is answered with a 2xx either way.
Saves ==
  LET r == Head(saving).by  i == Head(saving).id IN
  /\ saving # <<>>
  /\ saving' = Tail(saving)
  /\ Returns(r)
  /\ \/ /\ file' = Head(saving).image
        /\ given' = IF r \in Post THEN [given EXCEPT ![r] = i] ELSE given
        /\ unsynced' = {}
     \/ /\ unsynced' = unsynced \cup {i}
        /\ UNCHANGED <<file, given>>
  /\ UNCHANGED <<table, routes, sinks, dangling, process, forgotten, faulty>>

-----------------------------------------------------------------------------
(* POST /ingest: the handler, then ingest_payload under _sink_sem *)

\* admin_service_exists, and the decoding of the payload.
IngestArrives(r) ==
  /\ \E i \in Id :
       /\ Admitted(r, i)
       /\ IF RowOf(i) = 0 THEN Returns(r)
          ELSE Suspends(r, "checked", [NoFrame EXCEPT !.id = i])
  /\ UNCHANGED <<table, routes, sinks, dangling, store, process, ghosts>>

\* Mutant of IngestWrites: the routing is looked up under the row's index.
IngestWritesByIndex(r) ==
  LET i == frame[r].id  k == RowOf(i)  u == IF k = 0 THEN None ELSE rows[k].uri IN
  /\ pc[r] = "checked"
  /\ \A q \in Ingest : pc[q] # "writing"
  /\ Suspends(r, "writing",
       [NoFrame EXCEPT !.id = i, !.uri = u,
                       !.sk = IF u # None /\ k \in DOMAIN routes THEN routes[k] ELSE Default])
  /\ UNCHANGED <<table, routes, sinks, dangling, store, process, ghosts>>

\* The routing is looked up, and write is called on the service's sink, or on
\* the default one.  frame[r].uri remembers the sink_uri the row declares.
IngestWrites(r) ==
  LET i == frame[r].id  k == RowOf(i)  u == IF k = 0 THEN None ELSE rows[k].uri IN
  /\ pc[r] = "checked"
  /\ \A q \in Ingest : pc[q] # "writing"
  /\ Suspends(r, "writing",
       [NoFrame EXCEPT !.id = i, !.uri = u,
                       !.sk = IF u # None /\ i \in DOMAIN routes THEN routes[i] ELSE Default])
  /\ UNCHANGED <<table, routes, sinks, dangling, store, process, ghosts>>

\* The write resolves, or throws.
IngestEnds(r) ==
  /\ pc[r] = "writing"
  /\ Returns(r)
  /\ UNCHANGED <<table, routes, sinks, dangling, store, process, ghosts>>

-----------------------------------------------------------------------------
(* The process *)

Ends ==
  /\ phase = "up" /\ restarts < MaxRestart
  /\ phase' = "down"
  /\ pc' = [r \in Request |-> IF r \in Active THEN "done" ELSE pc[r]]
  /\ frame' = [r \in Request |-> NoFrame]
  /\ rows' = <<>> /\ capacity' = 0 /\ nextId' = 1 /\ routes' = <<>>
  /\ dangling' = {} /\ saving' = <<>>
  /\ sinks' = [s \in Sink |-> IF sinks[s] = Unmade THEN Unmade ELSE Freed]
  /\ faulty' = {} /\ unsynced' = {}
  /\ UNCHANGED <<restarts, given, forgotten>>

Crashes == Ends /\ UNCHANGED file

\* stop on shard 0, with the admin HTTP server drained: a last persist, then
\* all service sinks are flushed and closed.
Stops == Active = {} /\ Ends /\ file' \in {file, Image}

\* Mutant of NextIdOf: next_id is not read back.
AfterLastRow(f) == IF f.rows = <<>> THEN 1 ELSE f.rows[Len(f.rows)].id + 1

\* next_id, or one more than the largest id if that is more.
NextIdOf(f) ==
  LET candidates == {f.next} \cup {f.rows[k].id + 1 : k \in DOMAIN f.rows}
  IN CHOOSE n \in candidates : \A m \in candidates : n >= m

\* The capacity of a vector that has grown, by doubling, to n rows: the one power
\* of 2 that is at least n and less than 2n.
Capacity(n) ==
  IF n = 0 THEN {0} ELSE {c \in n..2 * n - 1 : \E k \in 0..n : c = 2 ^ k}

\* load gives up: the registry stays empty and ids start at 1, while the file
\* has what it had, the ids below its next_id, until the next persist.
GivesUp ==
  /\ forgotten' = {p \in Post : given[p] # None}
  /\ unsynced' = 1..file.next - 1
  /\ UNCHANGED <<table, routes, sinks>>

\* The rows are read, ids go on where they stopped, and every sink_uri gets a
\* sink; a row whose sink cannot be made falls back to the default one, in
\* memory only.
Loads ==
  LET wanted == {k \in DOMAIN file.rows : file.rows[k].uri # None} IN
  /\ nextId' = NextIdOf(file)
  /\ capacity' \in Capacity(Len(file.rows))
  /\ \E refused \in SUBSET wanted :
       /\ {k \in wanted : file.rows[k].uri \in BadUri} \subseteq refused
       /\ rows' = [k \in DOMAIN file.rows |->
                     IF k \in refused THEN [file.rows[k] EXCEPT !.uri = None]
                     ELSE file.rows[k]]
       /\ routes' = [i \in {file.rows[k].id : k \in wanted \ refused} |-> <<"loaded", i>>]
       /\ sinks' = [s \in Sink |->
                      IF \E k \in wanted \ refused : s = <<"loaded", file.rows[k].id>>
                      THEN Open(rows'[CHOOSE k \in wanted : s[2] = file.rows[k].id].uri)
                      ELSE sinks[s]]
       /\ unsynced' = {file.rows[k].id : k \in refused}
  /\ UNCHANGED forgotten

\* start on shard 0, before the admin HTTP server listens.  A file that cannot
\* be opened, read or parsed, or is too large, is a line in the log.
Restarts ==
  /\ phase = "down" /\ phase' = "up" /\ restarts' = restarts + 1
  /\ GivesUp \/ Loads
  /\ UNCHANGED <<pc, frame, dangling, store, given, faulty>>

\* No request is under way.
Quiet == phase = "up" /\ Active = {} /\ UNCHANGED vars

-----------------------------------------------------------------------------
Init ==
  /\ pc = [r \in Request |-> "idle"]
  /\ frame = [r \in Request |-> NoFrame]
  /\ rows = <<>> /\ capacity = 0 /\ nextId = 1 /\ routes = <<>>
  /\ sinks = [s \in Sink |-> Unmade] /\ dangling = {}
  /\ saving = <<>> /\ file = [rows |-> <<>>, next |-> 1]
  /\ phase = "up" /\ restarts = 0
  /\ given = [r \in Post |-> None]
  /\ forgotten = {} /\ faulty = {} /\ unsynced = {}

PostStep(r) == PostMakesSink(r) \/ PostFails(r) \/ Serializes(r)
PatchStep(r) == PatchCloses(r) \/ CloseThrows(r) \/ PatchMakesSink(r)
                \/ PatchFails(r) \/ Serializes(r)
DeleteStep(r) == DeleteCloses(r) \/ CloseThrows(r) \/ Serializes(r)
IngestStep(r) == IngestWrites(r) \/ IngestEnds(r)

Next ==
  \/ \E r \in Post : PostArrives(r) \/ PostStep(r)
  \/ \E r \in Patch : PatchArrives(r) \/ PatchStep(r)
  \/ \E r \in Delete : DeleteArrives(r) \/ DeleteStep(r)
  \/ \E r \in Ingest : IngestArrives(r) \/ IngestStep(r)
  \/ Saves \/ Crashes \/ Stops \/ Restarts \/ Quiet

\* The reactor runs every ready task, and all I/O resolves one way or the other.
Fairness ==
  /\ \A r \in Post : WF_vars(PostStep(r))
  /\ \A r \in Patch : WF_vars(PatchStep(r))
  /\ \A r \in Delete : WF_vars(DeleteStep(r))
  /\ \A r \in Ingest : WF_vars(IngestStep(r))
  /\ WF_vars(Saves)

Spec == Init /\ [][Next]_vars
FairSpec == Spec /\ Fairness

-----------------------------------------------------------------------------
(* Properties *)

\* The variables keep their types.
TypeOK ==
  /\ \A r \in Request : /\ pc[r] \in {"idle", "making", "closing", "changed", "saving",
                                      "checked", "writing", "done"}
                        /\ frame[r] \in Frame
  /\ \A k \in DOMAIN rows : rows[k] \in Row
  /\ Len(rows) <= capacity /\ nextId \in 1..Cardinality(Post) + 1
  /\ \A i \in DOMAIN routes : i \in Id /\ routes[i] \in Sink
  /\ \A s \in Sink : sinks[s] \in [st : {"unmade", "open", "closed", "freed"},
                                   uri : Uri \cup {None}]
  /\ \A r \in Post : given[r] \in Id \cup {None}
  /\ dangling \subseteq Request /\ forgotten \subseteq Post /\ faulty \cup unsynced \subseteq Id
  /\ phase \in {"up", "down"} /\ restarts \in 0..MaxRestart

\* A service has a name of its own: POST answers 409 to a name that is taken
\* (README, POST /services).
NamesUnique ==
  \A j, k \in DOMAIN rows : rows[j].name = rows[k].name => j = k

\* An id that a client was given belongs to its service forever: no later POST
\* gets it, after a DELETE, a crash or a restart, once it was stored.  Only a
\* start that cannot read the file gives ids anew, from 1; those it gives are
\* again unique.
IdsNeverReused ==
  /\ \A j, k \in DOMAIN rows : rows[j].id = rows[k].id => j = k
  /\ \A p, q \in Post \ forgotten : given[p] = given[q] /\ given[p] # None => p = q

\* Between requests, exactly the services that declare a sink_uri have a sink,
\* open and made from that URI; a service whose sink failed to flush or close
\* is excepted.
RoutesMatchRows ==
  phase = "up" /\ Active \cap Mutator = {} =>
    /\ DOMAIN routes \subseteq {rows[k].id : k \in DOMAIN rows}
    /\ \A k \in DOMAIN rows : rows[k].id \notin faulty =>
         /\ rows[k].uri # None <=> rows[k].id \in DOMAIN routes
         /\ rows[k].uri # None => sinks[routes[rows[k].id]] = Open(rows[k].uri)

\* An ingested payload goes where the service's row says when it is written:
\* "if that row declares sink_uri, HTTP ingest writes there" (README).
IngestRouted ==
  \A r \in Ingest : pc[r] = "writing" /\ frame[r].id \notin faulty =>
    IF frame[r].uri = None THEN frame[r].sk = Default
    ELSE frame[r].sk # Default /\ sinks[frame[r].sk] = Open(frame[r].uri)

\* Between requests the state file has the registry, next_id included, but for
\* services changed by a refused PATCH, a failed persist or a load that could not
\* make the sink, and, until a persist succeeds, after a load that gave up.
FileInSync ==
  phase = "up" /\ Active \cap Mutator = {} /\ unsynced = {} => file = Image

\* Every request is answered, unless the process ends.
EveryRequestEnds == \A r \in Request : r \in Active ~> r \notin Active
=============================================================================
