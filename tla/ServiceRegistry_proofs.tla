----------------------- MODULE ServiceRegistry_proofs -----------------------
(* Theorems about ServiceRegistry, for any number of requests, names, URIs  *)
(* and restarts, when changes come one at a time (Overlap is FALSE).        *)
EXTENDS ServiceRegistry, FiniteSetTheorems, SequenceTheorems, TLAPS

-----------------------------------------------------------------------------
(* The inductive invariant *)

SinkState == [st : {"unmade", "open", "closed", "freed"}, uri : Uri \cup {None}]

\* The POSTs that have used up an id, or can no longer use one.
Numbered == {p \in Post : pc[p] \notin {"idle", "making"}}

\* Where the handler of a request can be suspended, by its kind.
MayBeAt(r, at) ==
  /\ r \in Post => at \in {"idle", "making", "changed", "saving", "done"}
  /\ r \in Patch => at \in {"idle", "closing", "making", "changed", "saving", "done"}
  /\ r \in Delete => at \in {"idle", "closing", "changed", "saving", "done"}
  /\ r \in Ingest => at \in {"idle", "checked", "writing", "done"}

\* Every request is where it may be, with a frame.
Control ==
  /\ pc \in [Request -> {"idle", "making", "closing", "changed", "saving",
                         "checked", "writing", "done"}]
  /\ frame \in [Request -> Frame]
  /\ \A r \in Request : MayBeAt(r, pc[r])
  /\ phase \in {"up", "down"} /\ restarts \in 0..MaxRestart
  /\ phase = "down" => /\ restarts < MaxRestart
                       /\ \A r \in Request : pc[r] \in {"idle", "done"}

\* The rows of a registry, with n the next id: the k-th id is at least k, so that
\* there are never more rows than ids.
GoodRows(rs, n) ==
  /\ rs \in Seq(Row)
  /\ n \in 1..Cardinality(Post) + 1
  /\ \A k \in DOMAIN rs : k <= rs[k].id /\ rs[k].id < n
  /\ \A j, k \in DOMAIN rs : j # k => rs[j].id # rs[k].id /\ rs[j].name # rs[k].name

\* The registry in memory and in the file.
Tables ==
  /\ GoodRows(rows, nextId)
  /\ nextId <= Cardinality(Numbered) + 1 /\ file.next <= Cardinality(Numbered) + 1
  /\ capacity \in Nat /\ Len(rows) <= capacity
  /\ file \in [rows : Seq(Row), next : Nat] /\ GoodRows(file.rows, file.next)
  /\ dangling = {}

\* One change at a time, and no ingest into the service it is about.
Serial ==
  /\ \A q, r \in Mutator : q \in Active /\ r \in Active => q = r
  /\ \A q \in Mutator, g \in Ingest :
       q \in Active /\ g \in Active => frame[q].id # frame[g].id

\* A service whose old sink is gone and whose new one is not there yet.
InMotion(i) == \E q \in Patch : pc[q] = "making" /\ frame[q].id = i

\* A row and its routing.
RowRouted(x) ==
  /\ x.uri # None <=> x.id \in DOMAIN routes
  /\ x.uri # None /\ x.id \notin faulty => sinks[routes[x.id]] = Open(x.uri)

\* Every sink in the map is that of one service only, and alive.
Routing ==
  /\ \A i \in DOMAIN routes : /\ i \in Id /\ routes[i] \in Sink
                              /\ \E k \in DOMAIN rows : rows[k].id = i
                              /\ sinks[routes[i]].st \in {"open", "closed"}
  /\ \A i, j \in DOMAIN routes : routes[i] = routes[j] => i = j
  /\ \A k \in DOMAIN rows : InMotion(rows[k].id) \/ RowRouted(rows[k])

Sinks ==
  /\ sinks \in [Sink -> SinkState]
  /\ \A r \in Post \cup Patch :
       pc[r] \in {"idle", "making", "closing"} => sinks[r] = Unmade

\* The ids that clients were given and no failed start has forgotten are below n.
Below(n) == \A p \in Post \ forgotten : given[p] # None => given[p] < n

\* What a suspended change keeps is still so.
Change(r) ==
  LET f == frame[r] IN
  /\ pc[r] = "making" /\ r \in Post =>
       /\ f.name \in Name /\ f.uri \in Uri /\ f.at = 0
       /\ \A k \in DOMAIN rows : rows[k].name # f.name
  /\ pc[r] = "making" /\ r \in Patch =>
       /\ f.at \in DOMAIN rows /\ rows[f.at].id = f.id /\ rows[f.at].uri = f.uri
       /\ f.uri \in Uri /\ f.id \notin DOMAIN routes
  /\ pc[r] = "closing" =>
       /\ f.at \in DOMAIN rows /\ rows[f.at].id = f.id
       /\ f.id \in DOMAIN routes /\ f.sk = routes[f.id]
  /\ pc[r] = "changed" =>
       f.id \in Id /\ (r \in Post => f.id = nextId - 1 /\ Below(f.id))
  /\ pc[r] = "saving" =>
       \E i \in Id : /\ saving = <<[by |-> r, id |-> i, image |-> Image]>>
                     /\ r \in Post => i = nextId - 1 /\ Below(i)

\* Where a suspended ingest is going is still right.
Going(g) ==
  LET f == frame[g] IN
  /\ pc[g] \in {"checked", "writing"} => f.id \in Id /\ f.id < nextId /\ f.at = 0
  /\ pc[g] = "writing" =>
       IF f.uri = None THEN f.sk = Default
       ELSE /\ f.id \in DOMAIN routes /\ routes[f.id] = f.sk
            /\ f.id \notin faulty => sinks[f.sk] = Open(f.uri)

Handlers ==
  /\ \A r \in Mutator : Change(r)
  /\ \A g \in Ingest : Going(g)
  /\ saving # <<>> => \E r \in Mutator : pc[r] = "saving"

\* A change is in memory and not yet in the file.
Dirty == \E r \in Mutator : pc[r] \in {"changed", "saving"} \/ (r \in Patch /\ pc[r] = "making")

Stored ==
  /\ phase = "down" => rows = <<>> /\ nextId = 1
  /\ phase = "up" /\ unsynced = {} /\ ~Dirty => file = Image
  /\ given \in [Post -> Id \cup {None}]
  /\ Below(file.next) /\ (phase = "up" => Below(nextId))
  /\ \A p, q \in Post \ forgotten : given[p] = given[q] /\ given[p] # None => p = q
  /\ forgotten \subseteq Post /\ faulty \subseteq Id /\ unsynced \subseteq Id

IInv == Control /\ Tables /\ Serial /\ Routing /\ Sinks /\ Handlers /\ Stored

-----------------------------------------------------------------------------
(* Lemmas *)

\* The kinds of requests, of sinks and of ids do not overlap.
LEMMA Kinds ==
  /\ \A r \in Post : r \notin Patch /\ r \notin Delete /\ r \notin Ingest
  /\ \A r \in Patch : r \notin Post /\ r \notin Delete /\ r \notin Ingest
  /\ \A r \in Delete : r \notin Post /\ r \notin Patch /\ r \notin Ingest
  /\ \A r \in Ingest : r \notin Post /\ r \notin Patch /\ r \notin Delete
  /\ \A r \in Request : r \in Post \/ r \in Patch \/ r \in Delete \/ r \in Ingest
  /\ \A r \in Request : r \in Mutator <=> r \notin Ingest
  /\ \A r \in Mutator : r \in Request
  /\ \A s \in Loaded : s \notin Post /\ s \notin Patch
  /\ None \notin Name /\ None \notin Uri /\ None \notin Id /\ None \notin Sink
  /\ Default # None
BY ServiceRegistryAssumption DEF Request, Mutator, Sink

\* The number of POSTs bounds the ids.
LEMMA Counts ==
  /\ IsFiniteSet(Post) /\ Cardinality(Post) \in Nat
  /\ IsFiniteSet(Numbered) /\ Cardinality(Numbered) \in Nat
  /\ Cardinality(Numbered) <= Cardinality(Post)
<1>1. IsFiniteSet(Post)
  BY ServiceRegistryAssumption, FS_Subset DEF Request, Mutator
<1>2. Numbered \subseteq Post
  BY DEF Numbered
<1> QED BY <1>1, <1>2, FS_Subset, FS_CardinalityType

\* A POST that has got its id, or has ended, is counted ever after.
LEMMA CountGrows ==
  ASSUME NEW r \in Post, r \notin Numbered, Numbered \cup {r} \subseteq Numbered'
  PROVE  /\ Cardinality(Numbered) + 1 <= Cardinality(Numbered')
         /\ Cardinality(Numbered') \in Nat /\ Cardinality(Numbered') <= Cardinality(Post)
<1>1. IsFiniteSet(Numbered')
  BY Counts, FS_Subset DEF Numbered
<1>2. Cardinality(Numbered \cup {r}) = Cardinality(Numbered) + 1
  BY Counts, FS_AddElement
<1>3. Cardinality(Numbered \cup {r}) <= Cardinality(Numbered')
  BY <1>1, FS_Subset
<1>4. Numbered' \subseteq Post
  BY DEF Numbered
<1> QED BY <1>1, <1>2, <1>3, <1>4, Counts, FS_Subset, FS_CardinalityType

LEMMA CountStays ==
  ASSUME Numbered \subseteq Numbered'
  PROVE  /\ Cardinality(Numbered) <= Cardinality(Numbered')
         /\ Cardinality(Numbered') \in Nat /\ Cardinality(Numbered') <= Cardinality(Post)
<1>1. Numbered' \subseteq Post
  BY DEF Numbered
<1>2. IsFiniteSet(Numbered')
  BY <1>1, Counts, FS_Subset
<1> QED BY <1>1, <1>2, Counts, FS_Subset, FS_CardinalityType

\* A row is where its id allows.
LEMMA RowFacts ==
  ASSUME NEW rs, NEW n, GoodRows(rs, n), NEW k \in DOMAIN rs
  PROVE  /\ k \in Nat /\ 1 <= k /\ k <= Len(rs) /\ Len(rs) \in Nat
         /\ k < n /\ k \in 0..Cardinality(Post)
         /\ rs[k] \in Row /\ rs[k].id \in Id /\ rs[k].id < n
<1>1. rs \in Seq(Row) /\ k <= rs[k].id /\ rs[k].id < n /\ n \in 1..Cardinality(Post) + 1
  BY DEF GoodRows
<1>2. k \in Nat /\ 1 <= k /\ k <= Len(rs) /\ Len(rs) \in Nat /\ rs[k] \in Row
  BY <1>1
<1>3. rs[k].id \in Id
  BY <1>2 DEF Row
<1> QED BY <1>1, <1>2, <1>3, Counts DEF Id

\* The row of an id is the only one that has it.
LEMMA RowOfFinds ==
  ASSUME Tables, NEW i
  PROVE  /\ RowOf(i) # 0 => RowOf(i) \in DOMAIN rows /\ rows[RowOf(i)].id = i
         /\ RowOf(i) = 0 => \A k \in DOMAIN rows : rows[k].id # i
<1>1. \A k \in DOMAIN rows : k # 0
  BY RowFacts DEF Tables
<1>2. CASE \E k \in DOMAIN rows : rows[k].id = i
  BY <1>1, <1>2 DEF RowOf
<1>3. CASE ~\E k \in DOMAIN rows : rows[k].id = i
  BY <1>3 DEF RowOf
<1> QED BY <1>2, <1>3

\* The invariant gives the types.
LEMMA IInvTypeOK == IInv => TypeOK
<1> SUFFICES ASSUME IInv PROVE TypeOK
  OBVIOUS
<1>1. \A k \in DOMAIN rows : rows[k] \in Row
  BY RowFacts DEF IInv, Tables
<1>2. nextId \in 1..Cardinality(Post) + 1
  BY DEF IInv, Tables, GoodRows
<1>3. \A s \in Sink : sinks[s] \in [st : {"unmade", "open", "closed", "freed"},
                                    uri : Uri \cup {None}]
  BY DEF IInv, Sinks, SinkState
<1>4. \A r \in Request : /\ pc[r] \in {"idle", "making", "closing", "changed", "saving",
                                       "checked", "writing", "done"}
                         /\ frame[r] \in Frame
  BY DEF IInv, Control
<1>5. \A i \in DOMAIN routes : i \in Id /\ routes[i] \in Sink
  BY DEF IInv, Routing
<1>6. Len(rows) <= capacity /\ dangling = {}
  BY DEF IInv, Tables
<1>7. /\ \A r \in Post : given[r] \in Id \cup {None}
      /\ forgotten \subseteq Post /\ faulty \cup unsynced \subseteq Id
  BY DEF IInv, Stored
<1>8. phase \in {"up", "down"} /\ restarts \in 0..MaxRestart
  BY DEF IInv, Control
<1> QED BY <1>1, <1>2, <1>3, <1>4, <1>5, <1>6, <1>7, <1>8 DEF TypeOK

\* The step of one request.
LEMMA OneMoves ==
  ASSUME Control, NEW r \in Request, NEW at, NEW f, Suspends(r, at, f)
  PROVE  /\ pc'[r] = at /\ frame'[r] = f
         /\ \A q \in Request : q # r => pc'[q] = pc[q] /\ frame'[q] = frame[q]
BY DEF Control, Suspends

LEMMA NoFrameTyped == NoFrame \in Frame
BY Counts DEF NoFrame, Frame

LEMMA ControlStep ==
  ASSUME Control, NEW r \in Request, NEW at, MayBeAt(r, at), NEW f \in Frame,
         Suspends(r, at, f), phase = "up", UNCHANGED process
  PROVE  Control'
<1>1. at \in {"idle", "making", "closing", "changed", "saving", "checked", "writing", "done"}
  BY Kinds DEF MayBeAt
<1>2. pc' \in [Request -> {"idle", "making", "closing", "changed", "saving",
                           "checked", "writing", "done"}]
  BY <1>1 DEF Control, Suspends
<1>3. frame' \in [Request -> Frame]
  BY DEF Control, Suspends
<1>4. \A q \in Request : q # r => pc'[q] = pc[q]
  BY OneMoves
<1>5. pc'[r] = at
  BY OneMoves
<1>6. \A q \in Request : MayBeAt(q, pc'[q])
  BY <1>4, <1>5 DEF Control
<1> QED BY <1>2, <1>3, <1>6 DEF Control, process

\* A change under way is the only one, and is not about the service of an ingest.
LEMMA Solo ==
  ASSUME Control, Serial, NEW r \in Mutator, pc[r] \notin {"idle", "done"}
  PROVE  /\ phase = "up"
         /\ \A q \in Mutator : q # r => pc[q] \in {"idle", "done"}
         /\ \A g \in Ingest : pc[g] \notin {"idle", "done"} => frame[g].id # frame[r].id
BY Kinds DEF Control, MayBeAt, Serial, Active, Request

\* So is one that is admitted.
LEMMA AdmittedSolo ==
  ASSUME ~Overlap, Control, NEW r \in Mutator, NEW i, Admitted(r, i)
  PROVE  /\ phase = "up" /\ pc[r] = "idle"
         /\ \A q \in Mutator : pc[q] \in {"idle", "done"}
         /\ \A g \in Ingest : pc[g] \notin {"idle", "done"} => frame[g].id # i
BY Kinds DEF Control, Admitted, Active, Request

LEMMA SerialStep ==
  ASSUME Control, NEW r \in Mutator, NEW at, NEW f, Suspends(r, at, f),
         \A q \in Mutator : q # r => pc[q] \in {"idle", "done"},
         at # "done" => \A g \in Ingest : pc[g] \notin {"idle", "done"} => f.id # frame[g].id
  PROVE  Serial'
<1>1. /\ pc'[r] = at /\ frame'[r] = f
      /\ \A q \in Request : q # r => pc'[q] = pc[q] /\ frame'[q] = frame[q]
  BY OneMoves, Kinds
<1>2. \A q \in Mutator : q \in Active' => q = r
  BY <1>1, Kinds DEF Active
<1>3. \A g \in Ingest : g \in Active' => pc[g] \notin {"idle", "done"} /\ frame'[g] = frame[g]
  BY <1>1, Kinds DEF Active, Request
<1>4. r \in Active' => at # "done"
  BY <1>1 DEF Active
<1> QED BY <1>1, <1>2, <1>3, <1>4 DEF Serial

\* No POST gives its number back.
LEMMA NumbersKept ==
  ASSUME Control, NEW r \in Request, NEW at, NEW f, Suspends(r, at, f),
         r \in Post /\ pc[r] \notin {"idle", "making"} => at \notin {"idle", "making"}
  PROVE  Numbered \subseteq Numbered'
BY OneMoves, Kinds DEF Numbered, Request, Mutator

LEMMA TablesSame ==
  ASSUME Tables, UNCHANGED <<rows, nextId, capacity, file, dangling>>,
         Numbered \subseteq Numbered'
  PROVE  Tables'
<1>1. nextId \in Nat /\ file.next \in Nat
  BY Counts DEF Tables, GoodRows
<1>2. nextId <= Cardinality(Numbered') + 1 /\ file.next <= Cardinality(Numbered') + 1
  BY <1>1, Counts, CountStays DEF Tables
<1> QED BY <1>2 DEF Tables

\* The routing of a request's service does not change when it only moves on.
LEMMA RoutingSame ==
  ASSUME Control, Routing, NEW r \in Request, NEW at, NEW f, Suspends(r, at, f),
         UNCHANGED <<rows, routes, sinks, faulty>>,
         r \notin Patch \/ pc[r] # "making"
  PROVE  Routing'
<1>1. \A i : InMotion(i) => InMotion(i)'
  <2> SUFFICES ASSUME NEW i, NEW q \in Patch, pc[q] = "making" /\ frame[q].id = i
               PROVE  InMotion(i)'
    BY DEF InMotion
  <2>1. pc'[q] = "making" /\ frame'[q].id = i
    BY OneMoves, Kinds DEF Request, Mutator
  <2> QED BY <2>1 DEF InMotion
<1>2. ASSUME NEW k \in DOMAIN rows
      PROVE  (InMotion(rows[k].id) \/ RowRouted(rows[k]))'
  <2>1. CASE InMotion(rows[k].id)
    BY <1>1, <2>1 DEF InMotion
  <2>2. CASE RowRouted(rows[k])
    BY <2>2 DEF RowRouted
  <2> QED BY <2>1, <2>2 DEF Routing
<1>3. (\A k \in DOMAIN rows : InMotion(rows[k].id) \/ RowRouted(rows[k]))'
  BY <1>2
<1> QED BY <1>3 DEF Routing

LEMMA SinksSame ==
  ASSUME Control, Sinks, NEW r \in Request, NEW at, NEW f, Suspends(r, at, f),
         UNCHANGED sinks,
         at \in {"idle", "making", "closing"} => pc[r] \in {"idle", "making", "closing"}
  PROVE  Sinks'
BY OneMoves, Kinds DEF Sinks, Request, Mutator

\* An ingest goes on to the right place when a change leaves its service alone.
LEMMA GoingOn ==
  ASSUME NEW g \in Ingest, Going(g), pc'[g] = pc[g], frame'[g] = frame[g],
         nextId \in Nat, nextId' \in Nat, nextId <= nextId',
         pc[g] = "writing" =>
           /\ faulty \subseteq faulty'
           /\ frame[g].id \in DOMAIN routes =>
                /\ frame[g].id \in DOMAIN routes'
                /\ routes'[frame[g].id] = routes[frame[g].id]
                /\ frame[g].id \notin faulty' =>
                     sinks'[routes[frame[g].id]] = sinks[routes[frame[g].id]]
  PROVE  Going(g)'
BY DEF Going, Id

\* What remains to show of a change's step for its handlers.
LEMMA HandlersStep ==
  ASSUME Control, NEW r \in Mutator, NEW at, NEW f, Suspends(r, at, f),
         \A q \in Mutator : q # r => pc[q] \in {"idle", "done"},
         Change(r)', \A g \in Ingest : Going(g)', saving' = <<>> \/ at = "saving"
  PROVE  Handlers'
<1>1. /\ pc'[r] = at
      /\ \A q \in Request : q # r => pc'[q] = pc[q]
  BY OneMoves, Kinds
<1>2. \A q \in Mutator : q # r => pc'[q] \in {"idle", "done"}
  BY <1>1, Kinds
<1>3. \A q \in Mutator : q # r => Change(q)'
  BY <1>2 DEF Change
<1> QED BY <1>1, <1>3 DEF Handlers

\* A change moves on, and nothing else happens.
LEMMA MovesIInv ==
  ASSUME IInv, NEW r \in Mutator, NEW at, NEW f \in Frame,
         MayBeAt(r, at), at # "idle", Suspends(r, at, f), phase = "up",
         \A q \in Mutator : q # r => pc[q] \in {"idle", "done"},
         at # "done" => \A g \in Ingest : pc[g] \notin {"idle", "done"} => f.id # frame[g].id,
         UNCHANGED <<table, routes, sinks, dangling, process, ghosts, file>>,
         at \in {"making", "closing"} => pc[r] = "idle",
         r \notin Patch \/ pc[r] # "making",
         pc[r] \in {"changed", "saving"} => at \in {"changed", "saving"},
         saving' = <<>> \/ at = "saving",
         Change(r)'
  PROVE  IInv'
<1> USE DEF table, process, ghosts
<1>1. r \in Request
  BY Kinds
<1>2. Control'
  BY <1>1, ControlStep DEF IInv
<1>3. Tables'
  BY <1>1, NumbersKept, TablesSame DEF IInv
<1>4. Serial'
  BY SerialStep DEF IInv
<1>5. Routing'
  BY <1>1, RoutingSame DEF IInv
<1>6. Sinks'
  BY <1>1, SinksSame DEF IInv
<1>7. /\ pc'[r] = at
      /\ \A q \in Request : q # r => pc'[q] = pc[q] /\ frame'[q] = frame[q]
  BY <1>1, OneMoves DEF IInv
<1>8. Handlers'
  <2>1. \A g \in Ingest : pc'[g] = pc[g] /\ frame'[g] = frame[g]
    BY <1>7, Kinds DEF Request
  <2>2. nextId \in Nat
    BY Counts DEF IInv, Tables, GoodRows
  <2>3. \A g \in Ingest : Going(g)'
    BY <2>1, <2>2, GoingOn DEF IInv, Handlers
  <2> QED BY <2>3, HandlersStep DEF IInv
<1>9. Stored'
  <2>1. Dirty => Dirty'
    BY <1>7, Kinds DEF Dirty
  <2> QED BY <2>1 DEF IInv, Stored, Below, Image
<1> QED BY <1>2, <1>3, <1>4, <1>5, <1>6, <1>8, <1>9 DEF IInv

-----------------------------------------------------------------------------
(* The rows *)

\* A row with the next id is appended.
LEMMA RowsAppended ==
  ASSUME NEW rs, NEW n, GoodRows(rs, n), n <= Cardinality(Post),
         NEW x \in Row, x.id = n, \A k \in DOMAIN rs : rs[k].name # x.name
  PROVE  LET new == Append(rs, x) IN
         /\ GoodRows(new, n + 1) /\ n + 1 \in Nat /\ Len(new) = Len(rs) + 1
         /\ Len(new) \in DOMAIN new /\ new[Len(new)] = x
         /\ \A k \in DOMAIN rs : k \in DOMAIN new /\ new[k] = rs[k]
         /\ \A k \in DOMAIN new : k \in DOMAIN rs \/ k = Len(new)
<1> DEFINE new == Append(rs, x)
<1>1. rs \in Seq(Row) /\ n \in 1..Cardinality(Post) + 1 /\ Len(rs) \in Nat
  BY DEF GoodRows
<1>2. /\ new \in Seq(Row) /\ Len(new) = Len(rs) + 1
      /\ Len(new) \in DOMAIN new /\ new[Len(new)] = x
      /\ \A k \in DOMAIN rs : k \in DOMAIN new /\ new[k] = rs[k]
      /\ \A k \in DOMAIN new : k \in DOMAIN rs \/ k = Len(new)
  BY <1>1
<1>3. n \in Nat /\ n + 1 \in 1..Cardinality(Post) + 1
  BY <1>1, Counts
<1>4. \A k \in DOMAIN rs : k \in Nat /\ k < n /\ k <= Len(rs) /\ rs[k].id < n /\ rs[k].id \in Nat
  BY RowFacts, Counts DEF Id
<1>5. Len(rs) < n
  <2>1. CASE Len(rs) = 0
    BY <2>1, <1>1, Counts
  <2>2. CASE Len(rs) # 0
    <3>1. Len(rs) \in DOMAIN rs
      BY <1>1, <2>2
    <3> QED BY <3>1, <1>4
  <2> QED BY <2>1, <2>2
<1> HIDE DEF new
<1>6. \A k \in DOMAIN new : k <= new[k].id /\ new[k].id < n + 1
  <2> SUFFICES ASSUME NEW k \in DOMAIN new PROVE k <= new[k].id /\ new[k].id < n + 1
    OBVIOUS
  <2>1. CASE k \in DOMAIN rs
    BY <1>2, <1>3, <1>4, <2>1 DEF GoodRows
  <2>2. CASE k = Len(new)
    BY <1>1, <1>2, <1>3, <1>5, <2>2
  <2> QED BY <1>2, <2>1, <2>2
<1>7. \A j, k \in DOMAIN new : j # k => new[j].id # new[k].id /\ new[j].name # new[k].name
  <2> SUFFICES ASSUME NEW j \in DOMAIN new, NEW k \in DOMAIN new, j # k
               PROVE  new[j].id # new[k].id /\ new[j].name # new[k].name
    OBVIOUS
  <2>1. CASE j \in DOMAIN rs /\ k \in DOMAIN rs
    BY <1>2, <2>1 DEF GoodRows
  <2>2. CASE j \in DOMAIN rs /\ k = Len(new)
    BY <1>2, <1>3, <1>4, <2>2
  <2>3. CASE k \in DOMAIN rs /\ j = Len(new)
    BY <1>2, <1>3, <1>4, <2>3
  <2> QED BY <1>2, <2>1, <2>2, <2>3
<1>8. GoodRows(new, n + 1)
  BY <1>2, <1>3, <1>6, <1>7 DEF GoodRows
<1>9. n + 1 \in Nat
  BY <1>3
<1> QED BY <1>2, <1>8, <1>9 DEF new

\* A row is erased, and those behind it move up.
Erased(rs, i) == SubSeq(rs, 1, i - 1) \o SubSeq(rs, i + 1, Len(rs))

LEMMA RowsErased ==
  ASSUME NEW rs, NEW n, GoodRows(rs, n), NEW i \in DOMAIN rs
  PROVE  LET new == Erased(rs, i) IN
         /\ GoodRows(new, n) /\ Len(new) \in Nat /\ Len(new) <= Len(rs)
         /\ \A k \in DOMAIN new : \E j \in DOMAIN rs : j # i /\ new[k] = rs[j]
         /\ \A j \in DOMAIN rs : j # i => \E k \in DOMAIN new : new[k] = rs[j]
<1> DEFINE front == SubSeq(rs, 1, i - 1)
           back == SubSeq(rs, i + 1, Len(rs))
           new == front \o back
           at(k) == IF k < i THEN k ELSE k + 1
<1>1. rs \in Seq(Row) /\ Len(rs) \in Nat /\ DOMAIN rs = 1..Len(rs) /\ i \in 1..Len(rs)
  BY DEF GoodRows
<1>2. /\ front \in Seq(Row) /\ Len(front) = i - 1
      /\ \A k \in 1..i - 1 : front[k] = rs[k]
  BY <1>1
<1>3. /\ back \in Seq(Row) /\ Len(back) = Len(rs) - i
      /\ \A k \in 1..Len(rs) - i : back[k] = rs[i + k]
  BY <1>1
<1> HIDE DEF front, back
<1>4. new \in Seq(Row) /\ Len(new) = Len(rs) - 1 /\ DOMAIN new = 1..Len(rs) - 1
  <2>1. new \in Seq(Row) /\ Len(new) = Len(front) + Len(back)
    BY <1>2, <1>3, ConcatProperties
  <2>2. Len(new) = Len(rs) - 1
    BY <1>1, <1>2, <1>3, <2>1
  <2> QED BY <2>1, <2>2
<1>5. \A k \in 1..Len(rs) - 1 : new[k] = rs[at(k)] /\ at(k) \in DOMAIN rs /\ at(k) # i /\ k <= at(k)
  <2> SUFFICES ASSUME NEW k \in 1..Len(rs) - 1
               PROVE  new[k] = rs[at(k)] /\ at(k) \in DOMAIN rs /\ at(k) # i /\ k <= at(k)
    OBVIOUS
  <2>1. CASE k < i
    <3>1. k \in 1..i - 1 /\ k \in 1..Len(front)
      BY <1>1, <1>2, <2>1
    <3>2. new[k] = front[k]
      BY <1>2, <1>3, <3>1
    <3>3. new[k] = rs[k]
      BY <1>2, <3>1, <3>2
    <3> QED BY <1>1, <2>1, <3>3
  <2>2. CASE ~(k < i)
    <3>1. k - (i - 1) \in 1..Len(rs) - i /\ i + (k - (i - 1)) = k + 1
      BY <1>1, <2>2
    <3>2. new[k] = back[k - (i - 1)]
      BY <1>1, <1>2, <1>3, <2>2, <3>1
    <3>3. new[k] = rs[k + 1]
      BY <1>3, <3>1, <3>2
    <3> QED BY <1>1, <2>2, <3>3
  <2> QED BY <2>1, <2>2
<1> HIDE DEF new
<1>6. \A j, k \in 1..Len(rs) - 1 : j # k => at(j) # at(k)
  BY <1>1
<1>7. \A j \in DOMAIN rs : j # i => \E k \in 1..Len(rs) - 1 : at(k) = j
  <2> SUFFICES ASSUME NEW j \in DOMAIN rs, j # i PROVE \E k \in 1..Len(rs) - 1 : at(k) = j
    OBVIOUS
  <2>1. CASE j < i
    BY <1>1, <2>1
  <2>2. CASE j > i
    <3>1. j - 1 \in 1..Len(rs) - 1 /\ at(j - 1) = j
      BY <1>1, <2>2
    <3> QED BY <3>1
  <2> QED BY <1>1, <2>1, <2>2
<1>8. \A k \in DOMAIN new : k <= new[k].id /\ new[k].id < n
  <2> SUFFICES ASSUME NEW k \in DOMAIN new PROVE k <= new[k].id /\ new[k].id < n
    OBVIOUS
  <2>1. new[k] = rs[at(k)] /\ at(k) \in DOMAIN rs /\ k <= at(k) /\ k \in Nat /\ at(k) \in Nat
    BY <1>1, <1>4, <1>5
  <2> HIDE DEF at
  <2>2. \A j \in DOMAIN rs : j <= rs[j].id /\ rs[j].id < n
    BY DEF GoodRows
  <2>3. \A j \in DOMAIN rs : rs[j].id \in Nat
    <3>1. \A j \in DOMAIN rs : rs[j].id \in Id
      BY RowFacts
    <3> QED BY <3>1 DEF Id
  <2>4. n \in Nat
    BY Counts DEF GoodRows
  <2> QED BY <2>1, <2>2, <2>3, <2>4
<1> HIDE DEF at
<1>9. \A j, k \in DOMAIN new : j # k => new[j].id # new[k].id /\ new[j].name # new[k].name
  BY <1>4, <1>5, <1>6 DEF GoodRows
<1>10. GoodRows(new, n)
  BY <1>4, <1>8, <1>9 DEF GoodRows
<1>11. \A k \in DOMAIN new : \E j \in DOMAIN rs : j # i /\ new[k] = rs[j]
  BY <1>4, <1>5
<1>12. \A j \in DOMAIN rs : j # i => \E k \in DOMAIN new : new[k] = rs[j]
  BY <1>4, <1>5, <1>7
<1>13. Len(new) \in Nat /\ Len(new) <= Len(rs)
  BY <1>1, <1>4
<1> QED BY <1>10, <1>11, <1>12, <1>13 DEF Erased, new, front, back

\* The URI of a row is set.
Rebound(rs, i, u) == [rs EXCEPT ![i].uri = u]

LEMMA RowsRebound ==
  ASSUME NEW rs, NEW n, GoodRows(rs, n), NEW i \in DOMAIN rs, NEW u \in Uri \cup {None}
  PROVE  LET new == Rebound(rs, i, u) IN
         /\ GoodRows(new, n) /\ Len(new) = Len(rs) /\ DOMAIN new = DOMAIN rs
         /\ \A k \in DOMAIN rs : k # i => new[k] = rs[k]
         /\ new[i].uri = u /\ new[i].id = rs[i].id
         /\ \A k \in DOMAIN rs : new[k].id = rs[k].id /\ new[k].name = rs[k].name
<1> DEFINE new == Rebound(rs, i, u)
<1> USE DEF Rebound
<1>1. rs \in Seq(Row) /\ rs[i] \in Row
  BY DEF GoodRows
<1>2. [rs[i] EXCEPT !.uri = u] \in Row
  BY <1>1 DEF Row
<1>3. new \in Seq(Row) /\ Len(new) = Len(rs) /\ DOMAIN new = DOMAIN rs
  BY <1>1, <1>2
<1>4. \A k \in DOMAIN rs : k # i => new[k] = rs[k]
  OBVIOUS
<1>5. new[i] = [rs[i] EXCEPT !.uri = u]
  BY <1>1
<1>6. new[i].uri = u /\ new[i].id = rs[i].id /\ new[i].name = rs[i].name
  BY <1>1, <1>5 DEF Row
<1> HIDE DEF new
<1>7. \A k \in DOMAIN rs : new[k].id = rs[k].id /\ new[k].name = rs[k].name
  BY <1>4, <1>6
<1>8. GoodRows(new, n)
  BY <1>3, <1>7 DEF GoodRows
<1> QED BY <1>3, <1>4, <1>5, <1>6, <1>7, <1>8 DEF new

-----------------------------------------------------------------------------
(* POST *)

\* What is under way beside a POST keeps no reference into the vector.
LEMMA NothingDangles ==
  ASSUME IInv, NEW r \in Post, pc[r] \in {"idle", "making"},
         pc[r] = "idle" => r \notin Active,
         \A q \in Mutator : q # r => pc[q] \in {"idle", "done"}
  PROVE  {q \in Active : frame[q].at # 0} = {}
<1> SUFFICES ASSUME NEW q \in Active PROVE frame[q].at = 0
  OBVIOUS
<1>1. q \in Request /\ pc[q] \notin {"idle", "done"}
  BY DEF Active
<1>2. CASE q = r
  BY <1>1, <1>2, Kinds DEF IInv, Handlers, Change, Mutator
<1>3. CASE q # r
  <2>1. q \in Ingest
    BY <1>1, <1>3, Kinds
  <2>2. pc[q] \in {"checked", "writing"}
    BY <1>1, <2>1 DEF IInv, Control, MayBeAt
  <2> QED BY <2>1, <2>2 DEF IInv, Handlers, Going
<1> QED BY <1>2, <1>3

\* A service is added, with the sink it asked for or without one.
LEMMA AddRowIInv ==
  ASSUME IInv, NEW r \in Post, pc[r] \in {"idle", "making"}, phase = "up",
         \A q \in Mutator : q # r => pc[q] \in {"idle", "done"},
         NEW n \in Name, \A k \in DOMAIN rows : rows[k].name # n,
         NEW u \in Uri \cup {None}, AddRow(r, n, u),
         UNCHANGED <<store, process, ghosts>>,
         \/ u = None /\ UNCHANGED <<routes, sinks>>
         \/ /\ u # None
            /\ sinks' = [sinks EXCEPT ![r] = Open(u)]
            /\ routes' = [i \in DOMAIN routes \cup {nextId} |->
                            IF i = nextId THEN r ELSE routes[i]]
  PROVE  IInv'
<1> DEFINE x == [id |-> nextId, name |-> n, uri |-> u]
           f == [NoFrame EXCEPT !.id = nextId]
<1>1. r \in Request /\ r \in Mutator /\ r \in Sink
  BY Kinds DEF Mutator, Sink
<1>2. /\ Suspends(r, "changed", f) /\ rows' = Append(rows, x) /\ nextId' = nextId + 1
      /\ file' = file /\ saving' = saving
  BY DEF AddRow, store
<1>3. /\ pc'[r] = "changed" /\ frame'[r] = f
      /\ \A q \in Request : q # r => pc'[q] = pc[q] /\ frame'[q] = frame[q]
  BY <1>1, <1>2, OneMoves DEF IInv
<1>4. r \notin Numbered /\ Numbered \cup {r} \subseteq Numbered'
  BY <1>3, Kinds DEF Numbered, Request, Mutator
<1>5. /\ GoodRows(rows, nextId) /\ nextId \in Nat /\ file.next \in Nat /\ 1 <= nextId
      /\ nextId <= Cardinality(Numbered) + 1 /\ file.next <= Cardinality(Numbered) + 1
  BY Counts DEF IInv, Tables, GoodRows
<1>6. /\ Cardinality(Numbered) \in Nat /\ Cardinality(Numbered') \in Nat
      /\ Cardinality(Numbered) + 1 <= Cardinality(Numbered')
      /\ Cardinality(Numbered') <= Cardinality(Post) /\ Cardinality(Post) \in Nat
  BY <1>4, CountGrows, Counts
<1>7. nextId <= Cardinality(Post) /\ nextId \in Id
  BY <1>5, <1>6 DEF Id
<1>8. x \in Row
  BY <1>7 DEF Row
<1>9. /\ GoodRows(rows', nextId') /\ Len(rows') = Len(rows) + 1
      /\ Len(rows') \in DOMAIN rows' /\ rows'[Len(rows')] = x
      /\ \A k \in DOMAIN rows : k \in DOMAIN rows' /\ rows'[k] = rows[k]
      /\ \A k \in DOMAIN rows' : k \in DOMAIN rows \/ k = Len(rows')
  BY <1>2, <1>5, <1>7, <1>8, RowsAppended
<1>10. \A k \in DOMAIN rows : rows[k].id < nextId /\ rows[k].id # nextId
  <2>1. \A k \in DOMAIN rows : rows[k].id \in Id /\ rows[k].id < nextId
    BY <1>5, RowFacts
  <2> QED BY <1>5, <2>1 DEF Id
<1>11. f \in Frame
  BY <1>7, Counts DEF Frame, NoFrame
<1>12. Control'
  BY <1>1, <1>2, <1>11, ControlStep, Kinds DEF IInv, MayBeAt
<1>13. Tables'
  <2>1. capacity' \in Nat /\ Len(rows') <= capacity'
    <3>1. Len(rows) \in Nat /\ capacity \in Nat /\ Len(rows) <= capacity
      BY DEF IInv, Tables, GoodRows
    <3> QED BY <1>9, <3>1 DEF AddRow
  <2>2. dangling' = {}
    <3>1. pc[r] = "idle" => r \notin Active
      BY DEF Active
    <3> QED BY <3>1, NothingDangles DEF AddRow, IInv, Tables
  <2>3. nextId' <= Cardinality(Numbered') + 1 /\ file.next <= Cardinality(Numbered') + 1
    BY <1>2, <1>5, <1>6
  <2> QED BY <1>2, <1>9, <2>1, <2>2, <2>3 DEF IInv, Tables
<1>14. \A g \in Ingest : /\ pc'[g] = pc[g] /\ frame'[g] = frame[g]
                         /\ pc[g] \notin {"idle", "done"} =>
                              frame[g].id \in Id /\ frame[g].id < nextId
  <2>1. \A g \in Ingest : pc[g] \notin {"idle", "done"} => pc[g] \in {"checked", "writing"}
    BY Kinds DEF IInv, Control, MayBeAt, Request
  <2> QED BY <1>3, <2>1, Kinds DEF Request, IInv, Handlers, Going
<1>15. Serial'
  <2>1. f.id = nextId
    BY DEF NoFrame
  <2>2. \A g \in Ingest : pc[g] \notin {"idle", "done"} => f.id # frame[g].id
    BY <1>5, <1>14, <2>1 DEF Id
  <2> HIDE DEF f
  <2> QED BY <1>1, <1>2, <2>2, SerialStep DEF IInv
<1>16. /\ \A i \in DOMAIN routes : /\ i \in Id /\ i # nextId /\ routes[i] # r
                                   /\ routes[i] \in Sink
                                   /\ sinks[routes[i]].st \in {"open", "closed"}
       /\ sinks \in [Sink -> SinkState]
  <2>1. sinks[r].st = "unmade"
    BY DEF IInv, Sinks, Unmade
  <2> QED BY <1>10, <2>1 DEF IInv, Routing, Sinks
<1>17. /\ \A i \in DOMAIN routes : /\ i \in DOMAIN routes' /\ routes'[i] = routes[i]
                                   /\ sinks'[routes[i]] = sinks[routes[i]]
       /\ u = None => DOMAIN routes' = DOMAIN routes
       /\ u # None => /\ DOMAIN routes' = DOMAIN routes \cup {nextId}
                      /\ routes'[nextId] = r /\ sinks'[r] = Open(u)
  BY <1>1, <1>16
<1>18. Sinks'
  <2>1. Open(u) \in SinkState
    BY DEF Open, SinkState
  <2>2. sinks' \in [Sink -> SinkState]
    BY <1>1, <1>16, <2>1
  <2>3. \A q \in Post \cup Patch : q # r => sinks'[q] = sinks[q]
    BY <1>1, <1>16 DEF Sink
  <2> QED BY <1>3, <2>2, <2>3, Kinds DEF IInv, Sinks, Request, Mutator
<1>19. Routing'
  <2>1. \A i \in DOMAIN routes' : /\ i \in Id /\ routes'[i] \in Sink
                                  /\ \E k \in DOMAIN rows' : rows'[k].id = i
                                  /\ sinks'[routes'[i]].st \in {"open", "closed"}
    <3> SUFFICES ASSUME NEW i \in DOMAIN routes'
                 PROVE  /\ i \in Id /\ routes'[i] \in Sink
                        /\ \E k \in DOMAIN rows' : rows'[k].id = i
                        /\ sinks'[routes'[i]].st \in {"open", "closed"}
      OBVIOUS
    <3>1. CASE i \in DOMAIN routes
      BY <1>9, <1>16, <1>17, <3>1 DEF IInv, Routing
    <3>2. CASE i = nextId /\ u # None
      BY <1>1, <1>7, <1>9, <1>17, <3>2 DEF Open
    <3> QED BY <1>17, <3>1, <3>2
  <2>2. \A i, j \in DOMAIN routes' : routes'[i] = routes'[j] => i = j
    BY <1>16, <1>17 DEF IInv, Routing
  <2>3. ASSUME NEW k \in DOMAIN rows' PROVE RowRouted(rows[k])'
    <3>1. CASE k \in DOMAIN rows
      <4>1. ~InMotion(rows[k].id)
        BY Kinds DEF InMotion, Mutator
      <4>2. RowRouted(rows[k])
        BY <3>1, <4>1 DEF IInv, Routing
      <4>3. faulty' = faulty
        BY DEF ghosts
      <4> QED BY <1>9, <1>10, <1>17, <3>1, <4>2, <4>3 DEF RowRouted
    <3>2. CASE k = Len(rows')
      <4>1. u = None => nextId \notin DOMAIN routes'
        BY <1>16, <1>17
      <4> QED BY <1>9, <1>17, <3>2, <4>1 DEF RowRouted
    <3> QED BY <1>9, <3>1, <3>2
  <2> QED BY <2>1, <2>2, <2>3 DEF Routing
<1>20. Handlers'
  <2>1. Change(r)'
    <3>1. f.id = nextId /\ nextId = nextId' - 1
      BY <1>2, <1>5 DEF NoFrame
    <3>2. \A p \in Post \ forgotten' : given'[p] # None => given'[p] < nextId
      BY <1>2 DEF IInv, Stored, Below, ghosts
    <3>3. pc'[r] = "changed" /\ frame'[r].id = nextId
      BY <1>3, <3>1
    <3> HIDE DEF f
    <3> QED BY <1>7, <3>1, <3>2, <3>3 DEF Change, Below
  <2>2. nextId' \in Nat /\ nextId <= nextId' /\ faulty' = faulty
    BY <1>2, <1>5 DEF ghosts
  <2>3. \A g \in Ingest : Going(g)'
    BY <1>5, <1>14, <1>17, <2>2, GoingOn DEF IInv, Handlers
  <2>4. saving' = <<>>
    BY <1>2, Kinds DEF IInv, Handlers
  <2> HIDE DEF f
  <2> QED BY <1>1, <1>2, <2>1, <2>3, <2>4, HandlersStep DEF IInv
<1>21. Stored'
  <2>1. Dirty'
    BY <1>1, <1>3 DEF Dirty
  <2>2. nextId <= nextId' /\ nextId' \in Nat
    BY <1>2, <1>5
  <2> QED BY <1>2, <1>5, <2>1, <2>2 DEF IInv, Stored, Below, Id, process, ghosts
<1> QED BY <1>12, <1>13, <1>15, <1>18, <1>19, <1>20, <1>21 DEF IInv

\* A request that is turned away changes nothing.
LEMMA TurnedAway ==
  ASSUME ~Overlap, IInv, NEW r \in Mutator, NEW i, Admitted(r, i), Returns(r),
         UNCHANGED <<table, routes, sinks, dangling, store, process, ghosts>>
  PROVE  IInv'
<1>1. /\ phase = "up" /\ pc[r] = "idle"
      /\ \A q \in Mutator : pc[q] \in {"idle", "done"}
  BY AdmittedSolo DEF IInv
<1>2. Suspends(r, "done", NoFrame) /\ NoFrame \in Frame /\ MayBeAt(r, "done")
  BY NoFrameTyped DEF Returns, MayBeAt
<1>3. Change(r)'
  <2>1. pc'[r] = "done"
    BY <1>2, OneMoves, Kinds DEF IInv
  <2> QED BY <2>1 DEF Change
<1>4. saving' = <<>>
  BY <1>1, Kinds DEF IInv, Handlers, store
<1> QED BY <1>1, <1>2, <1>3, <1>4, MovesIInv DEF store

\* The frame of a POST that waits for its sink.
LEMMA PostFrame ==
  ASSUME NEW n, NEW u
  PROVE  [NoFrame EXCEPT !.name = n, !.uri = u]
           = [id |-> None, name |-> n, uri |-> u, at |-> 0, sk |-> None]
<1>1. [NoFrame EXCEPT !.name = n, !.uri = u] = [[NoFrame EXCEPT !.name = n] EXCEPT !.uri = u]
  OBVIOUS
<1>2. [NoFrame EXCEPT !.name = n]
        = [id |-> None, name |-> n, uri |-> None, at |-> 0, sk |-> None]
  BY DEF NoFrame
<1>3. ASSUME NEW g, g = [id |-> None, name |-> n, uri |-> None, at |-> 0, sk |-> None]
      PROVE  [g EXCEPT !.uri = u] = [id |-> None, name |-> n, uri |-> u, at |-> 0, sk |-> None]
  BY <1>3
<1> QED BY <1>1, <1>2, <1>3

LEMMA PostArrivesIInv ==
  ASSUME ~Overlap, IInv, NEW r \in Post, PostArrives(r)
  PROVE  IInv'
<1>1. r \in Mutator /\ Admitted(r, None)
  BY DEF PostArrives, Mutator
<1>2. /\ phase = "up" /\ pc[r] = "idle"
      /\ \A q \in Mutator : pc[q] \in {"idle", "done"}
  BY <1>1, AdmittedSolo DEF IInv
<1>3. UNCHANGED <<routes, sinks, store, process, ghosts>>
  BY DEF PostArrives
<1>4. PICK n \in Name, u \in Uri \cup {None} :
        \/ /\ \E k \in DOMAIN rows : rows[k].name = n
           /\ Returns(r)
           /\ UNCHANGED <<table, dangling>>
        \/ /\ \A k \in DOMAIN rows : rows[k].name # n
           /\ u = None
           /\ AddRow(r, n, u)
        \/ /\ \A k \in DOMAIN rows : rows[k].name # n
           /\ u # None
           /\ Suspends(r, "making", [NoFrame EXCEPT !.name = n, !.uri = u])
           /\ UNCHANGED <<table, dangling>>
  BY DEF PostArrives
<1>5. CASE Returns(r) /\ UNCHANGED <<table, dangling>>
  BY <1>1, <1>3, <1>5, TurnedAway
<1>6. CASE (\A k \in DOMAIN rows : rows[k].name # n) /\ u = None /\ AddRow(r, n, u)
  BY <1>2, <1>3, <1>6, AddRowIInv
<1>7. CASE /\ \A k \in DOMAIN rows : rows[k].name # n
           /\ u # None
           /\ Suspends(r, "making", [NoFrame EXCEPT !.name = n, !.uri = u])
           /\ UNCHANGED <<table, dangling>>
  <2> DEFINE f == [NoFrame EXCEPT !.name = n, !.uri = u]
  <2>1. f \in Frame /\ f.name = n /\ f.uri = u /\ f.at = 0 /\ f.id = None
    <3>1. f = [id |-> None, name |-> n, uri |-> u, at |-> 0, sk |-> None]
      BY PostFrame
    <3> HIDE DEF f
    <3> QED BY <3>1, Counts DEF Frame
  <2> HIDE DEF f
  <2>2. Suspends(r, "making", f) /\ UNCHANGED <<table, dangling>>
    BY <1>7 DEF f
  <2>3. pc'[r] = "making" /\ frame'[r] = f
    BY <1>1, <2>2, OneMoves, Kinds DEF IInv
  <2>4. Change(r)'
    BY <1>7, <2>1, <2>2, <2>3, Kinds DEF Change, table
  <2>5. saving' = <<>> /\ file' = file
    BY <1>2, <1>3, Kinds DEF IInv, Handlers, store
  <2>6. \A g \in Ingest : pc[g] \notin {"idle", "done"} => f.id # frame[g].id
    <3>1. \A g \in Ingest : pc[g] \notin {"idle", "done"} => pc[g] \in {"checked", "writing"}
      BY Kinds DEF IInv, Control, MayBeAt, Request
    <3> QED BY <2>1, <3>1, Kinds DEF IInv, Handlers, Going
  <2>7. MayBeAt(r, "making") /\ (r \notin Patch \/ pc[r] # "making")
    BY <1>2, Kinds DEF MayBeAt
  <2>8. UNCHANGED <<table, routes, sinks, dangling, process, ghosts, file>>
    BY <1>3, <2>2, <2>5
  <2> QED BY <1>1, <1>2, <2>1, <2>2, <2>4, <2>5, <2>6, <2>7, <2>8, MovesIInv
<1> QED BY <1>4, <1>5, <1>6, <1>7

LEMMA PostMakesSinkIInv ==
  ASSUME IInv, NEW r \in Post, PostMakesSink(r)
  PROVE  IInv'
<1> DEFINE n == frame[r].name
           u == frame[r].uri
<1>1. r \in Mutator /\ pc[r] = "making"
  BY DEF PostMakesSink, Mutator
<1>2. /\ phase = "up"
      /\ \A q \in Mutator : q # r => pc[q] \in {"idle", "done"}
  BY <1>1, Solo DEF IInv
<1>3. n \in Name /\ u \in Uri /\ (\A k \in DOMAIN rows : rows[k].name # n)
  BY <1>1 DEF IInv, Handlers, Change
<1>4. u # None
  BY <1>3, Kinds
<1>5. /\ AddRow(r, n, u) /\ UNCHANGED <<store, process, ghosts>>
      /\ sinks' = [sinks EXCEPT ![r] = Open(u)]
      /\ routes' = [i \in DOMAIN routes \cup {nextId} |-> IF i = nextId THEN r ELSE routes[i]]
  BY DEF PostMakesSink
<1> HIDE DEF n, u
<1> QED BY <1>1, <1>2, <1>3, <1>4, <1>5, AddRowIInv

\* make_sink throws before the row is there.
LEMMA PostFailsIInv ==
  ASSUME IInv, NEW r \in Post, PostFails(r)
  PROVE  IInv'
<1>1. r \in Mutator /\ pc[r] = "making"
  BY DEF PostFails, Mutator
<1>2. /\ phase = "up"
      /\ \A q \in Mutator : q # r => pc[q] \in {"idle", "done"}
  BY <1>1, Solo DEF IInv
<1>3. /\ Suspends(r, "done", NoFrame) /\ NoFrame \in Frame /\ MayBeAt(r, "done")
      /\ UNCHANGED <<table, routes, sinks, dangling, store, process, ghosts>>
  BY NoFrameTyped DEF Returns, MayBeAt, PostFails
<1>4. Change(r)'
  <2>1. pc'[r] = "done"
    BY <1>1, <1>3, OneMoves, Kinds DEF IInv
  <2> QED BY <2>1 DEF Change
<1>5. saving' = <<>>
  BY <1>1, <1>2, <1>3, Kinds DEF IInv, Handlers, store
<1> QED BY <1>1, <1>2, <1>3, <1>4, <1>5, MovesIInv, Kinds DEF store

-----------------------------------------------------------------------------
(* What PATCH and DELETE share *)

\* An ingest under way is about a service that has, or had, a row.
LEMMA IngestFrame ==
  ASSUME IInv, NEW g \in Ingest, pc[g] \notin {"idle", "done"}
  PROVE  frame[g].id \in Id /\ frame[g].id < nextId
<1>1. pc[g] \in {"checked", "writing"}
  BY Kinds DEF IInv, Control, MayBeAt, Request
<1> QED BY <1>1 DEF IInv, Handlers, Going

\* A service with a sink is about to lose it.
LEMMA FindsSinkIInv ==
  ASSUME ~Overlap, IInv, NEW r \in Patch \cup Delete, NEW i \in Id, NEW u \in Uri \cup {None},
         Admitted(r, i), RowOf(i) # 0, i \in DOMAIN routes, FindsSink(r, i, u),
         UNCHANGED <<table, routes, sinks, dangling, store, process, ghosts>>
  PROVE  IInv'
<1> DEFINE f == [id |-> i, name |-> None, uri |-> u, at |-> RowOf(i), sk |-> routes[i]]
<1>1. r \in Mutator /\ r \notin Post
  BY Kinds DEF Mutator
<1>2. /\ phase = "up" /\ pc[r] = "idle"
      /\ \A q \in Mutator : pc[q] \in {"idle", "done"}
      /\ \A g \in Ingest : pc[g] \notin {"idle", "done"} => frame[g].id # i
  BY <1>1, AdmittedSolo DEF IInv
<1>3. RowOf(i) \in DOMAIN rows /\ rows[RowOf(i)].id = i
  BY RowOfFinds DEF IInv
<1>4. RowOf(i) \in 0..Cardinality(Post)
  BY <1>3, RowFacts DEF IInv, Tables
<1>5. f \in Frame
  BY <1>4 DEF Frame, IInv, Routing
<1>6. f.id = i /\ f.at = RowOf(i) /\ f.sk = routes[i]
  OBVIOUS
<1>7. Suspends(r, "closing", f)
  BY DEF FindsSink
<1> HIDE DEF f
<1>8. pc'[r] = "closing" /\ frame'[r] = f
  BY <1>1, <1>7, OneMoves, Kinds DEF IInv
<1>9. Change(r)'
  BY <1>3, <1>6, <1>8 DEF Change, table
<1>10. saving' = <<>> /\ file' = file
  BY <1>2, Kinds DEF IInv, Handlers, store
<1>11. MayBeAt(r, "closing")
  BY Kinds DEF MayBeAt
<1> QED BY <1>1, <1>2, <1>5, <1>6, <1>7, <1>9, <1>10, <1>11, MovesIInv

\* What a request that is closing a sink knows of it.
LEMMA Closing ==
  ASSUME IInv, NEW r \in Mutator, pc[r] = "closing"
  PROVE  LET i == frame[r].id  s == frame[r].sk IN
         /\ phase = "up" /\ r \notin Post
         /\ \A q \in Mutator : q # r => pc[q] \in {"idle", "done"}
         /\ \A g \in Ingest : pc[g] \notin {"idle", "done"} => frame[g].id # i
         /\ i \in Id /\ i \in DOMAIN routes /\ routes[i] = s /\ s \in Sink
         /\ sinks[s].st \in {"open", "closed"} /\ ~SinkIsDead(r)
         /\ Target(r) = frame[r].at /\ Target(r) \in DOMAIN rows /\ Target(r) # 0
         /\ rows[Target(r)].id = i
         /\ \A j \in DOMAIN routes : j # i => routes[j] # s
         /\ saving = <<>>
<1>1. /\ phase = "up"
      /\ \A q \in Mutator : q # r => pc[q] \in {"idle", "done"}
      /\ \A g \in Ingest : pc[g] \notin {"idle", "done"} => frame[g].id # frame[r].id
  BY Solo DEF IInv
<1>2. r \notin Post
  BY Kinds DEF IInv, Control, MayBeAt
<1>3. /\ frame[r].at \in DOMAIN rows /\ rows[frame[r].at].id = frame[r].id
      /\ frame[r].id \in DOMAIN routes /\ frame[r].sk = routes[frame[r].id]
  BY DEF IInv, Handlers, Change
<1>4. Target(r) = frame[r].at
  BY <1>3 DEF Target, IInv, Tables
<1>5. frame[r].at # 0
  BY <1>3, RowFacts DEF IInv, Tables
<1>6. sinks[frame[r].sk].st \in {"open", "closed"} /\ ~SinkIsDead(r)
  BY <1>3 DEF IInv, Routing, SinkIsDead
<1>7. /\ frame[r].id \in Id /\ frame[r].sk \in Sink
      /\ \A j \in DOMAIN routes : j # frame[r].id => routes[j] # frame[r].sk
  BY <1>3 DEF IInv, Routing
<1>8. saving = <<>>
  BY <1>1 DEF IInv, Handlers
<1> QED BY <1>1, <1>2, <1>3, <1>4, <1>5, <1>6, <1>7, <1>8

\* flush or close throws: the sink may be closed, and is excepted from now on.
LEMMA CloseThrowsIInv ==
  ASSUME IInv, NEW r \in Patch \cup Delete, CloseThrows(r)
  PROVE  IInv'
<1> DEFINE i == frame[r].id
           s == frame[r].sk
<1>1. r \in Mutator /\ r \in Request /\ pc[r] = "closing"
  BY Kinds DEF Mutator, CloseThrows
<1>2. /\ phase = "up" /\ r \notin Post
      /\ \A q \in Mutator : q # r => pc[q] \in {"idle", "done"}
      /\ \A g \in Ingest : pc[g] \notin {"idle", "done"} => frame[g].id # i
      /\ i \in Id /\ i \in DOMAIN routes /\ routes[i] = s /\ s \in Sink
      /\ sinks[s].st \in {"open", "closed"} /\ ~SinkIsDead(r)
      /\ \A j \in DOMAIN routes : j # i => routes[j] # s
      /\ saving = <<>>
  BY <1>1, Closing
<1>3. /\ Suspends(r, "done", NoFrame) /\ NoFrame \in Frame /\ MayBeAt(r, "done")
      /\ UNCHANGED <<table, routes, dangling, store, process, given, forgotten, unsynced>>
      /\ faulty' = faulty \cup {i}
  BY <1>2, NoFrameTyped DEF Returns, MayBeAt, CloseThrows
<1>4. PICK st \in {sinks[s].st, "closed"} : sinks' = [sinks EXCEPT ![s].st = st]
  BY <1>2 DEF CloseThrows
<1>5. sinks \in [Sink -> SinkState] /\ st \in {"open", "closed"}
  BY <1>2, <1>4 DEF IInv, Sinks
<1>6. /\ sinks'[s] = [sinks[s] EXCEPT !.st = st]
      /\ \A t \in Sink : t # s => sinks'[t] = sinks[t]
  BY <1>2, <1>4, <1>5
<1>7. sinks'[s].st = st /\ sinks'[s] \in SinkState
  BY <1>2, <1>5, <1>6 DEF SinkState
<1> HIDE DEF i, s
<1>8. /\ pc'[r] = "done"
      /\ \A q \in Request : q # r => pc'[q] = pc[q] /\ frame'[q] = frame[q]
  BY <1>1, <1>3, OneMoves DEF IInv
<1>9. Control'
  BY <1>1, <1>2, <1>3, ControlStep DEF IInv
<1>10. Tables'
  BY <1>1, <1>2, <1>3, NumbersKept, TablesSame DEF IInv, table, store
<1>11. Serial'
  BY <1>1, <1>2, <1>3, SerialStep DEF IInv
<1>12. Sinks'
  <2>1. sinks' \in [Sink -> SinkState]
    BY <1>2, <1>4, <1>5, <1>6, <1>7
  <2>2. \A q \in Post \cup Patch :
          pc'[q] \in {"idle", "making", "closing"} => q # s /\ pc[q] \in {"idle", "making", "closing"}
    BY <1>2, <1>8, Kinds DEF IInv, Sinks, Unmade, Request, Mutator
  <2> QED BY <1>6, <2>1, <2>2 DEF IInv, Sinks, Sink
<1>13. Routing'
  <2>1. /\ rows' = rows /\ routes' = routes
    BY <1>3 DEF table
  <2>2. ASSUME NEW k \in DOMAIN rows PROVE RowRouted(rows[k])'
    <3>1. ~InMotion(rows[k].id)
      BY <1>1, <1>2, Kinds DEF InMotion, Mutator
    <3>2. RowRouted(rows[k])
      BY <3>1 DEF IInv, Routing
    <3>3. rows[k].id # i /\ rows[k].id \in DOMAIN routes => sinks'[routes[rows[k].id]] = sinks[routes[rows[k].id]]
      BY <1>2, <1>6 DEF IInv, Routing
    <3> QED BY <1>3, <2>1, <3>2, <3>3 DEF RowRouted
  <2>3. \A j \in DOMAIN routes : sinks'[routes[j]].st \in {"open", "closed"}
    BY <1>2, <1>5, <1>6, <1>7 DEF IInv, Routing
  <2> QED BY <2>1, <2>2, <2>3 DEF IInv, Routing
<1>14. Handlers'
  <2>1. Change(r)'
    BY <1>8 DEF Change
  <2>2. ASSUME NEW g \in Ingest PROVE Going(g)'
    <3>1. pc'[g] = pc[g] /\ frame'[g] = frame[g]
      BY <1>1, <1>8, Kinds DEF Request
    <3>2. nextId' = nextId /\ nextId \in Nat /\ routes' = routes /\ faulty \subseteq faulty'
      BY <1>3, Counts DEF table, IInv, Tables, GoodRows
    <3>3. pc[g] = "writing" /\ frame[g].id \in DOMAIN routes =>
            sinks'[routes[frame[g].id]] = sinks[routes[frame[g].id]]
      BY <1>2, <1>6 DEF IInv, Routing
    <3> QED BY <3>1, <3>2, <3>3, GoingOn DEF IInv, Handlers
  <2>3. saving' = <<>>
    BY <1>2, <1>3 DEF store
  <2> QED BY <1>1, <1>2, <1>3, <2>1, <2>2, <2>3, HandlersStep DEF IInv
<1>15. Stored'
  <2>1. Dirty => Dirty'
    BY <1>1, <1>2 DEF Dirty
  <2> QED BY <1>2, <1>3, <2>1 DEF IInv, Stored, Below, Image, table, store, process
<1> QED BY <1>9, <1>10, <1>11, <1>12, <1>13, <1>14, <1>15 DEF IInv

\* The routing of one service is gone; the other services keep theirs.
Unrouted(i) ==
  /\ DOMAIN routes' = DOMAIN routes \ {i}
  /\ \A j \in DOMAIN routes' : routes'[j] = routes[j] /\ sinks'[routes[j]] = sinks[routes[j]]
  /\ sinks' \in [Sink -> SinkState]
  /\ \A s \in Sink : sinks[s] = Unmade => sinks'[s] = sinks[s]

LEMMA UnroutedByNone ==
  ASSUME IInv, NEW i, i \notin DOMAIN routes, UNCHANGED <<routes, sinks>>
  PROVE  Unrouted(i)
BY DEF Unrouted, IInv, Sinks

LEMMA UnroutedByClose ==
  ASSUME IInv, NEW r \in Mutator, pc[r] = "closing", Unroutes(r)
  PROVE  Unrouted(frame[r].id)
<1> DEFINE i == frame[r].id
           s == frame[r].sk
<1>1. /\ i \in DOMAIN routes /\ routes[i] = s /\ s \in Sink
      /\ sinks[s].st \in {"open", "closed"}
      /\ \A j \in DOMAIN routes : j # i => routes[j] # s
  BY Closing
<1>2. /\ sinks' = [sinks EXCEPT ![s] = Freed]
      /\ routes' = [j \in DOMAIN routes \ {i} |-> routes[j]]
  BY <1>1 DEF Unroutes
<1>3. Freed \in SinkState /\ sinks \in [Sink -> SinkState]
  BY DEF Freed, SinkState, IInv, Sinks
<1> HIDE DEF i, s
<1>4. Unrouted(i)
  BY <1>1, <1>2, <1>3 DEF Unrouted, Unmade
<1> QED BY <1>4 DEF i

\* What a step keeps that takes one service's routing away.
LEMMA UnroutedKeeps ==
  ASSUME IInv, NEW r \in Mutator, NEW at, NEW f, Suspends(r, at, f), NEW i, Unrouted(i),
         \A q \in Mutator : q # r => pc[q] \in {"idle", "done"},
         \A g \in Ingest : pc[g] \notin {"idle", "done"} => frame[g].id # i,
         at \in {"idle", "making", "closing"} => r \notin Post /\ pc[r] \in {"idle", "closing"},
         nextId' = nextId, faulty' = faulty
  PROVE  /\ Sinks'
         /\ \A g \in Ingest : Going(g)'
         /\ \A j \in DOMAIN routes' : /\ j \in DOMAIN routes /\ j # i
                                      /\ j \in Id /\ routes'[j] \in Sink
                                      /\ sinks'[routes'[j]].st \in {"open", "closed"}
         /\ \A j, k \in DOMAIN routes' : routes'[j] = routes'[k] => j = k
<1>1. /\ r \in Request /\ pc'[r] = at
      /\ \A q \in Request : q # r => pc'[q] = pc[q] /\ frame'[q] = frame[q]
  BY OneMoves, Kinds DEF IInv
<1>2. Sinks'
  <2>1. \A q \in Post \cup Patch :
          pc'[q] \in {"idle", "making", "closing"} => pc[q] \in {"idle", "making", "closing"}
    BY <1>1, Kinds DEF Request, Mutator
  <2> QED BY <2>1 DEF Unrouted, IInv, Sinks, Sink
<1>3. ASSUME NEW g \in Ingest PROVE Going(g)'
  <2>1. pc'[g] = pc[g] /\ frame'[g] = frame[g]
    BY <1>1, Kinds DEF Request
  <2>2. nextId \in Nat
    BY Counts DEF IInv, Tables, GoodRows
  <2>3. pc[g] = "writing" /\ frame[g].id \in DOMAIN routes =>
          /\ frame[g].id \in DOMAIN routes'
          /\ routes'[frame[g].id] = routes[frame[g].id]
          /\ sinks'[routes[frame[g].id]] = sinks[routes[frame[g].id]]
    BY DEF Unrouted
  <2> QED BY <2>1, <2>2, <2>3, GoingOn DEF IInv, Handlers
<1>4. \A j \in DOMAIN routes' : /\ j \in DOMAIN routes /\ j # i /\ j \in Id
                                /\ routes'[j] = routes[j] /\ routes'[j] \in Sink
                                /\ sinks'[routes'[j]].st \in {"open", "closed"}
  BY DEF Unrouted, IInv, Routing
<1>5. \A j, k \in DOMAIN routes' : routes'[j] = routes'[k] => j = k
  BY <1>4 DEF IInv, Routing
<1> QED BY <1>2, <1>3, <1>4, <1>5

\* The row of another service, before and after.
LEMMA OthersRouted ==
  ASSUME IInv, NEW r \in Mutator, r \notin Patch \/ pc[r] # "making",
         \A q \in Mutator : q # r => pc[q] \in {"idle", "done"},
         NEW i, Unrouted(i), faulty' = faulty,
         NEW k \in DOMAIN rows, rows[k].id # i
  PROVE  LET x == rows[k] IN
         /\ x.uri # None <=> x.id \in DOMAIN routes'
         /\ x.uri # None /\ x.id \notin faulty' => sinks'[routes'[x.id]] = Open(x.uri)
<1>1. ~InMotion(rows[k].id)
  BY Kinds DEF InMotion, Mutator
<1>2. RowRouted(rows[k])
  BY <1>1 DEF IInv, Routing
<1> QED BY <1>2 DEF RowRouted, Unrouted

-----------------------------------------------------------------------------
(* PATCH *)

\* The routing of a row is cleared, or set before its new sink is asked for.
LEMMA RebindsIInv ==
  ASSUME IInv, NEW r \in Patch, phase = "up", pc[r] \in {"idle", "closing"},
         \A q \in Mutator : q # r => pc[q] \in {"idle", "done"},
         NEW i \in Id, NEW k \in DOMAIN rows, rows[k].id = i, k # 0,
         \A g \in Ingest : pc[g] \notin {"idle", "done"} => frame[g].id # i,
         NEW u \in Uri \cup {None}, Rebinds(r, i, k, u), Unrouted(i),
         UNCHANGED <<capacity, nextId, dangling, store, process, ghosts>>
  PROVE  IInv'
<1> DEFINE at == IF u = None THEN "changed" ELSE "making"
           f == [id |-> i, name |-> None, uri |-> u, at |-> k, sk |-> None]
<1>1. r \in Mutator /\ r \in Request /\ r \notin Post
  BY Kinds DEF Mutator
<1>2. Suspends(r, at, f) /\ rows' = [rows EXCEPT ![k].uri = u]
  BY DEF Rebinds
<1>3. f \in Frame /\ f.id = i /\ f.at = k /\ f.uri = u
  BY RowFacts DEF Frame, IInv, Tables
<1>4. MayBeAt(r, at) /\ at \in {"changed", "making"} /\ (at = "changed" <=> u = None)
  BY Kinds DEF MayBeAt
<1> HIDE DEF at, f
<1>5. /\ pc'[r] = at /\ frame'[r] = f
      /\ \A q \in Request : q # r => pc'[q] = pc[q] /\ frame'[q] = frame[q]
  BY <1>1, <1>2, OneMoves DEF IInv
<1>6. /\ GoodRows(rows', nextId) /\ Len(rows') = Len(rows) /\ DOMAIN rows' = DOMAIN rows
      /\ \A j \in DOMAIN rows : j # k => rows'[j] = rows[j]
      /\ rows'[k].uri = u /\ rows'[k].id = i
      /\ \A j \in DOMAIN rows : rows'[j].id = rows[j].id
      /\ \A j \in DOMAIN rows : j # k => rows[j].id # i
  <2>1. GoodRows(rows, nextId)
    BY DEF IInv, Tables
  <2>2. \A j \in DOMAIN rows : j # k => rows[j].id # i
    BY <2>1 DEF GoodRows
  <2>3. rows' = Rebound(rows, k, u)
    BY <1>2 DEF Rebound
  <2> QED BY <2>1, <2>2, <2>3, RowsRebound
<1>7. /\ Sinks'
      /\ \A g \in Ingest : Going(g)'
      /\ \A j \in DOMAIN routes' : /\ j \in DOMAIN routes /\ j # i
                                   /\ j \in Id /\ routes'[j] \in Sink
                                   /\ sinks'[routes'[j]].st \in {"open", "closed"}
      /\ \A j, l \in DOMAIN routes' : routes'[j] = routes'[l] => j = l
  BY <1>1, <1>2, <1>4, UnroutedKeeps DEF ghosts
<1>8. Control'
  BY <1>1, <1>2, <1>3, <1>4, ControlStep DEF IInv
<1>9. Tables'
  <2>1. Numbered \subseteq Numbered'
    BY <1>1, <1>2, NumbersKept DEF IInv
  <2>2. nextId \in Nat /\ file.next \in Nat
    BY Counts DEF IInv, Tables, GoodRows
  <2>3. nextId <= Cardinality(Numbered') + 1 /\ file.next <= Cardinality(Numbered') + 1
    BY <2>1, <2>2, Counts, CountStays DEF IInv, Tables
  <2> QED BY <1>6, <2>3 DEF IInv, Tables, store
<1>10. Serial'
  BY <1>1, <1>2, <1>3, SerialStep DEF IInv
<1>11. Routing'
  <2>1. \A j \in DOMAIN routes' : \E l \in DOMAIN rows' : rows'[l].id = j
    BY <1>6, <1>7 DEF IInv, Routing
  <2>2. ASSUME NEW l \in DOMAIN rows' PROVE (InMotion(rows[l].id) \/ RowRouted(rows[l]))'
    <3>1. CASE l # k
      <4>1. l \in DOMAIN rows /\ rows[l].id # i /\ rows'[l] = rows[l] /\ pc[r] # "making"
        BY <1>6, <3>1
      <4>2. RowRouted(rows[l])'
        BY <1>1, <4>1, OthersRouted DEF RowRouted, ghosts
      <4> QED BY <4>2
    <3>2. CASE l = k /\ u = None
      <4>1. i \notin DOMAIN routes'
        BY <1>7
      <4>2. RowRouted(rows[l])'
        BY <1>6, <3>2, <4>1 DEF RowRouted
      <4> QED BY <4>2
    <3>3. CASE l = k /\ u # None
      <4>1. pc'[r] = "making" /\ frame'[r].id = i /\ rows'[l].id = i
        BY <1>3, <1>4, <1>5, <1>6, <3>3
      <4> QED BY <4>1 DEF InMotion
    <3> QED BY <3>1, <3>2, <3>3
  <2> QED BY <1>7, <2>1, <2>2 DEF Routing
<1>12. Handlers'
  <2>1. CASE u = None
    <3>1. Change(r)'
      BY <1>1, <1>3, <1>4, <1>5, <2>1 DEF Change
    <3>2. saving' = <<>>
      BY <1>1, Kinds DEF IInv, Handlers, store
    <3> QED BY <1>1, <1>2, <1>7, <3>1, <3>2, HandlersStep DEF IInv
  <2>2. CASE u # None
    <3>1. Change(r)'
      BY <1>1, <1>3, <1>4, <1>5, <1>6, <1>7, <2>2 DEF Change
    <3>2. saving' = <<>>
      BY <1>1, Kinds DEF IInv, Handlers, store
    <3> QED BY <1>1, <1>2, <1>7, <3>1, <3>2, HandlersStep DEF IInv
  <2> QED BY <2>1, <2>2
<1>13. Stored'
  <2>1. Dirty'
    BY <1>1, <1>4, <1>5 DEF Dirty
  <2> QED BY <2>1 DEF IInv, Stored, Below, store, process, ghosts
<1> QED BY <1>7, <1>8, <1>9, <1>10, <1>11, <1>12, <1>13 DEF IInv

LEMMA PatchArrivesIInv ==
  ASSUME ~Overlap, IInv, NEW r \in Patch, PatchArrives(r)
  PROVE  IInv'
<1>1. r \in Mutator
  BY DEF Mutator
<1>2. PICK i \in Id, u \in Uri \cup {None} :
        /\ Admitted(r, i)
        /\ \/ RowOf(i) = 0 /\ Returns(r) /\ UNCHANGED rows
           \/ RowOf(i) # 0 /\ i \notin DOMAIN routes /\ Rebinds(r, i, RowOf(i), u)
           \/ RowOf(i) # 0 /\ i \in DOMAIN routes /\ FindsSink(r, i, u) /\ UNCHANGED rows
  BY DEF PatchArrives
<1>3. UNCHANGED <<capacity, nextId, routes, sinks, dangling, store, process, ghosts>>
  BY DEF PatchArrives
<1>4. CASE Returns(r) /\ UNCHANGED rows
  BY <1>1, <1>2, <1>3, <1>4, TurnedAway DEF table
<1>5. CASE RowOf(i) # 0 /\ i \notin DOMAIN routes /\ Rebinds(r, i, RowOf(i), u)
  <2>1. /\ phase = "up" /\ pc[r] = "idle"
        /\ \A q \in Mutator : pc[q] \in {"idle", "done"}
        /\ \A g \in Ingest : pc[g] \notin {"idle", "done"} => frame[g].id # i
    BY <1>1, <1>2, AdmittedSolo DEF IInv
  <2>2. RowOf(i) \in DOMAIN rows /\ rows[RowOf(i)].id = i
    BY <1>5, RowOfFinds DEF IInv
  <2>3. Unrouted(i)
    BY <1>3, <1>5, UnroutedByNone
  <2> QED BY <1>3, <1>5, <2>1, <2>2, <2>3, RebindsIInv
<1>6. CASE RowOf(i) # 0 /\ i \in DOMAIN routes /\ FindsSink(r, i, u) /\ UNCHANGED rows
  BY <1>2, <1>3, <1>6, FindsSinkIInv DEF table
<1> QED BY <1>2, <1>4, <1>5, <1>6

LEMMA PatchClosesIInv ==
  ASSUME IInv, NEW r \in Patch, PatchCloses(r)
  PROVE  IInv'
<1> DEFINE i == frame[r].id
           u == frame[r].uri
           k == Target(r)
<1>1. r \in Mutator /\ pc[r] = "closing" /\ Unroutes(r)
  BY DEF Mutator, PatchCloses
<1>2. /\ phase = "up"
      /\ \A q \in Mutator : q # r => pc[q] \in {"idle", "done"}
      /\ \A g \in Ingest : pc[g] \notin {"idle", "done"} => frame[g].id # i
      /\ i \in Id /\ ~SinkIsDead(r)
      /\ k \in DOMAIN rows /\ k # 0 /\ rows[k].id = i
  BY <1>1, Closing
<1>3. Unrouted(i)
  BY <1>1, UnroutedByClose
<1>4. /\ Rebinds(r, i, k, u)
      /\ UNCHANGED <<capacity, nextId, dangling, store, process, ghosts>>
  BY <1>2 DEF PatchCloses
<1>5. u \in Uri \cup {None}
  BY <1>1, Kinds DEF IInv, Control, Frame
<1> HIDE DEF i, u, k
<1> QED BY <1>1, <1>2, <1>3, <1>4, <1>5, RebindsIInv

\* The one change under way, at its last await but one.
LEMMA Making ==
  ASSUME IInv, NEW r \in Patch, pc[r] = "making"
  PROVE  LET i == frame[r].id  u == frame[r].uri  k == frame[r].at IN
         /\ phase = "up" /\ r \in Mutator /\ r \in Request /\ r \notin Post /\ r \in Sink
         /\ \A q \in Mutator : q # r => pc[q] \in {"idle", "done"}
         /\ \A g \in Ingest : pc[g] \notin {"idle", "done"} => frame[g].id # i
         /\ i \in Id /\ i \notin DOMAIN routes /\ u \in Uri /\ u # None
         /\ k \in DOMAIN rows /\ k # 0 /\ rows[k].id = i /\ rows[k].uri = u
         /\ Target(r) = k
         /\ \A j \in DOMAIN rows : j # k => rows[j].id # i
         /\ sinks[r].st = "unmade" /\ saving = <<>>
<1>1. r \in Mutator /\ r \in Request /\ r \notin Post /\ r \in Sink
  BY Kinds DEF Mutator, Sink
<1>2. /\ phase = "up"
      /\ \A q \in Mutator : q # r => pc[q] \in {"idle", "done"}
      /\ \A g \in Ingest : pc[g] \notin {"idle", "done"} => frame[g].id # frame[r].id
  BY <1>1, Solo DEF IInv
<1>3. /\ frame[r].at \in DOMAIN rows /\ rows[frame[r].at].id = frame[r].id
      /\ rows[frame[r].at].uri = frame[r].uri
      /\ frame[r].uri \in Uri /\ frame[r].id \notin DOMAIN routes
  BY <1>1 DEF IInv, Handlers, Change
<1>4. frame[r].at # 0 /\ frame[r].id \in Id
  BY <1>3, RowFacts DEF IInv, Tables
<1>5. Target(r) = frame[r].at
  BY <1>3 DEF Target, IInv, Tables
<1>6. \A j \in DOMAIN rows : j # frame[r].at => rows[j].id # frame[r].id
  BY <1>3 DEF IInv, Tables, GoodRows
<1>7. sinks[r].st = "unmade" /\ saving = <<>>
  BY <1>2 DEF IInv, Sinks, Unmade, Handlers
<1>8. frame[r].uri # None
  BY <1>3, Kinds
<1> QED BY <1>1, <1>2, <1>3, <1>4, <1>5, <1>6, <1>7, <1>8

\* Only the service of the PATCH is in motion.
LEMMA OthersStill ==
  ASSUME IInv, NEW r \in Patch, pc[r] = "making",
         NEW k \in DOMAIN rows, rows[k].id # frame[r].id
  PROVE  RowRouted(rows[k])
<1>1. \A q \in Patch : pc[q] = "making" => q = r
  BY Making, Kinds DEF Mutator
<1>2. ~InMotion(rows[k].id)
  BY <1>1 DEF InMotion
<1> QED BY <1>2 DEF IInv, Routing

LEMMA PatchMakesSinkIInv ==
  ASSUME IInv, NEW r \in Patch, PatchMakesSink(r)
  PROVE  IInv'
<1> DEFINE i == frame[r].id
           u == frame[r].uri
           k == frame[r].at
           f == [NoFrame EXCEPT !.id = i]
<1>1. pc[r] = "making"
  BY DEF PatchMakesSink
<1>2. /\ phase = "up" /\ r \in Mutator /\ r \in Request /\ r \notin Post /\ r \in Sink
      /\ \A q \in Mutator : q # r => pc[q] \in {"idle", "done"}
      /\ \A g \in Ingest : pc[g] \notin {"idle", "done"} => frame[g].id # i
      /\ i \in Id /\ i \notin DOMAIN routes /\ u \in Uri /\ u # None
      /\ k \in DOMAIN rows /\ rows[k].id = i /\ rows[k].uri = u
      /\ \A j \in DOMAIN rows : j # k => rows[j].id # i
      /\ sinks[r].st = "unmade" /\ saving = <<>>
  BY <1>1, Making
<1>3. /\ sinks' = [sinks EXCEPT ![r] = Open(u)]
      /\ routes' = [j \in DOMAIN routes \cup {i} |-> IF j = i THEN r ELSE routes[j]]
      /\ Suspends(r, "changed", f)
      /\ UNCHANGED <<table, dangling, store, process, ghosts>>
  BY <1>2 DEF PatchMakesSink
<1>4. f \in Frame /\ f.id = i
  BY <1>2, Counts DEF NoFrame, Frame
<1> HIDE DEF i, u, k, f
<1>5. /\ pc'[r] = "changed" /\ frame'[r] = f
      /\ \A q \in Request : q # r => pc'[q] = pc[q] /\ frame'[q] = frame[q]
  BY <1>2, <1>3, OneMoves DEF IInv
<1>6. MayBeAt(r, "changed")
  BY <1>2, Kinds DEF MayBeAt
<1>7. Control'
  BY <1>2, <1>3, <1>4, <1>6, ControlStep DEF IInv
<1>8. Tables'
  BY <1>2, <1>3, NumbersKept, TablesSame DEF IInv, table, store
<1>9. Serial'
  BY <1>2, <1>3, <1>4, SerialStep DEF IInv
<1>10. sinks \in [Sink -> SinkState] /\ Open(u) \in SinkState /\ Open(u).st = "open"
  BY <1>2 DEF IInv, Sinks, Open, SinkState
<1>11. \A j \in DOMAIN routes : j \in Id /\ j # i /\ routes[j] # r /\ routes[j] \in Sink
  BY <1>2 DEF IInv, Routing
<1>12. /\ DOMAIN routes' = DOMAIN routes \cup {i} /\ routes'[i] = r /\ sinks'[r] = Open(u)
       /\ \A j \in DOMAIN routes : routes'[j] = routes[j] /\ sinks'[routes[j]] = sinks[routes[j]]
  BY <1>2, <1>3, <1>10, <1>11
<1>13. Sinks'
  <2>1. sinks' \in [Sink -> SinkState]
    BY <1>3, <1>10
  <2>2. \A q \in Post \cup Patch : q # r => sinks'[q] = sinks[q]
    BY <1>3, <1>10 DEF Sink
  <2> QED BY <1>5, <2>1, <2>2, Kinds DEF IInv, Sinks, Request, Mutator
<1>14. Routing'
  <2>1. rows' = rows /\ faulty' = faulty
    BY <1>3 DEF table, ghosts
  <2>2. ASSUME NEW j \in DOMAIN routes'
        PROVE  /\ j \in Id /\ routes'[j] \in Sink
               /\ \E l \in DOMAIN rows : rows[l].id = j
               /\ sinks'[routes'[j]].st \in {"open", "closed"}
    <3>1. CASE j \in DOMAIN routes
      BY <1>11, <1>12, <3>1 DEF IInv, Routing
    <3>2. CASE j = i
      BY <1>2, <1>10, <1>12, <3>2
    <3> QED BY <1>12, <3>1, <3>2
  <2>3. \A j, l \in DOMAIN routes' : routes'[j] = routes'[l] => j = l
    BY <1>11, <1>12 DEF IInv, Routing
  <2>4. ASSUME NEW l \in DOMAIN rows PROVE RowRouted(rows[l])'
    <3>1. CASE l # k
      <4>1. rows[l].id # i
        BY <1>2, <3>1
      <4>2. RowRouted(rows[l])
        BY <1>1, <4>1, OthersStill DEF i
      <4> QED BY <1>12, <2>1, <4>1, <4>2 DEF RowRouted
    <3>2. CASE l = k
      BY <1>2, <1>12, <2>1, <3>2 DEF RowRouted
    <3> QED BY <3>1, <3>2
  <2> QED BY <2>1, <2>2, <2>3, <2>4 DEF Routing
<1>15. Handlers'
  <2>1. Change(r)'
    BY <1>2, <1>4, <1>5 DEF Change
  <2>2. ASSUME NEW g \in Ingest PROVE Going(g)'
    <3>1. pc'[g] = pc[g] /\ frame'[g] = frame[g]
      BY <1>2, <1>5, Kinds DEF Request
    <3>2. nextId' = nextId /\ nextId \in Nat /\ faulty' = faulty
      BY <1>3, Counts DEF table, ghosts, IInv, Tables, GoodRows
    <3>3. frame[g].id \in DOMAIN routes =>
            /\ frame[g].id \in DOMAIN routes'
            /\ routes'[frame[g].id] = routes[frame[g].id]
            /\ sinks'[routes[frame[g].id]] = sinks[routes[frame[g].id]]
      BY <1>12
    <3> QED BY <3>1, <3>2, <3>3, GoingOn DEF IInv, Handlers
  <2>3. saving' = <<>>
    BY <1>2, <1>3 DEF store
  <2> QED BY <1>2, <1>3, <2>1, <2>2, <2>3, HandlersStep DEF IInv
<1>16. Stored'
  <2>1. Dirty'
    BY <1>2, <1>5 DEF Dirty
  <2> QED BY <1>3, <2>1 DEF IInv, Stored, Below, table, store, process, ghosts
<1> QED BY <1>7, <1>8, <1>9, <1>13, <1>14, <1>15, <1>16 DEF IInv

\* The new sink is refused: the row falls back to the default one.
LEMMA PatchFailsIInv ==
  ASSUME IInv, NEW r \in Patch, PatchFails(r)
  PROVE  IInv'
<1> DEFINE i == frame[r].id
           k == frame[r].at
<1>1. pc[r] = "making"
  BY DEF PatchFails
<1>2. /\ phase = "up" /\ r \in Mutator /\ r \in Request /\ r \notin Post
      /\ \A q \in Mutator : q # r => pc[q] \in {"idle", "done"}
      /\ i \in Id /\ i \notin DOMAIN routes
      /\ k \in DOMAIN rows /\ k # 0 /\ rows[k].id = i /\ Target(r) = k
      /\ \A j \in DOMAIN rows : j # k => rows[j].id # i
      /\ saving = <<>>
  BY <1>1, Making
<1>3. /\ rows' = Rebound(rows, k, None)
      /\ Suspends(r, "done", NoFrame) /\ NoFrame \in Frame /\ MayBeAt(r, "done")
      /\ unsynced' = unsynced \cup {i}
      /\ UNCHANGED <<capacity, nextId, routes, sinks, dangling, store, process, given, forgotten, faulty>>
  BY <1>2, NoFrameTyped DEF PatchFails, Returns, MayBeAt, Rebound
<1> HIDE DEF i, k
<1>4. /\ pc'[r] = "done"
      /\ \A q \in Request : q # r => pc'[q] = pc[q] /\ frame'[q] = frame[q]
  BY <1>2, <1>3, OneMoves DEF IInv
<1>5. /\ GoodRows(rows', nextId) /\ Len(rows') = Len(rows) /\ DOMAIN rows' = DOMAIN rows
      /\ \A j \in DOMAIN rows : j # k => rows'[j] = rows[j]
      /\ rows'[k].uri = None /\ rows'[k].id = i
      /\ \A j \in DOMAIN rows : rows'[j].id = rows[j].id
  BY <1>2, <1>3, RowsRebound DEF IInv, Tables
<1>6. Control'
  BY <1>2, <1>3, ControlStep DEF IInv
<1>7. Tables'
  <2>1. Numbered \subseteq Numbered'
    BY <1>2, <1>3, NumbersKept DEF IInv
  <2>2. nextId \in Nat /\ file.next \in Nat
    BY Counts DEF IInv, Tables, GoodRows
  <2>3. nextId <= Cardinality(Numbered') + 1 /\ file.next <= Cardinality(Numbered') + 1
    BY <2>1, <2>2, Counts, CountStays DEF IInv, Tables
  <2> QED BY <1>3, <1>5, <2>3 DEF IInv, Tables, store
<1>8. Serial'
  BY <1>2, <1>3, SerialStep DEF IInv
<1>9. Sinks'
  BY <1>2, <1>3, SinksSame DEF IInv
<1>10. Routing'
  <2>1. \A j \in DOMAIN routes : \E l \in DOMAIN rows' : rows'[l].id = j
    BY <1>5 DEF IInv, Routing
  <2>2. ASSUME NEW l \in DOMAIN rows' PROVE RowRouted(rows[l])'
    <3>1. CASE l # k
      <4>1. RowRouted(rows[l]) /\ rows'[l] = rows[l]
        BY <1>1, <1>2, <1>5, <3>1, OthersStill DEF i
      <4> QED BY <1>3, <4>1 DEF RowRouted
    <3>2. CASE l = k
      BY <1>2, <1>3, <1>5, <3>2 DEF RowRouted
    <3> QED BY <3>1, <3>2
  <2> QED BY <1>3, <2>1, <2>2 DEF IInv, Routing
<1>11. Handlers'
  <2>1. Change(r)'
    BY <1>4 DEF Change
  <2>2. ASSUME NEW g \in Ingest PROVE Going(g)'
    <3>1. pc'[g] = pc[g] /\ frame'[g] = frame[g]
      BY <1>2, <1>4, Kinds DEF Request
    <3>2. nextId \in Nat
      BY Counts DEF IInv, Tables, GoodRows
    <3> QED BY <1>3, <3>1, <3>2, GoingOn DEF IInv, Handlers
  <2>3. saving' = <<>>
    BY <1>2, <1>3 DEF store
  <2> QED BY <1>2, <1>3, <2>1, <2>2, <2>3, HandlersStep DEF IInv
<1>12. Stored'
  BY <1>2, <1>3 DEF IInv, Stored, Below, store, process
<1> QED BY <1>6, <1>7, <1>8, <1>9, <1>10, <1>11, <1>12 DEF IInv

-----------------------------------------------------------------------------
(* DELETE *)

\* The routing of a service is gone, and now its row.
LEMMA EraseRowIInv ==
  ASSUME IInv, NEW r \in Delete, phase = "up", pc[r] \in {"idle", "closing"},
         \A q \in Mutator : q # r => pc[q] \in {"idle", "done"},
         NEW i \in Id, NEW k \in DOMAIN rows, rows[k].id = i, k # 0,
         \A g \in Ingest : pc[g] \notin {"idle", "done"} => frame[g].id # i,
         EraseRow(r, i, k), Unrouted(i),
         UNCHANGED <<capacity, nextId, dangling, store, process, ghosts>>
  PROVE  IInv'
<1> DEFINE f == [NoFrame EXCEPT !.id = i]
<1>1. r \in Mutator /\ r \in Request /\ r \notin Post /\ r \notin Patch
  BY Kinds DEF Mutator
<1>2. /\ Suspends(r, "changed", f)
      /\ rows' = Erased(rows, k)
  BY DEF EraseRow, Erased
<1>3. f \in Frame /\ f.id = i
  BY Counts DEF NoFrame, Frame
<1>4. MayBeAt(r, "changed")
  BY <1>1, Kinds DEF MayBeAt
<1> HIDE DEF f
<1>5. /\ pc'[r] = "changed" /\ frame'[r] = f
      /\ \A q \in Request : q # r => pc'[q] = pc[q] /\ frame'[q] = frame[q]
  BY <1>1, <1>2, OneMoves DEF IInv
<1>6. /\ GoodRows(rows', nextId) /\ Len(rows') \in Nat /\ Len(rows') <= Len(rows)
      /\ \A l \in DOMAIN rows' : \E j \in DOMAIN rows : j # k /\ rows'[l] = rows[j]
      /\ \A j \in DOMAIN rows : j # k => \E l \in DOMAIN rows' : rows'[l] = rows[j]
  BY <1>2, RowsErased DEF IInv, Tables
<1>7. \A j \in DOMAIN rows : j # k => rows[j].id # i
  BY DEF IInv, Tables, GoodRows
<1>8. /\ Sinks'
      /\ \A g \in Ingest : Going(g)'
      /\ \A j \in DOMAIN routes' : /\ j \in DOMAIN routes /\ j # i
                                   /\ j \in Id /\ routes'[j] \in Sink
                                   /\ sinks'[routes'[j]].st \in {"open", "closed"}
      /\ \A j, l \in DOMAIN routes' : routes'[j] = routes'[l] => j = l
  BY <1>1, <1>2, UnroutedKeeps DEF ghosts
<1>9. Control'
  BY <1>1, <1>2, <1>3, <1>4, ControlStep DEF IInv
<1>10. Tables'
  <2>1. Numbered \subseteq Numbered'
    BY <1>1, <1>2, NumbersKept DEF IInv
  <2>2. nextId \in Nat /\ file.next \in Nat
    BY Counts DEF IInv, Tables, GoodRows
  <2>3. nextId <= Cardinality(Numbered') + 1 /\ file.next <= Cardinality(Numbered') + 1
    BY <2>1, <2>2, Counts, CountStays DEF IInv, Tables
  <2>4. Len(rows) \in Nat /\ capacity \in Nat /\ Len(rows) <= capacity
    BY DEF IInv, Tables, GoodRows
  <2>5. Len(rows') <= capacity
    BY <1>6, <2>4
  <2> QED BY <1>6, <2>3, <2>5 DEF IInv, Tables, store
<1>11. Serial'
  BY <1>1, <1>2, <1>3, SerialStep DEF IInv
<1>12. Routing'
  <2>1. ASSUME NEW j \in DOMAIN routes' PROVE \E l \in DOMAIN rows' : rows'[l].id = j
    <3>1. PICK m \in DOMAIN rows : rows[m].id = j
      BY <1>8 DEF IInv, Routing
    <3>2. m # k
      BY <1>8, <3>1
    <3> QED BY <1>6, <3>1, <3>2
  <2>2. ASSUME NEW l \in DOMAIN rows' PROVE RowRouted(rows[l])'
    <3>1. PICK j \in DOMAIN rows : j # k /\ rows'[l] = rows[j]
      BY <1>6
    <3>2. rows[j].id # i
      BY <1>7, <3>1
    <3>3. faulty' = faulty
      BY DEF ghosts
    <3>4. LET x == rows[j] IN
          /\ x.uri # None <=> x.id \in DOMAIN routes'
          /\ x.uri # None /\ x.id \notin faulty' => sinks'[routes'[x.id]] = Open(x.uri)
      BY <1>1, <3>2, <3>3, OthersRouted
    <3> QED BY <3>1, <3>4 DEF RowRouted
  <2> QED BY <1>8, <2>1, <2>2 DEF Routing
<1>13. Handlers'
  <2>1. Change(r)'
    BY <1>1, <1>3, <1>5 DEF Change
  <2>2. saving' = <<>>
    BY <1>1, Kinds DEF IInv, Handlers, store
  <2> QED BY <1>1, <1>2, <1>8, <2>1, <2>2, HandlersStep DEF IInv
<1>14. Stored'
  <2>1. Dirty'
    BY <1>1, <1>5 DEF Dirty
  <2> QED BY <2>1 DEF IInv, Stored, Below, store, process, ghosts
<1> QED BY <1>8, <1>9, <1>10, <1>11, <1>12, <1>13, <1>14 DEF IInv

LEMMA DeleteArrivesIInv ==
  ASSUME ~Overlap, IInv, NEW r \in Delete, DeleteArrives(r)
  PROVE  IInv'
<1>1. r \in Mutator
  BY DEF Mutator
<1>2. PICK i \in Id :
        /\ Admitted(r, i)
        /\ \/ RowOf(i) = 0 /\ Returns(r) /\ UNCHANGED rows
           \/ RowOf(i) # 0 /\ i \notin DOMAIN routes /\ EraseRow(r, i, RowOf(i))
           \/ RowOf(i) # 0 /\ i \in DOMAIN routes /\ FindsSink(r, i, None) /\ UNCHANGED rows
  BY DEF DeleteArrives
<1>3. UNCHANGED <<capacity, nextId, routes, sinks, dangling, store, process, ghosts>>
  BY DEF DeleteArrives
<1>4. CASE Returns(r) /\ UNCHANGED rows
  BY <1>1, <1>2, <1>3, <1>4, TurnedAway DEF table
<1>5. CASE RowOf(i) # 0 /\ i \notin DOMAIN routes /\ EraseRow(r, i, RowOf(i))
  <2>1. /\ phase = "up" /\ pc[r] = "idle"
        /\ \A q \in Mutator : pc[q] \in {"idle", "done"}
        /\ \A g \in Ingest : pc[g] \notin {"idle", "done"} => frame[g].id # i
    BY <1>1, <1>2, AdmittedSolo DEF IInv
  <2>2. RowOf(i) \in DOMAIN rows /\ rows[RowOf(i)].id = i
    BY <1>5, RowOfFinds DEF IInv
  <2>3. Unrouted(i)
    BY <1>3, <1>5, UnroutedByNone
  <2> QED BY <1>3, <1>5, <2>1, <2>2, <2>3, EraseRowIInv
<1>6. CASE RowOf(i) # 0 /\ i \in DOMAIN routes /\ FindsSink(r, i, None) /\ UNCHANGED rows
  BY <1>2, <1>3, <1>6, FindsSinkIInv DEF table
<1> QED BY <1>2, <1>4, <1>5, <1>6

LEMMA DeleteClosesIInv ==
  ASSUME IInv, NEW r \in Delete, DeleteCloses(r)
  PROVE  IInv'
<1> DEFINE i == frame[r].id
           k == Target(r)
<1>1. r \in Mutator /\ pc[r] = "closing" /\ Unroutes(r)
  BY DEF Mutator, DeleteCloses
<1>2. /\ phase = "up"
      /\ \A q \in Mutator : q # r => pc[q] \in {"idle", "done"}
      /\ \A g \in Ingest : pc[g] \notin {"idle", "done"} => frame[g].id # i
      /\ i \in Id /\ ~SinkIsDead(r)
      /\ k \in DOMAIN rows /\ k # 0 /\ rows[k].id = i
  BY <1>1, Closing
<1>3. Unrouted(i)
  BY <1>1, UnroutedByClose
<1>4. /\ EraseRow(r, i, k)
      /\ UNCHANGED <<capacity, nextId, dangling, store, process, ghosts>>
  BY <1>2 DEF DeleteCloses
<1> HIDE DEF i, k
<1> QED BY <1>1, <1>2, <1>3, <1>4, EraseRowIInv

-----------------------------------------------------------------------------
(* The end of the three handlers *)

LEMMA SerializesIInv ==
  ASSUME IInv, NEW r \in Mutator, Serializes(r)
  PROVE  IInv'
<1> DEFINE i == frame[r].id
<1>1. r \in Request /\ pc[r] = "changed"
  BY Kinds DEF Serializes
<1>2. /\ phase = "up"
      /\ \A q \in Mutator : q # r => pc[q] \in {"idle", "done"}
  BY <1>1, Solo DEF IInv
<1>3. saving = <<>>
  BY <1>1, <1>2 DEF IInv, Handlers
<1>4. /\ saving' = <<[by |-> r, id |-> i, image |-> Image]>>
      /\ Suspends(r, "saving", NoFrame) /\ NoFrame \in Frame /\ NoFrame.id = None
      /\ UNCHANGED <<table, routes, sinks, dangling, file, process, ghosts>>
  BY <1>3, NoFrameTyped DEF Serializes, NoFrame
<1>5. pc'[r] = "saving" /\ Image' = Image
  BY <1>1, <1>4, OneMoves DEF IInv, Image, table
<1>6. i \in Id /\ (r \in Post => i = nextId - 1 /\ Below(i))
  BY <1>1 DEF IInv, Handlers, Change
<1> HIDE DEF i
<1>7. Change(r)'
  BY <1>4, <1>5, <1>6 DEF Change, Below, table, ghosts
<1>8. \A g \in Ingest : pc[g] \notin {"idle", "done"} => NoFrame.id # frame[g].id
  BY <1>4, IngestFrame, Kinds
<1>9. MayBeAt(r, "saving")
  BY Kinds DEF MayBeAt
<1> QED BY <1>1, <1>2, <1>4, <1>7, <1>8, <1>9, MovesIInv

\* The snapshot that is on its way is what is in memory.
LEMMA Saving ==
  ASSUME IInv, saving # <<>>
  PROVE  \E r \in Mutator, i \in Id :
           /\ pc[r] = "saving" /\ Head(saving).by = r /\ Head(saving).id = i
           /\ Head(saving).image = Image /\ Tail(saving) = <<>>
           /\ r \in Post => i = nextId - 1 /\ Below(i)
           /\ phase = "up"
           /\ \A q \in Mutator : q # r => pc[q] \in {"idle", "done"}
<1>1. PICK r \in Mutator : pc[r] = "saving"
  BY DEF IInv, Handlers
<1>2. PICK i \in Id : /\ saving = <<[by |-> r, id |-> i, image |-> Image]>>
                      /\ r \in Post => i = nextId - 1 /\ Below(i)
  BY <1>1 DEF IInv, Handlers, Change
<1>3. phase = "up" /\ \A q \in Mutator : q # r => pc[q] \in {"idle", "done"}
  BY <1>1, Solo DEF IInv
<1>4. /\ Head(saving) = [by |-> r, id |-> i, image |-> Image]
      /\ Tail(saving) = <<>>
  BY <1>2
<1> QED BY <1>1, <1>2, <1>3, <1>4

LEMMA SavesIInv ==
  ASSUME IInv, Saves
  PROVE  IInv'
<1>1. saving # <<>>
  BY DEF Saves
<1>2. PICK r \in Mutator, i \in Id :
        /\ pc[r] = "saving" /\ Head(saving).by = r /\ Head(saving).id = i
        /\ Head(saving).image = Image /\ Tail(saving) = <<>>
        /\ r \in Post => i = nextId - 1 /\ Below(i)
        /\ phase = "up"
        /\ \A q \in Mutator : q # r => pc[q] \in {"idle", "done"}
  BY <1>1, Saving
<1>3. /\ saving' = <<>> /\ Suspends(r, "done", NoFrame) /\ NoFrame \in Frame
      /\ MayBeAt(r, "done")
      /\ UNCHANGED <<table, routes, sinks, dangling, process, forgotten, faulty>>
      /\ \/ /\ file' = Image
            /\ given' = IF r \in Post THEN [given EXCEPT ![r] = i] ELSE given
            /\ unsynced' = {}
         \/ unsynced' = unsynced \cup {i} /\ UNCHANGED <<file, given>>
  BY <1>2, NoFrameTyped DEF Saves, Returns, MayBeAt
<1>4. /\ r \in Request /\ pc'[r] = "done"
      /\ \A q \in Request : q # r => pc'[q] = pc[q] /\ frame'[q] = frame[q]
  BY <1>3, OneMoves, Kinds DEF IInv
<1>5. nextId \in Nat /\ file.next \in Nat /\ Below(nextId)
  BY <1>2, Counts DEF IInv, Tables, GoodRows, Stored
<1>6. Image.rows = rows /\ Image.next = nextId /\ Image \in [rows : Seq(Row), next : Nat]
  BY <1>5 DEF Image, IInv, Tables, GoodRows
<1>7. Control'
  BY <1>2, <1>3, <1>4, ControlStep DEF IInv
<1>8. Tables'
  <2>1. Numbered \subseteq Numbered'
    BY <1>3, <1>4, NumbersKept DEF IInv
  <2>2. nextId <= Cardinality(Numbered') + 1 /\ file.next <= Cardinality(Numbered') + 1
    BY <1>5, <2>1, Counts, CountStays DEF IInv, Tables
  <2>3. CASE file' = file
    BY <1>3, <2>1, <2>3, TablesSame DEF IInv, table
  <2>4. CASE file' = Image
    BY <1>3, <1>6, <2>2, <2>4 DEF IInv, Tables, table
  <2> QED BY <1>3, <2>3, <2>4
<1>9. Serial'
  BY <1>2, <1>3, SerialStep DEF IInv
<1>10. Routing' /\ Sinks'
  BY <1>2, <1>3, <1>4, RoutingSame, SinksSame DEF IInv, table
<1>11. Handlers'
  <2>1. Change(r)'
    BY <1>4 DEF Change
  <2>2. ASSUME NEW g \in Ingest PROVE Going(g)'
    <3>1. pc'[g] = pc[g] /\ frame'[g] = frame[g]
      BY <1>4, Kinds DEF Request
    <3> QED BY <1>3, <1>5, <3>1, GoingOn DEF IInv, Handlers, table
  <2> QED BY <1>2, <1>3, <2>1, <2>2, HandlersStep DEF IInv
<1>12. Stored'
  <2>1. CASE unsynced' = unsynced \cup {i} /\ UNCHANGED <<file, given>>
    BY <1>2, <1>3, <2>1 DEF IInv, Stored, Below, table, process
  <2>2. CASE /\ file' = Image /\ unsynced' = {}
             /\ given' = IF r \in Post THEN [given EXCEPT ![r] = i] ELSE given
    <3>1. file'.next = nextId /\ Image' = Image
      BY <1>3, <1>6, <2>2 DEF Image, table
    <3>2. given' \in [Post -> Id \cup {None}]
      BY <1>2, <2>2 DEF IInv, Stored
    <3>3. \A p \in Post : given[p] # None => given[p] \in Nat
      BY DEF IInv, Stored, Id
    <3>4. CASE r \in Post
      <4>1. /\ given'[r] = i /\ i < nextId /\ i \in Nat /\ i # None
            /\ \A p \in Post : p # r => given'[p] = given[p]
        BY <1>2, <1>5, <2>2, <3>4, Kinds DEF IInv, Stored, Id
      <4>2. \A p \in Post \ forgotten : given[p] # None => given[p] # i
        BY <1>2, <3>3, <3>4, <4>1 DEF Below
      <4>3. Below(nextId)'
        BY <1>3, <1>5, <4>1 DEF Below, table
      <4>4. \A p, q \in Post \ forgotten : given'[p] = given'[q] /\ given'[p] # None => p = q
        BY <4>1, <4>2 DEF IInv, Stored
      <4> QED BY <1>2, <1>3, <2>2, <3>1, <3>2, <4>3, <4>4 DEF IInv, Stored, Below, table, process
    <3>5. CASE r \notin Post
      <4>1. given' = given
        BY <2>2, <3>5
      <4> QED BY <1>2, <1>3, <1>5, <2>2, <3>1, <3>2, <4>1 DEF IInv, Stored, Below, table, process
    <3> QED BY <3>4, <3>5
  <2> QED BY <1>3, <2>1, <2>2
<1> QED BY <1>7, <1>8, <1>9, <1>10, <1>11, <1>12 DEF IInv

-----------------------------------------------------------------------------
(* POST /ingest *)

\* An ingest moves on, and nothing else happens.
LEMMA IngestMovesIInv ==
  ASSUME IInv, NEW r \in Ingest, NEW at, NEW f \in Frame, MayBeAt(r, at),
         Suspends(r, at, f), phase = "up",
         at # "done" =>
           \A q \in Mutator : pc[q] \notin {"idle", "done"} => frame[q].id # f.id,
         UNCHANGED <<table, routes, sinks, dangling, store, process, ghosts>>,
         Going(r)'
  PROVE  IInv'
<1>1. r \in Request /\ r \notin Mutator /\ r \notin Post /\ r \notin Patch
  BY Kinds DEF Request
<1>2. /\ pc'[r] = at /\ frame'[r] = f
      /\ \A q \in Request : q # r => pc'[q] = pc[q] /\ frame'[q] = frame[q]
  BY <1>1, OneMoves DEF IInv
<1>3. \A q \in Mutator : pc'[q] = pc[q] /\ frame'[q] = frame[q]
  BY <1>1, <1>2, Kinds
<1>4. Control'
  BY <1>1, ControlStep DEF IInv
<1>5. Tables'
  BY <1>1, NumbersKept, TablesSame DEF IInv, table, store
<1>6. Serial'
  <2>1. \A p, q \in Mutator : p \in Active' /\ q \in Active' => p = q
    BY <1>3 DEF IInv, Serial, Active
  <2>2. ASSUME NEW q \in Mutator, NEW g \in Ingest, q \in Active', g \in Active'
        PROVE  frame'[q].id # frame'[g].id
    <3>1. q \in Request /\ pc[q] \notin {"idle", "done"} /\ frame'[q] = frame[q]
      BY <1>3, <2>2, Kinds DEF Active
    <3>2. CASE g = r
      BY <1>2, <2>2, <3>1, <3>2 DEF Active
    <3>3. CASE g # r
      BY <1>2, <2>2, <3>1, <3>3 DEF Active, IInv, Serial
    <3> QED BY <3>2, <3>3
  <2> QED BY <2>1, <2>2 DEF Serial
<1>7. Routing'
  BY <1>1, RoutingSame DEF IInv, table, ghosts
<1>8. Sinks'
  BY <1>2, Kinds DEF IInv, Sinks, Request, Mutator
<1>9. Handlers'
  <2>1. ASSUME NEW q \in Mutator PROVE Change(q)'
    <3>1. Change(q)
      BY DEF IInv, Handlers
    <3> QED BY <1>3, <3>1 DEF Change, Below, Image, table, store, ghosts
  <2>2. ASSUME NEW g \in Ingest PROVE Going(g)'
    <3>1. CASE g = r
      BY <3>1
    <3>2. CASE g # r
      <4>1. pc'[g] = pc[g] /\ frame'[g] = frame[g]
        BY <1>2, <3>2 DEF Request
      <4>2. nextId \in Nat
        BY Counts DEF IInv, Tables, GoodRows
      <4> QED BY <4>1, <4>2, GoingOn DEF IInv, Handlers, table, ghosts
    <3> QED BY <3>1, <3>2
  <2>3. saving' # <<>> => \E q \in Mutator : pc'[q] = "saving"
    BY <1>3 DEF IInv, Handlers, store
  <2> QED BY <2>1, <2>2, <2>3 DEF Handlers
<1>10. Stored'
  <2>1. Dirty' = Dirty
    BY <1>3 DEF Dirty
  <2> QED BY <2>1 DEF IInv, Stored, Below, Image, table, store, process, ghosts
<1> QED BY <1>4, <1>5, <1>6, <1>7, <1>8, <1>9, <1>10 DEF IInv

LEMMA IngestArrivesIInv ==
  ASSUME ~Overlap, IInv, NEW r \in Ingest, IngestArrives(r)
  PROVE  IInv'
<1>1. PICK i \in Id :
        /\ Admitted(r, i)
        /\ IF RowOf(i) = 0 THEN Returns(r)
           ELSE Suspends(r, "checked", [NoFrame EXCEPT !.id = i])
  BY DEF IngestArrives
<1>2. phase = "up" /\ UNCHANGED <<table, routes, sinks, dangling, store, process, ghosts>>
  BY <1>1 DEF IngestArrives, Admitted
<1>3. r \in Request /\ r \notin Mutator
  BY Kinds DEF Request
<1>4. \A q \in Mutator : pc[q] \notin {"idle", "done"} => frame[q].id # i
  BY <1>1, Kinds DEF Admitted, Active
<1>5. CASE RowOf(i) = 0
  <2>1. Suspends(r, "done", NoFrame) /\ NoFrame \in Frame /\ MayBeAt(r, "done")
    BY <1>1, <1>5, NoFrameTyped DEF Returns, MayBeAt
  <2>2. pc'[r] = "done"
    BY <1>3, <2>1, OneMoves DEF IInv
  <2>3. Going(r)'
    BY <2>2 DEF Going
  <2> QED BY <1>2, <2>1, <2>3, IngestMovesIInv
<1>6. CASE RowOf(i) # 0
  <2> DEFINE f == [NoFrame EXCEPT !.id = i]
  <2>1. f \in Frame /\ f.id = i /\ f.at = 0
    BY Counts DEF NoFrame, Frame
  <2>2. Suspends(r, "checked", f) /\ MayBeAt(r, "checked")
    BY <1>1, <1>3, <1>6, Kinds DEF MayBeAt
  <2> HIDE DEF f
  <2>3. pc'[r] = "checked" /\ frame'[r] = f
    BY <1>3, <2>2, OneMoves DEF IInv
  <2>4. i < nextId /\ nextId' = nextId
    BY <1>2, <1>6, RowOfFinds, RowFacts DEF IInv, Tables, table
  <2>5. Going(r)'
    BY <2>1, <2>3, <2>4 DEF Going
  <2> QED BY <1>2, <1>4, <2>1, <2>2, <2>5, IngestMovesIInv
<1> QED BY <1>5, <1>6

\* The frame of an ingest that writes.
WriteTo(i, u, s) == [NoFrame EXCEPT !.id = i, !.uri = u, !.sk = s]

LEMMA WritingFrame ==
  ASSUME NEW i, NEW u, NEW s
  PROVE  WriteTo(i, u, s) = [id |-> i, name |-> None, uri |-> u, at |-> 0, sk |-> s]
<1>1. [NoFrame EXCEPT !.id = i, !.uri = u, !.sk = s]
        = [[[NoFrame EXCEPT !.id = i] EXCEPT !.uri = u] EXCEPT !.sk = s]
  OBVIOUS
<1>2. [NoFrame EXCEPT !.id = i]
        = [id |-> i, name |-> None, uri |-> None, at |-> 0, sk |-> None]
  BY DEF NoFrame
<1>3. ASSUME NEW g, g = [id |-> i, name |-> None, uri |-> None, at |-> 0, sk |-> None]
      PROVE  [g EXCEPT !.uri = u] = [id |-> i, name |-> None, uri |-> u, at |-> 0, sk |-> None]
  BY <1>3
<1>4. ASSUME NEW g, g = [id |-> i, name |-> None, uri |-> u, at |-> 0, sk |-> None]
      PROVE  [g EXCEPT !.sk = s] = [id |-> i, name |-> None, uri |-> u, at |-> 0, sk |-> s]
  BY <1>4
<1> QED BY <1>1, <1>2, <1>3, <1>4 DEF WriteTo

\* Where an ingest writes: to the sink of the row, or to the default one.
LEMMA IngestWritesIInv ==
  ASSUME IInv, NEW r \in Ingest, IngestWrites(r)
  PROVE  IInv'
<1> DEFINE i == frame[r].id
           k == RowOf(i)
           u == IF k = 0 THEN None ELSE rows[k].uri
           s == IF u # None /\ i \in DOMAIN routes THEN routes[i] ELSE Default
           f == WriteTo(i, u, s)
<1>1. /\ pc[r] = "checked" /\ Suspends(r, "writing", f)
      /\ UNCHANGED <<table, routes, sinks, dangling, store, process, ghosts>>
  BY DEF IngestWrites, WriteTo
<1>2. r \in Request /\ r \notin Mutator /\ phase = "up" /\ MayBeAt(r, "writing")
  BY <1>1, Kinds DEF Request, IInv, Control, MayBeAt
<1>3. i \in Id /\ i < nextId
  BY <1>1, IngestFrame
<1>4. \A q \in Mutator : pc[q] \notin {"idle", "done"} => frame[q].id # i
  BY <1>1, <1>2, Kinds DEF IInv, Serial, Active
<1>5. ~InMotion(i)
  BY <1>4 DEF InMotion, Mutator
<1>6. u # None => /\ u \in Uri /\ i \in DOMAIN routes
                  /\ i \notin faulty => sinks[routes[i]] = Open(u)
  <2> SUFFICES ASSUME u # None
               PROVE  /\ u \in Uri /\ i \in DOMAIN routes
                      /\ i \notin faulty => sinks[routes[i]] = Open(u)
    OBVIOUS
  <2>1. k # 0 /\ u = rows[k].uri
    OBVIOUS
  <2>2. k \in DOMAIN rows /\ rows[k].id = i
    BY <2>1, RowOfFinds DEF IInv
  <2>3. rows[k] \in Row
    BY <2>2, RowFacts DEF IInv, Tables
  <2>4. u \in Uri
    BY <2>1, <2>3 DEF Row
  <2>5. RowRouted(rows[k])
    BY <1>5, <2>2 DEF IInv, Routing
  <2> HIDE DEF k, i, u
  <2> QED BY <2>1, <2>2, <2>4, <2>5 DEF RowRouted
<1>7. IF u = None THEN s = Default ELSE i \in DOMAIN routes /\ s = routes[i] /\ s \in Sink
  BY <1>6 DEF IInv, Routing
<1>8. u \in Uri \cup {None} /\ s \in Sink \cup {None, Default}
  BY <1>6, <1>7
<1> HIDE DEF i, k, u, s
<1>9. f = [id |-> i, name |-> None, uri |-> u, at |-> 0, sk |-> s]
  BY WritingFrame
<1> HIDE DEF f
<1>10. f.id = i /\ f.uri = u /\ f.sk = s /\ f.at = 0 /\ f \in Frame
  BY <1>3, <1>8, <1>9, Counts DEF Frame
<1>11. pc'[r] = "writing" /\ frame'[r] = f
  BY <1>1, <1>2, OneMoves DEF IInv
<1>12. Going(r)'
  BY <1>1, <1>3, <1>6, <1>7, <1>10, <1>11 DEF Going, table, ghosts
<1> QED BY <1>1, <1>2, <1>4, <1>10, <1>12, IngestMovesIInv

LEMMA IngestEndsIInv ==
  ASSUME IInv, NEW r \in Ingest, IngestEnds(r)
  PROVE  IInv'
<1>1. /\ pc[r] = "writing" /\ Suspends(r, "done", NoFrame) /\ NoFrame \in Frame
      /\ MayBeAt(r, "done")
      /\ UNCHANGED <<table, routes, sinks, dangling, store, process, ghosts>>
  BY NoFrameTyped DEF IngestEnds, Returns, MayBeAt
<1>2. r \in Request /\ phase = "up"
  BY <1>1 DEF Request, IInv, Control
<1>3. pc'[r] = "done"
  BY <1>1, <1>2, OneMoves DEF IInv
<1>4. Going(r)'
  BY <1>3 DEF Going
<1> QED BY <1>1, <1>2, <1>4, IngestMovesIInv

-----------------------------------------------------------------------------
(* The process *)

\* No row, and the first id.
LEMMA NoRows == GoodRows(<<>>, 1) /\ 1 <= Cardinality(Numbered) + 1
<1>1. <<>> \in Seq(Row) /\ DOMAIN <<>> = {}
  OBVIOUS
<1>2. 1 \in 1..Cardinality(Post) + 1
  BY Counts
<1> QED BY <1>1, <1>2, Counts DEF GoodRows

LEMMA EndsIInv ==
  ASSUME IInv, Ends, file' \in {file, Image}
  PROVE  IInv'
<1>1. /\ phase' = "down" /\ restarts' = restarts /\ restarts \in 0..MaxRestart
      /\ restarts < MaxRestart
      /\ rows' = <<>> /\ capacity' = 0 /\ nextId' = 1 /\ routes' = <<>>
      /\ dangling' = {} /\ saving' = <<>> /\ faulty' = {} /\ unsynced' = {}
      /\ given' = given /\ forgotten' = forgotten
  BY DEF Ends, IInv, Control
<1>2. \A r \in Request : /\ pc'[r] = IF r \in Active THEN "done" ELSE pc[r]
                         /\ pc'[r] \in {"idle", "done"}
                         /\ pc'[r] = "idle" => pc[r] = "idle"
  BY DEF Ends, Active
<1>3. file.next \in Nat /\ nextId \in Nat /\ Below(file.next) /\ Below(nextId)
  BY Counts DEF Ends, IInv, Tables, GoodRows, Stored
<1>4. Image.rows = rows /\ Image.next = nextId /\ Image \in [rows : Seq(Row), next : Nat]
  BY <1>3 DEF Image, IInv, Tables, GoodRows
<1>5. Control'
  <2>1. pc' \in [Request -> {"idle", "making", "closing", "changed", "saving",
                             "checked", "writing", "done"}]
    BY <1>2 DEF Ends
  <2>2. frame' \in [Request -> Frame]
    BY NoFrameTyped DEF Ends
  <2>3. \A r \in Request : MayBeAt(r, pc'[r])
    BY <1>2 DEF MayBeAt
  <2> QED BY <1>1, <1>2, <2>1, <2>2, <2>3 DEF Control
<1>6. Tables'
  <2>1. Numbered \subseteq Numbered'
    BY <1>2, Kinds DEF Numbered, Request, Mutator
  <2>2. nextId <= Cardinality(Numbered') + 1 /\ file.next <= Cardinality(Numbered') + 1
    BY <1>3, <2>1, Counts, CountStays DEF IInv, Tables
  <2>3. /\ file' \in [rows : Seq(Row), next : Nat] /\ GoodRows(file'.rows, file'.next)
        /\ file'.next <= Cardinality(Numbered') + 1
    BY <1>4, <2>2 DEF IInv, Tables
  <2>4. 1 <= Cardinality(Numbered') + 1
    BY <2>1, CountStays
  <2>5. GoodRows(<<>>, 1) /\ Len(<<>>) = 0
    BY NoRows
  <2> QED BY <1>1, <2>3, <2>4, <2>5 DEF Tables
<1>7. Serial' /\ Handlers'
  <2>1. \A r \in Mutator : Change(r)'
    BY <1>2, Kinds DEF Change
  <2>2. \A g \in Ingest : Going(g)'
    BY <1>2 DEF Going, Request
  <2>3. \A r \in Request : r \notin Active'
    BY <1>2 DEF Active
  <2> QED BY <1>1, <2>1, <2>2, <2>3, Kinds DEF Handlers, Serial
<1>8. Routing'
  BY <1>1 DEF Routing
<1>9. Sinks'
  <2>1. sinks' = [s \in Sink |-> IF sinks[s] = Unmade THEN Unmade ELSE Freed]
    BY DEF Ends
  <2>2. Unmade \in SinkState /\ Freed \in SinkState
    BY DEF Unmade, Freed, SinkState
  <2>3. \A r \in Post \cup Patch : pc'[r] \in {"idle", "making", "closing"} => pc[r] = "idle"
    BY <1>2, Kinds DEF Request, Mutator
  <2> QED BY <2>1, <2>2, <2>3 DEF IInv, Sinks, Sink
<1>10. Stored'
  <2>1. Below(file'.next)
    BY <1>3, <1>4
  <2> QED BY <1>1, <2>1 DEF IInv, Stored, Below
<1> QED BY <1>5, <1>6, <1>7, <1>8, <1>9, <1>10 DEF IInv

\* The id that goes on from the file is the one the file has.
LEMMA NextIdKept ==
  ASSUME Tables
  PROVE  NextIdOf(file) = file.next
<1> DEFINE candidates == {file.next} \cup {file.rows[k].id + 1 : k \in DOMAIN file.rows}
<1>1. file.next \in Nat
  BY DEF Tables
<1>2. \A k \in DOMAIN file.rows : file.rows[k].id \in Nat /\ file.rows[k].id < file.next
  <2>1. \A k \in DOMAIN file.rows : file.rows[k].id \in Id /\ file.rows[k].id < file.next
    BY RowFacts DEF Tables
  <2> QED BY <2>1 DEF Id
<1>3. \A m \in candidates : m \in Nat /\ m <= file.next
  BY <1>1, <1>2
<1>4. file.next \in candidates
  OBVIOUS
<1> HIDE DEF candidates
<1>5. \A n \in candidates : (\A m \in candidates : n >= m) <=> n = file.next
  BY <1>1, <1>3, <1>4
<1>6. (CHOOSE n \in candidates : \A m \in candidates : n >= m) = file.next
  BY <1>4, <1>5
<1> QED BY <1>6 DEF NextIdOf, candidates

LEMMA LoadsIInv ==
  ASSUME IInv, Restarts, Loads
  PROVE  IInv'
<1> DEFINE wanted == {k \in DOMAIN file.rows : file.rows[k].uri # None}
<1>1. PICK refused \in SUBSET wanted :
        /\ rows' = [k \in DOMAIN file.rows |->
                      IF k \in refused THEN [file.rows[k] EXCEPT !.uri = None]
                      ELSE file.rows[k]]
        /\ routes' = [i \in {file.rows[k].id : k \in wanted \ refused} |-> <<"loaded", i>>]
        /\ sinks' = [s \in Sink |->
                       IF \E k \in wanted \ refused : s = <<"loaded", file.rows[k].id>>
                       THEN Open(rows'[CHOOSE k \in wanted : s[2] = file.rows[k].id].uri)
                       ELSE sinks[s]]
        /\ unsynced' = {file.rows[k].id : k \in refused}
  BY DEF Loads, wanted
<1>2. /\ phase = "down" /\ phase' = "up" /\ restarts' = restarts + 1
      /\ capacity' \in Capacity(Len(file.rows))
      /\ UNCHANGED <<pc, frame, dangling, store, given, forgotten, faulty>>
  BY DEF Restarts, Loads
<1>3. nextId' = file.next
  BY NextIdKept DEF Loads, IInv
<1>4. /\ GoodRows(file.rows, file.next) /\ file \in [rows : Seq(Row), next : Nat]
      /\ file.rows \in Seq(Row) /\ file.next \in Nat
      /\ file.next <= Cardinality(Numbered) + 1
  BY DEF IInv, Tables
<1>5. \A r \in Request : pc[r] \in {"idle", "done"}
  BY <1>2 DEF IInv, Control
<1>6. \A k \in DOMAIN file.rows : file.rows[k] \in Row /\ file.rows[k].id \in Id
  BY <1>4, RowFacts
<1>7. \A j, k \in DOMAIN file.rows : j # k => file.rows[j].id # file.rows[k].id
  BY <1>4 DEF GoodRows
<1>8. /\ DOMAIN rows' = DOMAIN file.rows
      /\ \A k \in DOMAIN file.rows :
           /\ rows'[k] \in Row
           /\ rows'[k].id = file.rows[k].id /\ rows'[k].name = file.rows[k].name
           /\ k \in refused => rows'[k].uri = None
           /\ k \notin refused => rows'[k] = file.rows[k]
  <2>1. ASSUME NEW x \in Row
        PROVE  LET y == [x EXCEPT !.uri = None]
               IN y \in Row /\ y.id = x.id /\ y.name = x.name /\ y.uri = None
    BY DEF Row
  <2> QED BY <1>1, <1>6, <2>1
<1>9. rows' \in Seq(Row) /\ Len(rows') = Len(file.rows)
  <2>1. Len(file.rows) \in Nat /\ DOMAIN file.rows = 1..Len(file.rows)
    BY <1>4
  <2>2. DOMAIN rows' = 1..Len(file.rows)
    BY <1>8, <2>1
  <2>3. rows' = [k \in 1..Len(file.rows) |-> rows'[k]]
    BY <1>1, <2>1
  <2>4. \A k \in 1..Len(file.rows) : rows'[k] \in Row
    BY <1>8, <2>1
  <2> QED BY <2>1, <2>3, <2>4, IsASeq
<1>10. GoodRows(rows', nextId')
  BY <1>3, <1>4, <1>8, <1>9 DEF GoodRows
<1> HIDE DEF wanted
<1>11. Control'
  <2>1. restarts + 1 \in 0..MaxRestart
    BY <1>2, ServiceRegistryAssumption DEF IInv, Control
  <2> QED BY <1>2, <2>1 DEF IInv, Control
<1>12. Tables'
  <2>1. Numbered' = Numbered
    BY <1>2 DEF Numbered
  <2>2. capacity' \in Nat /\ Len(file.rows) <= capacity'
    BY <1>2, <1>4 DEF Capacity
  <2> QED BY <1>2, <1>3, <1>4, <1>9, <1>10, <2>1, <2>2 DEF IInv, Tables, store
<1>13. Serial' /\ Handlers'
  <2>1. pc' = pc /\ saving' = saving
    BY <1>2 DEF store
  <2>2. \A r \in Mutator : pc[r] \in {"idle", "done"}
    BY <1>5, Kinds
  <2>3. \A r \in Mutator : Change(r)'
    BY <2>1, <2>2 DEF Change
  <2>4. \A g \in Ingest : Going(g)'
    BY <1>5, <2>1 DEF Going, Request
  <2>5. saving = <<>>
    BY <2>2 DEF IInv, Handlers
  <2>6. \A r \in Mutator : r \notin Active'
    BY <2>1, <2>2 DEF Active
  <2> QED BY <2>1, <2>3, <2>4, <2>5, <2>6 DEF Handlers, Serial
<1>14. DOMAIN routes' = {file.rows[k].id : k \in wanted \ refused}
  BY <1>1
<1>15. ASSUME NEW k \in wanted \ refused
       PROVE  LET i == file.rows[k].id IN
              /\ k \in DOMAIN file.rows /\ i \in Id /\ i \in DOMAIN routes'
              /\ routes'[i] = <<"loaded", i>> /\ routes'[i] \in Sink
              /\ rows'[k] = file.rows[k] /\ rows'[k].uri \in Uri
              /\ sinks'[routes'[i]] = Open(rows'[k].uri)
  <2> DEFINE i == file.rows[k].id
  <2>1. k \in DOMAIN file.rows /\ i \in Id /\ i \in DOMAIN routes' /\ k \in wanted
    BY <1>6, <1>14 DEF wanted
  <2>2. routes'[i] = <<"loaded", i>> /\ <<"loaded", i>> \in Sink
    BY <1>1, <2>1 DEF Sink, Loaded
  <2>3. rows'[k] = file.rows[k] /\ rows'[k].uri \in Uri
    BY <1>6, <1>8, <2>1 DEF wanted, Row
  <2>4. \A j \in wanted : <<"loaded", i>>[2] = file.rows[j].id <=> j = k
    BY <1>7, <2>1 DEF wanted
  <2>5. (CHOOSE j \in wanted : <<"loaded", i>>[2] = file.rows[j].id) = k
    BY <2>1, <2>4
  <2>6. \E j \in wanted \ refused : <<"loaded", i>> = <<"loaded", file.rows[j].id>>
    OBVIOUS
  <2>7. sinks'[<<"loaded", i>>] = Open(rows'[k].uri)
    BY <1>1, <2>2, <2>5, <2>6
  <2> QED BY <2>1, <2>2, <2>3, <2>7
<1>16. Routing'
  <2>1. \A i \in DOMAIN routes' : \E k \in wanted \ refused : i = file.rows[k].id
    BY <1>14
  <2>2. ASSUME NEW i \in DOMAIN routes'
        PROVE  /\ i \in Id /\ routes'[i] \in Sink
               /\ \E k \in DOMAIN rows' : rows'[k].id = i
               /\ sinks'[routes'[i]].st \in {"open", "closed"}
               /\ routes'[i] = <<"loaded", i>>
    <3>1. PICK k \in wanted \ refused : i = file.rows[k].id
      BY <2>1
    <3>2. Open(rows'[k].uri).st = "open"
      BY DEF Open
    <3> QED BY <1>8, <1>15, <3>1, <3>2
  <2>3. \A i, j \in DOMAIN routes' : routes'[i] = routes'[j] => i = j
    BY <2>2
  <2>4. ASSUME NEW k \in DOMAIN rows' PROVE RowRouted(rows[k])'
    <3>1. CASE k \in wanted \ refused
      BY <1>8, <1>15, <3>1, Kinds DEF RowRouted
    <3>2. CASE k \notin wanted \ refused
      <4>1. rows'[k].uri = None
        BY <1>8, <3>2 DEF wanted
      <4>2. rows'[k].id \notin DOMAIN routes'
        BY <1>7, <1>8, <2>1, <3>2 DEF wanted
      <4> QED BY <4>1, <4>2 DEF RowRouted
    <3> QED BY <3>1, <3>2
  <2> QED BY <2>2, <2>3, <2>4 DEF Routing
<1>17. Sinks'
  <2>1. \A k \in wanted \ refused : Open(rows'[k].uri) \in SinkState
    BY <1>15 DEF Open, SinkState
  <2>2. ASSUME NEW s \in Sink PROVE sinks'[s] \in SinkState
    <3>1. CASE \E k \in wanted \ refused : s = <<"loaded", file.rows[k].id>>
      BY <1>15, <2>1, <3>1
    <3>2. CASE ~\E k \in wanted \ refused : s = <<"loaded", file.rows[k].id>>
      BY <1>1, <3>2 DEF IInv, Sinks
    <3> QED BY <3>1, <3>2
  <2>3. sinks' \in [Sink -> SinkState]
    BY <1>1, <2>2
  <2>4. ASSUME NEW r \in Post \cup Patch PROVE sinks'[r] = sinks[r]
    <3>1. ~\E k \in wanted \ refused : r = <<"loaded", file.rows[k].id>>
      <4>1. \A k \in wanted \ refused : <<"loaded", file.rows[k].id>> \in Loaded
        BY <1>15 DEF Loaded
      <4> QED BY <4>1, Kinds
    <3> QED BY <1>1, <3>1 DEF Sink
  <2> QED BY <1>2, <2>3, <2>4 DEF IInv, Sinks
<1>18. Stored'
  <2>1. file' = file /\ given' = given /\ forgotten' = forgotten /\ faulty' = faulty
    BY <1>2 DEF store
  <2>2. unsynced' \subseteq Id
    BY <1>1, <1>6 DEF wanted
  <2>3. ASSUME unsynced' = {} PROVE file' = Image'
    <3>1. refused = {}
      BY <1>1, <2>3
    <3>2. rows' = [k \in DOMAIN file.rows |-> file.rows[k]]
      BY <1>1, <3>1
    <3>3. rows' = file.rows
      BY <1>4, <3>2
    <3>4. file = [rows |-> file.rows, next |-> file.next]
      BY <1>4
    <3> QED BY <1>3, <2>1, <3>3, <3>4 DEF Image
  <2>4. Below(file.next)' /\ Below(nextId)'
    BY <1>3, <2>1 DEF IInv, Stored, Below
  <2> QED BY <1>2, <2>1, <2>2, <2>3, <2>4 DEF IInv, Stored
<1> QED BY <1>11, <1>12, <1>13, <1>16, <1>17, <1>18 DEF IInv

\* Without ids there are no rows.
LEMMA NoIdNoRow ==
  ASSUME NEW rs, GoodRows(rs, 1)
  PROVE  rs = <<>>
<1>1. rs \in Seq(Row)
  BY DEF GoodRows
<1>2. CASE rs # <<>>
  <2>1. Len(rs) \in Nat \ {0} /\ DOMAIN rs = 1..Len(rs)
    BY <1>1, <1>2, EmptySeq, LenProperties
  <2>2. 1 \in DOMAIN rs
    BY <2>1
  <2>3. 1 < 1
    BY <2>2, RowFacts
  <2> QED BY <2>3
<1> QED BY <1>2

\* A load that gives up leaves the registry empty, and every service unsynced.
LEMMA GivesUpIInv ==
  ASSUME IInv, Restarts, GivesUp
  PROVE  IInv'
<1>1. /\ phase = "down" /\ phase' = "up" /\ restarts' = restarts + 1
      /\ UNCHANGED <<pc, frame, dangling, store, given, faulty, table, routes, sinks>>
      /\ forgotten' = {p \in Post : given[p] # None}
      /\ unsynced' = 1..file.next - 1
  BY DEF Restarts, GivesUp
<1>2. \A r \in Request : pc[r] \in {"idle", "done"}
  BY <1>1 DEF IInv, Control
<1>3. Control'
  <2>1. restarts + 1 \in 0..MaxRestart
    BY <1>1, ServiceRegistryAssumption DEF IInv, Control
  <2> QED BY <1>1, <2>1 DEF IInv, Control
<1>4. Tables'
  BY <1>1 DEF IInv, Tables, Numbered, table, store
<1>5. Serial' /\ Handlers'
  <2>1. \A r \in Mutator : pc[r] \in {"idle", "done"}
    BY <1>2, Kinds
  <2>2. \A r \in Mutator : Change(r)'
    BY <1>1, <2>1 DEF Change
  <2>3. \A g \in Ingest : Going(g)'
    BY <1>1, <1>2 DEF Going, Request
  <2>4. saving' = <<>>
    BY <1>1, <2>1 DEF IInv, Handlers, store
  <2>5. \A r \in Mutator : r \notin Active'
    BY <1>1, <2>1 DEF Active
  <2> QED BY <2>2, <2>3, <2>4, <2>5 DEF Handlers, Serial
<1>6. Routing'
  BY <1>1 DEF IInv, Routing, InMotion, RowRouted, table
<1>7. Sinks'
  BY <1>1 DEF IInv, Sinks
<1>8. Stored'
  <2>1. \A p \in Post \ forgotten' : given[p] = None
    BY <1>1
  <2>2. Below(file.next)' /\ Below(nextId)'
    BY <1>1, <2>1 DEF Below
  <2>3. unsynced' \subseteq Id
    BY <1>1, Counts DEF IInv, Tables, GoodRows, Id
  <2>4. ASSUME unsynced' = {} PROVE file' = Image'
    <3>1. file.next = 1
      BY <1>1, <2>4, Counts DEF IInv, Tables, GoodRows
    <3>2. file.rows = <<>>
      BY <3>1, NoIdNoRow DEF IInv, Tables
    <3>3. file = [rows |-> file.rows, next |-> file.next]
      BY DEF IInv, Tables
    <3>4. rows' = <<>> /\ nextId' = 1 /\ file' = file
      BY <1>1 DEF IInv, Stored, table, store
    <3> QED BY <3>1, <3>2, <3>3, <3>4 DEF Image
  <2> QED BY <1>1, <2>1, <2>2, <2>3, <2>4 DEF IInv, Stored
<1> QED BY <1>3, <1>4, <1>5, <1>6, <1>7, <1>8 DEF IInv

-----------------------------------------------------------------------------
(* The invariant is inductive *)

LEMMA InitIInv == Init => IInv
<1> SUFFICES ASSUME Init PROVE IInv
  OBVIOUS
<1>1. \A r \in Request : pc[r] = "idle"
  BY DEF Init
<1>2. Control
  BY NoFrameTyped, ServiceRegistryAssumption DEF Init, Control, MayBeAt
<1>3. Tables
  <2>1. file.rows = <<>> /\ file.next = 1 /\ file \in [rows : Seq(Row), next : Nat]
    <3>1. <<>> \in Seq(Row) /\ 1 \in Nat
      OBVIOUS
    <3> QED BY <3>1 DEF Init
  <2> QED BY <2>1, NoRows DEF Init, Tables
<1>4. Serial /\ Handlers
  <2>1. \A r \in Mutator : Change(r)
    BY <1>1, Kinds DEF Change
  <2>2. \A g \in Ingest : Going(g)
    BY <1>1 DEF Going, Request
  <2>3. \A r \in Mutator : r \notin Active
    BY <1>1 DEF Active
  <2>4. saving = <<>>
    BY DEF Init
  <2> QED BY <2>1, <2>2, <2>3, <2>4 DEF Serial, Handlers
<1>5. Routing
  BY DEF Init, Routing
<1>6. Sinks
  BY DEF Init, Sinks, SinkState, Unmade, Sink
<1>7. Stored
  <2>1. file = Image
    BY DEF Init, Image
  <2> QED BY <2>1 DEF Init, Stored, Below
<1> QED BY <1>2, <1>3, <1>4, <1>5, <1>6, <1>7 DEF IInv

\* A step that changes nothing.
LEMMA StutterIInv == IInv /\ UNCHANGED vars => IInv'
<1> SUFFICES ASSUME IInv, UNCHANGED vars PROVE IInv'
  OBVIOUS
<1> USE DEF vars, table, store, process, ghosts
<1>1. Control'
  BY DEF IInv, Control
<1>2. Tables'
  BY DEF IInv, Tables, Numbered
<1>3. Serial'
  BY DEF IInv, Serial, Active
<1>4. Routing'
  BY DEF IInv, Routing, InMotion, RowRouted
<1>5. Sinks'
  BY DEF IInv, Sinks
<1>6. Handlers'
  <2>1. \A r \in Mutator : Change(r)'
    BY DEF IInv, Handlers, Change, Below, Image
  <2>2. \A g \in Ingest : Going(g)'
    BY DEF IInv, Handlers, Going
  <2> QED BY <2>1, <2>2 DEF IInv, Handlers
<1>7. Stored'
  BY DEF IInv, Stored, Below, Dirty, Image
<1> QED BY <1>1, <1>2, <1>3, <1>4, <1>5, <1>6, <1>7 DEF IInv

LEMMA NextIInv == ~Overlap /\ IInv /\ [Next]_vars => IInv'
<1> SUFFICES ASSUME ~Overlap, IInv, [Next]_vars PROVE IInv'
  OBVIOUS
<1>1. ASSUME NEW r \in Post, PostArrives(r) \/ PostStep(r) PROVE IInv'
  <2>1. CASE PostArrives(r)
    BY <2>1, PostArrivesIInv
  <2>2. CASE PostMakesSink(r)
    BY <2>2, PostMakesSinkIInv
  <2>3. CASE PostFails(r)
    BY <2>3, PostFailsIInv
  <2>4. CASE Serializes(r)
    BY <2>4, SerializesIInv DEF Mutator
  <2> QED BY <1>1, <2>1, <2>2, <2>3, <2>4 DEF PostStep
<1>2. ASSUME NEW r \in Patch, PatchArrives(r) \/ PatchStep(r) PROVE IInv'
  <2>1. CASE PatchArrives(r)
    BY <2>1, PatchArrivesIInv
  <2>2. CASE PatchCloses(r)
    BY <2>2, PatchClosesIInv
  <2>3. CASE CloseThrows(r)
    BY <2>3, CloseThrowsIInv
  <2>4. CASE PatchMakesSink(r)
    BY <2>4, PatchMakesSinkIInv
  <2>5. CASE PatchFails(r)
    BY <2>5, PatchFailsIInv
  <2>6. CASE Serializes(r)
    BY <2>6, SerializesIInv DEF Mutator
  <2> QED BY <1>2, <2>1, <2>2, <2>3, <2>4, <2>5, <2>6 DEF PatchStep
<1>3. ASSUME NEW r \in Delete, DeleteArrives(r) \/ DeleteStep(r) PROVE IInv'
  <2>1. CASE DeleteArrives(r)
    BY <2>1, DeleteArrivesIInv
  <2>2. CASE DeleteCloses(r)
    BY <2>2, DeleteClosesIInv
  <2>3. CASE CloseThrows(r)
    BY <2>3, CloseThrowsIInv
  <2>4. CASE Serializes(r)
    BY <2>4, SerializesIInv DEF Mutator
  <2> QED BY <1>3, <2>1, <2>2, <2>3, <2>4 DEF DeleteStep
<1>4. ASSUME NEW r \in Ingest, IngestArrives(r) \/ IngestStep(r) PROVE IInv'
  BY <1>4, IngestArrivesIInv, IngestWritesIInv, IngestEndsIInv DEF IngestStep
<1>5. CASE Saves
  BY <1>5, SavesIInv
<1>6. CASE Crashes \/ Stops
  BY <1>6, EndsIInv DEF Crashes, Stops
<1>7. CASE Restarts
  BY <1>7, LoadsIInv, GivesUpIInv DEF Restarts
<1>8. CASE Quiet \/ UNCHANGED vars
  BY <1>8, StutterIInv DEF Quiet
<1> QED BY <1>1, <1>2, <1>3, <1>4, <1>5, <1>6, <1>7, <1>8 DEF Next

LEMMA Inductive == ~Overlap /\ Spec => []IInv
<1> SUFFICES ASSUME ~Overlap PROVE Spec => []IInv
  OBVIOUS
<1>1. IInv /\ [Next]_vars => IInv'
  BY NextIInv
<1> QED BY <1>1, InitIInv, PTL DEF Spec

-----------------------------------------------------------------------------
(* Theorems *)

\* Type correctness of the registry.
THEOREM TypeCorrect == ~Overlap /\ Spec => []TypeOK
<1> SUFFICES ASSUME ~Overlap PROVE Spec => []TypeOK
  OBVIOUS
<1> QED BY Inductive, IInvTypeOK, PTL

\* add_admin_service's check of the name suffices when requests do not overlap.
THEOREM OneServicePerName == ~Overlap /\ Spec => []NamesUnique
<1> SUFFICES ASSUME ~Overlap PROVE Spec => []NamesUnique
  OBVIOUS
<1>1. IInv => NamesUnique
  BY DEF IInv, Tables, GoodRows, NamesUnique
<1> QED BY <1>1, Inductive, PTL

\* An id that was answered and stored is not given again, whatever is deleted,
\* lost or restarted, unless a start could not read the file.
THEOREM IdsUsedOnce == ~Overlap /\ Spec => []IdsNeverReused
<1> SUFFICES ASSUME ~Overlap PROVE Spec => []IdsNeverReused
  OBVIOUS
<1>1. IInv => IdsNeverReused
  BY DEF IInv, Tables, GoodRows, Stored, IdsNeverReused
<1> QED BY <1>1, Inductive, PTL

\* _service_sinks agrees with the rows whenever no change is under way.
THEOREM RowsAreRouted == ~Overlap /\ Spec => []RoutesMatchRows
<1> SUFFICES ASSUME ~Overlap PROVE Spec => []RoutesMatchRows
  OBVIOUS
<1>1. IInv => RoutesMatchRows
  <2> SUFFICES ASSUME IInv, phase = "up", Active \cap Mutator = {}
               PROVE  /\ DOMAIN routes \subseteq {rows[k].id : k \in DOMAIN rows}
                      /\ \A k \in DOMAIN rows : rows[k].id \notin faulty =>
                           /\ rows[k].uri # None <=> rows[k].id \in DOMAIN routes
                           /\ rows[k].uri # None => sinks[routes[rows[k].id]] = Open(rows[k].uri)
    BY DEF RoutesMatchRows
  <2>1. \A i : ~InMotion(i)
    BY Kinds DEF InMotion, Active, Mutator
  <2>2. \A k \in DOMAIN rows : RowRouted(rows[k])
    BY <2>1 DEF IInv, Routing
  <2> QED BY <2>2 DEF IInv, Routing, RowRouted
<1> QED BY <1>1, Inductive, PTL

\* An ingested payload goes where its service's row says.
THEOREM IngestGoesRight == ~Overlap /\ Spec => []IngestRouted
<1> SUFFICES ASSUME ~Overlap PROVE Spec => []IngestRouted
  OBVIOUS
<1>1. Default \notin Sink
  <2>1. Default \notin Loaded
    BY DEF Default, Loaded
  <2> QED BY <2>1, ServiceRegistryAssumption DEF Sink, Request, Mutator
<1>2. IInv => IngestRouted
  <2> SUFFICES ASSUME IInv, NEW r \in Ingest, pc[r] = "writing", frame[r].id \notin faulty
               PROVE  IF frame[r].uri = None THEN frame[r].sk = Default
                      ELSE frame[r].sk # Default /\ sinks[frame[r].sk] = Open(frame[r].uri)
    BY DEF IngestRouted
  <2>1. frame[r].uri # None => frame[r].sk \in Sink
    BY DEF IInv, Handlers, Going, Routing
  <2> QED BY <1>1, <2>1 DEF IInv, Handlers, Going
<1> QED BY <1>2, Inductive, PTL

\* Between changes the state file has the registry, but for what was not saved and
\* what a start could not read.
THEOREM FileFollows == ~Overlap /\ Spec => []FileInSync
<1> SUFFICES ASSUME ~Overlap PROVE Spec => []FileInSync
  OBVIOUS
<1>1. IInv => FileInSync
  <2> SUFFICES ASSUME IInv, phase = "up", Active \cap Mutator = {}, unsynced = {}
               PROVE  file = Image
    BY DEF FileInSync
  <2>1. ~Dirty
    BY Kinds DEF Dirty, Active
  <2> QED BY <2>1 DEF IInv, Stored
<1> QED BY <1>1, Inductive, PTL

=============================================================================
