-------------------------- MODULE StateFile_proofs --------------------------
(***************************************************************************)
(* Proofs about StateFile, for any number of changes, stops and crashes.   *)
(***************************************************************************)
EXTENDS StateFile, TLAPS

\* Queueing a request: the queue grows at its end.
LEMMA AppendQueue ==
  ASSUME NEW q \in Seq(Request), NEW r \in Request
  PROVE  /\ Append(q, r) \in Seq(Request)
         /\ DOMAIN Append(q, r) = DOMAIN q \cup {Len(q) + 1}
         /\ Len(q) + 1 \notin DOMAIN q
         /\ \A i \in DOMAIN q : Append(q, r)[i] = q[i] /\ i < Len(q) + 1
         /\ Append(q, r)[Len(q) + 1] = r
         /\ q # <<>> => Head(Append(q, r)) = Head(q)
  OBVIOUS

\* Leaving the queue: it shrinks at its front.
LEMMA TailQueue ==
  ASSUME NEW q \in Seq(Request), q # <<>>
  PROVE  /\ Tail(q) \in Seq(Request) /\ Head(q) \in Request
         /\ 1 \in DOMAIN q /\ q[1] = Head(q)
         /\ \A i \in DOMAIN Tail(q) : i + 1 \in DOMAIN q /\ Tail(q)[i] = q[i + 1] /\ 0 < i
         /\ \A i \in DOMAIN q : i # 1 => i - 1 \in DOMAIN Tail(q) /\ q[i] = Tail(q)[i - 1]
         /\ DOMAIN q \subseteq Nat /\ DOMAIN Tail(q) \subseteq Nat
  OBVIOUS

\* Whoever is inside persist has a place in the queue; its writer has the first.
LEMMA HolderFirst ==
  ASSUME IInv, NEW r \in Request,
         \/ pc[r] = "queued" /\ Head(queue) = r
         \/ pc[r] = "opened"
         \/ pc[r] = "written"
  PROVE  queue # <<>> /\ Head(queue) = r /\ queue \in Seq(Request)
  <1>1. pc[r] \in InQueue
    BY DEF InQueue
  <1>2. \E i \in DOMAIN queue : queue[i] = r
    BY <1>1 DEF IInv, QueueOK
  <1>3. queue \in Seq(Request)
    BY DEF IInv, TypeOK
  <1>4. queue # <<>>
    BY <1>2, <1>3
  <1>5. QED BY <1>3, <1>4 DEF IInv, OneWriter

\* The holder leaves: the queue keeps holding exactly the others, in their order.
LEMMA LeaveQueue ==
  ASSUME IInv, NEW r \in Request, Head(queue) = r, queue # <<>>,
         NEW o \in {"saved", "unsaved"}, LeavesQueue(r, o)
  PROVE  /\ pc' \in [Request -> Pc] /\ queue' \in Seq(Request)
         /\ pc'[r] = o /\ \A q \in Request : q # r => pc'[q] = pc[q]
         /\ pc[r] \in InQueue
         /\ QueueOK'
         /\ \A i \in DOMAIN queue' : /\ i + 1 \in DOMAIN queue
                                     /\ queue'[i] = queue[i + 1]
                                     /\ i \in Nat /\ 0 < i
         /\ \A q \in Request : pc'[q] \notin {"opened", "written"}
  <1>1. queue \in Seq(Request) /\ pc \in [Request -> Pc]
    BY DEF IInv, TypeOK
  <1>2. queue' = Tail(queue) /\ pc' = [pc EXCEPT ![r] = o]
    BY DEF LeavesQueue
  <1>3. pc' \in [Request -> Pc]
    BY <1>1, <1>2 DEF Pc, Live
  <1>4. pc'[r] = o /\ \A q \in Request : q # r => pc'[q] = pc[q]
    BY <1>1, <1>2
  <1>5. queue' \in Seq(Request) /\ \A i \in DOMAIN queue' : /\ i + 1 \in DOMAIN queue
                                                            /\ queue'[i] = queue[i + 1]
                                                            /\ i \in Nat /\ 0 < i
    BY <1>1, <1>2, TailQueue
  <1>6. 1 \in DOMAIN queue /\ queue[1] = r
    BY <1>1, TailQueue
  <1>7. pc[r] \in InQueue
    BY <1>6 DEF IInv, QueueOK
  <1>8. \A i, j \in DOMAIN queue' : queue'[i] = queue'[j] => i = j
    <2> TAKE i, j \in DOMAIN queue'
    <2>1. queue[i + 1] = queue[j + 1] => i + 1 = j + 1
      BY <1>5 DEF IInv, QueueOK
    <2>2. QED BY <2>1, <1>5
  <1>9. ASSUME NEW q \in Request
        PROVE  pc'[q] \in InQueue <=> \E i \in DOMAIN queue' : queue'[i] = q
    <2>1. CASE q = r
      <3>1. \A i \in DOMAIN queue' : queue'[i] # r
        <4> TAKE i \in DOMAIN queue'
        <4>1. i + 1 \in DOMAIN queue /\ queue'[i] = queue[i + 1] /\ i + 1 # 1
          BY <1>5
        <4>2. QED BY <4>1, <1>6 DEF IInv, QueueOK
      <3>2. QED BY <2>1, <3>1, <1>4 DEF InQueue
    <2>2. CASE q # r
      <3>1. ASSUME NEW i \in DOMAIN queue, queue[i] = q
            PROVE  \E k \in DOMAIN queue' : queue'[k] = q
        <4>1. i # 1
          BY <3>1, <2>2, <1>6
        <4>2. i - 1 \in DOMAIN queue' /\ queue'[i - 1] = q
          BY <4>1, <3>1, <1>1, <1>2, TailQueue
        <4>3. QED BY <4>2
      <3>2. pc[q] \in InQueue <=> \E i \in DOMAIN queue : queue[i] = q
        BY DEF IInv, QueueOK
      <3>3. QED BY <2>2, <3>1, <3>2, <1>4, <1>5
    <2>3. QED BY <2>1, <2>2
  <1>10. \A q \in Request : pc'[q] \notin {"opened", "written"}
    BY <1>4 DEF IInv, OneWriter
  <1>11. QED BY <1>3, <1>4, <1>5, <1>7, <1>8, <1>9, <1>10 DEF QueueOK

\* The inductive invariant holds initially.
LEMMA InitInvariant == Init => IInv
  <1> SUFFICES ASSUME Init PROVE IInv
    OBVIOUS
  <1> USE StateFileAssumption
  <1>1. TypeOK
    BY DEF Init, TypeOK, Pc, Live, Registry, File, Absent
  <1>2. Durable /\ OneWriter /\ SnapshotsInOrder /\ QueueOK
    BY DEF Init, Durable, OneWriter, SnapshotsInOrder, QueueOK, InQueue, Absent, Request
  <1>3. ChangesOK
    BY DEF Init, ChangesOK, InQueue, Live, Absent, Request
  <1>4. QED BY <1>1, <1>2, <1>3 DEF IInv

\* A change in memory (with or without a persist to follow) keeps the invariant.
LEMMA ChangesInvariant ==
  ASSUME IInv, NEW c \in Change, Changes(c) \/ ChangesAndRejects(c)
  PROVE  IInv'
  <1>1. /\ phase = "up" /\ pc[c] = "idle" /\ reg' = reg \cup {c} /\ c \in Request
        /\ pc' = [pc EXCEPT ![c] = "changed"] \/ pc' = [pc EXCEPT ![c] = "rejected"]
        /\ UNCHANGED <<snap, queue, tmp, path, unread, lost, phase, crashes>>
    BY DEF Changes, ChangesAndRejects, Request
  <1>2. /\ pc' \in [Request -> Pc] /\ pc'[c] \in {"changed", "rejected"}
        /\ \A q \in Request : q # c => pc'[q] = pc[q]
    BY <1>1 DEF IInv, TypeOK, Pc, Live
  <1>3. TypeOK'
    BY <1>1, <1>2 DEF IInv, TypeOK, Registry
  <1>4. QueueOK'
    BY <1>1, <1>2 DEF IInv, QueueOK, InQueue
  <1>5. OneWriter'
    BY <1>1, <1>2 DEF IInv, OneWriter
  <1>6. SnapshotsInOrder'
    BY <1>1 DEF IInv, SnapshotsInOrder
  <1>7. Durable'
    BY <1>1, <1>2 DEF IInv, Durable, Request
  <1>8. ChangesOK'
    <2>1. pc'[c] \notin InQueue /\ c \notin lost /\ c \notin Stop
      BY <1>1, <1>2, StateFileAssumption DEF IInv, ChangesOK, InQueue
    <2>2. \A z \in Stop : pc'[z] \in Live => phase' = "stopping"
      BY <1>1, <1>2, <2>1 DEF IInv, ChangesOK, Request
    <2>3. QED BY <1>1, <1>2, <2>1, <2>2 DEF IInv, ChangesOK, Live, InQueue, Request
  <1>9. QED BY <1>3, <1>4, <1>5, <1>6, <1>7, <1>8 DEF IInv

\* The beginning of a stop keeps the invariant.
LEMMA StopBeginsInvariant ==
  ASSUME IInv, NEW z \in Stop, StopBegins(z)
  PROVE  IInv'
  <1>1. /\ phase = "up" /\ pc[z] = "idle" /\ z \in Request /\ z \notin Change
        /\ phase' = "stopping" /\ pc' = [pc EXCEPT ![z] = "changed"]
        /\ UNCHANGED <<reg, snap, queue, tmp, path, unread, lost, crashes>>
    BY StateFileAssumption DEF StopBegins, Request
  <1>2. /\ pc' \in [Request -> Pc] /\ pc'[z] = "changed"
        /\ \A q \in Request : q # z => pc'[q] = pc[q]
    BY <1>1 DEF IInv, TypeOK, Pc, Live
  <1>3. TypeOK'
    BY <1>1, <1>2 DEF IInv, TypeOK
  <1>4. QueueOK'
    BY <1>1, <1>2 DEF IInv, QueueOK, InQueue
  <1>5. OneWriter' /\ SnapshotsInOrder'
    BY <1>1, <1>2 DEF IInv, OneWriter, SnapshotsInOrder
  <1>6. Durable' /\ ChangesOK'
    BY <1>1, <1>2 DEF IInv, Durable, ChangesOK, Live, InQueue, Request
  <1>7. QED BY <1>3, <1>4, <1>5, <1>6 DEF IInv

\* A request that serializes the registry and queues keeps the invariant.
LEMMA SerializesInvariant ==
  ASSUME IInv, NEW r \in Request, Serializes(r)
  PROVE  IInv'
  <1>1. /\ pc[r] = "changed"
        /\ snap' = [snap EXCEPT ![r] = reg] /\ queue' = Append(queue, r)
        /\ pc' = [pc EXCEPT ![r] = "queued"]
        /\ UNCHANGED <<reg, tmp, path, unread, lost, phase, crashes>>
    BY DEF Serializes
  <1>2. /\ pc \in [Request -> Pc] /\ snap \in [Request -> Registry]
        /\ reg \in Registry /\ queue \in Seq(Request)
    BY DEF IInv, TypeOK
  <1>3. /\ pc' \in [Request -> Pc] /\ pc'[r] = "queued"
        /\ \A q \in Request : q # r => pc'[q] = pc[q]
    BY <1>1, <1>2 DEF Pc, Live, InQueue
  <1>4. /\ snap' \in [Request -> Registry] /\ snap'[r] = reg
        /\ \A q \in Request : q # r => snap'[q] = snap[q]
    BY <1>1, <1>2
  <1>5. /\ queue' \in Seq(Request)
        /\ DOMAIN queue' = DOMAIN queue \cup {Len(queue) + 1}
        /\ Len(queue) + 1 \notin DOMAIN queue
        /\ \A i \in DOMAIN queue : queue'[i] = queue[i] /\ i < Len(queue) + 1
        /\ queue'[Len(queue) + 1] = r
        /\ queue # <<>> => Head(queue') = Head(queue)
    BY <1>1, <1>2, AppendQueue
  <1>6. \A i \in DOMAIN queue : queue[i] # r /\ queue[i] \in Request
    BY <1>1, <1>2 DEF IInv, QueueOK, InQueue
  <1>7. TypeOK'
    BY <1>1, <1>3, <1>4, <1>5 DEF IInv, TypeOK
  <1>8. QueueOK'
    <2>1. \A i, j \in DOMAIN queue' : queue'[i] = queue'[j] => i = j
      BY <1>5, <1>6 DEF IInv, QueueOK
    <2>2. ASSUME NEW q \in Request
          PROVE  pc'[q] \in InQueue <=> \E i \in DOMAIN queue' : queue'[i] = q
      <3>1. CASE q = r
        BY <3>1, <1>3, <1>5 DEF InQueue
      <3>2. CASE q # r
        BY <3>2, <1>3, <1>5 DEF IInv, QueueOK
      <3>3. QED BY <3>1, <3>2
    <2>3. QED BY <2>1, <2>2 DEF QueueOK
  <1>9. OneWriter'
    <2>1. ASSUME NEW q \in Request, pc'[q] \in {"opened", "written"}
          PROVE  /\ queue' # <<>> /\ Head(queue') = q
                 /\ pc'[q] = "written" => tmp' = Whole(snap'[q])
      <3>1. q # r /\ pc[q] = pc'[q]
        BY <2>1, <1>3
      <3>2. queue # <<>> /\ Head(queue) = q
        BY <2>1, <3>1 DEF IInv, OneWriter
      <3>3. queue' # <<>>
        BY <1>5
      <3>4. QED BY <3>1, <3>2, <3>3, <1>1, <1>4, <1>5 DEF IInv, OneWriter
    <2>2. QED BY <2>1 DEF OneWriter
  <1>10. path.reg \ lost \subseteq reg
    <2>1. phase # "down"
      BY <1>1 DEF IInv, ChangesOK, Live
    <2>2. QED BY <2>1 DEF IInv, ChangesOK
  <1>11. \A i \in DOMAIN queue : snap[queue[i]] \subseteq reg
    BY <1>2 DEF IInv, ChangesOK, QueueOK
  <1>12. SnapshotsInOrder'
    <2>1. ASSUME NEW i \in DOMAIN queue', NEW j \in DOMAIN queue', i < j
          PROVE  snap'[queue'[i]] \subseteq snap'[queue'[j]]
      <3>1. i \in DOMAIN queue
        BY <2>1, <1>2, <1>5
      <3>2. snap'[queue'[i]] = snap[queue[i]]
        BY <3>1, <1>4, <1>5, <1>6
      <3>3. CASE j \in DOMAIN queue
        <4>1. snap'[queue'[j]] = snap[queue[j]]
          BY <3>3, <1>4, <1>5, <1>6
        <4>2. QED BY <2>1, <3>1, <3>2, <3>3, <4>1 DEF IInv, SnapshotsInOrder
      <3>4. CASE j = Len(queue) + 1
        BY <3>1, <3>2, <3>4, <1>4, <1>5, <1>11
      <3>5. QED BY <3>3, <3>4, <1>5
    <2>2. ASSUME NEW i \in DOMAIN queue'
          PROVE  path'.reg \ lost' \subseteq snap'[queue'[i]]
      <3>1. CASE i \in DOMAIN queue
        BY <3>1, <1>1, <1>4, <1>5, <1>6 DEF IInv, SnapshotsInOrder
      <3>2. CASE i = Len(queue) + 1
        BY <3>2, <1>1, <1>4, <1>5, <1>10
      <3>3. QED BY <3>1, <3>2, <1>5
    <2>3. QED BY <2>1, <2>2 DEF SnapshotsInOrder
  <1>13. Durable'
    BY <1>1, <1>3 DEF IInv, Durable, Request
  <1>14. ChangesOK'
    <2>1. r \in Change => r \in reg
      BY <1>1 DEF IInv, ChangesOK, Live
    <2>2. \A c \in Change : pc'[c] \in InQueue => c \in snap'[c]
      BY <1>3, <1>4, <2>1 DEF IInv, ChangesOK, Request
    <2>3. \A q \in Request : pc'[q] \in InQueue => snap'[q] \subseteq reg'
      BY <1>1, <1>3, <1>4 DEF IInv, ChangesOK
    <2>4. \A q \in Request : pc'[q] \in Live => pc[q] \in Live
      BY <1>1, <1>3 DEF Live
    <2>5. phase # "down"
      BY <1>1 DEF IInv, ChangesOK, Live
    <2>6. QED BY <1>1, <1>3, <2>2, <2>3, <2>4, <2>5 DEF IInv, ChangesOK, Request
  <1>15. QED BY <1>7, <1>8, <1>9, <1>12, <1>13, <1>14 DEF IInv

\* The holder leaves without having renamed: the invariant is kept.
LEMMA UnsavedInvariant ==
  ASSUME IInv, NEW r \in Request, Head(queue) = r, queue # <<>>,
         LeavesQueue(r, "unsaved"), tmp' \in File,
         UNCHANGED <<reg, snap, path, unread, lost, phase, crashes>>
  PROVE  IInv'
  <1>1. /\ pc' \in [Request -> Pc] /\ queue' \in Seq(Request)
        /\ pc'[r] = "unsaved" /\ \A q \in Request : q # r => pc'[q] = pc[q]
        /\ pc[r] \in InQueue
        /\ QueueOK'
        /\ \A i \in DOMAIN queue' : /\ i + 1 \in DOMAIN queue
                                    /\ queue'[i] = queue[i + 1]
                                    /\ i \in Nat /\ 0 < i
        /\ \A q \in Request : pc'[q] \notin {"opened", "written"}
    BY LeaveQueue
  <1>2. TypeOK'
    BY <1>1 DEF IInv, TypeOK
  <1>3. OneWriter'
    BY <1>1 DEF OneWriter
  <1>4. SnapshotsInOrder'
    <2>1. ASSUME NEW i \in DOMAIN queue', NEW j \in DOMAIN queue', i < j
          PROVE  snap[queue'[i]] \subseteq snap[queue'[j]]
      <3>1. i + 1 < j + 1
        BY <1>1, <2>1
      <3>2. QED BY <1>1, <3>1 DEF IInv, SnapshotsInOrder
    <2>2. \A i \in DOMAIN queue' : path.reg \ lost \subseteq snap[queue'[i]]
      BY <1>1 DEF IInv, SnapshotsInOrder
    <2>3. QED BY <2>1, <2>2 DEF SnapshotsInOrder
  <1>5. Durable'
    BY <1>1 DEF IInv, Durable, Request
  <1>6. ChangesOK'
    <2>1. \A q \in Request : pc'[q] \in Live => pc[q] \in Live
      BY <1>1 DEF Live
    <2>2. \A q \in Request : pc'[q] \in InQueue => pc[q] \in InQueue
      BY <1>1 DEF InQueue
    <2>3. phase # "down"
      BY <1>1 DEF IInv, ChangesOK, Live
    <2>4. QED BY <1>1, <2>1, <2>2, <2>3 DEF IInv, ChangesOK, Request
  <1>7. QED BY <1>1, <1>2, <1>3, <1>4, <1>5, <1>6 DEF IInv

\* The holder opens or writes <path>.tmp and stays the holder.
LEMMA StaysInvariant ==
  ASSUME IInv, NEW r \in Request, Head(queue) = r, queue # <<>>,
         pc[r] \in InQueue, NEW p \in {"opened", "written"},
         pc' = [pc EXCEPT ![r] = p], tmp' \in File,
         p = "written" => tmp' = Whole(snap[r]),
         UNCHANGED <<queue, reg, snap, path, unread, lost, phase, crashes>>
  PROVE  IInv'
  <1>1. /\ pc' \in [Request -> Pc] /\ pc'[r] = p
        /\ \A q \in Request : q # r => pc'[q] = pc[q]
    BY DEF IInv, TypeOK, Pc, Live, InQueue
  <1>2. \A q \in Request : q # r => pc'[q] \notin {"opened", "written"}
    BY <1>1 DEF IInv, OneWriter
  <1>3. TypeOK'
    BY <1>1 DEF IInv, TypeOK
  <1>4. OneWriter'
    BY <1>1, <1>2 DEF OneWriter
  <1>5. SnapshotsInOrder'
    BY DEF IInv, SnapshotsInOrder
  <1>6. QueueOK'
    BY <1>1 DEF IInv, QueueOK, InQueue
  <1>7. Durable'
    BY <1>1 DEF IInv, Durable, Request
  <1>8. ChangesOK'
    <2>1. \A q \in Request : pc'[q] \in Live => pc[q] \in Live
      BY <1>1 DEF Live
    <2>2. \A q \in Request : pc'[q] \in InQueue => pc[q] \in InQueue
      BY <1>1
    <2>3. phase # "down"
      BY DEF IInv, ChangesOK, Live
    <2>4. QED BY <1>1, <2>1, <2>2, <2>3 DEF IInv, ChangesOK, Request
  <1>9. QED BY <1>3, <1>4, <1>5, <1>6, <1>7, <1>8 DEF IInv

\* Opening <path>.tmp keeps the invariant.
LEMMA OpensTmpInvariant ==
  ASSUME IInv, NEW r \in Request, OpensTmp(r)
  PROVE  IInv'
  <1>1. queue # <<>> /\ Head(queue) = r /\ pc[r] \in InQueue
    BY HolderFirst DEF OpensTmp, InQueue
  <1>2. Torn \in File /\ tmp \in File
    BY DEF Torn, File, Registry, IInv, TypeOK
  <1>3. CASE tmp' = Torn /\ pc' = [pc EXCEPT ![r] = "opened"] /\ UNCHANGED queue
    BY <1>1, <1>2, <1>3, StaysInvariant DEF OpensTmp
  <1>4. CASE LeavesQueue(r, "unsaved") /\ UNCHANGED tmp
    BY <1>1, <1>2, <1>4, UnsavedInvariant DEF OpensTmp
  <1>5. QED BY <1>3, <1>4 DEF OpensTmp

\* Writing <path>.tmp keeps the invariant.
LEMMA WritesTmpInvariant ==
  ASSUME IInv, NEW r \in Request, WritesTmp(r)
  PROVE  IInv'
  <1>0. pc[r] = "opened"
    BY DEF WritesTmp
  <1>1. queue # <<>> /\ Head(queue) = r /\ pc[r] \in InQueue
    BY <1>0, HolderFirst DEF InQueue
  <1>2. Whole(snap[r]) \in File /\ tmp \in File
    BY DEF Whole, File, Registry, IInv, TypeOK
  <1>3. CASE /\ tmp' = Whole(snap[r]) /\ pc' = [pc EXCEPT ![r] = "written"]
             /\ UNCHANGED queue
    BY <1>1, <1>2, <1>3, StaysInvariant DEF WritesTmp
  <1>4. CASE LeavesQueue(r, "unsaved") /\ UNCHANGED tmp
    BY <1>1, <1>2, <1>4, UnsavedInvariant DEF WritesTmp
  <1>5. QED BY <1>3, <1>4 DEF WritesTmp

\* What a rename stores: the renamer's snapshot, which has all that was stored.
LEMMA RenameStores ==
  ASSUME IInv, NEW r \in Request, Renames(r), path' = tmp
  PROVE  /\ path' = Whole(snap[r]) /\ path'.reg = snap[r] /\ snap[r] \in SUBSET reg
         /\ path.reg \ lost \subseteq snap[r]
         /\ r \in Change => r \in snap[r]
  <1>0. pc[r] = "written"
    BY DEF Renames
  <1>1. queue # <<>> /\ Head(queue) = r /\ queue \in Seq(Request) /\ pc[r] \in InQueue
    BY <1>0, HolderFirst DEF InQueue
  <1>2. 1 \in DOMAIN queue /\ queue[1] = r
    BY <1>1, TailQueue
  <1>3. tmp = Whole(snap[r])
    BY DEF Renames, IInv, OneWriter
  <1>4. path.reg \ lost \subseteq snap[r]
    BY <1>2 DEF IInv, SnapshotsInOrder
  <1>5. QED BY <1>1, <1>3, <1>4 DEF IInv, ChangesOK, Whole

\* The rename keeps the invariant.
LEMMA RenamesInvariant ==
  ASSUME IInv, NEW r \in Request, Renames(r)
  PROVE  IInv'
  <1>0. pc[r] = "written"
    BY DEF Renames
  <1>1. queue # <<>> /\ Head(queue) = r /\ queue \in Seq(Request)
    BY <1>0, HolderFirst
  <1>2. 1 \in DOMAIN queue /\ queue[1] = r
    BY <1>1, TailQueue
  <1>3. CASE LeavesQueue(r, "unsaved") /\ UNCHANGED <<tmp, path>>
    <2>1. tmp' \in File
      BY <1>3 DEF IInv, TypeOK
    <2>2. QED BY <1>1, <1>3, <2>1, UnsavedInvariant DEF Renames
  <1>4. CASE path' = tmp /\ tmp' = Absent /\ LeavesQueue(r, "saved")
    <2>1. /\ pc' \in [Request -> Pc] /\ queue' \in Seq(Request)
          /\ pc'[r] = "saved" /\ \A q \in Request : q # r => pc'[q] = pc[q]
          /\ pc[r] \in InQueue
          /\ QueueOK'
          /\ \A i \in DOMAIN queue' : /\ i + 1 \in DOMAIN queue
                                      /\ queue'[i] = queue[i + 1]
                                      /\ i \in Nat /\ 0 < i
          /\ \A q \in Request : pc'[q] \notin {"opened", "written"}
      BY <1>1, <1>4, LeaveQueue
    <2>2. /\ path' = Whole(snap[r]) /\ path'.reg = snap[r] /\ snap[r] \in SUBSET reg
          /\ path.reg \ lost \subseteq snap[r]
          /\ r \in Change => r \in snap[r]
      BY <1>4, RenameStores
    <2>3. UNCHANGED <<reg, snap, unread, lost, phase, crashes>>
      BY DEF Renames
    <2>4. TypeOK'
      BY <1>4, <2>1, <2>2, <2>3
      DEF IInv, TypeOK, Whole, Absent, File, Registry
    <2>5. OneWriter'
      BY <2>1 DEF OneWriter
    <2>6. SnapshotsInOrder'
      <3>1. ASSUME NEW i \in DOMAIN queue', NEW j \in DOMAIN queue', i < j
            PROVE  snap'[queue'[i]] \subseteq snap'[queue'[j]]
        <4>1. i + 1 < j + 1
          BY <2>1, <3>1
        <4>2. QED BY <2>1, <2>3, <4>1 DEF IInv, SnapshotsInOrder
      <3>2. ASSUME NEW i \in DOMAIN queue'
            PROVE  path'.reg \ lost' \subseteq snap'[queue'[i]]
        <4>1. 1 < i + 1
          BY <2>1
        <4>2. snap[queue[1]] \subseteq snap[queue[i + 1]]
          BY <1>2, <2>1, <4>1 DEF IInv, SnapshotsInOrder
        <4>3. QED BY <1>2, <2>1, <2>2, <2>3, <4>2
      <3>3. QED BY <3>1, <3>2 DEF SnapshotsInOrder
    <2>7. Durable'
      <3>1. ASSUME NEW c \in Change, pc'[c] \in {"saved", "confirmed"}
            PROVE  c \in path'.reg \cup unread' \cup (lost' \cap Routed)
        <4>1. CASE c = r
          BY <2>2, <4>1
        <4>2. CASE c # r
          <5>1. c \in path.reg \cup unread \cup (lost \cap Routed)
            BY <2>1, <3>1, <4>2 DEF IInv, Durable, Request
          <5>2. lost \subseteq unread \cup Routed
            BY DEF IInv, ChangesOK
          <5>3. QED BY <2>2, <2>3, <5>1, <5>2
        <4>3. QED BY <4>1, <4>2
      <3>2. QED BY <3>1 DEF Durable
    <2>8. ChangesOK'
      <3>1. \A q \in Request : pc'[q] \in Live => pc[q] \in Live
        BY <2>1 DEF Live
      <3>2. \A q \in Request : pc'[q] \in InQueue => pc[q] \in InQueue
        BY <2>1 DEF InQueue
      <3>3. phase # "down"
        BY <2>1 DEF IInv, ChangesOK, Live
      <3>4. \A c \in Change : pc'[c] = "saved" => c \in path'.reg
        <4> TAKE c \in Change
        <4>1. CASE c = r
          BY <2>2, <4>1
        <4>2. CASE c # r
          BY <2>1, <2>2, <4>2 DEF IInv, ChangesOK, Live, Request
        <4>3. QED BY <4>1, <4>2
      <3>5. \A c \in Change : pc'[c] = "idle" => c \notin reg' \cup path'.reg \cup lost'
        BY <2>1, <2>2, <2>3 DEF IInv, ChangesOK, Request
      <3>6. path'.reg \ lost' \subseteq reg'
        BY <2>2, <2>3
      <3>7. QED BY <2>3, <3>1, <3>2, <3>3, <3>4, <3>5, <3>6
            DEF IInv, ChangesOK, Request
    <2>9. QED BY <2>1, <2>4, <2>5, <2>6, <2>7, <2>8 DEF IInv
  <1>5. QED BY <1>3, <1>4 DEF Renames

\* An answer keeps the invariant.
LEMMA AnswersInvariant ==
  ASSUME IInv, NEW c \in Change, Answers(c)
  PROVE  IInv'
  <1>1. /\ pc[c] \in {"saved", "unsaved"} /\ c \in Request
        /\ UNCHANGED <<reg, snap, queue, tmp, path, unread, lost, phase, crashes>>
    BY DEF Answers, Request
  <1>2. /\ pc' \in [Request -> Pc]
        /\ pc'[c] = IF pc[c] = "saved" THEN "confirmed" ELSE "warned"
        /\ \A q \in Request : q # c => pc'[q] = pc[q]
    BY <1>1 DEF Answers, IInv, TypeOK, Pc
  <1>3. TypeOK'
    BY <1>1, <1>2 DEF IInv, TypeOK
  <1>4. QueueOK' /\ OneWriter'
    BY <1>1, <1>2 DEF IInv, QueueOK, OneWriter, InQueue
  <1>5. SnapshotsInOrder'
    BY <1>1 DEF IInv, SnapshotsInOrder
  <1>6. Durable'
    BY <1>1, <1>2 DEF IInv, Durable, Request
  <1>7. ChangesOK'
    <2>1. \A q \in Request : pc'[q] \in Live => pc[q] \in Live
      BY <1>1, <1>2 DEF Live
    <2>2. \A q \in Request : pc'[q] \in InQueue => pc[q] \in InQueue
      BY <1>1, <1>2 DEF InQueue
    <2>3. phase # "down"
      BY <1>1 DEF IInv, ChangesOK, Live
    <2>4. QED BY <1>1, <1>2, <2>1, <2>2, <2>3 DEF IInv, ChangesOK, Request
  <1>8. QED BY <1>3, <1>4, <1>5, <1>6, <1>7 DEF IInv

\* The end of the process, by a crash or a stop, keeps the invariant.
LEMMA EndsInvariant ==
  ASSUME IInv, Ends, crashes' \in 0..MaxCrash
  PROVE  IInv'
  <1>1. /\ phase' = "down" /\ reg' = {} /\ queue' = <<>>
        /\ UNCHANGED <<snap, tmp, path, unread, lost>>
        /\ \A r \in Request : pc'[r] = IF pc[r] \in Live THEN "dead" ELSE pc[r]
    BY DEF Ends
  <1>2. pc' \in [Request -> Pc]
    BY DEF Ends, IInv, TypeOK, Pc
  <1>3. TypeOK'
    BY <1>1, <1>2 DEF IInv, TypeOK, Registry
  <1>4. \A r \in Request : pc'[r] \notin Live
    BY <1>1 DEF Live, InQueue
  <1>5. QueueOK' /\ OneWriter' /\ SnapshotsInOrder'
    BY <1>1, <1>4 DEF QueueOK, OneWriter, SnapshotsInOrder, Live, InQueue
  <1>6. Durable'
    BY <1>1 DEF IInv, Durable, Request
  <1>7. ChangesOK'
    <2>1. Change \subseteq Request /\ Stop \subseteq Request
      BY DEF Request
    <2>2. \A q \in Request : pc'[q] \notin InQueue /\ pc'[q] # "saved"
      BY <1>4 DEF Live
    <2>3. QED BY <1>1, <1>4, <2>1, <2>2 DEF IInv, ChangesOK
  <1>8. QED BY <1>3, <1>5, <1>6, <1>7 DEF IInv

\* A start keeps the invariant.
LEMMA RestartsInvariant ==
  ASSUME IInv, Restarts
  PROVE  IInv'
  <1>1. /\ reg' \in Registry /\ unread' \in Registry /\ lost' \in Registry
        /\ reg' \subseteq path.reg /\ path.reg \ lost' \subseteq reg'
        /\ lost \subseteq lost' /\ lost' \subseteq lost \cup path.reg
        /\ reg' \cap (lost' \ lost) = {}
        /\ unread \subseteq unread'
        /\ unread' \subseteq lost' /\ lost' \subseteq unread' \cup Routed
    <2>1. /\ path.reg \in Registry /\ lost \in Registry /\ unread \in Registry
          /\ unread \subseteq lost /\ lost \subseteq unread \cup Routed
      BY DEF IInv, TypeOK, ChangesOK, File
    <2>2. CASE GivesUp
      BY <2>1, <2>2 DEF GivesUp, Registry
    <2>3. ASSUME NEW refused \in SUBSET (path.reg \cap Routed), Loads(refused)
          PROVE  <1>1!:
      BY <2>1, <2>3 DEF Loads, Registry
    <2>4. QED BY <2>2, <2>3 DEF Restarts
  <1>2. /\ phase = "down" /\ phase' = "up"
        /\ UNCHANGED <<pc, snap, queue, tmp, path, crashes>>
    BY DEF Restarts
  <1>3. Change \subseteq Request /\ Stop \subseteq Request
    BY DEF Request
  <1>4. \A r \in Request : pc[r] \notin Live
    BY <1>2 DEF IInv, ChangesOK
  <1>5. DOMAIN queue = {}
    <2>1. \A i \in DOMAIN queue : queue[i] \in Request
      BY DEF IInv, TypeOK
    <2>2. QED BY <1>4, <2>1 DEF IInv, QueueOK, Live
  <1>6. TypeOK'
    BY <1>1, <1>2 DEF IInv, TypeOK
  <1>7. QueueOK' /\ OneWriter'
    BY <1>2 DEF IInv, QueueOK, OneWriter
  <1>8. SnapshotsInOrder'
    BY <1>2, <1>5 DEF SnapshotsInOrder
  <1>9. Durable'
    BY <1>1, <1>2 DEF IInv, Durable
  <1>10. ChangesOK'
    <2>1. \A c \in Change : pc[c] # "saved" /\ pc[c] \notin InQueue
      BY <1>3, <1>4 DEF Live
    <2>2. \A q \in Request : pc[q] \notin InQueue
      BY <1>4 DEF Live
    <2>3. \A c \in Change : pc[c] = "idle" => c \notin reg' \cup path'.reg \cup lost'
      BY <1>1, <1>2 DEF IInv, ChangesOK
    <2>4. QED BY <1>1, <1>2, <1>3, <1>4, <2>1, <2>2, <2>3 DEF ChangesOK
  <1>11. QED BY <1>6, <1>7, <1>8, <1>9, <1>10 DEF IInv

\* Every step keeps the invariant.
LEMMA StepInvariant == IInv /\ [Next]_vars => IInv'
  <1> SUFFICES ASSUME IInv, [Next]_vars PROVE IInv'
    OBVIOUS
  <1>1. ASSUME NEW c \in Change, Changes(c) \/ ChangesAndRejects(c) PROVE IInv'
    BY <1>1, ChangesInvariant
  <1>2. ASSUME NEW c \in Change, Answers(c) PROVE IInv'
    BY <1>2, AnswersInvariant
  <1>3. ASSUME NEW z \in Stop, StopBegins(z) PROVE IInv'
    BY <1>3, StopBeginsInvariant
  <1>4. ASSUME NEW z \in Stop, StopEnds(z) PROVE IInv'
    BY <1>4, EndsInvariant DEF StopEnds, IInv, TypeOK
  <1>5. ASSUME NEW r \in Request, PersistStep(r) PROVE IInv'
    BY <1>5, SerializesInvariant, OpensTmpInvariant, WritesTmpInvariant,
       RenamesInvariant DEF PersistStep
  <1>6. CASE Crashes
    <2>1. crashes' \in 0..MaxCrash
      BY <1>6, StateFileAssumption DEF Crashes, IInv, TypeOK
    <2>2. QED BY <1>6, <2>1, EndsInvariant DEF Crashes
  <1>7. CASE Restarts
    BY <1>7, RestartsInvariant
  <1>8. CASE UNCHANGED vars
    BY <1>8 DEF vars, IInv, TypeOK, Durable, OneWriter, SnapshotsInOrder, QueueOK,
                ChangesOK
  <1>9. QED BY <1>1, <1>2, <1>3, <1>4, <1>5, <1>6, <1>7, <1>8 DEF Next, Quiet

\* The inductive invariant holds in every reachable state.
LEMMA Invariant == Spec => []IInv
  <1>1. QED BY InitInvariant, StepInvariant, PTL DEF Spec

\* The variables keep their types, and <path> never holds a torn file.
THEOREM TypeCorrect == Spec => []TypeOK
  <1>1. IInv => TypeOK
    BY DEF IInv
  <1>2. QED BY Invariant, <1>1, PTL

\* A change that was confirmed after a successful persist is in the state file
\* from then on, whatever is persisted, fails, crashes or restarts later, unless
\* a start could not read the file, or could not make the sink the change named.
THEOREM Durability == Spec => []Durable
  <1>1. IInv => Durable
    BY DEF IInv
  <1>2. QED BY Invariant, <1>1, PTL

\* Only one persist at a time has <path>.tmp, and it renames what it wrote.
THEOREM ExclusiveWriter == Spec => []OneWriter
  <1>1. IInv => OneWriter
    BY DEF IInv
  <1>2. QED BY Invariant, <1>1, PTL

\* No stale snapshot waits in the queue behind a newer one, or behind the file.
THEOREM NoStaleSnapshot == Spec => []SnapshotsInOrder
  <1>1. IInv => SnapshotsInOrder
    BY DEF IInv
  <1>2. QED BY Invariant, <1>1, PTL

\* The initial state maps to the initial state of the abstract store.
LEMMA InitRefines == Init => Store!Init
  BY DEF Init, Store!Init, Absent, Request

\* Every step maps to a step of the abstract store, or to a stutter.
LEMMA StepRefines == IInv /\ [Next]_vars => [Store!Next]_(Store!vars)
  <1> DEFINE promised == {c \in Change : pc[c] = "confirmed"}
             Same == /\ UNCHANGED <<reg, path, lost>> /\ promised' = promised
                     /\ (phase # "down")' = (phase # "down")
  <1> SUFFICES ASSUME IInv, [Next]_vars PROVE [Store!Next]_(Store!vars)
    OBVIOUS
  <1>0. Change \subseteq Request /\ pc \in [Request -> Pc]
    BY DEF Request, IInv, TypeOK
  <1>1. Same => UNCHANGED Store!vars
    BY DEF Store!vars
  <1>2. ASSUME NEW c \in Change, Changes(c) \/ ChangesAndRejects(c)
        PROVE  Store!Next
    <2>1. promised' = promised
      BY <1>0, <1>2 DEF Changes, ChangesAndRejects
    <2>2. Store!Apply(c)
      BY <1>2, <2>1 DEF Store!Apply, Changes, ChangesAndRejects, IInv, ChangesOK
    <2>3. QED BY <2>2 DEF Store!Next
  <1>3. ASSUME NEW c \in Change, Answers(c)
        PROVE  [Store!Next]_(Store!vars)
    <2>1. CASE pc[c] = "saved"
      <3>1. promised' = promised \cup {c}
        BY <1>0, <1>3, <2>1 DEF Answers
      <3>2. Store!Promise(c)
        BY <1>3, <2>1, <3>1 DEF Store!Promise, Answers, IInv, ChangesOK
      <3>3. QED BY <3>2 DEF Store!Next
    <2>2. CASE pc[c] = "unsaved"
      <3>1. promised' = promised
        BY <1>0, <1>3, <2>2 DEF Answers
      <3>2. Same
        BY <1>3, <3>1 DEF Answers
      <3>3. QED BY <1>1, <3>2
    <2>3. QED BY <1>3, <2>1, <2>2 DEF Answers
  <1>4. ASSUME NEW z \in Stop, StopBegins(z) PROVE Same
    <2>1. promised' = promised
      BY <1>0, <1>4 DEF StopBegins
    <2>2. QED BY <1>4, <2>1 DEF StopBegins
  <1>5. ASSUME Ends PROVE Store!Next
    <2>1. promised' = promised
      BY <1>0, <1>5 DEF Ends, Live, InQueue
    <2>2. Store!Crash
      BY <1>5, <2>1 DEF Store!Crash, Ends
    <2>3. QED BY <2>2 DEF Store!Next
  <1>6. ASSUME NEW r \in Request, Serializes(r) \/ OpensTmp(r) \/ WritesTmp(r)
        PROVE  Same
    <2>1. promised' = promised
      BY <1>0, <1>6 DEF Serializes, OpensTmp, WritesTmp, LeavesQueue
    <2>2. UNCHANGED <<reg, path, lost, phase>>
      BY <1>6 DEF Serializes, OpensTmp, WritesTmp
    <2>3. QED BY <2>1, <2>2
  <1>7. ASSUME NEW r \in Request, Renames(r)
        PROVE  [Store!Next]_(Store!vars)
    <2>1. promised' = promised
      BY <1>0, <1>7 DEF Renames, LeavesQueue
    <2>2. UNCHANGED <<reg, lost, phase>>
      BY <1>7 DEF Renames
    <2>3. CASE UNCHANGED path
      <3>1. Same
        BY <2>1, <2>2, <2>3
      <3>2. QED BY <1>1, <3>1
    <2>4. CASE path' = tmp
      <3>1. /\ path'.reg = snap[r] /\ snap[r] \in SUBSET reg
            /\ path.reg \ lost \subseteq snap[r]
        BY <1>7, <2>4, RenameStores
      <3>2. phase # "down"
        BY <1>7 DEF Renames, IInv, ChangesOK, Live, InQueue
      <3>3. Store!Store
        BY <2>1, <2>2, <3>1, <3>2 DEF Store!Store
      <3>4. QED BY <3>3 DEF Store!Next
    <2>5. QED BY <1>7, <2>3, <2>4 DEF Renames
  <1>8. CASE Restarts
    <2>1. promised' = promised
      BY <1>8 DEF Restarts
    <2>2. \E missed \in {path.reg} \cup SUBSET (path.reg \cap Routed) :
            reg' = path.reg \ missed /\ lost' = lost \cup missed
      <3>1. CASE GivesUp
        <4>1. reg' = path.reg \ path.reg /\ lost' = lost \cup path.reg
          BY <3>1 DEF GivesUp
        <4>2. QED BY <4>1
      <3>2. ASSUME NEW refused \in SUBSET (path.reg \cap Routed), Loads(refused)
            PROVE  <2>2!:
        BY <3>2 DEF Loads
      <3>3. QED BY <1>8, <3>1, <3>2 DEF Restarts
    <2>3. Store!Restart
      BY <1>8, <2>1, <2>2 DEF Restarts, Store!Restart
    <2>4. QED BY <2>3 DEF Store!Next
  <1>9. CASE UNCHANGED vars
    BY <1>1, <1>9 DEF vars
  <1>10. QED BY <1>1, <1>2, <1>3, <1>4, <1>5, <1>6, <1>7, <1>8, <1>9
         DEF Next, Quiet, StopEnds, Crashes, PersistStep

\* The state file implements the abstract store, for any number of changes: only
\* a start forgets, all of an unreadable file or sinks that it cannot make.
THEOREM Implementation == Spec => ImplementsRegistryStore
  <1>1. QED BY InitRefines, StepRefines, Invariant, PTL
        DEF Spec, ImplementsRegistryStore, Store!Spec
=============================================================================
