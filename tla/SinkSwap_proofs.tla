--------------------------- MODULE SinkSwap_proofs ---------------------------
(***************************************************************************)
(* Proofs about SinkSwap, for any number of payloads, swaps and URIs.      *)
(***************************************************************************)
EXTENDS SinkSwap, TLAPS

\* get_units keeps the types of the semaphore and of pc.
LEMMA AcquireType ==
  ASSUME TypeOK, NEW r \in Request, Acquire(r)
  PROVE  /\ pc' \in [Request -> Pc]
         /\ owner' \in Request \cup {None} /\ waiters' \in Seq(Request)
         /\ before' \in [Request -> SUBSET Request]
  <1>1. before' \in [Request -> SUBSET Request]
    <2>1. {q \in Request : pc[q] # "idle"} \in SUBSET Request
      OBVIOUS
    <2>2. QED BY <2>1 DEF TypeOK, Acquire
  <1>2. CASE owner = None
    BY <1>1, <1>2 DEF TypeOK, Acquire, Pc, Holding
  <1>3. CASE owner # None
    <2>1. waiters' = Append(waiters, r) /\ owner' = owner
          /\ pc' = [pc EXCEPT ![r] = "waiting"]
      BY <1>3 DEF Acquire
    <2>2. waiters' \in Seq(Request)
      BY <2>1 DEF TypeOK
    <2>3. QED BY <1>1, <2>1, <2>2 DEF TypeOK, Pc, Holding
  <1>4. QED BY <1>2, <1>3

\* Counting keeps the types of the counters.
LEMMA StatsType ==
  ASSUME stats \in [payloads : Nat, encode_errors : Nat, frames_out : Nat]
  PROVE  /\ [stats EXCEPT !.payloads = @ + 1, !.encode_errors = @ + 1]
              \in [payloads : Nat, encode_errors : Nat, frames_out : Nat]
         /\ [stats EXCEPT !.payloads = @ + 1, !.frames_out = @ + 1]
              \in [payloads : Nat, encode_errors : Nat, frames_out : Nat]
  <1>1. /\ stats.payloads + 1 \in Nat
        /\ stats.encode_errors + 1 \in Nat
        /\ stats.frames_out + 1 \in Nat
    OBVIOUS
  <1>2. QED BY <1>1

\* The end of a handler keeps the types of the semaphore, of pc and of res.
LEMMA ReleaseType ==
  ASSUME TypeOK, NEW r \in Request, NEW o \in Outcome, ReleaseAndFinish(r, o)
  PROVE  /\ pc' \in [Request -> Pc]
         /\ owner' \in Request \cup {None} /\ waiters' \in Seq(Request)
         /\ before' \in [Request -> SUBSET Request]
         /\ res' \in [Request -> Outcome]
  <1>1. waiters # <<>> => Head(waiters) \in Request /\ Tail(waiters) \in Seq(Request)
    BY DEF TypeOK
  <1>2. res' \in [Request -> Outcome]
    BY DEF TypeOK, ReleaseAndFinish
  <1>3. CASE waiters = <<>>
    BY <1>2, <1>3 DEF TypeOK, ReleaseAndFinish, Pc, Holding
  <1>4. CASE waiters # <<>>
    BY <1>1, <1>2, <1>4 DEF TypeOK, ReleaseAndFinish, Pc, Holding
  <1>5. QED BY <1>3, <1>4

\* Pushing out a stream keeps the types of buf and disk.
LEMMA PushOutType ==
  ASSUME TypeOK, NEW s, PushOut(s)
  PROVE  buf' \in [Sink -> SUBSET Writer] /\ disk' \in [Sink -> SUBSET Writer]
  <1>1. buf' \in [Sink -> SUBSET Writer]
    BY DEF TypeOK, PushOut
  <1>2. PICK kept : /\ kept \in IF s \in clobbered THEN SUBSET buf[s] ELSE {buf[s]}
                    /\ disk' = [disk EXCEPT ![s] = @ \cup kept]
    BY DEF PushOut
  <1>3. CASE s \in Sink
    <2>1. buf[s] \subseteq Writer
      BY <1>3 DEF TypeOK
    <2>2. kept \subseteq Writer
      BY <1>2, <2>1
    <2>3. QED BY <1>1, <1>2, <2>2 DEF TypeOK
  <1>4. CASE s \notin Sink
    BY <1>1, <1>2, <1>4 DEF TypeOK
  <1>5. QED BY <1>3, <1>4

\* The initial state is well typed.
LEMMA InitType == Init => TypeOK
  BY SinkSwapAssumption DEF Init, TypeOK, Pc, Holding, Outcome, Sink, Phase

\* Every step keeps the types.
LEMMA StepType == TypeOK /\ SinkLife /\ [Next]_vars => TypeOK'
  <1> SUFFICES ASSUME TypeOK, SinkLife, [Next]_vars PROVE TypeOK'
    OBVIOUS
  <1>1. ASSUME NEW w \in Writer, PayloadArrives(w) PROVE TypeOK'
    <2>1. w \in Request /\ Acquire(w)
      BY <1>1 DEF PayloadArrives, Request
    <2>2. QED BY <1>1, <2>1, AcquireType
          DEF TypeOK, PayloadArrives, sinkVars, outVars
  <1>2. ASSUME NEW w \in Writer, EncodeFails(w) PROVE TypeOK'
    <2>1. /\ w \in Request /\ ReleaseAndFinish(w, "encode_error")
          /\ "encode_error" \in Outcome
      BY <1>2 DEF EncodeFails, Request, Outcome
    <2>2. stats' \in [payloads : Nat, encode_errors : Nat, frames_out : Nat]
      BY <1>2, StatsType DEF EncodeFails, TypeOK
    <2>3. QED BY <1>2, <2>1, <2>2, ReleaseType
          DEF TypeOK, EncodeFails, sinkVars, outVars
  <1>3. ASSUME NEW w \in Writer, BeginWrite(w) PROVE TypeOK'
    <2>1. stats' \in [payloads : Nat, encode_errors : Nat, frames_out : Nat]
      BY <1>3, StatsType DEF BeginWrite, TypeOK
    <2>2. /\ target' \in [Writer -> Sink \cup {None}]
          /\ form' \in [Writer -> {"none", "raw", "tlv"}]
      BY <1>3 DEF BeginWrite, TypeOK
    <2>3. buf' \in [Sink -> SUBSET Writer]
      BY <1>3 DEF BeginWrite, TypeOK
    <2>4. pc' \in [Request -> Pc]
      BY <1>3 DEF BeginWrite, TypeOK, Pc, Holding
    <2>5. QED BY <1>3, <2>1, <2>2, <2>3, <2>4
          DEF TypeOK, BeginWrite, semVars, sinkVars
  <1>4. ASSUME NEW w \in Writer, EndWrite(w) PROVE TypeOK'
    <2>1. w \in Request /\ \E o \in Outcome : ReleaseAndFinish(w, o)
      BY <1>4 DEF EndWrite, Request, Outcome
    <2>2. buf' \in [Sink -> SUBSET Writer] /\ disk' \in [Sink -> SUBSET Writer]
      BY <1>4, PushOutType DEF TypeOK, EndWrite
    <2>3. QED BY <1>4, <2>1, <2>2, ReleaseType
          DEF TypeOK, EndWrite, sinkVars
  <1>5. ASSUME NEW s \in Swap, SwapArrives(s) PROVE TypeOK'
    <2>1. s \in Request /\ Acquire(s)
      BY <1>5 DEF SwapArrives, Request
    <2>2. sinkUri' \in [Sink -> Uri \cup {None}]
      BY <1>5 DEF SwapArrives, TypeOK
    <2>3. QED BY <1>5, <2>1, <2>2, AcquireType
          DEF TypeOK, SwapArrives, outVars
  <1>6. ASSUME NEW s \in Swap, SwapMakesSink(s) PROVE TypeOK'
    <2>1. s \in Request /\ "rejected" \in Outcome
      BY DEF Request, Outcome
    <2>2. CASE ReleaseAndFinish(s, "rejected") /\ UNCHANGED <<sinkVars, outVars>>
      BY <1>6, <2>1, <2>2, ReleaseType DEF TypeOK, SwapMakesSink, sinkVars, outVars
    <2>3. CASE /\ pc' = [pc EXCEPT ![s] = "making"]
               /\ UNCHANGED <<semVars, cfgUri, cur, sinkUri, sinkSt, faulty,
                              buf, target, form, res>>
               /\ \E hit \in SUBSET Sink :
                    /\ clobbered' = clobbered \cup hit
                    /\ disk' = [t \in Sink |-> IF t \in hit THEN {} ELSE disk[t]]
      <3>1. pc' \in [Request -> Pc]
        BY <2>1, <2>3 DEF TypeOK, Pc, Holding
      <3>2. clobbered' \subseteq Sink /\ disk' \in [Sink -> SUBSET Writer]
        BY <2>3 DEF TypeOK
      <3>3. QED BY <1>6, <2>3, <3>1, <3>2 DEF TypeOK, SwapMakesSink, semVars
    <2>4. QED BY <1>6, <2>2, <2>3 DEF SwapMakesSink
  <1>7. ASSUME NEW s \in Swap, SwapFlushes(s) PROVE TypeOK'
    <2>1. s \in Request /\ s \in Sink /\ "rejected" \in Outcome
      BY DEF Request, Sink, Outcome
    <2>2. sinkSt' \in [Sink -> {"unmade", "open", "closed", "freed"}]
      BY <1>7 DEF TypeOK, SwapFlushes
    <2>3. CASE ReleaseAndFinish(s, "rejected")
      BY <1>7, <2>1, <2>2, <2>3, ReleaseType DEF TypeOK, SwapFlushes, outVars
    <2>4. CASE pc' = [pc EXCEPT ![s] = "flushing"] /\ UNCHANGED <<semVars, res>>
      <3>1. pc' \in [Request -> Pc]
        BY <2>1, <2>4 DEF TypeOK, Pc, Holding
      <3>2. QED BY <1>7, <2>2, <2>4, <3>1 DEF TypeOK, SwapFlushes, outVars, semVars
    <2>5. QED BY <1>7, <2>3, <2>4 DEF SwapFlushes
  <1>8. ASSUME NEW s \in Swap, SwapCloses(s) PROVE TypeOK'
    <2>1. s \in Request /\ s \in Sink /\ "threw" \in Outcome
      BY DEF Request, Sink, Outcome
    <2>2. sinkSt' \in [Sink -> {"unmade", "open", "closed", "freed"}]
      BY <1>8 DEF TypeOK, SwapCloses
    <2>3. CASE /\ pc' = [pc EXCEPT ![s] = "closing"] /\ PushOut(cur)
               /\ UNCHANGED <<semVars, cfgUri, cur, sinkUri, faulty, clobbered, res>>
      <3>1. pc' \in [Request -> Pc]
        BY <2>1, <2>3 DEF TypeOK, Pc, Holding
      <3>2. QED BY <1>8, <2>2, <2>3, <3>1, PushOutType DEF TypeOK, SwapCloses, semVars
    <2>4. CASE SwapThrows(s) /\ UNCHANGED <<buf, disk>>
      <3>1. ReleaseAndFinish(s, "threw") /\ faulty' \subseteq Sink
        BY <2>4 DEF SwapThrows, TypeOK
      <3>2. QED BY <1>8, <2>1, <2>2, <2>4, <3>1, ReleaseType
            DEF TypeOK, SwapCloses, SwapThrows
    <2>5. QED BY <1>8, <2>3, <2>4 DEF SwapCloses
  <1>9. ASSUME NEW s \in Swap, SwapInstalls(s) PROVE TypeOK'
    <2>1. /\ s \in Request /\ s \in Sink /\ {"threw", "replaced"} \subseteq Outcome
          /\ sinkUri[s] \in Uri
      BY <1>9 DEF Request, Sink, Outcome, SinkLife, SwapInstalls
    <2>2. sinkSt' \in [Sink -> {"unmade", "open", "closed", "freed"}]
      BY <1>9 DEF TypeOK, SwapInstalls
    <2>3. /\ \E o \in Outcome : ReleaseAndFinish(s, o)
          /\ faulty' \subseteq Sink /\ clobbered' \subseteq Sink
          /\ cur' \in Sink /\ cfgUri' \in Uri
          /\ sinkUri' = sinkUri
      BY <1>9, <2>1 DEF SwapInstalls, SwapThrows, TypeOK
    <2>4. QED BY <1>9, <2>1, <2>2, <2>3, ReleaseType
          DEF TypeOK, SwapInstalls, outVars
  <1>10. CASE StopBegins
    BY <1>10 DEF StopBegins, TypeOK, Phase, semVars, sinkVars, outVars
  <1>11. CASE StopFlushes
    <2>1. sinkSt' \in [Sink -> {"unmade", "open", "closed", "freed"}]
      BY <1>11 DEF TypeOK, StopFlushes
    <2>2. buf' \in [Sink -> SUBSET Writer] /\ disk' \in [Sink -> SUBSET Writer]
      BY <1>11, PushOutType DEF TypeOK, StopFlushes
    <2>3. faulty' \subseteq Sink /\ phase' \in Phase
      BY <1>11 DEF TypeOK, StopFlushes, Phase
    <2>4. QED BY <1>11, <2>1, <2>2, <2>3 DEF StopFlushes, TypeOK, semVars
  <1>12. CASE StopEnds
    BY <1>12 DEF StopEnds, TypeOK, Phase, semVars, outVars
  <1>13. CASE UNCHANGED vars
    BY <1>13 DEF vars, TypeOK, semVars, sinkVars, outVars
  <1>14. QED
    BY <1>1, <1>2, <1>3, <1>4, <1>5, <1>6, <1>7, <1>8, <1>9, <1>10, <1>11,
       <1>12, <1>13 DEF Next, WriterStep, SwapStep, Stopped

-----------------------------------------------------------------------------
(* The semaphore *)

\* A handler that holds the unit goes from one co_await to the next.
Moves(r, to) ==
  /\ pc[r] \in Holding /\ to \in Holding
  /\ pc' = [pc EXCEPT ![r] = to]
  /\ UNCHANGED semVars

\* Seen from the semaphore, a step queues a request, ends one that holds the
\* unit, moves one that holds it, or is none of its business.
LEMMA SemStep ==
  ASSUME TypeOK, [Next]_vars
  PROVE  \/ \E r \in Request : Acquire(r)
         \/ \E r \in Request : pc[r] \in Holding /\ \E o \in Outcome : ReleaseAndFinish(r, o)
         \/ \E r \in Request, to \in Holding : Moves(r, to)
         \/ UNCHANGED <<pc, semVars>>
  <1>1. ASSUME NEW w \in Writer, PayloadArrives(w) \/ WriterStep(w)
        PROVE  \/ Acquire(w)
               \/ pc[w] \in Holding /\ \E o \in Outcome : ReleaseAndFinish(w, o)
               \/ Moves(w, "writing")
    BY <1>1 DEF PayloadArrives, WriterStep, EncodeFails, BeginWrite, EndWrite,
                Moves, Holding, Outcome
  <1>2. ASSUME NEW s \in Swap, SwapArrives(s) \/ SwapStep(s)
        PROVE  \/ Acquire(s)
               \/ pc[s] \in Holding /\ \E o \in Outcome : ReleaseAndFinish(s, o)
               \/ \E to \in {"making", "flushing", "closing"} : Moves(s, to)
    BY <1>2 DEF SwapArrives, SwapStep, SwapMakesSink, SwapFlushes, SwapCloses,
                SwapInstalls, SwapThrows, Moves, Holding, Outcome
  <1>3. ASSUME StopBegins \/ StopFlushes \/ StopEnds \/ Stopped \/ UNCHANGED vars
        PROVE  UNCHANGED <<pc, semVars>>
    BY <1>3 DEF StopBegins, StopFlushes, StopEnds, Stopped, vars
  <1>4. /\ Writer \subseteq Request /\ Swap \subseteq Request
        /\ {"writing", "making", "flushing", "closing"} \subseteq Holding
    BY DEF Request, Holding
  <1>5. QED BY <1>1, <1>2, <1>3, <1>4 DEF Next

\* get_units keeps the holder and the queue of the semaphore consistent.
LEMMA AcquireSem ==
  ASSUME TypeOK, OneHolder, QueueInOrder, ServedInOrder,
         NEW r \in Request, Acquire(r)
  PROVE  OneHolder' /\ QueueInOrder' /\ ServedInOrder'
  <1>1. /\ pc[r] = "idle" /\ owner # r /\ r # None
        /\ \A i \in DOMAIN waiters : waiters[i] # r
    BY SinkSwapAssumption DEF Acquire, OneHolder, Holding
  <1>2. before' = [before EXCEPT ![r] = {q \in Request : pc[q] # "idle"}]
    BY DEF Acquire
  <1>3. \A q \in Request : pc[q] # "idle" =>
          pc[q] = "done" \/ owner = q \/ \E i \in DOMAIN waiters : waiters[i] = q
    BY DEF TypeOK, OneHolder, Pc
  <1>4. \A x \in Request : pc[x] \in Holding \cup {"done"} => r \notin before[x]
    BY <1>1 DEF ServedInOrder
  <1>5. \A i \in DOMAIN waiters : r \notin before[waiters[i]]
    BY <1>1 DEF QueueInOrder
  <1>6. CASE owner = None
    <2>1. owner' = r /\ waiters' = waiters /\ pc' = [pc EXCEPT ![r] = "granted"]
      BY <1>6 DEF Acquire
    <2>2. waiters = <<>>
      BY <1>6 DEF OneHolder
    <2>3. OneHolder'
      <3>1. /\ pc'[r] = "granted" /\ \A x \in Request : x # r => pc'[x] = pc[x]
            /\ waiters' = <<>> /\ DOMAIN waiters' = {}
        BY <2>1, <2>2 DEF TypeOK
      <3>2. \A x \in Request : pc[x] \notin Holding /\ pc[x] # "waiting"
        <4>1. DOMAIN waiters = {}
          BY <2>2
        <4>2. QED BY <1>6, <4>1, SinkSwapAssumption DEF OneHolder
      <3>3. "granted" \in Holding /\ "granted" # "waiting"
        BY DEF Holding
      <3>4. (\A x \in Request : pc[x] \in Holding <=> owner = x)'
        BY <2>1, <3>1, <3>2, <3>3
      <3>5. (\A x \in Request : pc[x] = "waiting" <=> \E i \in DOMAIN waiters : waiters[i] = x)'
        BY <3>1, <3>2, <3>3
      <3>6. (\A i, j \in DOMAIN waiters : waiters[i] = waiters[j] => i = j)'
        BY <3>1
      <3>7. QED BY <2>1, <1>1, <3>4, <3>5, <3>6 DEF OneHolder
    <2>4. QueueInOrder'
      BY <2>1, <2>2 DEF QueueInOrder
    <2>5. ServedInOrder'
      BY <1>1, <1>2, <1>3, <1>4, <1>6, <2>1, <2>2, SinkSwapAssumption
      DEF ServedInOrder, TypeOK, Holding
    <2>6. QED BY <2>3, <2>4, <2>5
  <1>7. CASE owner # None
    <2>1. owner' = owner /\ waiters' = Append(waiters, r)
          /\ pc' = [pc EXCEPT ![r] = "waiting"]
      BY <1>7 DEF Acquire
    <2>2. /\ DOMAIN waiters = 1..Len(waiters) /\ Len(waiters) \in Nat
          /\ DOMAIN waiters' = 1..(Len(waiters) + 1)
          /\ waiters'[Len(waiters) + 1] = r
          /\ \A i \in DOMAIN waiters : waiters'[i] = waiters[i] /\ waiters[i] \in Request
      BY <2>1 DEF TypeOK
    <2>3. OneHolder'
      <3>1. (\A x \in Request : pc[x] \in Holding <=> owner = x)'
        BY <1>1, <2>1 DEF OneHolder, TypeOK, Holding
      <3>2. (\A x \in Request : pc[x] = "waiting" <=> \E i \in DOMAIN waiters : waiters[i] = x)'
        <4>1. ASSUME NEW x \in Request
              PROVE  pc'[x] = "waiting" <=> \E i \in DOMAIN waiters' : waiters'[i] = x
          <5>1. CASE x = r
            BY <2>1, <2>2, <5>1 DEF TypeOK
          <5>2. CASE x # r
            <6>1. pc'[x] = pc[x]
              BY <2>1, <5>2 DEF TypeOK
            <6>2. (\E i \in DOMAIN waiters' : waiters'[i] = x)
                    <=> \E i \in DOMAIN waiters : waiters[i] = x
              BY <2>2, <5>2
            <6>3. QED BY <6>1, <6>2 DEF OneHolder
          <5>3. QED BY <5>1, <5>2
        <4>2. QED BY <4>1
      <3>3. (\A i, j \in DOMAIN waiters : waiters[i] = waiters[j] => i = j)'
        BY <1>1, <2>2 DEF OneHolder
      <3>4. QED BY <1>7, <2>1, <3>1, <3>2, <3>3 DEF OneHolder
    <2>4. QueueInOrder'
      <3>1. ASSUME NEW i \in DOMAIN waiters', NEW q \in before'[waiters'[i]]
            PROVE  pc'[q] = "done" \/ owner' = q \/ \E j \in DOMAIN waiters' : j < i /\ waiters'[j] = q
        <4>1. CASE i = Len(waiters) + 1
          <5>1. q \in Request /\ pc[q] # "idle" /\ q # r
            BY <1>1, <1>2, <2>2, <4>1 DEF TypeOK
          <5>2. QED BY <1>3, <2>1, <2>2, <4>1, <5>1 DEF TypeOK
        <4>2. CASE i \in DOMAIN waiters
          <5>1. q \in before[waiters[i]] /\ q # r /\ q \in Request
            BY <1>1, <1>2, <1>5, <2>2, <4>2 DEF TypeOK
          <5>2. pc[q] = "done" \/ owner = q \/ \E j \in DOMAIN waiters : j < i /\ waiters[j] = q
            BY <4>2, <5>1 DEF QueueInOrder
          <5>3. QED BY <2>1, <2>2, <5>1, <5>2 DEF TypeOK
        <4>3. QED BY <2>2, <4>1, <4>2
      <3>2. QED BY <3>1 DEF QueueInOrder
    <2>5. ServedInOrder'
      BY <1>1, <1>2, <1>4, <2>1 DEF ServedInOrder, TypeOK, Holding
    <2>6. QED BY <2>3, <2>4, <2>5
  <1>8. QED BY <1>6, <1>7

\* Handing the unit to the oldest waiter keeps them consistent.
LEMMA ReleaseSem ==
  ASSUME TypeOK, OneHolder, QueueInOrder, ServedInOrder,
         NEW r \in Request, pc[r] \in Holding,
         NEW o, ReleaseAndFinish(r, o)
  PROVE  OneHolder' /\ QueueInOrder' /\ ServedInOrder'
  <1>1. owner = r /\ before' = before /\ r # None
    BY SinkSwapAssumption DEF OneHolder, ReleaseAndFinish
  <1>2. CASE waiters = <<>>
    <2>1. owner' = None /\ waiters' = <<>> /\ pc' = [pc EXCEPT ![r] = "done"]
      BY <1>2 DEF ReleaseAndFinish
    <2>2. OneHolder'
      BY <1>1, <1>2, <2>1, SinkSwapAssumption DEF OneHolder, TypeOK, Holding
    <2>3. QueueInOrder'
      BY <2>1 DEF QueueInOrder
    <2>4. ServedInOrder'
      BY <1>1, <2>1 DEF ServedInOrder, TypeOK
    <2>5. QED BY <2>2, <2>3, <2>4
  <1>3. CASE waiters # <<>>
    <2> DEFINE h == Head(waiters)
    <2>1. /\ Len(waiters) \in Nat /\ Len(waiters) > 0
          /\ DOMAIN waiters = 1..Len(waiters)
          /\ h = waiters[1] /\ h \in Request /\ h # r
          /\ DOMAIN Tail(waiters) = 1..(Len(waiters) - 1)
          /\ \A i \in 1..(Len(waiters) - 1) : Tail(waiters)[i] = waiters[i + 1]
          /\ \A i \in DOMAIN waiters : waiters[i] \in Request
      <3>1. /\ Len(waiters) \in Nat /\ Len(waiters) > 0
            /\ DOMAIN waiters = 1..Len(waiters)
            /\ h = waiters[1] /\ h \in Request
            /\ DOMAIN Tail(waiters) = 1..(Len(waiters) - 1)
            /\ \A i \in 1..(Len(waiters) - 1) : Tail(waiters)[i] = waiters[i + 1]
            /\ \A i \in DOMAIN waiters : waiters[i] \in Request
        BY <1>3 DEF TypeOK
      <3>2. pc[h] = "waiting"
        BY <3>1 DEF OneHolder
      <3>3. QED BY <3>1, <3>2 DEF Holding
    <2>2. /\ owner' = h /\ waiters' = Tail(waiters)
          /\ pc' = [pc EXCEPT ![r] = "done", ![h] = "granted"]
      BY <1>3 DEF ReleaseAndFinish
    <2>3. /\ pc'[h] = "granted" /\ pc'[r] = "done"
          /\ \A x \in Request : x # h /\ x # r => pc'[x] = pc[x]
      BY <2>1, <2>2 DEF TypeOK
    <2>4. h # None
      BY <2>1, SinkSwapAssumption
    <2> HIDE DEF h
    <2>5. OneHolder'
      <3>1. (\A x \in Request : pc[x] \in Holding <=> owner = x)'
        BY <1>1, <2>1, <2>2, <2>3 DEF OneHolder, Holding
      <3>2. (\A x \in Request : pc[x] = "waiting" <=> \E i \in DOMAIN waiters : waiters[i] = x)'
        <4>1. ASSUME NEW x \in Request
              PROVE  pc'[x] = "waiting" <=> \E i \in 1..(Len(waiters) - 1) : waiters[i + 1] = x
          <5>1. pc[x] = "waiting" <=> \E i \in 1..Len(waiters) : waiters[i] = x
            BY <2>1 DEF OneHolder
          <5>2. \A i \in 2..Len(waiters) : waiters[i] # h
            BY <2>1 DEF OneHolder
          <5>3. \A i \in 1..Len(waiters) : waiters[i] # r
            BY <1>1, <2>1 DEF OneHolder, Holding
          <5>4. (\E i \in 1..(Len(waiters) - 1) : waiters[i + 1] = x)
                  <=> \E i \in 2..Len(waiters) : waiters[i] = x
            <6>1. \A i \in 2..Len(waiters) : i - 1 \in 1..(Len(waiters) - 1) /\ (i - 1) + 1 = i
              BY <2>1
            <6>2. \A i \in 1..(Len(waiters) - 1) : i + 1 \in 2..Len(waiters)
              BY <2>1
            <6>3. QED BY <6>1, <6>2
          <5>5. (\E i \in 1..Len(waiters) : waiters[i] = x)
                  <=> x = h \/ \E i \in 2..Len(waiters) : waiters[i] = x
            BY <2>1
          <5>6. QED BY <2>1, <2>3, <5>1, <5>2, <5>3, <5>4, <5>5
        <4>2. /\ DOMAIN waiters' = 1..(Len(waiters) - 1)
              /\ \A i \in 1..(Len(waiters) - 1) : waiters'[i] = waiters[i + 1]
          BY <2>1, <2>2
        <4>3. ASSUME NEW x \in Request
              PROVE  pc'[x] = "waiting" <=> \E i \in DOMAIN waiters' : waiters'[i] = x
          BY <4>1, <4>2
        <4>4. QED BY <4>3
      <3>3. (\A i, j \in DOMAIN waiters : waiters[i] = waiters[j] => i = j)'
        <4>1. \A i, j \in 1..Len(waiters) : waiters[i] = waiters[j] => i = j
          BY <2>1 DEF OneHolder
        <4>2. QED BY <2>1, <2>2, <4>1
      <3>4. QED BY <2>2, <2>4, <3>1, <3>2, <3>3 DEF OneHolder
    <2>6. QueueInOrder'
      <3>1. ASSUME NEW i \in 1..(Len(waiters) - 1), NEW q \in before[waiters[i + 1]]
            PROVE  \/ pc'[q] = "done" \/ owner' = q
                   \/ \E j \in 1..(Len(waiters) - 1) : j < i /\ waiters[j + 1] = q
        <4>1. i + 1 \in DOMAIN waiters /\ q \in Request
          BY <2>1 DEF TypeOK
        <4>2. pc[q] = "done" \/ owner = q \/ \E j \in DOMAIN waiters : j < i + 1 /\ waiters[j] = q
          BY <4>1 DEF QueueInOrder
        <4>3. CASE pc[q] = "done"
          BY <2>3, <4>1, <4>3, <2>2
        <4>4. CASE owner = q
          BY <1>1, <2>3, <4>4
        <4>5. CASE \E j \in DOMAIN waiters : j < i + 1 /\ waiters[j] = q
          <5>1. PICK j \in DOMAIN waiters : j < i + 1 /\ waiters[j] = q
            BY <4>5
          <5>2. CASE j = 1
            BY <2>1, <2>2, <5>1, <5>2
          <5>3. CASE j # 1
            <6>1. j - 1 \in 1..(Len(waiters) - 1) /\ j - 1 < i /\ waiters[(j - 1) + 1] = q
              BY <2>1, <5>1, <5>3
            <6>2. QED BY <6>1
          <5>4. QED BY <5>2, <5>3
        <4>6. QED BY <4>2, <4>3, <4>4, <4>5
      <3>2. ASSUME NEW i \in DOMAIN waiters', NEW q \in before'[waiters'[i]]
            PROVE  \/ pc'[q] = "done" \/ owner' = q
                   \/ \E j \in DOMAIN waiters' : j < i /\ waiters'[j] = q
        <4>1. i \in 1..(Len(waiters) - 1) /\ q \in before[waiters[i + 1]]
          BY <1>1, <2>1, <2>2
        <4>2. \A j \in 1..(Len(waiters) - 1) :
                j \in DOMAIN waiters' /\ waiters'[j] = waiters[j + 1]
          BY <2>1, <2>2
        <4>3. waiters'[i] = waiters[i + 1]
          BY <4>1, <4>2
        <4>4. CASE \E j \in 1..(Len(waiters) - 1) : j < i /\ waiters[j + 1] = q
          <5>1. PICK j \in 1..(Len(waiters) - 1) : j < i /\ waiters[j + 1] = q
            BY <4>4
          <5>2. j \in DOMAIN waiters' /\ waiters'[j] = q
            BY <4>2, <5>1
          <5>3. QED BY <5>1, <5>2
        <4>5. QED BY <3>1, <4>1, <4>4
      <3>3. QED BY <3>2 DEF QueueInOrder
    <2>7. ServedInOrder'
      <3>1. ASSUME NEW x \in Request, NEW q \in before[x],
                   pc'[x] \in Holding \cup {"done"}
            PROVE  pc'[q] = "done"
        <4>1. q \in Request /\ (pc[q] = "done" => q # h)
          BY <2>1 DEF TypeOK, OneHolder
        <4>2. pc[q] = "done" => pc'[q] = "done"
          BY <2>3, <4>1
        <4>3. CASE x = h
          <5>1. q \in before[waiters[1]] /\ 1 \in DOMAIN waiters
            BY <2>1, <4>3
          <5>2. pc[q] = "done" \/ owner = q
            BY <2>1, <5>1 DEF QueueInOrder
          <5>3. QED BY <1>1, <2>3, <4>2, <5>2
        <4>4. CASE x # h
          <5>1. pc[x] \in Holding \cup {"done"}
            BY <2>3, <3>1, <4>4
          <5>2. pc[q] = "done"
            BY <5>1 DEF ServedInOrder
          <5>3. QED BY <4>2, <5>2
        <4>5. QED BY <4>3, <4>4
      <3>2. QED BY <1>1, <3>1 DEF ServedInOrder
    <2>8. QED BY <2>5, <2>6, <2>7
  <1>4. QED BY <1>2, <1>3

\* So does every step.
LEMMA StepSem ==
  TypeOK /\ OneHolder /\ QueueInOrder /\ ServedInOrder /\ [Next]_vars
    => OneHolder' /\ QueueInOrder' /\ ServedInOrder'
  <1> SUFFICES ASSUME TypeOK, OneHolder, QueueInOrder, ServedInOrder, [Next]_vars
               PROVE  OneHolder' /\ QueueInOrder' /\ ServedInOrder'
    OBVIOUS
  <1>1. ASSUME NEW r \in Request, NEW to \in Holding, Moves(r, to)
        PROVE  OneHolder' /\ QueueInOrder' /\ ServedInOrder'
    <2>1. /\ pc[r] \in Holding /\ pc'[r] \in Holding
          /\ \A x \in Request : x # r => pc'[x] = pc[x]
          /\ owner' = owner /\ waiters' = waiters /\ before' = before
      BY <1>1 DEF Moves, TypeOK, semVars
    <2>2. /\ \A x \in Request : pc'[x] \in Holding <=> pc[x] \in Holding
          /\ \A x \in Request : pc'[x] = "waiting" <=> pc[x] = "waiting"
          /\ \A x \in Request : pc'[x] = "done" <=> pc[x] = "done"
      BY <2>1 DEF Holding
    <2>3. OneHolder'
      BY <2>1, <2>2 DEF OneHolder
    <2>4. QueueInOrder'
      BY <2>1, <2>2 DEF QueueInOrder, TypeOK
    <2>5. ServedInOrder'
      BY <2>1, <2>2 DEF ServedInOrder, TypeOK
    <2>6. QED BY <2>3, <2>4, <2>5
  <1>2. ASSUME UNCHANGED <<pc, semVars>>
        PROVE  OneHolder' /\ QueueInOrder' /\ ServedInOrder'
    BY <1>2 DEF semVars, OneHolder, QueueInOrder, ServedInOrder
  <1>3. QED BY <1>1, <1>2, SemStep, AcquireSem, ReleaseSem

-----------------------------------------------------------------------------
(* The sinks *)

\* What the end of a handler does to the requests: it is done with its outcome,
\* and one that waited may be granted the unit.
LEMMA ReleaseOthers ==
  ASSUME TypeOK, OneHolder,
         NEW r \in Request, NEW o, ReleaseAndFinish(r, o), pc[r] \in Holding
  PROVE  /\ pc'[r] = "done" /\ res'[r] = o
         /\ \A x \in Request : x # r =>
              /\ res'[x] = res[x]
              /\ \/ pc'[x] = pc[x]
                 \/ pc[x] = "waiting" /\ pc'[x] = "granted"
  <1>0. res' = [res EXCEPT ![r] = o]
    BY DEF ReleaseAndFinish
  <1>1. CASE waiters = <<>>
    BY <1>0, <1>1 DEF ReleaseAndFinish, TypeOK
  <1>2. CASE waiters # <<>>
    <2>1. 1 \in DOMAIN waiters /\ Head(waiters) = waiters[1] /\ Head(waiters) \in Request
      BY <1>2 DEF TypeOK
    <2>2. pc[Head(waiters)] = "waiting" /\ Head(waiters) # r
      BY <2>1 DEF OneHolder, Holding
    <2>3. pc' = [pc EXCEPT ![r] = "done", ![Head(waiters)] = "granted"]
      BY <1>2 DEF ReleaseAndFinish
    <2>4. QED BY <1>0, <2>1, <2>2, <2>3 DEF TypeOK
  <1>3. QED BY <1>1, <1>2

\* Pushing out a stream empties it; nothing is lost unless its file was truncated.
LEMMA PushOutKeeps ==
  ASSUME TypeOK, NEW s \in Sink, PushOut(s)
  PROVE  /\ buf'[s] = {}
         /\ \A t \in Sink : buf'[t] \subseteq buf[t]
         /\ \A t \in Sink \ clobbered : buf[t] \cup disk[t] \subseteq buf'[t] \cup disk'[t]
  <1>1. buf' = [buf EXCEPT ![s] = {}]
    BY DEF PushOut
  <1>2. PICK kept : /\ kept \in IF s \in clobbered THEN SUBSET buf[s] ELSE {buf[s]}
                    /\ disk' = [disk EXCEPT ![s] = @ \cup kept]
    BY DEF PushOut
  <1>3. s \notin clobbered => disk'[s] = disk[s] \cup buf[s]
    BY <1>2 DEF TypeOK
  <1>4. \A t \in Sink : t # s => buf'[t] = buf[t] /\ disk'[t] = disk[t]
    BY <1>1, <1>2 DEF TypeOK
  <1>5. buf'[s] = {}
    BY <1>1 DEF TypeOK
  <1>6. QED BY <1>3, <1>4, <1>5

\* Every step keeps the sinks' life around swaps and the payloads' targets.
LEMMA StepSinks ==
  IInv /\ [Next]_vars => SinkLife' /\ TargetLife'
  <1> SUFFICES ASSUME IInv, [Next]_vars
               PROVE  SinkLife' /\ TargetLife'
    OBVIOUS
  <1> USE DEF IInv
  <1>0. /\ Writer \subseteq Request /\ Swap \subseteq Request /\ Swap \subseteq Sink
        /\ Writer \cap Swap = {} /\ "boot" \notin Swap /\ "boot" \in Sink
        /\ None \notin Sink /\ Sink \ {"boot"} \subseteq Swap
    BY SinkSwapAssumption DEF Request, Sink
  \* What a release does to the other requests, and the end of an acquire.
  <1>a. ASSUME NEW r \in Request, NEW o, ReleaseAndFinish(r, o), pc[r] \in Holding
        PROVE  /\ pc'[r] = "done"
               /\ \A x \in Request : x # r => \/ pc'[x] = pc[x]
                                              \/ pc[x] = "waiting" /\ pc'[x] = "granted"
    BY <1>a, ReleaseOthers
  <1>b. ASSUME NEW r \in Request, Acquire(r)
        PROVE  /\ pc[r] = "idle" /\ pc'[r] \in {"waiting", "granted"}
               /\ \A x \in Request : x # r => pc'[x] = pc[x]
    BY <1>b DEF Acquire, TypeOK
  \* Only one request is past get_units.
  <1>c. \A x, y \in Request : pc[x] \in Holding /\ pc[y] \in Holding => x = y
    BY DEF OneHolder
  <1>1. ASSUME NEW w \in Writer, PayloadArrives(w) PROVE SinkLife' /\ TargetLife'
    <2>1. Acquire(w) /\ UNCHANGED <<sinkVars, target, phase>>
      BY <1>1 DEF PayloadArrives, outVars
    <2>2. SinkLife'
      BY <1>0, <1>b, <2>1 DEF SinkLife, sinkVars, TypeOK
    <2>3. TargetLife'
      BY <1>0, <1>b, <2>1 DEF TargetLife, sinkVars, TypeOK
    <2>4. QED BY <2>2, <2>3
  <1>2. ASSUME NEW w \in Writer, EncodeFails(w) PROVE SinkLife' /\ TargetLife'
    <2>1. /\ ReleaseAndFinish(w, "encode_error") /\ pc[w] \in Holding
          /\ UNCHANGED <<sinkVars, target, phase>>
      BY <1>2 DEF EncodeFails, outVars, Holding
    <2>2. SinkLife'
      <3>a. (\A x \in Swap : pc[x] # "idle" => sinkUri[x] \in Uri)'
        BY <1>0, <1>a, <2>1 DEF SinkLife, TypeOK, Holding, sinkVars
      <3>b. (\A x \in Swap : pc[x] \in {"flushing", "closing"} => sinkSt[x] = "open")'
        BY <1>0, <1>a, <2>1 DEF SinkLife, TypeOK, Holding, sinkVars
      <3>c. (cur = "boot" \/ pc[cur] = "done")' /\ (cfgUri = sinkUri[cur])'
        BY <1>0, <1>a, <2>1 DEF SinkLife, TypeOK, Holding, sinkVars
      <3>d. (phase = "serving" => \/ sinkSt[cur] = "open" \/ cur \in faulty
                                  \/ \E x \in Swap : pc[x] = "closing")'
        BY <1>0, <1>a, <2>1 DEF SinkLife, TypeOK, Holding, sinkVars
      <3>e. (phase # "serving" => \A x \in Swap : pc[x] \in {"idle", "done"})'
        BY <1>0, <1>a, <2>1 DEF SinkLife, TypeOK, Holding, sinkVars
      <3>f. QED BY <3>a, <3>b, <3>c, <3>d, <3>e DEF SinkLife
    <2>3. TargetLife'
      BY <1>0, <1>a, <2>1 DEF TargetLife, sinkVars, TypeOK
    <2>4. QED BY <2>2, <2>3
  <1>3. ASSUME NEW w \in Writer, BeginWrite(w) PROVE SinkLife' /\ TargetLife'
    <2>1. /\ pc[w] = "granted" /\ pc'[w] = "writing" /\ target'[w] = cur
          /\ \A x \in Request : x # w => pc'[x] = pc[x]
          /\ \A x \in Writer : x # w => target'[x] = target[x]
          /\ UNCHANGED <<sinkVars, phase>>
      BY <1>0, <1>3 DEF BeginWrite, TypeOK
    <2>2. SinkLife'
      <3>a. (\A x \in Swap : pc[x] # "idle" => sinkUri[x] \in Uri)'
        BY <1>0, <2>1 DEF SinkLife, TypeOK, Holding, sinkVars
      <3>b. (\A x \in Swap : pc[x] \in {"flushing", "closing"} => sinkSt[x] = "open")'
        BY <1>0, <2>1 DEF SinkLife, TypeOK, Holding, sinkVars
      <3>c. (cur = "boot" \/ pc[cur] = "done")' /\ (cfgUri = sinkUri[cur])'
        BY <1>0, <2>1 DEF SinkLife, TypeOK, Holding, sinkVars
      <3>d. (phase = "serving" => \/ sinkSt[cur] = "open" \/ cur \in faulty
                                  \/ \E x \in Swap : pc[x] = "closing")'
        BY <1>0, <2>1 DEF SinkLife, TypeOK, Holding, sinkVars
      <3>e. (phase # "serving" => \A x \in Swap : pc[x] \in {"idle", "done"})'
        BY <1>0, <2>1 DEF SinkLife, TypeOK, Holding, sinkVars
      <3>f. QED BY <3>a, <3>b, <3>c, <3>d, <3>e DEF SinkLife
    <2>3. TargetLife'
      BY <1>0, <2>1 DEF TargetLife, SinkLife, sinkVars, TypeOK
    <2>4. QED BY <2>2, <2>3
  <1>4. ASSUME NEW w \in Writer, EndWrite(w) PROVE SinkLife' /\ TargetLife'
    <2>1. /\ \E o \in Outcome : ReleaseAndFinish(w, o)
          /\ pc[w] \in Holding
          /\ UNCHANGED <<sinkVars, target, phase>>
      BY <1>4 DEF EndWrite, Outcome, Holding
    <2>2. SinkLife'
      <3>a. (\A x \in Swap : pc[x] # "idle" => sinkUri[x] \in Uri)'
        BY <1>0, <1>a, <2>1 DEF SinkLife, TypeOK, Holding, sinkVars
      <3>b. (\A x \in Swap : pc[x] \in {"flushing", "closing"} => sinkSt[x] = "open")'
        BY <1>0, <1>a, <2>1 DEF SinkLife, TypeOK, Holding, sinkVars
      <3>c. (cur = "boot" \/ pc[cur] = "done")' /\ (cfgUri = sinkUri[cur])'
        BY <1>0, <1>a, <2>1 DEF SinkLife, TypeOK, Holding, sinkVars
      <3>d. (phase = "serving" => \/ sinkSt[cur] = "open" \/ cur \in faulty
                                  \/ \E x \in Swap : pc[x] = "closing")'
        BY <1>0, <1>a, <2>1 DEF SinkLife, TypeOK, Holding, sinkVars
      <3>e. (phase # "serving" => \A x \in Swap : pc[x] \in {"idle", "done"})'
        BY <1>0, <1>a, <2>1 DEF SinkLife, TypeOK, Holding, sinkVars
      <3>f. QED BY <3>a, <3>b, <3>c, <3>d, <3>e DEF SinkLife
    <2>3. TargetLife'
      <3>1. /\ pc'[w] = "done"
            /\ \A x \in Request : x # w => \/ pc'[x] = pc[x]
                                           \/ pc[x] = "waiting" /\ pc'[x] = "granted"
        BY <1>0, <1>a, <2>1
      <3>2. cur' = cur /\ target' = target /\ \A x \in Writer : target[x] \in Sink \cup {None}
        BY <2>1 DEF sinkVars, TypeOK
      <3>3. QED BY <1>0, <3>1, <3>2 DEF TargetLife
    <2>4. QED BY <2>2, <2>3
  <1>5. ASSUME NEW s \in Swap, SwapArrives(s) PROVE SinkLife' /\ TargetLife'
    <2>1. /\ Acquire(s) /\ phase = "serving"
          /\ UNCHANGED <<cfgUri, cur, sinkSt, faulty, target, phase>>
          /\ \E u \in Uri : sinkUri' = [sinkUri EXCEPT ![s] = u]
      BY <1>5 DEF SwapArrives, outVars
    <2>2. sinkUri'[s] \in Uri /\ \A t \in Sink : t # s => sinkUri'[t] = sinkUri[t]
      BY <1>0, <2>1 DEF TypeOK
    <2>3. cur # s
      BY <1>0, <1>b, <2>1 DEF SinkLife
    <2>4. SinkLife'
      <3>a. (\A x \in Swap : pc[x] # "idle" => sinkUri[x] \in Uri)'
        BY <1>0, <1>b, <2>1, <2>2, <2>3 DEF SinkLife, TypeOK, Holding
      <3>b. (\A x \in Swap : pc[x] \in {"flushing", "closing"} => sinkSt[x] = "open")'
        BY <1>0, <1>b, <2>1, <2>2, <2>3 DEF SinkLife, TypeOK, Holding
      <3>c. (cur = "boot" \/ pc[cur] = "done")' /\ (cfgUri = sinkUri[cur])'
        BY <1>0, <1>b, <2>1, <2>2, <2>3 DEF SinkLife, TypeOK, Holding
      <3>d. (phase = "serving" => \/ sinkSt[cur] = "open" \/ cur \in faulty
                                  \/ \E x \in Swap : pc[x] = "closing")'
        BY <1>0, <1>b, <2>1, <2>2, <2>3 DEF SinkLife, TypeOK, Holding
      <3>e. (phase # "serving" => \A x \in Swap : pc[x] \in {"idle", "done"})'
        BY <1>0, <1>b, <2>1, <2>2, <2>3 DEF SinkLife, TypeOK, Holding
      <3>f. QED BY <3>a, <3>b, <3>c, <3>d, <3>e DEF SinkLife
    <2>5. TargetLife'
      BY <1>0, <1>b, <2>1 DEF TargetLife, TypeOK
    <2>6. QED BY <2>4, <2>5
  <1>6. ASSUME NEW s \in Swap, SwapMakesSink(s) PROVE SinkLife' /\ TargetLife'
    <2>1. /\ pc[s] \in Holding
          /\ UNCHANGED <<cfgUri, cur, sinkUri, sinkSt, faulty, target, phase>>
          /\ ReleaseAndFinish(s, "rejected") \/ pc' = [pc EXCEPT ![s] = "making"]
      BY <1>6 DEF SwapMakesSink, sinkVars, outVars, Holding
    <2>2. /\ pc[s] = "granted" /\ pc'[s] \in {"done", "making"}
          /\ \A x \in Request : x # s => \/ pc'[x] = pc[x]
                                         \/ pc[x] = "waiting" /\ pc'[x] = "granted"
      BY <1>0, <1>6, <1>a, <2>1 DEF SwapMakesSink, TypeOK
    <2>3. SinkLife'
      <3>a. (\A x \in Swap : pc[x] # "idle" => sinkUri[x] \in Uri)'
        BY <1>0, <2>1, <2>2 DEF SinkLife, TypeOK, Holding
      <3>b. (\A x \in Swap : pc[x] \in {"flushing", "closing"} => sinkSt[x] = "open")'
        BY <1>0, <2>1, <2>2 DEF SinkLife, TypeOK, Holding
      <3>c. (cur = "boot" \/ pc[cur] = "done")' /\ (cfgUri = sinkUri[cur])'
        BY <1>0, <2>1, <2>2 DEF SinkLife, TypeOK, Holding
      <3>d. (phase = "serving" => \/ sinkSt[cur] = "open" \/ cur \in faulty
                                  \/ \E x \in Swap : pc[x] = "closing")'
        BY <1>0, <2>1, <2>2 DEF SinkLife, TypeOK, Holding
      <3>e. (phase # "serving" => \A x \in Swap : pc[x] \in {"idle", "done"})'
        BY <1>0, <2>1, <2>2 DEF SinkLife, TypeOK, Holding
      <3>f. QED BY <3>a, <3>b, <3>c, <3>d, <3>e DEF SinkLife
    <2>4. TargetLife'
      BY <1>0, <2>1, <2>2 DEF TargetLife, TypeOK
    <2>5. QED BY <2>3, <2>4
  <1>7. ASSUME NEW s \in Swap, SwapFlushes(s) PROVE SinkLife' /\ TargetLife'
    <2>1. /\ pc[s] = "making"
          /\ UNCHANGED <<cfgUri, cur, sinkUri, faulty, target, phase>>
          /\ \/ ReleaseAndFinish(s, "rejected") /\ UNCHANGED sinkSt
             \/ /\ pc' = [pc EXCEPT ![s] = "flushing"]
                /\ sinkSt' = [sinkSt EXCEPT ![s] = "open"]
      BY <1>7 DEF SwapFlushes, outVars
    <2>2. /\ pc'[s] \in {"done", "flushing"}
          /\ pc'[s] = "flushing" => sinkSt'[s] = "open"
          /\ \A t \in Sink : t # s => sinkSt'[t] = sinkSt[t]
          /\ \A x \in Request : x # s => \/ pc'[x] = pc[x]
                                         \/ pc[x] = "waiting" /\ pc'[x] = "granted"
      BY <1>0, <1>a, <2>1 DEF TypeOK, Holding
    <2>3. cur # s
      BY <1>0, <2>1 DEF SinkLife
    <2>4. \A x \in Swap : x # s => pc[x] \notin Holding
      BY <1>0, <1>c, <2>1 DEF Holding
    <2>5. SinkLife'
      BY <1>0, <2>1, <2>2, <2>3, <2>4 DEF SinkLife, TypeOK, Holding
    <2>6. TargetLife'
      BY <1>0, <2>1, <2>2 DEF TargetLife, TypeOK
    <2>7. QED BY <2>5, <2>6
  <1>8. ASSUME NEW s \in Swap, SwapCloses(s) PROVE SinkLife' /\ TargetLife'
    <2>1. /\ pc[s] = "flushing" /\ cur # s
          /\ UNCHANGED <<cfgUri, cur, sinkUri, target, phase>>
          /\ \/ /\ pc' = [pc EXCEPT ![s] = "closing"]
                /\ sinkSt' = [sinkSt EXCEPT ![cur] = "closed"]
                /\ UNCHANGED faulty
             \/ /\ ReleaseAndFinish(s, "threw")
                /\ faulty' = faulty \cup {cur}
                /\ sinkSt' = [sinkSt EXCEPT ![s] = "freed"]
      BY <1>0, <1>8 DEF SwapCloses, SwapThrows, SinkLife
    <2>2. \A x \in Swap : x # s => pc[x] \notin Holding
      BY <1>0, <1>c, <2>1 DEF Holding
    <2>3. \A x \in Writer : pc[x] \notin Holding
      BY <1>0, <1>c, <2>1 DEF Holding
    <2>4. /\ pc'[s] \in {"closing", "done"}
          /\ \A x \in Request : x # s => \/ pc'[x] = pc[x]
                                         \/ pc[x] = "waiting" /\ pc'[x] = "granted"
      BY <1>0, <1>a, <2>1 DEF TypeOK, Holding
    <2>5. SinkLife'
      <3>1. CASE /\ pc' = [pc EXCEPT ![s] = "closing"]
                 /\ sinkSt' = [sinkSt EXCEPT ![cur] = "closed"]
                 /\ UNCHANGED faulty
        <4>1. pc'[s] = "closing" /\ sinkSt'[s] = "open"
          BY <1>0, <2>1, <3>1 DEF SinkLife, TypeOK
        <4>a. (\A x \in Swap : pc[x] # "idle" => sinkUri[x] \in Uri)'
          BY <1>0, <2>1, <2>2, <2>4, <4>1 DEF SinkLife, TypeOK, Holding
        <4>b. (\A x \in Swap : pc[x] \in {"flushing", "closing"} => sinkSt[x] = "open")'
          BY <1>0, <2>1, <2>2, <2>4, <4>1 DEF SinkLife, TypeOK, Holding
        <4>c. (cur = "boot" \/ pc[cur] = "done")' /\ (cfgUri = sinkUri[cur])'
          BY <1>0, <2>1, <2>2, <2>4, <4>1 DEF SinkLife, TypeOK, Holding
        <4>d. (phase = "serving" => \/ sinkSt[cur] = "open" \/ cur \in faulty
                                    \/ \E x \in Swap : pc[x] = "closing")'
          BY <1>0, <2>1, <2>2, <2>4, <4>1 DEF SinkLife, TypeOK, Holding
        <4>e. (phase # "serving" => \A x \in Swap : pc[x] \in {"idle", "done"})'
          BY <1>0, <2>1, <2>2, <2>4, <4>1 DEF SinkLife, TypeOK, Holding
        <4>f. QED BY <4>a, <4>b, <4>c, <4>d, <4>e DEF SinkLife
      <3>2. CASE ReleaseAndFinish(s, "threw") /\ faulty' = faulty \cup {cur}
        <4>1. pc'[s] = "done" /\ cur' \in faulty'
          BY <1>0, <1>a, <2>1, <3>2 DEF Holding
        <4>a. (\A x \in Swap : pc[x] # "idle" => sinkUri[x] \in Uri)'
          BY <1>0, <2>1, <2>2, <2>4, <4>1 DEF SinkLife, TypeOK, Holding
        <4>b. (\A x \in Swap : pc[x] \in {"flushing", "closing"} => sinkSt[x] = "open")'
          BY <1>0, <2>1, <2>2, <2>4, <4>1 DEF SinkLife, TypeOK, Holding
        <4>c. (cur = "boot" \/ pc[cur] = "done")' /\ (cfgUri = sinkUri[cur])'
          BY <1>0, <2>1, <2>2, <2>4, <4>1 DEF SinkLife, TypeOK, Holding
        <4>d. (phase = "serving" => \/ sinkSt[cur] = "open" \/ cur \in faulty
                                    \/ \E x \in Swap : pc[x] = "closing")'
          BY <1>0, <2>1, <2>2, <2>4, <4>1 DEF SinkLife, TypeOK, Holding
        <4>e. (phase # "serving" => \A x \in Swap : pc[x] \in {"idle", "done"})'
          BY <1>0, <2>1, <2>2, <2>4, <4>1 DEF SinkLife, TypeOK, Holding
        <4>f. QED BY <4>a, <4>b, <4>c, <4>d, <4>e DEF SinkLife
      <3>3. QED BY <2>1, <3>1, <3>2
    <2>6. TargetLife'
      BY <1>0, <2>1, <2>3, <2>4 DEF TargetLife, TypeOK, Holding
    <2>7. QED BY <2>5, <2>6
  <1>9. ASSUME NEW s \in Swap, SwapInstalls(s) PROVE SinkLife' /\ TargetLife'
    <2>1. /\ pc[s] = "closing" /\ cur # s /\ sinkSt[s] = "open"
          /\ UNCHANGED <<sinkUri, target, phase>>
          /\ \/ /\ ReleaseAndFinish(s, "replaced")
                /\ cfgUri' = sinkUri[s] /\ cur' = s
                /\ sinkSt' = [sinkSt EXCEPT ![cur] = "freed"]
             \/ /\ ReleaseAndFinish(s, "threw")
                /\ faulty' = faulty \cup {cur}
                /\ UNCHANGED <<cfgUri, cur>>
                /\ sinkSt' = [sinkSt EXCEPT ![s] = "freed"]
      BY <1>0, <1>9 DEF SwapInstalls, SwapThrows, SinkLife, outVars
    <2>2. \A x \in Request : x # s => pc[x] \notin Holding
      BY <1>0, <1>c, <2>1 DEF Holding
    <2>3. /\ pc'[s] = "done"
          /\ \A x \in Request : x # s => \/ pc'[x] = pc[x]
                                         \/ pc[x] = "waiting" /\ pc'[x] = "granted"
      BY <1>0, <1>a, <2>1 DEF TypeOK, Holding
    <2>4. \A x \in Swap : pc'[x] \notin {"flushing", "closing"}
      BY <1>0, <2>2, <2>3 DEF Holding
    <2>5. SinkLife'
      <3>1. CASE /\ cfgUri' = sinkUri[s] /\ cur' = s
                 /\ sinkSt' = [sinkSt EXCEPT ![cur] = "freed"]
        <4>1. sinkSt'[cur'] = "open"
          BY <1>0, <2>1, <3>1 DEF TypeOK
        <4>a. (\A x \in Swap : pc[x] # "idle" => sinkUri[x] \in Uri)'
          BY <1>0, <2>1, <2>3, <2>4, <3>1, <4>1 DEF SinkLife, TypeOK, Holding
        <4>b. (\A x \in Swap : pc[x] \in {"flushing", "closing"} => sinkSt[x] = "open")'
          BY <1>0, <2>1, <2>3, <2>4, <3>1, <4>1 DEF SinkLife, TypeOK, Holding
        <4>c. (cur = "boot" \/ pc[cur] = "done")' /\ (cfgUri = sinkUri[cur])'
          BY <1>0, <2>1, <2>3, <2>4, <3>1, <4>1 DEF SinkLife, TypeOK, Holding
        <4>d. (phase = "serving" => \/ sinkSt[cur] = "open" \/ cur \in faulty
                                    \/ \E x \in Swap : pc[x] = "closing")'
          BY <1>0, <2>1, <2>3, <2>4, <3>1, <4>1 DEF SinkLife, TypeOK, Holding
        <4>e. (phase # "serving" => \A x \in Swap : pc[x] \in {"idle", "done"})'
          BY <1>0, <2>1, <2>3, <2>4, <3>1, <4>1 DEF SinkLife, TypeOK, Holding
        <4>f. QED BY <4>a, <4>b, <4>c, <4>d, <4>e DEF SinkLife
      <3>2. CASE faulty' = faulty \cup {cur} /\ UNCHANGED <<cfgUri, cur>>
        <4>a. (\A x \in Swap : pc[x] # "idle" => sinkUri[x] \in Uri)'
          BY <1>0, <2>1, <2>3, <2>4, <3>2 DEF SinkLife, TypeOK, Holding
        <4>b. (\A x \in Swap : pc[x] \in {"flushing", "closing"} => sinkSt[x] = "open")'
          BY <1>0, <2>1, <2>3, <2>4, <3>2 DEF SinkLife, TypeOK, Holding
        <4>c. (cur = "boot" \/ pc[cur] = "done")' /\ (cfgUri = sinkUri[cur])'
          BY <1>0, <2>1, <2>3, <2>4, <3>2 DEF SinkLife, TypeOK, Holding
        <4>d. (phase = "serving" => \/ sinkSt[cur] = "open" \/ cur \in faulty
                                    \/ \E x \in Swap : pc[x] = "closing")'
          BY <1>0, <2>1, <2>3, <2>4, <3>2 DEF SinkLife, TypeOK, Holding
        <4>e. (phase # "serving" => \A x \in Swap : pc[x] \in {"idle", "done"})'
          BY <1>0, <2>1, <2>3, <2>4, <3>2 DEF SinkLife, TypeOK, Holding
        <4>f. QED BY <4>a, <4>b, <4>c, <4>d, <4>e DEF SinkLife
      <3>3. QED BY <2>1, <3>1, <3>2
    <2>6. TargetLife'
      BY <1>0, <2>1, <2>2, <2>3 DEF TargetLife, TypeOK, Holding
    <2>7. QED BY <2>5, <2>6
  <1>10. CASE StopBegins
    BY <1>0, <1>10 DEF StopBegins, SinkLife, TargetLife, sinkVars, outVars
  <1>11. CASE StopFlushes
    BY <1>0, <1>11 DEF StopFlushes, SinkLife, TargetLife
  <1>12. CASE StopEnds
    BY <1>0, <1>12 DEF StopEnds, SinkLife, TargetLife, outVars
  <1>13. CASE UNCHANGED vars
    BY <1>13 DEF vars, SinkLife, TargetLife, sinkVars, outVars
  <1>14. QED
    BY <1>1, <1>2, <1>3, <1>4, <1>5, <1>6, <1>7, <1>8, <1>9, <1>10, <1>11,
       <1>12, <1>13 DEF Next, WriterStep, SwapStep, Stopped

-----------------------------------------------------------------------------
(* What the sinks hold *)

\* A step that takes nothing out of a sink that is not clobbered keeps Kept, if
\* a handler that newly ends normally has left its payload there.
LEMMA KeptFrame ==
  ASSUME IInv, faulty \subseteq faulty', clobbered \subseteq clobbered',
         \A t \in Sink \ clobbered' : buf[t] \cup disk[t] \subseteq buf'[t] \cup disk'[t],
         \A w \in Writer : res'[w] = "written" =>
           /\ pc'[w] = "done" /\ target'[w] = target[w]
           /\ \/ res[w] = "written"
              \/ target[w] # None /\ w \in buf'[target[w]] \cup disk'[target[w]]
              \/ target[w] # None /\ target[w] \in clobbered'
  PROVE  Kept'
  <1> SUFFICES ASSUME NEW w \in Writer, res'[w] = "written"
               PROVE  /\ pc'[w] = "done" /\ target'[w] # None
                      /\ target'[w] \notin faulty' \cup clobbered'
                           => w \in buf'[target'[w]] \cup disk'[target'[w]]
    BY DEF Kept
  <1>1. target[w] \in Sink \cup {None}
    BY DEF IInv, TypeOK
  <1>2. CASE res[w] = "written"
    BY <1>1, <1>2 DEF IInv, Kept
  <1>3. CASE res[w] # "written"
    BY <1>3
  <1>4. QED BY <1>2, <1>3

\* Every step keeps what the sinks hold: nothing is lost around a swap.
LEMMA StepOutput == IInv /\ [Next]_vars => Drained' /\ Kept'
  <1> SUFFICES ASSUME IInv, [Next]_vars
               PROVE  Drained' /\ Kept'
    OBVIOUS
  <1>0. /\ Writer \subseteq Request /\ Swap \subseteq Request /\ Swap \subseteq Sink
        /\ Writer \cap Swap = {} /\ None \notin Sink
        /\ TypeOK /\ OneHolder /\ SinkLife /\ TargetLife /\ Drained /\ Kept
        /\ cur \in Sink
    BY SinkSwapAssumption DEF Request, Sink, IInv, TypeOK
  <1>a. ASSUME NEW r \in Request, NEW o, ReleaseAndFinish(r, o), pc[r] \in Holding
        PROVE  /\ pc'[r] = "done" /\ res'[r] = o
               /\ \A x \in Request : x # r =>
                    /\ res'[x] = res[x]
                    /\ \/ pc'[x] = pc[x]
                       \/ pc[x] = "waiting" /\ pc'[x] = "granted"
    BY <1>0, <1>a, ReleaseOthers
  <1>b. ASSUME NEW r \in Request, Acquire(r)
        PROVE  /\ pc[r] = "idle" /\ pc'[r] \in {"waiting", "granted"}
               /\ \A x \in Request : x # r => pc'[x] = pc[x]
    BY <1>0, <1>b DEF Acquire, TypeOK
  <1>c. \A x, y \in Request : pc[x] \in Holding /\ pc[y] \in Holding => x = y
    BY <1>0 DEF OneHolder
  \* A handler that has ended is done; no other is.
  <1>d. \A w \in Writer : res[w] = "written" => pc[w] = "done"
    BY <1>0 DEF Kept
  \* While a payload holds the unit, _sink is an open sink, or its close threw.
  <1>e. ASSUME NEW w \in Writer, pc[w] \in Holding, phase = "serving"
        PROVE  sinkSt[cur] = "open" \/ cur \in faulty
    <2>1. \A s \in Swap : pc[s] # "closing"
      BY <1>0, <1>c, <1>e DEF Holding
    <2>2. QED BY <1>0, <1>e, <2>1 DEF SinkLife
  <1>1. ASSUME NEW r \in Request, Acquire(r),
               UNCHANGED <<cur, sinkSt, faulty, clobbered, outVars, res, phase>>
        PROVE  Drained' /\ Kept'
    <2>1. UNCHANGED <<buf, disk, target>>
      BY <1>1 DEF outVars
    <2>2. Drained'
      BY <1>0, <1>1, <1>b, <2>1 DEF Drained
    <2>3. \A w \in Writer : res'[w] = "written" => pc'[w] = "done"
      BY <1>0, <1>1, <1>b, <1>d
    <2>4. Kept'
      BY <1>0, <1>1, <2>1, <2>3 DEF Kept
    <2>5. QED BY <2>2, <2>4
  <1>2. ASSUME NEW w \in Writer, EncodeFails(w) PROVE Drained' /\ Kept'
    <2>1. /\ pc[w] \in Holding /\ ReleaseAndFinish(w, "encode_error")
          /\ UNCHANGED <<cur, sinkSt, faulty, clobbered, buf, disk, target, phase>>
      BY <1>2 DEF EncodeFails, sinkVars, outVars, Holding
    <2>2. \A x \in Request : pc'[x] = pc[x] \/ x = w \/ (pc'[x] = "granted" /\ pc[x] = "waiting")
      BY <1>0, <1>a, <2>1
    <2>3. Drained'
      BY <1>0, <2>1, <2>2 DEF Drained
    <2>4. \A x \in Writer : res'[x] = "written" => res[x] = "written" /\ pc'[x] = "done"
      BY <1>0, <1>a, <1>d, <2>1
    <2>5. Kept'
      BY <1>0, <2>1, <2>4 DEF Kept
    <2>6. QED BY <2>3, <2>5
  <1>3. ASSUME NEW w \in Writer, BeginWrite(w) PROVE Drained' /\ Kept'
    <2>1. /\ pc[w] = "granted" /\ pc' = [pc EXCEPT ![w] = "writing"]
          /\ target' = [target EXCEPT ![w] = cur]
          /\ UNCHANGED <<cur, sinkSt, faulty, clobbered, disk, res, phase>>
      BY <1>3 DEF BeginWrite, sinkVars
    <2>2. /\ \A t \in Sink : t # cur => buf'[t] = buf[t]
          /\ buf[cur] \subseteq buf'[cur]
      BY <1>0, <1>3 DEF BeginWrite, TypeOK
    <2>3. \A x \in Request : x # w => pc'[x] = pc[x]
      BY <1>0, <2>1 DEF TypeOK
    <2>4. \A s \in Swap : pc[s] \notin Holding
      BY <1>0, <1>c, <2>1 DEF Holding
    <2>5. Drained'
      <3>1. \A s \in Swap : pc'[s] # "done" => s # cur
        BY <1>0, <2>1, <2>3, SinkSwapAssumption DEF SinkLife
      <3>2. phase = "serving" => sinkSt[cur] = "open" \/ cur \in faulty
        BY <1>e, <2>1 DEF Holding
      <3>3. \A s \in Swap : pc'[s] = pc[s] /\ pc'[s] # "closing"
        BY <1>0, <2>3, <2>4 DEF Holding
      <3>4. QED BY <1>0, <2>1, <2>2, <3>1, <3>2, <3>3 DEF Drained
    <2>6. Kept'
      <3>1. \A x \in Writer : res'[x] = "written" =>
              res[x] = "written" /\ x # w /\ pc'[x] = "done" /\ target'[x] = target[x]
        BY <1>0, <1>d, <2>1, <2>3 DEF TypeOK
      <3>2. \A t \in Sink : buf[t] \cup disk[t] \subseteq buf'[t] \cup disk'[t]
        BY <2>1, <2>2
      <3>3. QED BY <2>1, <3>1, <3>2, KeptFrame
    <2>7. QED BY <2>5, <2>6
  <1>4. ASSUME NEW w \in Writer, EndWrite(w) PROVE Drained' /\ Kept'
    <2>1. /\ pc[w] = "writing" /\ pc[w] \in Holding /\ target[w] = cur
          /\ UNCHANGED <<cur, sinkSt, faulty, clobbered, target, phase>>
      BY <1>0, <1>4 DEF EndWrite, sinkVars, TargetLife, Holding
    <2>2. /\ \A t \in Sink : buf'[t] \subseteq buf[t]
          /\ \A t \in Sink \ clobbered : buf[t] \cup disk[t] \subseteq buf'[t] \cup disk'[t]
      BY <1>0, <1>4, <2>1, PushOutKeeps DEF EndWrite
    <2>3. PICK o \in Outcome : /\ ReleaseAndFinish(w, o)
                               /\ o = "written" => w \in buf[cur] \cup disk[cur]
      BY <1>4, <2>1 DEF EndWrite, Outcome
    <2>4. /\ pc'[w] = "done" /\ res'[w] = o
          /\ \A x \in Request : x # w =>
               /\ res'[x] = res[x]
               /\ pc'[x] = pc[x] \/ (pc[x] = "waiting" /\ pc'[x] = "granted")
      BY <1>0, <1>a, <2>1, <2>3
    <2>5. Drained'
      <3>1. \A s \in Swap : pc'[s] # "done" => pc[s] # "done"
        BY <1>0, <2>4
      <3>2. \A s \in Swap : pc'[s] = "closing" => pc[s] = "closing"
        BY <1>0, <2>4
      <3>3. QED BY <1>0, <2>1, <2>2, <3>1, <3>2 DEF Drained
    <2>6. Kept'
      <3>1. \A x \in Writer : res'[x] = "written" => pc'[x] = "done"
        BY <1>0, <1>d, <2>4
      <3>2. \A x \in Writer : res'[x] = "written" =>
              \/ res[x] = "written"
              \/ target[x] # None /\ x \in buf'[target[x]] \cup disk'[target[x]]
              \/ target[x] # None /\ target[x] \in clobbered'
        <4>1. ASSUME NEW x \in Writer, res'[x] = "written", x # w
              PROVE  res[x] = "written"
          BY <1>0, <2>4, <4>1
        <4>2. CASE o = "written" /\ cur \notin clobbered
          <5>1. w \in buf'[cur] \cup disk'[cur]
            BY <1>0, <2>2, <2>3, <4>2
          <5>2. QED BY <1>0, <2>1, <4>1, <5>1
        <4>3. CASE o = "written" /\ cur \in clobbered
          BY <1>0, <2>1, <4>1, <4>3
        <4>4. CASE o # "written"
          BY <2>4, <4>1, <4>4
        <4>5. QED BY <4>2, <4>3, <4>4
      <3>3. QED BY <2>1, <2>2, <3>1, <3>2, KeptFrame
    <2>7. QED BY <2>5, <2>6
  <1>5. ASSUME NEW s \in Swap, SwapMakesSink(s) PROVE Drained' /\ Kept'
    <2>1. CASE ReleaseAndFinish(s, "rejected") /\ UNCHANGED <<sinkVars, outVars>>
      <3>1. /\ UNCHANGED <<cur, sinkSt, faulty, clobbered, buf, disk, target, phase>>
            /\ pc[s] \in Holding
        BY <1>5, <2>1 DEF SwapMakesSink, sinkVars, outVars, Holding
      <3>2. \A x \in Request : x # s =>
               /\ res'[x] = res[x]
               /\ pc'[x] = pc[x] \/ (pc[x] = "waiting" /\ pc'[x] = "granted")
        BY <1>0, <1>a, <2>1, <3>1
      <3>3. pc'[s] = "done"
        BY <1>0, <1>a, <2>1, <3>1
      <3>4. Drained'
        BY <1>0, <3>1, <3>2, <3>3 DEF Drained
      <3>5. \A x \in Writer : res'[x] = "written" => res[x] = "written" /\ pc'[x] = "done"
        BY <1>0, <1>d, <3>2
      <3>6. Kept'
        BY <1>0, <3>1, <3>5 DEF Kept
      <3>7. QED BY <3>4, <3>6
    <2>2. CASE /\ pc' = [pc EXCEPT ![s] = "making"]
               /\ UNCHANGED <<semVars, cfgUri, cur, sinkUri, sinkSt, faulty,
                              buf, target, form, res>>
               /\ \E hit \in SUBSET Sink :
                    /\ clobbered' = clobbered \cup hit
                    /\ disk' = [t \in Sink |-> IF t \in hit THEN {} ELSE disk[t]]
      <3>1. /\ \A x \in Request : x # s => pc'[x] = pc[x]
            /\ pc'[s] = "making" /\ pc[s] = "granted" /\ phase' = phase
        BY <1>0, <1>5, <2>2 DEF TypeOK, SwapMakesSink
      <3>2. /\ clobbered \subseteq clobbered'
            /\ \A t \in Sink \ clobbered' : buf[t] \cup disk[t] \subseteq buf'[t] \cup disk'[t]
        BY <2>2
      <3>3. Drained'
        BY <1>0, <2>2, <3>1 DEF Drained
      <3>4. Kept'
        BY <1>0, <1>d, <2>2, <3>1, <3>2, KeptFrame
      <3>5. QED BY <3>3, <3>4
    <2>3. QED BY <1>5, <2>1, <2>2 DEF SwapMakesSink
  <1>6. ASSUME NEW s \in Swap, SwapFlushes(s) PROVE Drained' /\ Kept'
    <2>1. /\ pc[s] = "making" /\ pc[s] \in Holding
          /\ UNCHANGED <<cur, faulty, clobbered, buf, disk, target, phase>>
          /\ \A t \in Sink : sinkSt'[t] = sinkSt[t] \/ sinkSt'[t] = "open"
      BY <1>0, <1>6 DEF SwapFlushes, outVars, Holding, TypeOK
    <2>2. /\ pc'[s] \in {"done", "flushing"}
          /\ \A x \in Request : x # s =>
               /\ res'[x] = res[x]
               /\ pc'[x] = pc[x] \/ (pc[x] = "waiting" /\ pc'[x] = "granted")
      <3>1. CASE ReleaseAndFinish(s, "rejected")
        BY <1>0, <1>a, <2>1, <3>1
      <3>2. CASE pc' = [pc EXCEPT ![s] = "flushing"] /\ UNCHANGED res
        BY <1>0, <3>2 DEF TypeOK
      <3>3. QED BY <1>6, <3>1, <3>2 DEF SwapFlushes
    <2>3. Drained'
      BY <1>0, <2>1, <2>2 DEF Drained
    <2>4. \A x \in Writer : res'[x] = "written" => res[x] = "written" /\ pc'[x] = "done"
      BY <1>0, <1>d, <2>2
    <2>5. Kept'
      BY <1>0, <2>1, <2>4 DEF Kept
    <2>6. QED BY <2>3, <2>5
  <1>7. ASSUME NEW s \in Swap, SwapCloses(s) PROVE Drained' /\ Kept'
    <2>1. pc[s] = "flushing" /\ pc[s] \in Holding /\ UNCHANGED <<cur, clobbered, target, phase>>
      BY <1>7 DEF SwapCloses, SwapThrows, Holding
    <2>2. buf[s] = {} /\ s # cur
      BY <1>0, <2>1, SinkSwapAssumption DEF Drained, SinkLife
    <2>3. CASE /\ pc' = [pc EXCEPT ![s] = "closing"] /\ PushOut(cur)
               /\ sinkSt' = [sinkSt EXCEPT ![cur] = "closed"]
               /\ UNCHANGED <<faulty, res>>
      <3>1. /\ buf'[cur] = {} /\ \A t \in Sink : buf'[t] \subseteq buf[t]
            /\ \A t \in Sink \ clobbered : buf[t] \cup disk[t] \subseteq buf'[t] \cup disk'[t]
        BY <1>0, <2>3, PushOutKeeps
      <3>2. /\ pc'[s] = "closing" /\ \A x \in Request : x # s => pc'[x] = pc[x]
            /\ \A t \in Sink : t # cur => sinkSt'[t] = sinkSt[t]
        BY <1>0, <2>3 DEF TypeOK
      <3>3. Drained'
        BY <1>0, <2>1, <2>2, <2>3, <3>1, <3>2 DEF Drained
      <3>4. Kept'
        BY <1>0, <1>d, <2>1, <2>3, <3>1, <3>2, KeptFrame
      <3>5. QED BY <3>3, <3>4
    <2>4. CASE /\ ReleaseAndFinish(s, "threw") /\ faulty' = faulty \cup {cur}
               /\ sinkSt' = [sinkSt EXCEPT ![s] = "freed"]
               /\ UNCHANGED <<buf, disk>>
      <3>1. /\ pc'[s] = "done"
            /\ \A x \in Request : x # s =>
                 /\ res'[x] = res[x]
                 /\ pc'[x] = pc[x] \/ (pc[x] = "waiting" /\ pc'[x] = "granted")
            /\ \A t \in Sink : t # s => sinkSt'[t] = sinkSt[t]
        BY <1>0, <1>a, <2>1, <2>4 DEF TypeOK
      <3>2. Drained'
        BY <1>0, <2>1, <2>2, <2>4, <3>1 DEF Drained
      <3>3. \A x \in Writer : res'[x] = "written" => res[x] = "written" /\ pc'[x] = "done"
        BY <1>0, <1>d, <3>1
      <3>4. Kept'
        BY <1>0, <2>1, <2>4, <3>3 DEF Kept
      <3>5. QED BY <3>2, <3>4
    <2>5. QED BY <1>7, <2>3, <2>4 DEF SwapCloses, SwapThrows
  <1>8. ASSUME NEW s \in Swap, SwapInstalls(s) PROVE Drained' /\ Kept'
    <2>1. /\ pc[s] = "closing" /\ pc[s] \in Holding
          /\ UNCHANGED <<clobbered, buf, disk, target, phase>>
          /\ \E o : ReleaseAndFinish(s, o)
          /\ faulty \subseteq faulty'
          /\ \E t \in {s, cur} : sinkSt' = [sinkSt EXCEPT ![t] = "freed"]
      BY <1>8 DEF SwapInstalls, SwapThrows, outVars, Holding
    <2>2. buf[s] = {} /\ buf[cur] = {}
      BY <1>0, <2>1 DEF Drained
    <2>3. /\ pc'[s] = "done"
          /\ \A x \in Request : x # s =>
               /\ res'[x] = res[x]
               /\ pc'[x] = pc[x] \/ (pc[x] = "waiting" /\ pc'[x] = "granted")
      BY <1>0, <1>a, <2>1
    <2>4. \A x \in Swap : pc'[x] # "closing"
      BY <1>0, <1>c, <2>1, <2>3 DEF Holding
    <2>5. \A t \in Sink : t \notin {s, cur} => sinkSt'[t] = sinkSt[t]
      BY <1>0, <2>1 DEF TypeOK
    <2>6. Drained'
      BY <1>0, <2>1, <2>2, <2>3, <2>4, <2>5 DEF Drained
    <2>7. \A x \in Writer : res'[x] = "written" => res[x] = "written" /\ pc'[x] = "done"
      BY <1>0, <1>d, <2>3
    <2>8. Kept'
      BY <1>0, <2>1, <2>7 DEF Kept
    <2>9. QED BY <2>6, <2>8
  <1>9. CASE StopBegins
    <2>1. UNCHANGED <<pc, cur, sinkSt, faulty, clobbered, buf, disk, target, res>>
      BY <1>9 DEF StopBegins, sinkVars, outVars
    <2>2. QED BY <1>0, <1>9, <2>1 DEF StopBegins, Drained, Kept
  <1>10. CASE StopFlushes
    <2>1. /\ UNCHANGED <<pc, cur, clobbered, target, res>> /\ faulty \subseteq faulty'
          /\ phase' # "serving"
      BY <1>10 DEF StopFlushes
    <2>2. /\ \A t \in Sink : buf'[t] \subseteq buf[t]
          /\ \A t \in Sink \ clobbered : buf[t] \cup disk[t] \subseteq buf'[t] \cup disk'[t]
      BY <1>0, <1>10, PushOutKeeps DEF StopFlushes
    <2>3. Drained'
      BY <1>0, <2>1, <2>2 DEF Drained
    <2>4. Kept'
      BY <1>d, <2>1, <2>2, KeptFrame
    <2>5. QED BY <2>3, <2>4
  <1>11. CASE StopEnds
    BY <1>0, <1>11 DEF StopEnds, Drained, Kept, outVars
  <1>12. CASE UNCHANGED vars
    BY <1>0, <1>12 DEF vars, Drained, Kept, sinkVars, outVars
  <1>13. ASSUME NEW w \in Writer, PayloadArrives(w) PROVE Drained' /\ Kept'
    <2>1. /\ w \in Request /\ Acquire(w)
          /\ UNCHANGED <<cur, sinkSt, faulty, clobbered, outVars, res, phase>>
      BY <1>0, <1>13 DEF PayloadArrives, sinkVars
    <2>2. QED BY <1>1, <2>1
  <1>14. ASSUME NEW s \in Swap, SwapArrives(s) PROVE Drained' /\ Kept'
    <2>1. /\ s \in Request /\ Acquire(s)
          /\ UNCHANGED <<cur, sinkSt, faulty, clobbered, outVars, res, phase>>
      BY <1>0, <1>14 DEF SwapArrives
    <2>2. QED BY <1>1, <2>1
  <1>15. QED
    BY <1>2, <1>3, <1>4, <1>5, <1>6, <1>7, <1>8, <1>9, <1>10, <1>11, <1>12,
       <1>13, <1>14 DEF Next, WriterStep, SwapStep, Stopped

-----------------------------------------------------------------------------
(* The theorems *)

\* The initial state satisfies the inductive invariant.
LEMMA InitInvariant == Init => IInv
  <1> SUFFICES ASSUME Init PROVE IInv
    OBVIOUS
  <1>1. TypeOK
    BY InitType
  <1>2. /\ \A r \in Request : pc[r] = "idle" /\ before[r] = {}
        /\ owner = None /\ waiters = <<>> /\ DOMAIN waiters = {}
    BY DEF Init
  <1>3. OneHolder /\ QueueInOrder /\ ServedInOrder
    BY <1>2, SinkSwapAssumption
    DEF OneHolder, QueueInOrder, ServedInOrder, Holding
  <1>4. SinkLife
    BY SinkSwapAssumption DEF Init, SinkLife, Request, Sink
  <1>5. TargetLife
    BY DEF Init, TargetLife, Request
  <1>6. Drained /\ Kept
    BY SinkSwapAssumption DEF Init, Drained, Kept, Request, Sink
  <1>7. QED BY <1>1, <1>3, <1>4, <1>5, <1>6 DEF IInv

\* Every step keeps the inductive invariant.
LEMMA StepInvariant == IInv /\ [Next]_vars => IInv'
  BY StepType, StepSem, StepSinks, StepOutput DEF IInv

\* The invariant, of every behaviour.
LEMMA Invariant == Spec => []IInv
  BY InitInvariant, StepInvariant, PTL DEF Spec

\* Type correctness.
THEOREM TypeCorrect == Spec => []TypeOK
  <1>1. IInv => TypeOK
    BY DEF IInv
  <1>2. QED BY <1>1, Invariant, PTL

\* _sink_sem serializes the handlers of the output and loses none of them, for
\* any number of payloads and swaps.
THEOREM MutualExclusion == Spec => []OneHolder
  <1>1. IInv => OneHolder
    BY DEF IInv
  <1>2. QED BY <1>1, Invariant, PTL

\* Payloads and swaps take effect in the order they reached _sink_sem.
THEOREM FirstComeFirstServed == Spec => []ServedInOrder
  <1>1. IInv => ServedInOrder
    BY DEF IInv
  <1>2. QED BY <1>1, Invariant, PTL

\* While the shard serves, the sink a suspended write refers to stays installed
\* and open.
THEOREM NoWriteToDeadSink == Spec => []SinkOutlivesWrite
  <1>1. IInv => SinkOutlivesWrite
    <2> SUFFICES ASSUME IInv, NEW w \in Writer, phase = "serving", pc[w] = "writing"
                 PROVE  target[w] = cur /\ (sinkSt[cur] = "open" \/ cur \in faulty)
      BY DEF SinkOutlivesWrite
    <2>1. target[w] = cur
      BY DEF IInv, TargetLife
    <2>2. \A s \in Swap : pc[s] # "closing"
      BY SinkSwapAssumption DEF IInv, OneHolder, Holding, Request
    <2>3. QED BY <2>1, <2>2 DEF IInv, SinkLife
  <1>2. QED BY <1>1, Invariant, PTL

\* No payload whose handler ended normally is lost around a swap: it is in the
\* output it was written to or in its stream, and in the output once that sink is
\* closed, whatever throws elsewhere.
THEOREM NothingLostInSwap == Spec => []OutputKept
  <1>1. IInv => OutputKept
    <2> SUFFICES ASSUME IInv, NEW w \in Writer, res[w] = "written",
                        target[w] \notin faulty \cup clobbered
                 PROVE  /\ w \in buf[target[w]] \cup disk[target[w]]
                        /\ phase = "serving" /\ sinkSt[target[w]] \in {"closed", "freed"}
                             => w \in disk[target[w]]
      BY DEF OutputKept
    <2>1. target[w] \in Sink /\ w \in buf[target[w]] \cup disk[target[w]]
      BY DEF IInv, TypeOK, Kept
    <2>2. QED BY <2>1 DEF IInv, Drained
  <1>2. QED BY <1>1, Invariant, PTL

\* The initial states are initial states of the abstract output port.
LEMMA InitRefines == Init => Atomic!Init
  <1> SUFFICES ASSUME Init PROVE Atomic!Init
    OBVIOUS
  <1>1. \A w \in Writer : target[w] = None
    BY DEF Init
  <1>2. QED BY <1>1 DEF Init, Atomic!Init

\* Every step delivers one payload to the current URI in the form it calls for,
\* replaces the URI, or leaves the abstract port alone.
LEMMA StepRefines == IInv /\ [Next]_vars => [Atomic!Next]_(Atomic!vars)
  <1> DEFINE Route == [w \in Writer |-> IF target[w] = None THEN None ELSE sinkUri[target[w]]]
  <1> SUFFICES ASSUME IInv, [Next]_vars
               PROVE  Atomic!Next \/ (UNCHANGED <<cfgUri, form>> /\ Route' = Route)
    BY DEF Atomic!vars
  <1>0. /\ Writer \subseteq Request /\ Swap \subseteq Request /\ Swap \subseteq Sink
        /\ Writer \cap Swap = {} /\ "boot" \notin Swap /\ None \notin Sink \cup Uri
    BY SinkSwapAssumption DEF Request, Sink
  <1>1. ASSUME NEW w \in Writer, BeginWrite(w) PROVE Atomic!Deliver(w)
    <2>1. /\ target[w] = None /\ cur \in Sink /\ sinkUri[cur] = cfgUri /\ cfgUri \in Uri
      BY <1>1 DEF IInv, TargetLife, SinkLife, TypeOK, BeginWrite
    <2>2. /\ target' = [target EXCEPT ![w] = cur]
          /\ form' = [form EXCEPT ![w] = IF cfgUri \in RawUri THEN "raw" ELSE "tlv"]
          /\ sinkUri' = sinkUri /\ cfgUri' = cfgUri
      BY <1>1 DEF BeginWrite, sinkVars
    <2>3. Route' = [Route EXCEPT ![w] = cfgUri]
      BY <1>0, <2>1, <2>2 DEF IInv, TypeOK
    <2>4. Route[w] = None
      BY <2>1
    <2>5. QED BY <2>2, <2>3, <2>4 DEF Atomic!Deliver, Atomic!FormFor
  <1>2. ASSUME NEW s \in Swap, SwapInstalls(s)
        PROVE  Atomic!Next \/ (UNCHANGED <<cfgUri, form>> /\ Route' = Route)
    <2>1. /\ UNCHANGED <<target, form, sinkUri>>
          /\ cfgUri' \in {sinkUri[s], cfgUri}
      BY <1>2 DEF SwapInstalls, SwapThrows, outVars
    <2>2. Route' = Route
      BY <2>1
    <2>3. sinkUri[s] \in Uri
      BY <1>0, <1>2 DEF IInv, SinkLife, SwapInstalls
    <2>4. CASE cfgUri' = sinkUri[s]
      <3>1. Atomic!Replace(sinkUri[s])
        BY <2>1, <2>2, <2>4 DEF Atomic!Replace
      <3>2. QED BY <2>3, <3>1 DEF Atomic!Next
    <2>5. QED BY <2>1, <2>2, <2>4
  <1>3. ASSUME NEW s \in Swap, SwapArrives(s)
        PROVE  UNCHANGED <<cfgUri, form>> /\ Route' = Route
    <2>1. /\ UNCHANGED <<cfgUri, form, target>> /\ pc[s] = "idle"
          /\ \E u \in Uri : sinkUri' = [sinkUri EXCEPT ![s] = u]
      BY <1>3 DEF SwapArrives, Acquire, outVars
    <2>2. \A w \in Writer : target[w] # None => target[w] # s /\ target[w] \in Sink
      BY <1>0, <2>1 DEF IInv, TargetLife, TypeOK
    <2>3. \A w \in Writer : target[w] # None => sinkUri'[target[w]] = sinkUri[target[w]]
      BY <2>1, <2>2 DEF IInv, TypeOK
    <2>4. QED BY <2>1, <2>3
  <1>4. ASSUME UNCHANGED <<cfgUri, form, target, sinkUri>>
        PROVE  UNCHANGED <<cfgUri, form>> /\ Route' = Route
    BY <1>4
  <1>5. CASE \E w \in Writer : PayloadArrives(w) \/ EncodeFails(w) \/ EndWrite(w)
    BY <1>4, <1>5 DEF PayloadArrives, EncodeFails, EndWrite, sinkVars, outVars
  <1>6. CASE \E s \in Swap : SwapMakesSink(s) \/ SwapFlushes(s) \/ SwapCloses(s)
    BY <1>4, <1>6 DEF SwapMakesSink, SwapFlushes, SwapCloses, SwapThrows,
                      sinkVars, outVars
  <1>7. CASE StopBegins \/ StopFlushes \/ StopEnds \/ Stopped \/ UNCHANGED vars
    BY <1>4, <1>7 DEF StopBegins, StopFlushes, StopEnds, Stopped, vars,
                      sinkVars, outVars
  <1>8. QED
    BY <1>1, <1>2, <1>3, <1>5, <1>6, <1>7
    DEF Next, WriterStep, SwapStep, Atomic!Next

\* A shard implements the abstract output port: replacing the sink and writing a
\* payload are each one instant, and a payload goes, in the right form, to the
\* URI configured at its instant.
THEOREM Implementation == Spec => ImplementsAtomicOutput
  <1>1. Init => Atomic!Init
    BY InitRefines
  <1>2. IInv /\ [Next]_vars => [Atomic!Next]_(Atomic!vars)
    BY StepRefines
  <1>3. QED BY <1>1, <1>2, Invariant, PTL DEF Spec, ImplementsAtomicOutput, Atomic!Spec
=============================================================================
