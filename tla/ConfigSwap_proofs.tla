-------------------------- MODULE ConfigSwap_proofs --------------------------
(* Theorems about ConfigSwap, for any number of shards and requests that come *)
(* one at a time, and for any failures.                                       *)
EXTENDS ConfigSwap, TLAPS

\* A loop starts at shard 0, which is there.
LEMMA ShardZero == 0 \in Shard /\ \A i \in Shard : i \in Nat /\ i < N
BY ConfigSwapAssumption DEF Shard

\* What the invariant says of the request that takes a step.
Fresh(p) == LoopOK(p) /\ (~faulted => Agree(before[p]))

\* A request that takes a step is the only one under way; what remains to show
\* of the step is what it does to that request and to the URIs.
LEMMA OnlyOne ==
  ASSUME IInv, NEW p \in Patch, TypeOK',
         p \in Active \/ Active = {},
         \A q \in Patch \ {p} : pc'[q] = pc[q],
         p \in Active' => Fresh(p)',
         p \notin Active' /\ ~faulted' => Agree(uri)'
  PROVE  IInv'
<1>1. \A q \in Patch \ {p} : q \notin Active'
  BY DEF IInv, Active
<1>2. \A q, r \in Active' : q = r
  BY <1>1 DEF Active
<1>3. \A q \in Active' : Fresh(q)'
  BY <1>1 DEF Active
<1>4. SplitOnlyByFault'
  BY <1>1 DEF SplitOnlyByFault, Active
<1> QED BY <1>2, <1>3, <1>4 DEF IInv, Fresh

\* A step that sets the program counter of p leaves the others alone.
LEMMA OthersStay ==
  ASSUME IInv, NEW p \in Patch, NEW s, pc' = [pc EXCEPT ![p] = s]
  PROVE  pc'[p] = s /\ \A q \in Patch \ {p} : pc'[q] = pc[q]
BY DEF IInv, TypeOK

\* A reply leaves program counters and answers well typed.
LEMMA TypeReplies ==
  ASSUME IInv, NEW p \in Patch, NEW status \in {200, 400, 500}, Replies(p, status)
  PROVE  /\ pc' \in [Patch -> {"idle", "read", "swap", "roll", "snap", "done"}]
         /\ answer' \in [Patch -> {0, 200, 400, 500}]
BY DEF Replies, IInv, TypeOK

\* The inductive invariant holds initially.
LEMMA InitIInv == Init => IInv
<1> SUFFICES ASSUME Init PROVE IInv
  OBVIOUS
<1>1. TypeOK
  <2>1. Uri0 \in Uri /\ N \in 0..N
    BY ConfigSwapAssumption
  <2>2. uri \in [Shard -> Uri]
    BY <2>1 DEF Init
  <2>3. before \in [Patch -> [Shard -> Uri]]
    BY <2>2 DEF Init
  <2> QED BY <2>1, <2>2, <2>3, ShardZero DEF Init, TypeOK
<1>2. Active = {} /\ Agree(uri)
  BY DEF Init, Active, Agree
<1> QED BY <1>1, <1>2 DEF IInv, SplitOnlyByFault

\* A request arrives when no other is under way.
LEMMA ArrivesIInv ==
  ASSUME ~Overlap, IInv, NEW p \in Patch, Arrives(p)
  PROVE  IInv'
<1>1. TypeOK'
  BY DEF Arrives, IInv, TypeOK
<1>2. Active = {} /\ pc' = [pc EXCEPT ![p] = "read"]
  BY DEF Arrives
<1>3. pc'[p] = "read" /\ \A q \in Patch \ {p} : pc'[q] = pc[q]
  BY <1>2, OthersStay
<1>4. /\ uri' = uri /\ before'[p] = uri /\ faulted' = faulted
      /\ ~faulted => Agree(uri)
  BY <1>2 DEF Arrives, IInv, TypeOK, SplitOnlyByFault
<1>5. Fresh(p)'
  BY <1>3, <1>4 DEF Fresh, LoopOK, Agree
<1> QED BY <1>1, <1>2, <1>3, <1>5, OnlyOne DEF Active

\* Where a request under way is, and what the invariant says of it.
LEMMA ActiveFresh ==
  ASSUME IInv, NEW p \in Patch, pc[p] \in {"read", "swap", "roll", "snap"}
  PROVE  p \in Active /\ Fresh(p)
BY DEF IInv, Active, Fresh

LEMMA ReadsOldIInv ==
  ASSUME IInv, NEW p \in Patch, ReadsOld(p)
  PROVE  IInv'
<1>1. p \in Active /\ Fresh(p)
  BY ActiveFresh DEF ReadsOld
<1>2. TypeOK'
  BY ShardZero DEF ReadsOld, IInv, TypeOK
<1>3. pc'[p] = "swap" /\ \A q \in Patch \ {p} : pc'[q] = pc[q]
  BY OthersStay DEF ReadsOld
<1>4. /\ uri' = uri /\ before'[p] = uri /\ at'[p] = 0 /\ old'[p] = uri[0]
      /\ new'[p] = new[p] /\ faulted' = faulted
      /\ ~faulted => Agree(uri)
  BY <1>1 DEF ReadsOld, IInv, TypeOK, Fresh, LoopOK
<1>5. \A i \in Shard : ~(i < 0)
  BY ShardZero
<1>6. LoopOK(p)'
  BY <1>3, <1>4, <1>5 DEF LoopOK
<1>7. Fresh(p)'
  BY <1>4, <1>6 DEF Fresh, Agree
<1> QED BY <1>1, <1>2, <1>3, <1>7, OnlyOne DEF Active

LEMMA SwapsIInv ==
  ASSUME IInv, NEW p \in Patch, Swaps(p)
  PROVE  IInv'
<1>1. p \in Active /\ Fresh(p)
  BY ActiveFresh DEF Swaps
<1>2. at[p] \in Nat /\ at[p] < N /\ N \in Nat /\ N > 0
  BY ShardZero, ConfigSwapAssumption DEF IInv, TypeOK
<1>3. TypeOK'
  <2>1. at[p] + 1 < N => at[p] + 1 \in Shard
    BY <1>2 DEF Shard
  <2>2. at' \in [Patch -> Shard]
    BY <2>1 DEF Swaps, IInv, TypeOK
  <2>3. uri' \in [Shard -> Uri]
    BY DEF Swaps, Replaces, IInv, TypeOK
  <2>4. pc' \in [Patch -> {"idle", "read", "swap", "roll", "snap", "done"}]
    BY DEF Swaps, IInv, TypeOK
  <2> QED BY <2>2, <2>3, <2>4 DEF Swaps, IInv, TypeOK
<1>4. /\ \A i \in Shard : uri'[i] = IF i = at[p] THEN new[p] ELSE uri[i]
      /\ new'[p] = new[p] /\ old'[p] = old[p] /\ before'[p] = before[p]
      /\ faulted' = faulted
  BY DEF Swaps, Replaces, IInv, TypeOK
<1>5. \A i \in Shard : uri[i] = IF i < at[p] THEN new[p] ELSE before[p][i]
  BY <1>1 DEF Swaps, Fresh, LoopOK
<1>6. CASE at[p] + 1 < N
  <2>1. at'[p] = at[p] + 1 /\ pc' = pc
    BY <1>6 DEF Swaps, IInv, TypeOK
  <2>2. \A i \in Shard : uri'[i] = IF i < at'[p] THEN new[p] ELSE before[p][i]
    BY <1>2, <1>4, <1>5, <2>1, ShardZero
  <2>3. Fresh(p)'
    BY <1>1, <1>4, <2>1, <2>2 DEF Swaps, Fresh, LoopOK, Agree
  <2> QED BY <1>1, <1>3, <2>1, <2>3, OnlyOne DEF Active
<1>7. CASE ~(at[p] + 1 < N)
  <2>1. pc'[p] = "snap" /\ \A q \in Patch \ {p} : pc'[q] = pc[q]
    BY <1>7, OthersStay DEF Swaps
  <2>2. \A i \in Shard : uri'[i] = new[p]
    BY <1>2, <1>4, <1>5, <1>7, ShardZero
  <2>3. Fresh(p)'
    BY <1>1, <1>4, <2>1, <2>2 DEF Swaps, Fresh, LoopOK, Agree
  <2> QED BY <1>1, <1>3, <2>1, <2>3, OnlyOne DEF Active
<1> QED BY <1>6, <1>7

LEMMA SwapRefusedIInv ==
  ASSUME IInv, NEW p \in Patch, SwapRefused(p)
  PROVE  IInv'
<1>1. p \in Active /\ Fresh(p)
  BY ActiveFresh DEF SwapRefused
<1>2. at[p] \in Nat /\ at[p] < N /\ N \in Nat
  BY ShardZero, ConfigSwapAssumption DEF IInv, TypeOK
<1>3. \A i \in Shard : uri[i] = IF i < at[p] THEN new[p] ELSE before[p][i]
  BY <1>1 DEF SwapRefused, Fresh, LoopOK
<1>4. CASE at[p] = 0
  <2>1. TypeOK'
    <3>1. failed' \in [Patch -> 0..N]
      BY <1>2 DEF SwapRefused, IInv, TypeOK
    <3>2. Replies(p, 400) /\ at' = at
      BY <1>4 DEF SwapRefused
    <3> QED BY <3>1, <3>2, TypeReplies DEF SwapRefused, IInv, TypeOK
  <2>2. /\ pc'[p] = "done" /\ \A q \in Patch \ {p} : pc'[q] = pc[q]
        /\ uri' = uri /\ faulted' = faulted
    BY <1>4, OthersStay DEF SwapRefused, Replies
  <2>3. ~faulted => Agree(uri)
    BY <1>1, <1>3, <1>4, ShardZero DEF Fresh, Agree
  <2> QED BY <1>1, <2>1, <2>2, <2>3, OnlyOne DEF Active, Agree
<1>5. CASE at[p] # 0
  <2>1. /\ at'[p] = 0 /\ failed'[p] = at[p]
        /\ UNCHANGED <<new, old, uri, before, faulted>>
    BY <1>5 DEF SwapRefused, IInv, TypeOK
  <2>7. pc'[p] = "roll" /\ \A q \in Patch \ {p} : pc'[q] = pc[q]
    BY <1>5, OthersStay DEF SwapRefused
  <2>2. TypeOK'
    <3>1. failed' \in [Patch -> 0..N]
      BY <1>2 DEF SwapRefused, IInv, TypeOK
    <3>2. at' = [at EXCEPT ![p] = 0] /\ at \in [Patch -> Shard] /\ answer' = answer
      BY <1>5 DEF SwapRefused, IInv, TypeOK
    <3>3. at' \in [Patch -> Shard]
      BY <3>2, ShardZero
    <3>4. pc' \in [Patch -> {"idle", "read", "swap", "roll", "snap", "done"}]
      BY <1>5 DEF SwapRefused, IInv, TypeOK
    <3> QED BY <3>1, <3>2, <3>3, <3>4 DEF SwapRefused, IInv, TypeOK
  <2>3. old[p] = before[p][0]
    BY <1>1 DEF SwapRefused, Fresh, LoopOK
  <2>4. \A i \in Shard : uri[i] = IF i < 0 THEN old[p]
                                  ELSE IF i < at[p] THEN new[p] ELSE before[p][i]
    BY <1>3, ShardZero
  <2>5. LoopOK(p)'
    BY <1>2, <1>5, <2>7, <2>1, <2>3, <2>4 DEF LoopOK
  <2>6. Fresh(p)'
    BY <1>1, <2>1, <2>5 DEF Fresh, Agree
  <2> QED BY <1>1, <2>7, <2>2, <2>6, OnlyOne DEF Active
<1> QED BY <1>4, <1>5

LEMMA SwapThrowsIInv ==
  ASSUME IInv, NEW p \in Patch, SwapThrows(p)
  PROVE  IInv'
<1>1. p \in Active
  BY DEF SwapThrows, Active
<1>2. TypeOK'
  BY DEF SwapThrows, Replies, IInv, TypeOK
<1>3. pc'[p] = "done" /\ faulted' /\ \A q \in Patch \ {p} : pc'[q] = pc[q]
  BY OthersStay DEF SwapThrows, Replies
<1> QED BY <1>1, <1>2, <1>3, OnlyOne DEF Active

\* The end of a rollback step, whether the shard took the old URI or not.
LEMMA RollbackIInv ==
  ASSUME IInv, NEW p \in Patch, pc[p] = "roll", RollbackGoesOn(p),
         UNCHANGED <<new, old, failed, report, before>>,
         \/ Replaces(at[p], old[p]) /\ UNCHANGED faulted
         \/ UNCHANGED uri /\ faulted' = TRUE
  PROVE  IInv'
<1>1. p \in Active /\ Fresh(p)
  BY ActiveFresh
<1>2. /\ at[p] \in Nat /\ failed[p] \in Nat /\ N \in Nat
      /\ at[p] < failed[p] /\ failed[p] < N /\ old[p] = before[p][0]
  BY <1>1, ShardZero, ConfigSwapAssumption DEF IInv, TypeOK, Fresh, LoopOK
<1>3. TypeOK'
  <2>1. at[p] + 1 < failed[p] => at[p] + 1 \in Shard
    BY <1>2 DEF Shard
  <2>2. at' \in [Patch -> Shard]
    BY <2>1 DEF RollbackGoesOn, IInv, TypeOK
  <2>3. uri' \in [Shard -> Uri]
    BY DEF Replaces, IInv, TypeOK
  <2>4. faulted' \in BOOLEAN
    BY DEF IInv, TypeOK
  <2>5. /\ pc' \in [Patch -> {"idle", "read", "swap", "roll", "snap", "done"}]
        /\ answer' \in [Patch -> {0, 200, 400, 500}]
    BY TypeReplies DEF RollbackGoesOn, IInv, TypeOK
  <2> QED BY <2>2, <2>3, <2>4, <2>5 DEF IInv, TypeOK
<1>4. ~faulted' => /\ ~faulted /\ Agree(before[p])
                   /\ \A i \in Shard :
                        /\ uri'[i] = IF i = at[p] THEN old[p] ELSE uri[i]
                        /\ uri[i] = IF i < at[p] THEN old[p]
                                    ELSE IF i < failed[p] THEN new[p] ELSE before[p][i]
  BY <1>1 DEF Replaces, IInv, TypeOK, Fresh, LoopOK
<1>5. CASE at[p] + 1 < failed[p]
  <2>1. at'[p] = at[p] + 1 /\ pc' = pc
    BY <1>5 DEF RollbackGoesOn, IInv, TypeOK
  <2>2. ~faulted' => \A i \in Shard :
          uri'[i] = IF i < at'[p] THEN old[p]
                    ELSE IF i < failed[p] THEN new[p] ELSE before[p][i]
    BY <1>2, <1>4, <2>1, ShardZero
  <2>3. LoopOK(p)'
    BY <1>2, <1>5, <2>1, <2>2 DEF LoopOK
  <2>4. Fresh(p)'
    BY <1>1, <1>4, <2>1, <2>3 DEF Fresh, Agree
  <2> QED BY <1>1, <1>3, <2>1, <2>4, OnlyOne DEF Active
<1>6. CASE ~(at[p] + 1 < failed[p])
  <2>1. pc'[p] = "done" /\ \A q \in Patch \ {p} : pc'[q] = pc[q]
    BY <1>6, OthersStay DEF RollbackGoesOn, Replies
  <2>2. ~faulted' => \A i \in Shard : uri'[i] = before[p][i]
    BY <1>2, <1>4, <1>6, ShardZero DEF Agree
  <2>3. ~faulted' => Agree(uri)'
    BY <1>4, <2>2 DEF Agree
  <2> QED BY <1>1, <1>3, <2>1, <2>3, OnlyOne DEF Active
<1> QED BY <1>5, <1>6

LEMMA SnapsIInv ==
  ASSUME IInv, NEW p \in Patch, Snaps(p)
  PROVE  IInv'
<1>1. p \in Active /\ Fresh(p)
  BY ActiveFresh DEF Snaps
<1>2. TypeOK'
  BY ShardZero DEF Snaps, Replies, IInv, TypeOK
<1>3. pc'[p] = "done" /\ (\A q \in Patch \ {p} : pc'[q] = pc[q]) /\ uri' = uri
  BY OthersStay DEF Snaps, Replies
<1>4. Agree(uri)
  BY <1>1 DEF Snaps, Fresh, LoopOK, Agree
<1> QED BY <1>1, <1>2, <1>3, <1>4, OnlyOne DEF Active, Agree

\* Every step preserves the inductive invariant.
LEMMA NextIInv == ~Overlap /\ IInv /\ [Next]_vars => IInv'
<1> SUFFICES ASSUME ~Overlap, IInv, [Next]_vars PROVE IInv'
  OBVIOUS
<1>1. ASSUME NEW p \in Patch, Arrives(p) PROVE IInv'
  BY <1>1, ArrivesIInv
<1>2. ASSUME NEW p \in Patch, Step(p) PROVE IInv'
  <2>1. CASE RollsBack(p)
    BY <2>1, RollbackIInv DEF RollsBack
  <2>2. CASE RollbackRefused(p)
    BY <2>2, RollbackIInv DEF RollbackRefused
  <2> QED BY <1>2, <2>1, <2>2, ReadsOldIInv, SwapsIInv, SwapRefusedIInv, SwapThrowsIInv,
             SnapsIInv DEF Step
<1>3. CASE UNCHANGED vars
  BY <1>3 DEF vars, handler, IInv, TypeOK, SplitOnlyByFault, Active, Agree, LoopOK
<1> QED BY <1>1, <1>2, <1>3 DEF Next, Quiet

\* The step of a request keeps what AllOrNothing says of it: it is the only one
\* that answers, and the invariant says what the URIs are by then.
LEMMA StepAllOrNothing ==
  ASSUME IInv, NEW p \in Patch, Arrives(p) \/ Step(p),
         NEW q \in Patch, answer'[q] # answer[q]
  PROVE  /\ answer'[q] = 200 =>
              uri' = [i \in Shard |-> new[q]] /\ report'[q] = new[q]
         /\ answer'[q] = 400 /\ Agree(before[q]) /\ ~faulted' => uri' = before[q]
<1> DEFINE Goal == /\ answer'[q] = 200 =>
                        uri' = [i \in Shard |-> new[q]] /\ report'[q] = new[q]
                   /\ answer'[q] = 400 /\ Agree(before[q]) /\ ~faulted' => uri' = before[q]
<1>1. \A status : Replies(p, status) => q = p /\ answer'[p] = status
  BY DEF Replies, IInv, TypeOK
<1>2. uri \in [Shard -> Uri] /\ before[p] \in [Shard -> Uri] /\ at[p] \in Nat
  BY ShardZero DEF IInv, TypeOK
<1>3. CASE SwapRefused(p)
  <2>1. Replies(p, 400) /\ at[p] = 0 /\ uri' = uri /\ pc[p] = "swap"
    BY <1>3 DEF SwapRefused
  <2>2. \A i \in Shard : uri[i] = IF i < at[p] THEN new[p] ELSE before[p][i]
    BY <2>1, ActiveFresh DEF Fresh, LoopOK
  <2>3. \A i \in Shard : uri[i] = before[p][i]
    BY <2>1, <2>2, ShardZero
  <2>4. uri = before[p]
    BY <1>2, <2>3
  <2> QED BY <1>1, <2>1, <2>4
<1>4. CASE SwapThrows(p)
  BY <1>1, <1>4 DEF SwapThrows
<1>5. CASE RollsBack(p) \/ RollbackRefused(p)
  <2>1. pc[p] = "roll" /\ RollbackGoesOn(p) /\ Replies(p, 400)
    BY <1>5 DEF RollsBack, RollbackRefused, RollbackGoesOn
  <2>2. q = p /\ answer'[p] = 400 /\ answer[p] # 400
    BY <1>1, <2>1
  <2>3. Fresh(p)
    BY <2>1, ActiveFresh
  <2>4. SUFFICES ASSUME Agree(before[p]), ~faulted' PROVE uri' = before[p]
    BY <2>2
  <2>5. Replaces(at[p], old[p]) /\ ~faulted
    BY <1>5, <2>4 DEF RollsBack, RollbackRefused
  <2>6. at[p] + 1 = failed[p] /\ old[p] = before[p][0]
    <3>1. ~(at[p] + 1 < failed[p])
      BY <1>5, <2>2 DEF RollsBack, RollbackRefused, RollbackGoesOn
    <3>2. at[p] < failed[p] /\ failed[p] \in Nat /\ old[p] = before[p][0]
      BY <2>1, <2>3, ConfigSwapAssumption DEF Fresh, LoopOK, IInv, TypeOK
    <3> QED BY <1>2, <3>1, <3>2
  <2>7. \A i \in Shard :
          /\ uri'[i] = IF i = at[p] THEN old[p] ELSE uri[i]
          /\ uri[i] = IF i < at[p] THEN old[p]
                      ELSE IF i < failed[p] THEN new[p] ELSE before[p][i]
          /\ before[p][i] = old[p]
    BY <2>1, <2>3, <2>4, <2>5, <2>6, <1>2, ShardZero DEF Replaces, Fresh, LoopOK, Agree
  <2>8. \A i \in Shard : uri'[i] = before[p][i]
    BY <1>2, <2>6, <2>7, ShardZero
  <2> QED BY <1>2, <2>5, <2>8 DEF Replaces
<1>6. CASE Snaps(p)
  <2>1. q = p /\ answer'[p] = 200 /\ uri' = uri /\ pc[p] = "snap" /\ report'[p] = uri[0]
    BY <1>1, <1>6 DEF Snaps, IInv, TypeOK
  <2>2. \A i \in Shard : uri[i] = new[p]
    BY <2>1, ActiveFresh DEF Fresh, LoopOK
  <2> QED BY <1>2, <2>1, <2>2, ShardZero
<1>7. Arrives(p) \/ ReadsOld(p) \/ Swaps(p) => answer' = answer
  BY DEF Arrives, ReadsOld, Swaps
<1> QED BY <1>3, <1>4, <1>5, <1>6, <1>7 DEF Step

\* The invariant holds throughout, of requests that come one at a time.
LEMMA Inductive == ~Overlap /\ Spec => []IInv
<1> SUFFICES ASSUME ~Overlap PROVE Spec => []IInv
  OBVIOUS
<1>1. IInv /\ [Next]_vars => IInv'
  BY NextIInv
<1> QED BY <1>1, InitIInv, PTL DEF Spec

\* The loops over the shards stay within them, and every variable keeps its type.
THEOREM TypeCorrect == ~Overlap /\ Spec => []TypeOK
<1>1. IInv => TypeOK
  BY DEF IInv
<1> QED BY <1>1, Inductive, PTL

\* Requests that come one at a time leave no disagreement between the shards but
\* by a 500 or a refused rollback, whatever the number of shards.
THEOREM NoSilentSplit == ~Overlap /\ Spec => []SplitOnlyByFault
<1>1. IInv => SplitOnlyByFault
  BY DEF IInv
<1> QED BY <1>1, Inductive, PTL

\* A 200 switched every shard, and a clean 400 put every shard back.
THEOREM Atomicity == ~Overlap /\ Spec => AllOrNothing
<1> SUFFICES ASSUME ~Overlap PROVE Spec => AllOrNothing
  OBVIOUS
<1> DEFINE Answered == \A p \in Patch : answer'[p] # answer[p] =>
       /\ answer'[p] = 200 =>
            uri' = [i \in Shard |-> new[p]] /\ report'[p] = new[p]
       /\ answer'[p] = 400 /\ Agree(before[p]) /\ ~faulted' => uri' = before[p]
<1>1. IInv /\ [Next]_vars => [Answered]_vars
  <2> SUFFICES ASSUME IInv, Next PROVE Answered \/ UNCHANGED vars
    OBVIOUS
  <2>1. ASSUME NEW p \in Patch, Arrives(p) \/ Step(p) PROVE Answered
    BY <2>1, StepAllOrNothing
  <2> QED BY <2>1 DEF Next, Quiet
<1> QED BY <1>1, Inductive, PTL DEF Spec, AllOrNothing
=============================================================================
