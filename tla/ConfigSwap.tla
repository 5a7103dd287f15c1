----------------------------- MODULE ConfigSwap -----------------------------
(***************************************************************************)
(* PATCH and PUT /config and POST /config/sink (patch_config_handler,      *)
(* gw/admin_http.cc): the handler reads shard 0's sink URI, then replaces  *)
(* the sink shard after shard; when a shard refuses, the shards that were  *)
(* already switched are put back, and the client gets a 400.               *)
(*                                                                         *)
(* The handler may run on any shard (the admin HTTP server listens on all  *)
(* of them) and is suspended in every invoke_on.  What a shard does with   *)
(* gw_server::replace_sink_uri is one step here, with the outcomes         *)
(* "replaced", "refused" (make_sink failed) and "threw" (flush or close of *)
(* the old sink threw, and the shard keeps it): SinkSwap is the detail,    *)
(* and its ImplementsAtomicOutput the reason why one step is right.        *)
(***************************************************************************)
EXTENDS Naturals

CONSTANTS N,         \* shards: seastar::smp::count
          Patch,     \* requests
          Uri, Uri0, \* sink URIs; the one of the command line
          Failures,  \* the ways in which replace_sink_uri may fail
          Overlap    \* TRUE: clients may send a request while one is handled

Shard == 0..N-1

ASSUME ConfigSwapAssumption ==
  /\ N \in Nat \ {0} /\ Uri0 \in Uri
  /\ Failures \subseteq {"refused", "threw"} /\ Overlap \in BOOLEAN

VARIABLES
  pc,      \* where each request is
  new,     \* new_uri of each request
  old,     \* old_uri of each request
  at,      \* i, the shard a request is at, and j while it rolls back
  failed,  \* fail_index of each request
  answer,  \* the status of its reply, once it has one
  report,  \* sink_uri in the body of a 200
  uri,     \* _cfg.sink_uri of each shard
  before,  \* ghost: uri when the request arrived
  faulted  \* ghost: a shard was left behind since the last 200

handler == <<pc, new, old, at, failed, answer, report, before>>
vars == <<handler, uri, faulted>>

Active == {p \in Patch : pc[p] \notin {"idle", "done"}}
Agree(u) == \A i, j \in Shard : u[i] = u[j]

-----------------------------------------------------------------------------
\* A request with a valid body arrives.
Arrives(p) ==
  /\ pc[p] = "idle"
  /\ Overlap \/ Active = {}
  /\ \E u \in Uri : new' = [new EXCEPT ![p] = u]
  /\ before' = [before EXCEPT ![p] = uri]
  /\ pc' = [pc EXCEPT ![p] = "read"]
  /\ UNCHANGED <<old, at, failed, answer, report, uri, faulted>>

\* old_uri is shard 0's, whatever the other shards have.
ReadsOld(p) ==
  /\ pc[p] = "read"
  /\ old' = [old EXCEPT ![p] = uri[0]]
  /\ at' = [at EXCEPT ![p] = 0]
  /\ pc' = [pc EXCEPT ![p] = "swap"]
  /\ UNCHANGED <<new, failed, answer, report, uri, before, faulted>>

\* The reply is written.
Replies(p, status) ==
  /\ answer' = [answer EXCEPT ![p] = status]
  /\ pc' = [pc EXCEPT ![p] = "done"]

\* replace_sink_uri(u) on shard i succeeds.
Replaces(i, u) == uri' = [uri EXCEPT ![i] = u]

\* The loop over the shards goes on to the next one, or ends.
Swaps(p) ==
  /\ pc[p] = "swap"
  /\ Replaces(at[p], new[p])
  /\ IF at[p] + 1 < N
       THEN at' = [at EXCEPT ![p] = @ + 1] /\ UNCHANGED pc
       ELSE pc' = [pc EXCEPT ![p] = "snap"] /\ UNCHANGED at
  /\ UNCHANGED <<new, old, failed, answer, report, before, faulted>>

\* Mutant of SwapRefused: the shards already switched are left so.
SwapRefusedOnly(p) ==
  /\ pc[p] = "swap" /\ "refused" \in Failures
  /\ Replies(p, 400)
  /\ UNCHANGED <<new, old, at, failed, report, uri, before, faulted>>

\* A shard cannot make the new sink: the rollback starts, if there is anything
\* to roll back.
SwapRefused(p) ==
  /\ pc[p] = "swap" /\ "refused" \in Failures
  /\ failed' = [failed EXCEPT ![p] = at[p]]
  /\ IF at[p] = 0
       THEN Replies(p, 400) /\ UNCHANGED at
       ELSE /\ at' = [at EXCEPT ![p] = 0]
            /\ pc' = [pc EXCEPT ![p] = "roll"]
            /\ UNCHANGED answer
  /\ UNCHANGED <<new, old, report, uri, before, faulted>>

\* The old sink of a shard fails to flush or to close.  The handler does not
\* catch: the server answers 500, and no shard is put back.
SwapThrows(p) ==
  /\ pc[p] \in {"swap", "roll"} /\ "threw" \in Failures
  /\ Replies(p, 500)
  /\ faulted' = TRUE
  /\ UNCHANGED <<new, old, at, failed, report, uri, before>>

\* The rollback goes on to the next shard that was switched, or ends.
RollbackGoesOn(p) ==
  IF at[p] + 1 < failed[p]
    THEN at' = [at EXCEPT ![p] = @ + 1] /\ UNCHANGED <<pc, answer>>
    ELSE Replies(p, 400) /\ UNCHANGED at

\* Mutant of RollsBack: the last shard switched is not put back.
RollsBackButOne(p) ==
  /\ pc[p] = "roll"
  /\ IF at[p] + 1 < failed[p]
       THEN Replaces(at[p], old[p]) /\ at' = [at EXCEPT ![p] = @ + 1] /\ UNCHANGED <<pc, answer>>
       ELSE Replies(p, 400) /\ UNCHANGED <<at, uri>>
  /\ UNCHANGED <<new, old, failed, report, before, faulted>>

RollsBack(p) ==
  /\ pc[p] = "roll"
  /\ Replaces(at[p], old[p])
  /\ RollbackGoesOn(p)
  /\ UNCHANGED <<new, old, failed, report, before, faulted>>

\* Mutant of RollbackRefused: the rollback of a shard is tried until it works.
RollbackRetried(p) ==
  /\ pc[p] = "roll" /\ "refused" \in Failures
  /\ at' = [at EXCEPT ![p] = 0]
  /\ faulted' = TRUE
  /\ UNCHANGED <<pc, new, old, failed, answer, report, uri, before>>

\* The old URI is refused in its turn: a line in the log, and the rollback goes
\* on with the next shard.
RollbackRefused(p) ==
  /\ pc[p] = "roll" /\ "refused" \in Failures
  /\ faulted' = TRUE
  /\ RollbackGoesOn(p)
  /\ UNCHANGED <<new, old, failed, report, uri, before>>

\* The configuration of shard 0 is the body of the 200.
Snaps(p) ==
  /\ pc[p] = "snap"
  /\ report' = [report EXCEPT ![p] = uri[0]]
  /\ Replies(p, 200)
  /\ faulted' = FALSE
  /\ UNCHANGED <<new, old, at, failed, uri, before>>

\* No request is under way.
Quiet == Active = {} /\ UNCHANGED vars

-----------------------------------------------------------------------------
Init ==
  /\ pc = [p \in Patch |-> "idle"]
  /\ new = [p \in Patch |-> Uri0] /\ old = [p \in Patch |-> Uri0]
  /\ at = [p \in Patch |-> 0] /\ failed = [p \in Patch |-> N]
  /\ answer = [p \in Patch |-> 0] /\ report = [p \in Patch |-> Uri0]
  /\ uri = [i \in Shard |-> Uri0]
  /\ before = [p \in Patch |-> uri]
  /\ faulted = FALSE

Step(p) ==
  \/ ReadsOld(p) \/ Swaps(p) \/ SwapRefused(p) \/ SwapThrows(p)
  \/ RollsBack(p) \/ RollbackRefused(p) \/ Snaps(p)

Next == (\E p \in Patch : Arrives(p) \/ Step(p)) \/ Quiet

\* Every replace_sink_uri resolves (EveryRequestEnds of SinkSwap), and the
\* reactors run every ready task; nobody has to send a request.
Fairness == \A p \in Patch : WF_vars(Step(p))

Spec == Init /\ [][Next]_vars
FairSpec == Spec /\ Fairness

-----------------------------------------------------------------------------
(* Properties *)

\* The variables keep their types; in particular no loop runs past its end.
TypeOK ==
  /\ pc \in [Patch -> {"idle", "read", "swap", "roll", "snap", "done"}]
  /\ new \in [Patch -> Uri] /\ old \in [Patch -> Uri] /\ report \in [Patch -> Uri]
  /\ at \in [Patch -> Shard] /\ failed \in [Patch -> 0..N]
  /\ answer \in [Patch -> {0, 200, 400, 500}]
  /\ uri \in [Shard -> Uri] /\ before \in [Patch -> [Shard -> Uri]]
  /\ faulted \in BOOLEAN

\* When requests come one at a time, a 200 means that every shard, and the
\* report, has the URI that was asked for, and a 400 that every shard has the
\* one it had before, provided that the shards agreed and that no rollback was
\* refused.
AllOrNothing ==
  [][\A p \in Patch : answer'[p] # answer[p] =>
       /\ answer'[p] = 200 =>
            uri' = [i \in Shard |-> new[p]] /\ report'[p] = new[p]
       /\ answer'[p] = 400 /\ Agree(before[p]) /\ ~faulted' => uri' = before[p]]_vars

\* When requests come one at a time, shards that disagree between requests were
\* left behind by a 500 or by a refused rollback, and the next 200 mends them:
\* a 200 or a clean 400 never splits the shards.
SplitOnlyByFault == Active = {} /\ ~faulted => Agree(uri)

\* Every request is answered.
EveryPatchEnds == \A p \in Patch : p \in Active ~> pc[p] = "done"

\* Where the loops are: the shards before the one the handler is at have been
\* dealt with, the others have not.
LoopOK(p) ==
  /\ pc[p] \in {"swap", "snap", "roll"} => old[p] = before[p][0]
  /\ pc[p] = "read" => uri = before[p]
  /\ pc[p] = "swap" => \A i \in Shard :
       uri[i] = IF i < at[p] THEN new[p] ELSE before[p][i]
  /\ pc[p] = "snap" => \A i \in Shard : uri[i] = new[p]
  /\ pc[p] = "roll" =>
       /\ at[p] < failed[p] /\ failed[p] < N
       /\ ~faulted => \A i \in Shard :
            uri[i] = IF i < at[p] THEN old[p]
                     ELSE IF i < failed[p] THEN new[p] ELSE before[p][i]

\* The inductive invariant of the runs without overlap.
IInv ==
  /\ TypeOK /\ SplitOnlyByFault
  /\ \A p, q \in Active : p = q
  /\ \A p \in Active : LoopOK(p) /\ (~faulted => Agree(before[p]))

\* The README says that POST /config/sink "hot-swaps sink on every shard", and
\* atsc3_gw.h that the URI of GET /config is "same on every shard": between
\* requests the shards have one URI.
ShardsAgree == Active = {} => Agree(uri)
=============================================================================
