--------------------------- MODULE RegistryStore ---------------------------
(***************************************************************************)
(* What --services-state-file promises, stated without coroutines, locks   *)
(* or temporary files: the stored registry moves from one registry the     *)
(* gateway really had to a later one, and a change that was answered after *)
(* it was stored is still stored after any number of crashes.  A registry  *)
(* is the set of the changes (POST, PATCH, DELETE) it has absorbed.  Only  *)
(* a restart forgets: everything, when it cannot read the file, or some of *)
(* the changes that name something outside the registry, which may be gone *)
(* when it looks.  StateFile implements this specification.                *)
(***************************************************************************)
CONSTANTS Change,    \* requests that change the registry
          Fragile    \* those of them that need something outside it

VARIABLES mem,       \* the registry in memory
          stored,    \* the registry a restart would find
          lost,      \* changes a restart did not bring back
          promised,  \* changes answered after they were stored
          up         \* the process runs

vars == <<mem, stored, lost, promised, up>>

Init == mem = {} /\ stored = {} /\ lost = {} /\ promised = {} /\ up = TRUE

Apply(c) == /\ up /\ c \notin mem
            /\ mem' = mem \cup {c}
            /\ UNCHANGED <<stored, lost, promised, up>>

\* The stored registry is replaced by one that misses none of its changes.
Store == /\ up
         /\ \E s \in SUBSET mem : stored \ lost \subseteq s /\ stored' = s
         /\ UNCHANGED <<mem, lost, promised, up>>

Promise(c) == /\ c \in stored
              /\ promised' = promised \cup {c}
              /\ UNCHANGED <<mem, stored, lost, up>>

Crash == /\ up' = FALSE /\ mem' = {}
         /\ UNCHANGED <<stored, lost, promised>>

Restart == /\ ~up /\ up' = TRUE
           /\ \E missed \in {stored} \cup SUBSET (stored \cap Fragile) :
                /\ mem' = stored \ missed
                /\ lost' = lost \cup missed
           /\ UNCHANGED <<stored, promised>>

Next == \/ \E c \in Change : Apply(c) \/ Promise(c)
        \/ Store \/ Crash \/ Restart

Spec == Init /\ [][Next]_vars
=============================================================================
