--------------------------- MODULE ExclusiveRuns ---------------------------
(***************************************************************************)
(* What the compounding lifecycle promises the workspaces that share a     *)
(* signal store, whatever is interrupted: runs own the store one at a      *)
(* time, only the owner removes inputs, and a closed run claims no removal *)
(* it did not make while it was the owner.                                 *)
(***************************************************************************)
CONSTANTS Runs, Signals

VARIABLES
    owner,     \* the run that owns the store, as a set of at most one
    removals,  \* pairs of a run and a signal it removed
    claims     \* per closed run, the signals it reports as drained

avars == <<owner, removals, claims>>

AbstractInit == owner = {} /\ removals = {} /\ claims = [r \in {} |-> {}]

Open(r) ==
    /\ owner = {} /\ r \notin DOMAIN claims
    /\ owner' = {r}
    /\ UNCHANGED <<removals, claims>>

Remove(r, s) ==
    /\ r \in owner
    /\ removals' = removals \cup {<<r, s>>}
    /\ UNCHANGED <<owner, claims>>

Close(r, claimed) ==
    /\ r \in owner
    /\ \A s \in claimed : <<r, s>> \in removals
    /\ owner' = {}
    /\ claims' = [x \in DOMAIN claims \cup {r} |-> IF x = r THEN claimed ELSE claims[x]]
    /\ UNCHANGED removals

AbstractNext ==
    \E r \in Runs :
        \/ Open(r)
        \/ \E s \in Signals : Remove(r, s)
        \/ \E claimed \in SUBSET Signals : Close(r, claimed)

AbstractSpec == AbstractInit /\ [][AbstractNext]_avars
=============================================================================
