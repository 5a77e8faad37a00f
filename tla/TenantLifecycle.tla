--------------------------- MODULE TenantLifecycle ---------------------------
(***************************************************************************)
(* What the owner of a cluster is promised, without caches, versions,      *)
(* passes and calls: a thing of a tenant comes to life only while a        *)
(* finalizer guards the tenant, and a guarded tenant goes only when the    *)
(* things of its spec are gone, or are to be preserved.                    *)
(***************************************************************************)
CONSTANTS
    Tenants,    \* the tenants
    Specs,      \* the specs a user may give them
    NoSpec,     \* the spec of a tenant that does not exist
    Owned,      \* Owned[t][s]: the things tenant t may be given under spec s
    Cleaned,    \* Cleaned[t][s]: those that must be gone before t goes
    Preserving  \* the specs whose things stay when their tenant goes

VARIABLES
    state,      \* "absent", "plain", "guarded" or "deleting", per tenant
    spec,       \* the spec of each tenant
    live        \* the things that are there, and not on their way out

vars == <<state, spec, live>>

Init ==
    /\ state = [t \in Tenants |-> "absent"]
    /\ spec = [t \in Tenants |-> NoSpec]
    /\ live = {}

Turn(t, next, s) ==
    /\ state' = [state EXCEPT ![t] = next]
    /\ spec' = [spec EXCEPT ![t] = s]
    /\ UNCHANGED live

Create(t, s) == state[t] = "absent"  /\ Turn(t, "plain", s)
Edit(t, s)   == state[t] # "absent"  /\ Turn(t, state[t], s)
Guard(t)     == state[t] = "plain"   /\ Turn(t, "guarded", spec[t])
Drop(t)      == state[t] = "plain"   /\ Turn(t, "absent", NoSpec)
Delete(t)    == state[t] = "guarded" /\ Turn(t, "deleting", spec[t])

Finish(t) ==
    /\ state[t] = "deleting"
    /\ spec[t] \in Preserving \/ Cleaned[t][spec[t]] \cap live = {}
    /\ Turn(t, "absent", NoSpec)

Make(t, s, thing) ==
    /\ state[t] \in {"guarded", "deleting"}
    /\ thing \in Owned[t][s]
    /\ live' = live \cup {thing}
    /\ UNCHANGED <<state, spec>>

Lose(thing) == live' = live \ {thing} /\ UNCHANGED <<state, spec>>

Next ==
    \/ \E t \in Tenants : Guard(t) \/ Drop(t) \/ Delete(t) \/ Finish(t)
    \/ \E t \in Tenants, s \in Specs : Create(t, s) \/ Edit(t, s)
    \/ \E t \in Tenants, s \in Specs : \E thing \in Owned[t][s] : Make(t, s, thing)
    \/ \E thing \in live : Lose(thing)

Spec == Init /\ [][Next]_vars

\* A deletion that was asked for comes to its end: no tenant is deleting for ever.
DeletionEnds == \A t \in Tenants : []<>(state[t] # "deleting")

Promise == Spec /\ DeletionEnds
===============================================================================
