------------------------- MODULE LifecycleRefinement -------------------------
(***************************************************************************)
(* TenantController implements TenantLifecycle.  The things are the        *)
(* objects the operator applies, but for the default ServiceAccounts,      *)
(* which the cluster makes of its own accord; those that must be gone are  *)
(* the ones finalize looks after.                                          *)
(***************************************************************************)
EXTENDS TenantController

Things == {k \in Children : k.kind # "ServiceAccount"}

StateOf(tenant) ==
    CASE tenant.phase = "absent"                     -> "absent"
      [] tenant.phase = "live" /\ ~tenant.finalizer  -> "plain"
      [] tenant.phase = "live" /\ tenant.finalizer   -> "guarded"
      [] tenant.phase = "terminating"                -> "deleting"

LiveThings == {k \in Things : objects[k].phase = "live"}

Lifecycle == INSTANCE TenantLifecycle WITH
    Owned      <- [t \in Tenants |-> [s \in Specs |-> ChildKeys(t, s) \cap Things]],
    Cleaned    <- [t \in Tenants |-> [s \in Specs |-> Range(Teardown(t, s)) \ {NoKey}]],
    Preserving <- {s \in Specs : s.preserve},
    state      <- [t \in Tenants |-> StateOf(tenants[t])],
    spec       <- [t \in Tenants |-> tenants[t].spec],
    live       <- LiveThings

\* Whatever users, faults, restarts and stale caches do, what can be seen from
\* outside is a behaviour of TenantLifecycle.
ImplementsLifecycle == Lifecycle!Spec

\* ... and deletions end, when the worker and the cluster get on.
KeepsPromise == Lifecycle!Promise
===============================================================================
