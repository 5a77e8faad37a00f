----------------------------- MODULE LateRequests -----------------------------
(***************************************************************************)
(* TenantController when a process that stops (a crash, or a lost lease,   *)
(* which ends the process) has a request under way: the server may take it *)
(* later, when the next process is at work already, or never.  The server  *)
(* checks it as it would have checked it in time.                          *)
(***************************************************************************)
EXTENDS TenantController

VARIABLE flight   \* the request of a process that is no more
lateVars == <<vars, flight>>

NoRequest == [call |-> "none"]

TenantRequest(tenant) ==
    [call |-> "tenant", tenant |-> cur, rv |-> snap.rv, value |-> tenant]

\* The write the pass is at.
PendingRequest ==
    CASE pc = "finalizer" -> TenantRequest([snap EXCEPT !.finalizer = TRUE])
      [] pc = "status"    -> TenantRequest(Reported)
      [] pc = "release"   -> TenantRequest(NoTenant(0))
      [] pc = "create"    -> [call |-> "create", object |-> Target]
      [] pc = "update"    -> [call |-> "update", object |-> Target, rv |-> seen]
      [] pc = "delete" /\ idx \in DOMAIN Doomed -> [call |-> "delete", key |-> Doomed[idx]]
      [] OTHER            -> NoRequest

\* A new process takes over while the old one's request is still under way.
TakeOver ==
    /\ flight = NoRequest
    /\ flight' = PendingRequest
    /\ flight' # NoRequest
    /\ Restart

-------------------------------------------------------------------------------
LandTenant ==
    /\ flight.call = "tenant"
    /\ tenants[flight.tenant].rv = flight.rv
    /\ tenants[flight.tenant] # flight.value
    /\ PutTenant(flight.tenant, flight.value)
    /\ UNCHANGED objectStore

LandCreate ==
    /\ flight.call = "create"
    /\ CanCreate(flight.object.key)
    /\ PutObject(flight.object.key, "live", flight.object.data)
    /\ UNCHANGED tenantStore

LandUpdate ==
    /\ flight.call = "update"
    /\ objects[flight.object.key].rv = flight.rv
    /\ ReplaceObject(flight.object.key, flight.object.data)
    /\ UNCHANGED tenantStore

LandDelete ==
    /\ flight.call = "delete"
    /\ flight.key # NoKey /\ Present(flight.key)
    /\ DeleteObject(flight.key)
    /\ UNCHANGED tenantStore

Vanish == UNCHANGED <<tenantStore, objectStore>>

Land ==
    /\ flight # NoRequest
    /\ flight' = NoRequest
    /\ LandTenant \/ LandCreate \/ LandUpdate \/ LandDelete \/ Vanish
    /\ PassStandsStill
    /\ UNCHANGED <<caches, spent>>

LateInit == Init /\ flight = NoRequest
LateNext == (Next /\ UNCHANGED flight) \/ TakeOver \/ Land
LateSpec == LateInit /\ [][LateNext]_lateVars

\* A request does not stay under way for ever.
LateFairSpec == LateSpec /\ Fairness /\ WF_lateVars(Land)
===============================================================================
