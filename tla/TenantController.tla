-------------------------- MODULE TenantController --------------------------
(***************************************************************************)
(* The reconciler, internal/controller/tenant_controller.go: one worker    *)
(* that takes a tenant from a work queue and either brings the tenant's    *)
(* objects to what Render asks for or, when the tenant is being deleted,   *)
(* tears them down and releases the finalizer.                             *)
(*                                                                         *)
(* A pass works on the copy of the Tenant it fetched (snap) while users,   *)
(* the cluster and the informers move on: every API call is a step of its  *)
(* own.  Kinds the code reads as typed objects come from the informer      *)
(* caches, kinds it reads as unstructured come from the API server.        *)
(***************************************************************************)
EXTENDS KubeAPI

CONSTANT None   \* no tenant
ASSUME NoneIsNoTenant == None \notin Tenants

VARIABLES
    queue,     \* the tenants waiting for a pass
    delayed,   \* the tenants with a timer: RequeueAfter, or backoff
    pc,        \* where the pass is
    cur,       \* the tenant of the pass
    snap,      \* the Tenant as the pass has it in memory
    idx,       \* position in the list the pass works through
    vals,      \* the values Render has read so far
    plan,      \* the objects Render returned
    seen,      \* the version apply's Get found
    verdict,   \* the condition's reason setStatus is to write
    waiting,   \* remainingResources found something
    event      \* the event the last step emitted

passVars == <<pc, cur, snap, idx, vals, plan, seen, verdict, waiting>>
vars     == <<apiVars, queue, delayed, passVars, event>>

\* Groups of variables a step leaves alone.
tenantStore == <<tenants, tenantFeed>>
objectStore == <<objects, feed>>
caches      == <<tenantView, view, synced>>

ReasonReconciled       == "Reconciled"
ReasonReconcileError   == "ReconcileError"
ReasonUnknownExtension == "UnknownExtension"

NoEvent            == [reason |-> "none", key |-> NoKey]
Event(reason, key) == [reason |-> reason, key |-> key]

NoSnap == NoTenant(0)

-------------------------------------------------------------------------------
(***************************************************************************)
(* How a pass goes on, and how it ends.                                    *)
(***************************************************************************)
ClearPass ==
    /\ pc' = "idle"
    /\ cur' = None
    /\ snap' = NoSnap
    /\ idx' = 1
    /\ vals' = <<>>
    /\ plan' = <<>>
    /\ seen' = 0
    /\ verdict' = ""
    /\ waiting' = FALSE

\* Reconcile returns nothing to do, or a delay or an error: a timer is set.
ReturnDone  == ClearPass /\ UNCHANGED <<queue, delayed>>

\* Mutant: there is one timer for all tenants, and setting it again replaces it.
ReturnRetryOneTimer == ClearPass /\ delayed' = {cur} /\ UNCHANGED queue

ReturnRetry == ClearPass /\ delayed' = delayed \cup {cur} /\ UNCHANGED queue

\* Mutant: the next list is indexed from zero.
GotoZero(where) ==
    /\ pc' = where
    /\ idx' = 0
    /\ UNCHANGED <<cur, snap, vals, plan, seen, verdict, waiting, queue, delayed>>

Goto(where) ==
    /\ pc' = where
    /\ idx' = 1
    /\ UNCHANGED <<cur, snap, vals, plan, seen, verdict, waiting, queue, delayed>>

StopWith(reason) ==
    /\ pc' = "status"
    /\ verdict' = reason
    /\ UNCHANGED <<cur, snap, idx, vals, plan, seen, waiting, queue, delayed>>

Continue(where) ==
    /\ pc' = where
    /\ idx' = idx + 1
    /\ seen' = 0
    /\ UNCHANGED <<cur, snap, vals, plan, verdict, waiting, queue, delayed>>

\* Rendering and applying report an error in the status before returning it.
Fail == IF pc \in {"render", "get", "create", "update"}
        THEN StopWith(ReasonReconcileError)
        ELSE ReturnRetry

\* A write that takes effect; lost: its answer does not arrive.
Answered(lost) ==
    IF lost THEN Spend("faults", MaxFaults) ELSE UNCHANGED spent

-------------------------------------------------------------------------------
\* The lists the pass works through.
Doomed == Teardown(cur, snap.spec)
Values == ValuesRead(snap.spec)
Target == plan[idx]

\* The kinds apply and exists read as typed objects.
TypedInApply  == {"Secret", "ServiceAccount"}
TypedInExists == {"Secret", "Namespace"}

\* What a Get finds: the cache for a typed object, the server for the others.
Found(k) ==
    IF k.kind \in (IF pc = "get" THEN TypedInApply ELSE TypedInExists)
    THEN view[k] ELSE objects[k]

\* The kinds the pending Get needs an informer for.
PendingKinds ==
    CASE pc = "render" /\ idx \in DOMAIN Values ->
             IF Values[idx].form = "ref" THEN {"Secret"} ELSE {}
      [] pc = "get" /\ idx \in DOMAIN plan     -> {Target.key.kind} \cap TypedInApply
      [] pc = "check" /\ idx \in DOMAIN Doomed -> {Doomed[idx].kind} \cap TypedInExists
      [] OTHER -> {}

CacheReady == PendingKinds \subseteq synced

-------------------------------------------------------------------------------
(***************************************************************************)
(* Reconcile up to the render: fetch, the deletion branch, the finalizer.  *)
(***************************************************************************)
Take(t) == pc = "idle" /\ t \in queue /\ queue' = queue \ {t}

Begin(t, where) ==
    /\ pc' = where
    /\ cur' = t
    /\ snap' = tenantView[t]
    /\ UNCHANGED <<idx, vals, plan, seen, verdict, waiting, delayed, apiVars>>

FetchNothing(t) ==
    /\ Take(t)
    /\ \/ tenantView[t].phase = "absent"
       \/ tenantView[t].phase = "terminating" /\ ~tenantView[t].finalizer
    /\ event' = NoEvent
    /\ UNCHANGED <<passVars, delayed, apiVars>>

\* Mutant: preserveResourcesOnDeletion is not looked at.
FetchDeletedAnyway(t) ==
    /\ Take(t)
    /\ tenantView[t].phase = "terminating" /\ tenantView[t].finalizer
    /\ Begin(t, "delete")
    /\ event' = NoEvent

FetchDeleted(t) ==
    /\ Take(t)
    /\ tenantView[t].phase = "terminating" /\ tenantView[t].finalizer
    /\ IF tenantView[t].spec.preserve
       THEN Begin(t, "release") /\ event' = Event("Preserved", NoKey)
       ELSE Begin(t, "delete") /\ event' = NoEvent

\* Mutant: apply goes ahead without the finalizer.
FetchLiveNoFinalizer(t) ==
    /\ Take(t)
    /\ tenantView[t].phase = "live"
    /\ Begin(t, "render")
    /\ event' = NoEvent

\* Mutant: a generation that has been observed is not looked at again.
FetchLiveUnobserved(t) ==
    /\ Take(t)
    /\ tenantView[t].phase = "live"
    /\ IF tenantView[t].observed = tenantView[t].gen
       THEN UNCHANGED <<passVars, delayed, apiVars>>
       ELSE Begin(t, IF tenantView[t].finalizer THEN "render" ELSE "finalizer")
    /\ event' = NoEvent

FetchLive(t) ==
    /\ Take(t)
    /\ tenantView[t].phase = "live"
    /\ Begin(t, IF tenantView[t].finalizer THEN "render" ELSE "finalizer")
    /\ event' = NoEvent

\* The server takes a write of the Tenant only at the version it was read.
Current == tenants[cur].rv = snap.rv

AddFinalizer(lost) ==
    /\ pc = "finalizer"
    /\ Current
    /\ PutTenant(cur, [snap EXCEPT !.finalizer = TRUE])
    /\ Answered(lost)
    /\ IF lost
       THEN ReturnRetry
       ELSE /\ pc' = "render"
            /\ snap' = NextVersion(cur, [snap EXCEPT !.finalizer = TRUE])
            /\ UNCHANGED <<cur, idx, vals, plan, seen, verdict, waiting, queue, delayed>>
    /\ event' = NoEvent
    /\ UNCHANGED <<caches, objectStore>>

\* AddFinalizer, or the final Update, meets a newer version.
TenantConflict ==
    /\ pc \in {"finalizer", "release"}
    /\ ~Current
    /\ ReturnRetry
    /\ event' = NoEvent
    /\ UNCHANGED apiVars

-------------------------------------------------------------------------------
(***************************************************************************)
(* Render.                                                                 *)
(***************************************************************************)
\* Mutant: an unknown extension is reported like any other error.
RejectExtensionsAnyError ==
    /\ pc = "render"
    /\ UnknownExtension(Registry, snap.spec.extensions)
    /\ StopWith(ReasonReconcileError)
    /\ event' = NoEvent
    /\ UNCHANGED apiVars

RejectExtensions ==
    /\ pc = "render"
    /\ UnknownExtension(Registry, snap.spec.extensions)
    /\ StopWith(ReasonUnknownExtension)
    /\ event' = NoEvent
    /\ UNCHANGED apiVars

\* Every reference is a Get of its own, also when it repeats an earlier one.
ReadValue ==
    /\ pc = "render"
    /\ ~UnknownExtension(Registry, snap.spec.extensions)
    /\ idx \in DOMAIN Values
    /\ CacheReady
    /\ IF ResolveFails(view, cur.ns, Values[idx])
       THEN StopWith(ReasonReconcileError)
       ELSE /\ vals' = Append(vals, ResolveValue(view, cur.ns, Values[idx]))
            /\ idx' = idx + 1
            /\ UNCHANGED <<pc, cur, snap, plan, seen, verdict, waiting, queue, delayed>>
    /\ event' = NoEvent
    /\ UNCHANGED apiVars

Rendered ==
    /\ pc = "render"
    /\ ~UnknownExtension(Registry, snap.spec.extensions)
    /\ idx \notin DOMAIN Values
    /\ pc' = "get"
    /\ idx' = 1
    /\ vals' = <<>>
    /\ plan' = Objects(cur, snap.spec, vals)
    /\ event' = NoEvent
    /\ UNCHANGED <<cur, snap, seen, verdict, waiting, queue, delayed>>
    /\ UNCHANGED apiVars

-------------------------------------------------------------------------------
(***************************************************************************)
(* Apply: a Get, then a Create or an Update at the version the Get found.  *)
(***************************************************************************)
Skip(k) ==
    /\ k = NoKey
    /\ Continue("get")
    /\ event' = NoEvent

FindNothing(k) ==
    /\ k # NoKey
    /\ Found(k).phase = "absent"
    /\ pc' = "create"
    /\ event' = NoEvent
    /\ UNCHANGED <<cur, snap, idx, vals, plan, seen, verdict, waiting, queue, delayed>>

LeaveNamespace(k) ==
    /\ k.kind = "Namespace"
    /\ Found(k).phase # "absent"
    /\ Continue("get")
    /\ event' = Event("Synced", k)

FindVersion(k) ==
    /\ k # NoKey /\ k.kind # "Namespace"
    /\ Found(k).phase # "absent"
    /\ pc' = "update"
    /\ seen' = Found(k).rv
    /\ event' = NoEvent
    /\ UNCHANGED <<cur, snap, idx, vals, plan, verdict, waiting, queue, delayed>>

GetObject ==
    /\ pc = "get"
    /\ idx \in DOMAIN plan
    /\ CacheReady
    /\ LET k == Target.key
       IN  Skip(k) \/ FindNothing(k) \/ LeaveNamespace(k) \/ FindVersion(k)
    /\ UNCHANGED apiVars

CreateObject(lost) ==
    /\ pc = "create"
    /\ Answered(lost)
    /\ LET target == Target
       IN  /\ CanCreate(target.key)
           /\ PutObject(target.key, "live", target.data)
           /\ event' = IF lost THEN NoEvent ELSE Event("Created", target.key)
    /\ IF lost THEN Fail ELSE Continue("get")
    /\ UNCHANGED <<caches, tenantStore>>

UpdateObject(lost) ==
    /\ pc = "update"
    /\ Answered(lost)
    /\ LET target == Target
       IN  /\ objects[target.key].rv = seen
           /\ ReplaceObject(target.key, target.data)
           /\ event' = IF lost THEN NoEvent ELSE Event("Synced", target.key)
    /\ IF lost THEN Fail ELSE Continue("get")
    /\ UNCHANGED <<caches, tenantStore>>

\* AlreadyExists, a namespace that is missing or Terminating, a conflict, or
\* an object that is gone.
ApplyRefused ==
    /\ \/ pc = "create" /\ ~CanCreate(Target.key)
       \/ pc = "update" /\ objects[Target.key].rv # seen
    /\ Fail
    /\ event' = NoEvent
    /\ UNCHANGED apiVars

AllApplied ==
    /\ pc = "get"
    /\ idx \notin DOMAIN plan
    /\ StopWith(ReasonReconciled)
    /\ event' = NoEvent
    /\ UNCHANGED apiVars

-------------------------------------------------------------------------------
(***************************************************************************)
(* setStatus: a failed status update is logged and forgotten.  The pass    *)
(* ends with a timer whatever it has to report.                            *)
(***************************************************************************)
Reported == [snap EXCEPT !.reason = verdict, !.observed = snap.gen]

\* Mutant: the status goes to whatever version is stored, as of its generation.
WriteStatusRefetched(lost) ==
    /\ pc = "status"
    /\ tenants[cur].phase # "absent"
    /\ PutTenant(cur, [tenants[cur] EXCEPT !.reason = verdict, !.observed = tenants[cur].gen])
    /\ Answered(lost)
    /\ ReturnRetry
    /\ event' = NoEvent
    /\ UNCHANGED <<caches, objectStore>>

\* Mutant: Reconcile returns without RequeueAfter.
WriteStatusNoTimer(lost) ==
    /\ pc = "status"
    /\ Current
    /\ IF Reported = snap THEN UNCHANGED tenantStore ELSE PutTenant(cur, Reported)
    /\ Answered(lost)
    /\ ReturnDone
    /\ event' = NoEvent
    /\ UNCHANGED <<caches, objectStore>>

WriteStatus(lost) ==
    /\ pc = "status"
    /\ Current
    /\ IF Reported = snap THEN UNCHANGED tenantStore ELSE PutTenant(cur, Reported)
    /\ Answered(lost)
    /\ ReturnRetry
    /\ event' = NoEvent
    /\ UNCHANGED <<caches, objectStore>>

StatusConflict ==
    /\ pc = "status"
    /\ ~Current
    /\ ReturnRetry
    /\ event' = NoEvent
    /\ UNCHANGED apiVars

-------------------------------------------------------------------------------
(***************************************************************************)
(* finalize and remainingResources.                                        *)
(***************************************************************************)
DeleteNext(lost) ==
    /\ pc = "delete"
    /\ idx \in DOMAIN Doomed
    /\ LET k == Doomed[idx]
       IN  IF k # NoKey /\ Present(k)
           THEN /\ DeleteObject(k)
                /\ Answered(lost)
                /\ IF lost THEN Fail ELSE Continue("delete")
                /\ event' = IF lost THEN NoEvent ELSE Event("Deleted", k)
           ELSE /\ ~lost
                /\ Continue("delete")
                /\ event' = NoEvent
                /\ UNCHANGED <<objectStore, spent>>
    /\ UNCHANGED <<caches, tenantStore>>

AllDeleted ==
    /\ pc = "delete"
    /\ idx \notin DOMAIN Doomed
    /\ Goto("check")
    /\ event' = NoEvent
    /\ UNCHANGED apiVars

\* exists: what the cache, or the server, says of one object.
StillThere(k) == k # NoKey /\ Found(k).phase # "absent"

CheckNext ==
    /\ pc = "check"
    /\ idx \in DOMAIN Doomed
    /\ CacheReady
    /\ waiting' = (waiting \/ StillThere(Doomed[idx]))
    /\ idx' = idx + 1
    /\ event' = NoEvent
    /\ UNCHANGED <<pc, cur, snap, vals, plan, seen, verdict, queue, delayed, apiVars>>

\* Mutant: a Tenant that still waits is not looked at again.
AllCheckedNoTimer ==
    /\ pc = "check"
    /\ idx \notin DOMAIN Doomed
    /\ IF waiting
       THEN ReturnDone /\ event' = Event("Finalizing", NoKey)
       ELSE Goto("release") /\ event' = NoEvent
    /\ UNCHANGED apiVars

AllChecked ==
    /\ pc = "check"
    /\ idx \notin DOMAIN Doomed
    /\ IF waiting
       THEN ReturnRetry /\ event' = Event("Finalizing", NoKey)
       ELSE Goto("release") /\ event' = NoEvent
    /\ UNCHANGED apiVars

\* Mutant: the finalizer is removed from whatever version is stored.
ReleaseAnyVersion(lost) ==
    /\ pc = "release"
    /\ tenants[cur].phase = "terminating"
    /\ PutTenant(cur, NoTenant(0))
    /\ Answered(lost)
    /\ IF lost THEN ReturnRetry ELSE ReturnDone
    /\ event' = NoEvent
    /\ UNCHANGED <<caches, objectStore>>

\* Without its finalizer a Tenant that is being deleted is gone.
Release(lost) ==
    /\ pc = "release"
    /\ Current
    /\ PutTenant(cur, NoTenant(0))
    /\ Answered(lost)
    /\ IF lost THEN ReturnRetry ELSE ReturnDone
    /\ event' = NoEvent
    /\ UNCHANGED <<caches, objectStore>>

-------------------------------------------------------------------------------
(***************************************************************************)
(* Faults and restarts.                                                    *)
(***************************************************************************)
\* A call that fails without having an effect.
CallFails ==
    /\ Spend("faults", MaxFaults)
    /\ \/ pc \in {"finalizer", "create", "update", "release", "status"}
       \/ pc = "render" /\ PendingKinds # {} /\ CacheReady
       \/ pc = "get" /\ idx \in DOMAIN plan /\ Target.key # NoKey /\ CacheReady
       \/ pc \in {"delete", "check"} /\ idx \in DOMAIN Doomed /\ Doomed[idx] # NoKey
    /\ Fail
    /\ event' = NoEvent
    /\ UNCHANGED <<tenantStore, objectStore, caches>>

\* The process dies and starts again: its list of Tenants fills the queue.
Restart ==
    /\ Spend("crashes", MaxCrashes)
    /\ Relist
    /\ queue' = {t \in Tenants : tenants[t].phase # "absent"}
    /\ delayed' = {}
    /\ ClearPass
    /\ event' = NoEvent

-------------------------------------------------------------------------------
(***************************************************************************)
(* The queue: watch events of Tenants (the children are not watched), and  *)
(* timers.                                                                 *)
(***************************************************************************)
DeliverTenant(t) ==
    /\ tenantFeed[t] # <<>>
    /\ tenantView' = [tenantView EXCEPT ![t] = Head(tenantFeed[t])]
    /\ tenantFeed' = [tenantFeed EXCEPT ![t] = Tail(@)]
    /\ queue' = queue \cup {t}
    /\ event' = NoEvent
    /\ UNCHANGED <<tenants, objects, view, feed, synced, spent, delayed, passVars>>

TimerFires(t) ==
    /\ t \in delayed
    /\ delayed' = delayed \ {t}
    /\ queue' = queue \cup {t}
    /\ event' = NoEvent
    /\ UNCHANGED <<apiVars, passVars>>

-------------------------------------------------------------------------------
Init ==
    /\ APIInit
    /\ queue = {} /\ delayed = {}
    /\ pc = "idle" /\ cur = None /\ snap = NoSnap
    /\ idx = 1 /\ vals = <<>> /\ plan = <<>> /\ seen = 0
    /\ verdict = "" /\ waiting = FALSE
    /\ event = NoEvent

Fetch(t) == FetchNothing(t) \/ FetchDeleted(t) \/ FetchLive(t)

Write(lost) ==
    \/ AddFinalizer(lost) \/ CreateObject(lost) \/ UpdateObject(lost)
    \/ WriteStatus(lost) \/ DeleteNext(lost) \/ Release(lost)

\* The steps of a pass when no call fails.
Work ==
    \/ Write(FALSE) \/ TenantConflict \/ ApplyRefused \/ StatusConflict
    \/ RejectExtensions \/ ReadValue \/ Rendered
    \/ GetObject \/ AllApplied
    \/ AllDeleted \/ CheckNext \/ AllChecked

Fault == Write(TRUE) \/ CallFails \/ Restart

PassStandsStill == event' = NoEvent /\ UNCHANGED <<queue, delayed, passVars>>

Users   == UserStep /\ PassStandsStill
Cluster == ClusterStep /\ PassStandsStill

\* An informer starts when the pass first needs it.
Inform(kind) ==
    /\ \/ StartInformer(kind) /\ kind \in PendingKinds
       \/ DeliverObject(kind)
    /\ PassStandsStill

Background ==
    \/ \E t \in Tenants : DeliverTenant(t)
    \/ \E kind \in CachedKinds : Inform(kind)
    \/ Cluster

Next ==
    \/ \E t \in Tenants : Fetch(t) \/ TimerFires(t)
    \/ Work
    \/ Background
    \/ Users
    \/ Fault

Spec == Init /\ [][Next]_vars

(***************************************************************************)
(* Fairness: the worker goes on, no tenant waits in the queue for ever     *)
(* (the work queue is first in first out), timers fire, and what is under  *)
(* way elsewhere (watch events, starting informers, deletions the cluster  *)
(* has begun) gets on, in any order.  Nothing is assumed of users and      *)
(* faults, which the bounds make finite.                                   *)
(***************************************************************************)
Fairness ==
    /\ WF_vars(Work)
    /\ WF_vars(Background)
    /\ \A t \in Tenants : SF_vars(Fetch(t)) /\ WF_vars(TimerFires(t))

FairSpec == Spec /\ Fairness

-------------------------------------------------------------------------------
(***************************************************************************)
(* What must hold.                                                         *)
(***************************************************************************)
Reasons == {"", ReasonReconciled, ReasonReconcileError, ReasonUnknownExtension}
Steps   == {"idle", "finalizer", "render", "get", "create", "update",
            "status", "delete", "check", "release"}

TenantVersions ==
    [phase : Phases, rv : Nat, gen : Nat, spec : Specs \cup {NoSpec},
     finalizer : BOOLEAN, reason : Reasons, observed : Nat]

TenantsOK ==
    /\ tenants \in [Tenants -> TenantVersions]
    /\ tenantView \in [Tenants -> TenantVersions]
    /\ tenantFeed \in [Tenants -> Seq(TenantVersions)]

PassOK ==
    /\ queue \subseteq Tenants
    /\ delayed \subseteq Tenants
    /\ pc \in Steps
    /\ snap \in TenantVersions
    /\ verdict \in Reasons
    /\ waiting \in BOOLEAN
    /\ IF pc = "idle" THEN cur = None /\ snap = NoSnap
                      ELSE cur \in Tenants /\ snap.phase # "absent"

\* A position points into the list of the pass, or one past its end.
PositionOK ==
    /\ pc = "render" => idx \in 1 .. Len(Values) + 1
    /\ pc = "get" => idx \in 1 .. Len(plan) + 1
    /\ pc \in {"create", "update"} => idx \in DOMAIN plan
    /\ pc \in {"delete", "check"} => idx \in 1 .. Len(Doomed) + 1

\* The types of the variables: of the stored and cached Tenants, the objects,
\* the pass, and its position in the list it works through.
TypeOK == TenantsOK /\ ObjectsOK /\ PassOK /\ PositionOK

\* However old the copy a pass works on, while it renders, applies or reports
\* the stored Tenant exists and holds the finalizer: nothing is created that
\* a deletion would not wait for.
FinalizerGuardsApply ==
    pc \in {"render", "get", "create", "update", "status"} =>
        tenants[cur].phase # "absent" /\ tenants[cur].finalizer

Released(t) ==
    /\ tenants[t].phase = "terminating"
    /\ tenants'[t].phase = "absent"
    /\ ~tenants[t].spec.preserve

\* A Tenant that is not to preserve its resources goes only when every object
\* finalize looks after, for the spec that is stored at that moment, has been
\* deleted (it may be a namespace that is still Terminating).
ReleaseIsClean ==
    [][\A t \in Tenants :
          Released(t) =>
              LET doomed == Teardown(t, tenants[t].spec)
              IN  \A j \in DOMAIN doomed :
                     doomed[j] # NoKey => objects[doomed[j]].phase # "live"]_vars

\* As long as specs are never edited, a Tenant that is gone leaves nothing
\* live behind: not in the argocd namespace, not a namespace of its own, and
\* nothing in a namespace that is not on its way out.
NothingLeftBehind ==
    \A t \in Tenants, spec \in Specs :
        tenants[t].phase = "absent" =>
            \A k \in ChildKeys(t, spec) :
                objects[k].phase = "live" =>
                    /\ NamespaceOf(k) \in Keys
                    /\ objects[NamespaceOf(k)].phase = "terminating"

\* Ready=True at the current generation of a Tenant that is not being deleted
\* means that its objects in the argocd namespace are what the stored spec
\* asks for (as long as nobody else touches them).
ReadyMeansArgoInSync ==
    \A t \in Tenants :
        LET tenant == tenants[t]
            wanted == Objects(t, tenant.spec, [j \in DOMAIN ValuesRead(tenant.spec) |-> ""])
        IN  /\ tenant.phase = "live"
            /\ tenant.reason = ReasonReconciled
            /\ tenant.observed = tenant.gen
            => \A i \in DOMAIN wanted :
                  LET k == wanted[i].key
                  IN  /\ k.ns = ArgoCDNamespace => objects[k].phase = "live"
                      /\ k.kind \in {"AppProject", "ApplicationSet"} =>
                            objects[k].data = wanted[i].data

\* A step of the pass itself, and not of a user or the cluster.
OperatorStep == pc' # pc \/ idx' # idx

\* The operator deletes a namespace only when the ApplicationSets and the
\* AppProject of the tenant, as the pass knows it, are gone.
NamespacesGoLast ==
    [][\A k \in Keys :
          /\ OperatorStep
          /\ k.kind = "Namespace"
          /\ objects[k].phase = "live" /\ objects'[k].phase = "terminating"
          => /\ objects[AppProjectKey(cur)].phase = "absent"
             /\ \A n \in DOMAIN snap.spec.environments :
                   objects[AppSetKey(cur, snap.spec.environments[n])].phase = "absent"]_vars

\* The operator deletes something only for a Tenant that was to be deleted with
\* its resources: the spec may be edited under the pass, and be preserving now,
\* but then its generation tells so, and the finalizer is not released for it.
PreserveHonoured ==
    [][\A k \in Children :
          /\ OperatorStep
          /\ objects[k].phase = "live" /\ objects'[k].phase # "live"
          => /\ tenants[cur].phase # "live"
             /\ tenants[cur].gen = snap.gen => ~tenants[cur].spec.preserve]_vars

\* What a pass over the stored Tenant, with the stored Secrets, would report.
TrueReason(t) ==
    LET spec   == tenants[t].spec
        values == ValuesRead(spec)
    IN  CASE UnknownExtension(Registry, spec.extensions) -> ReasonUnknownExtension
          [] ~UnknownExtension(Registry, spec.extensions)
             /\ \E j \in DOMAIN values : ResolveFails(objects, t.ns, values[j]) ->
                   ReasonReconcileError
          [] OTHER -> ReasonReconciled

InSync(t) ==
    LET spec   == tenants[t].spec
        values == ValuesRead(spec)
        wanted == Objects(t, spec, [j \in DOMAIN values |->
                                       ResolveValue(objects, t.ns, values[j])])
    IN  \A i \in DOMAIN wanted :
            LET k == wanted[i].key
            IN  k # NoKey => /\ objects[k].phase = "live"
                             /\ k.kind # "Namespace" => objects[k].data = wanted[i].data

\* Once users and faults are done, the status tells the truth for good: the
\* stored generation, and whether its extensions and references resolve.
StatusTellsTruth ==
    <>[](\A t \in Tenants :
            tenants[t].phase = "live" =>
                /\ tenants[t].observed = tenants[t].gen
                /\ tenants[t].reason = TrueReason(t))

\* ... and the objects of every tenant that can be rendered are, for good,
\* those of its stored spec with the credentials now in the source Secrets,
\* although neither the objects nor the Secrets are watched.
ConvergesToSpec ==
    <>[](\A t \in Tenants :
            tenants[t].phase = "live" /\ TrueReason(t) = ReasonReconciled => InSync(t))

\* A Tenant that is being deleted is gone in the end: none is terminating for ever.
DeletionCompletes ==
    \A t \in Tenants : []<>(tenants[t].phase # "terminating")

-------------------------------------------------------------------------------
(***************************************************************************)
(* What comments of the repository say, and the code does not keep.        *)
(***************************************************************************)
\* remainingResources: "An empty slice means cleanup is complete": when it
\* lets the Tenant go, nothing live carries the tenant's label.
CleanupIsComplete ==
    [][\A t \in Tenants :
          Released(t) =>
              \A k \in Children : objects[k].phase = "live" =>
                                      objects[k].data.owner # t.name]_vars

\* finalize: "returns done=false while any child resource is still pending
\* deletion": none of those it looks for is there, nor Terminating.
DoneMeansGone ==
    [][\A t \in Tenants :
          Released(t) =>
              LET doomed == Teardown(t, tenants[t].spec)
              IN  \A j \in DOMAIN doomed :
                     doomed[j] # NoKey => objects[doomed[j]].phase = "absent"]_vars

\* TenantSpec.environments: "Each environment produces a namespace
\* {tenant}-{env}": one that carries the label of the tenant that is Ready, also
\* when another tenant's environment gives the same name.
ReadyMeansOwnNamespaces ==
    \A t \in Tenants :
        /\ tenants[t].phase = "live"
        /\ tenants[t].reason = ReasonReconciled
        /\ tenants[t].observed = tenants[t].gen
        => \A n \in DOMAIN tenants[t].spec.environments :
              LET k == NamespaceKey(t, tenants[t].spec.environments[n])
              IN  objects[k].phase = "live" => objects[k].data.owner = t.name
===============================================================================
