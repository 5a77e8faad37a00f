------------------------------ MODULE ReadyProofs ------------------------------
(***************************************************************************)
(* What Ready=True tells: ReadyMeansArgoInSync, and PageIsWhole of the     *)
(* page that shows it, for every set of tenants and specs and every value  *)
(* of the bounds.                                                          *)
(*                                                                         *)
(* A status is written at the version the pass holds, so it is true of the *)
(* stored Tenant when it is written.  It stays true because every copy of  *)
(* a Tenant that is Ready at its generation, in the cache, on its way      *)
(* there or in the hands of a pass, is of that generation: a later pass    *)
(* applies the same objects again.                                         *)
(***************************************************************************)
EXTENDS TenantView, TeardownProofs

\* Nobody but the operator deletes or overwrites what it has applied in the
\* argocd namespace.
HandsOff == \A k \in Children :
               k.ns = ArgoCDNamespace => ~DeleteChild(k) /\ ~OverwriteChild(k)

-------------------------------------------------------------------------------
(***************************************************************************)
(* The inductive invariant.                                                *)
(***************************************************************************)
IsReady(tenant) ==
    /\ tenant.phase = "live"
    /\ tenant.reason = ReasonReconciled
    /\ tenant.observed = tenant.gen

\* Versions that differ in the status or the finalizer only.
SameEdit(v, w) == v.phase = w.phase /\ v.gen = w.gen /\ v.spec = w.spec

CopiesAgree(t) ==
    /\ SameEdit(tenantView[t], tenants[t])
    /\ \A v \in Range(tenantFeed[t]) : SameEdit(v, tenants[t])

InPlace(k, data) ==
    /\ k.ns = ArgoCDNamespace => objects[k].phase = "live"
    /\ k.kind \in ArgoKinds => objects[k].data = data

Placed(o) == InPlace(o.key, o.data)

\* What a pass has applied so far is in place.
ProgressInv ==
    /\ pc \in PlanSteps => \A j \in 1 .. idx - 1 : Placed(Wanted(cur, snap.spec)[j])
    /\ pc = "status" /\ verdict = ReasonReconciled =>
          \A o \in Range(Wanted(cur, snap.spec)) : Placed(o)

ReadyInv ==
    /\ \A t \in Tenants : tenants[t].observed <= tenants[t].gen
    /\ pc # "idle" /\ snap = tenants[cur] => CopiesAgree(cur)
    /\ \A t \in Tenants :
          IsReady(tenants[t]) =>
             /\ CopiesAgree(t)
             /\ pc # "idle" /\ cur = t => SameEdit(snap, tenants[t])
             /\ \A o \in Range(Wanted(t, tenants[t].spec)) : Placed(o)

-------------------------------------------------------------------------------
(***************************************************************************)
(* What Render asks for, and how it stays in place.                        *)
(***************************************************************************)

\* An Argo CD object that is asked for twice is asked for alike.
LEMMA WantedAgrees ==
    ASSUME NEW t \in Tenants, NEW spec \in Specs,
           NEW o \in Range(Wanted(t, spec)), NEW p \in Range(Wanted(t, spec)),
           o.key = p.key, o.key.kind \in ArgoKinds
    PROVE  o.data = p.data
<1> DEFINE Built(x) == \/ x = BuildAppProject(t, spec)
                       \/ \E n \in DOMAIN spec.environments :
                             x = BuildAppSet(t, spec, spec.environments[n])
<1>1. ASSUME NEW x \in Range(Wanted(t, spec)), x.key.kind \in ArgoKinds
      PROVE  Built(x)
  <2>1. HoldsLists(spec)
    BY SpecsHoldLists
  <2> DEFINE texts == [j \in DOMAIN ValuesRead(spec) |-> ""]
  <2>2. x \in Range(Objects(t, spec, texts))
    BY DEF Wanted
  <2> HIDE DEF texts
  <2>3. \/ \E n \in DOMAIN spec.environments : x = BuildNamespace(t, spec.environments[n])
        \/ x = BuildAppProject(t, spec)
        \/ \E n \in DOMAIN spec.environments : x = BuildAppSet(t, spec, spec.environments[n])
        \/ \E m \in DOMAIN spec.git : x = BuildRepoSecret(t, spec, texts, m)
        \/ \E n \in 1 .. EnvironmentsWithPull(spec) : x = BuildPullSecret(t, spec, texts, n)
        \/ \E n \in 1 .. EnvironmentsWithPull(spec) : x = BuildDefaultSA(t, spec.environments[n])
    BY <2>1, <2>2, RenderedObjects
  <2> QED
    BY <1>1, <2>3, KeysOfObjects, KindsOfKeys DEF ArgoKinds
<1>2. Built(o) /\ Built(p)
  BY <1>1
<1>3. BuildAppProject(t, spec).key.kind = "AppProject"
  BY KeysOfObjects, KindsOfKeys
<1>4. \A n \in DOMAIN spec.environments :
         /\ BuildAppSet(t, spec, spec.environments[n]).key = AppSetKey(t, spec.environments[n])
         /\ AppSetKey(t, spec.environments[n]).kind = "ApplicationSet"
  BY KeysOfObjects, KindsOfKeys
<1> QED
  BY <1>2, <1>3, <1>4, EnvironmentsHaveNames

\* What is asked for is a child of the tenant, and no namespace if it is in the
\* argocd namespace.
LEMMA WantedKeys ==
    ASSUME NEW t \in Tenants, NEW spec \in Specs, NEW o \in Range(Wanted(t, spec))
    PROVE  /\ o.key = NoKey \/ o.key \in ChildKeys(t, spec)
           /\ o.key.ns = ArgoCDNamespace => /\ o.key # NoKey
                                            /\ o.key.kind # "Namespace"
                                            /\ NamespaceOf(o.key) \notin Keys
           /\ o.key.kind \in ArgoKinds => o.key.ns = ArgoCDNamespace
<1>1. o.key = NoKey \/ o.key \in ChildKeys(t, spec)
  BY ObjectsOfTenant DEF Wanted, Range, PlanKey
<1>2. NoKey.ns = ClusterScope /\ ArgoCDNamespace # ClusterScope
  BY DEF NoKey, Key, ClusterScope, ArgoCDNamespace, DefaultArgoCDNamespace
<1>3. o.key \in ChildKeys(t, spec) =>
         /\ o.key.kind = "Namespace" => o.key.ns = ClusterScope
         /\ o.key.kind \in ArgoKinds => o.key.ns = ArgoCDNamespace
  BY KindsOfKeys DEF ChildKeys, ArgoKinds
<1>4. o.key.ns = ArgoCDNamespace => NamespaceOf(o.key) \notin Keys
  <2>1. NamespaceOf(o.key).kind = "Namespace" /\ NamespaceOf(o.key).name = o.key.ns
    BY DEF NamespaceOf, Key
  <2> QED
    BY <2>1, NamespacesAreNamed
<1>5. NoKey.kind \notin ArgoKinds
  BY KindsOfKeys DEF ArgoKinds
<1> QED
  BY <1>1, <1>2, <1>3, <1>4, <1>5

\* It stays in place unless a pass applies another spec of the tenant or tears
\* the tenant down.
LEMMA PlacedStays ==
    ASSUME TenantsApart, IInv, PlanInv, [Next]_vars, [HandsOff]_vars,
           NEW t \in Tenants, NEW spec \in Specs, NEW o \in Range(Wanted(t, spec)),
           Placed(o),
           pc \in WriteSteps /\ cur = t => snap.spec = spec,
           pc = "delete" => cur # t
    PROVE  Placed(o)'
<1> DEFINE k == o.key
<1>1. CASE k.ns # ArgoCDNamespace
  BY <1>1, WantedKeys DEF Placed, InPlace
<1>2. CASE k.ns = ArgoCDNamespace /\ UNCHANGED objects
  BY <1>2 DEF Placed, InPlace
<1>3. ASSUME k.ns = ArgoCDNamespace, HandsOff,
             NEW c \in Keys, NEW phase \in Phases, NEW data,
             PutObject(c, phase, data), ObjectMove(c, phase, data)
      PROVE  Placed(o)'
  <2>1. /\ objects'[c].phase = phase /\ objects'[c].data = data
        /\ \A x \in Keys \ {c} : objects'[x] = objects[x]
    BY <1>3, PutObjectFacts DEF IInv, TypeOK
  <2>2. /\ k \in ChildKeys(t, spec) /\ k.kind # "Namespace" /\ NamespaceOf(k) \notin Keys
        /\ k \in Children /\ k \in Keys /\ k \notin Sources /\ k # NoKey
    <3>1. /\ k \in ChildKeys(t, spec) /\ k.kind # "Namespace" /\ NamespaceOf(k) \notin Keys
          /\ k # NoKey
      BY <1>3, WantedKeys
    <3> QED
      BY <3>1, SourcesAreNotChildren DEF Children, Keys
  <2>3. objects[k].phase = "live" /\ (k.kind \in ArgoKinds => objects[k].data = o.data)
    BY <1>3 DEF Placed, InPlace
  <2>4. CASE c # k
    BY <2>1, <2>2, <2>3, <2>4 DEF Placed, InPlace
  <2>5. CASE c = k /\ Applied(k, data) /\ phase = "live"
    <3>1. /\ pc \in PlanSteps /\ pc \in WriteSteps
          /\ idx \in DOMAIN plan /\ plan[idx].key = k /\ data = plan[idx].data
      BY <2>5 DEF Applied, WriteSteps, PlanSteps, IInv, TypeOK, PositionOK, Target
    <3>2. /\ cur \in Tenants /\ snap.spec \in Specs
          /\ k \in ChildKeys(cur, snap.spec)
          /\ idx \in DOMAIN Wanted(cur, snap.spec)
          /\ plan[idx].key = Wanted(cur, snap.spec)[idx].key
          /\ k.kind \in ArgoKinds => data = Wanted(cur, snap.spec)[idx].data
      BY <2>2, <3>1, PlanFacts
    <3>3. cur = t /\ snap.spec = spec
      BY <2>2, <3>1, <3>2 DEF TenantsApart
    <3>4. k.kind \in ArgoKinds => data = o.data
      <4> DEFINE p == Wanted(t, spec)[idx]
      <4>1. p \in Range(Wanted(t, spec)) /\ p.key = k
        BY <3>1, <3>2, <3>3 DEF Range
      <4>2. k.kind \in ArgoKinds => data = p.data
        BY <3>2, <3>3
      <4> HIDE DEF p
      <4> QED
        BY <4>1, <4>2, WantedAgrees
    <3> QED
      BY <2>1, <2>5, <3>4 DEF Placed, InPlace
  <2>6. CASE c = k /\ ~(Applied(k, data) /\ phase = "live")
    <3>1. ~CanCreate(k) /\ ~OverwriteChild(k) /\ ~DeleteChild(k)
      BY <1>3, <2>2, <2>3 DEF CanCreate, Present, HandsOff
    <3>2. Taken(k)
      BY <1>3, <2>2, <2>6, <3>1 DEF ObjectMove
    <3>3. pc = "delete" /\ idx \in DOMAIN Doomed /\ k = Doomed[idx]
      BY <2>2, <2>3, <3>1, <3>2 DEF Taken
    <3>4. cur \in Tenants /\ snap.spec \in Specs /\ k \in ChildKeys(cur, snap.spec)
      BY <2>2, <3>3, PassFacts, TeardownIsAList DEF Doomed, Range
    <3> QED
      BY <2>2, <3>3, <3>4 DEF TenantsApart
  <2> QED
    BY <2>4, <2>5, <2>6
<1>4. (\E kind \in CachedKinds : Inform(kind)) \/ Restart => UNCHANGED objects
  BY DEF Inform, StartInformer, DeliverObject, Restart, Relist
<1>5. CASE UNCHANGED vars
  BY <1>1, <1>2, <1>5 DEF vars, apiVars
<1>6. CASE HandsOff
  BY <1>1, <1>2, <1>3, <1>4, <1>6, ObjectMoves
<1> QED
  BY <1>5, <1>6

-------------------------------------------------------------------------------
(***************************************************************************)
(* How a Tenant becomes Ready, and how far a pass gets.                    *)
(***************************************************************************)

\* The pass reports that all is applied, of the Tenant as it is stored.
Reports(t) == /\ pc = "status" /\ pc' = "idle" /\ cur = t
              /\ snap = tenants[t] /\ verdict = ReasonReconciled

\* A write of a Tenant makes a new version; it is Ready if it was before, and
\* is of the same edit, or if the pass has reported it.
StatusMove(t) ==
    /\ tenants'[t] = tenants[t] \/ tenants'[t].rv = tenants[t].rv + 1
    /\ tenants'[t].observed <= tenants'[t].gen
    /\ IsReady(tenants'[t]) => /\ SameEdit(tenants'[t], tenants[t])
                               /\ IsReady(tenants[t]) \/ Reports(t)

LEMMA StatusMoves ==
    ASSUME IInv, [Next]_vars, NEW t \in Tenants, tenants[t].observed <= tenants[t].gen
    PROVE  StatusMove(t)
<1>0. TenantsOK /\ tenants[t] \in TenantVersions
      /\ tenants[t].gen \in Nat /\ tenants[t].observed \in Nat
  BY DEF IInv, TypeOK, TenantsOK, TenantVersions
<1>1. ASSUME tenants'[t] = tenants[t]
      PROVE  StatusMove(t)
  BY <1>1 DEF StatusMove, SameEdit
<1>2. ASSUME NEW s \in Tenants, NEW tenant \in TenantVersions, PutTenant(s, tenant)
      PROVE  /\ s # t => tenants'[t] = tenants[t]
             /\ tenants'[s].rv = tenants[s].rv + 1
             /\ tenants'[s].phase = tenant.phase /\ tenants'[s].spec = tenant.spec
             /\ tenants'[s].gen = tenant.gen
             /\ tenants'[s].reason = tenant.reason /\ tenants'[s].observed = tenant.observed
  <2>1. tenants' = [tenants EXCEPT ![s] = NextVersion(s, tenant)]
    BY <1>2 DEF PutTenant
  <2>2. (s # t => tenants'[t] = tenants[t]) /\ tenants'[s] = NextVersion(s, tenant)
    BY <1>0, <2>1 DEF TenantsOK
  <2> QED
    BY <1>0, <2>2, NextVersionFacts
\* A version that is not Ready.
<1>3. ASSUME NEW s \in Tenants, NEW tenant \in TenantVersions, PutTenant(s, tenant),
             s = t => tenant.observed <= tenant.gen /\ ~IsReady(tenant)
      PROVE  StatusMove(t)
  <2>1. CASE s # t
    BY <1>1, <1>2, <1>3, <2>1
  <2>2. CASE s = t
    BY <1>2, <1>3, <2>2 DEF StatusMove, IsReady
  <2> QED
    BY <2>1, <2>2
\* A version of the same edit.
<1>4. ASSUME NEW tenant \in TenantVersions, PutTenant(cur, tenant), cur \in Tenants,
             cur = t => /\ SameEdit(tenant, tenants[t]) /\ tenant.observed <= tenant.gen
                        /\ IsReady(tenant) => IsReady(tenants[t]) \/ Reports(t)
      PROVE  StatusMove(t)
  <2>1. CASE cur # t
    BY <1>1, <1>2, <1>4, <2>1
  <2>2. CASE cur = t
    BY <1>2, <1>4, <2>2 DEF StatusMove, IsReady, SameEdit
  <2> QED
    BY <2>1, <2>2
<1>5. NoTenant(0) \in TenantVersions /\ NoTenant(0).observed <= NoTenant(0).gen
      /\ ~IsReady(NoTenant(0))
  BY DEF NoTenant, TenantVersions, Phases, Reasons, IsReady
<1>6. ASSUME NEW s \in Tenants, NEW spec \in Specs, CreateTenant(s, spec)
      PROVE  StatusMove(t)
  <2> DEFINE tenant == [NoTenant(0) EXCEPT !.phase = "live", !.gen = 1, !.spec = spec]
  <2>1. tenant \in TenantVersions /\ tenant.observed = 0 /\ tenant.gen = 1
    BY DEF NoTenant, TenantVersions, Phases, Reasons
  <2>2. PutTenant(s, tenant)
    BY <1>6 DEF CreateTenant
  <2> HIDE DEF tenant
  <2>3. tenant.observed <= tenant.gen
    BY <2>1
  <2>4. ~IsReady(tenant)
    BY <2>1 DEF IsReady
  <2> QED
    BY <1>3, <2>1, <2>2, <2>3, <2>4
<1>7. ASSUME NEW s \in Tenants, NEW spec \in Specs, EditTenant(s, spec)
      PROVE  StatusMove(t)
  <2> DEFINE tenant == [tenants[s] EXCEPT !.gen = tenants[s].gen + 1, !.spec = spec]
  <2>0. /\ tenants[s] \in TenantVersions
        /\ tenants[s].gen \in Nat /\ tenants[s].gen + 1 \in Nat /\ tenants[s].observed \in Nat
    BY <1>0 DEF TenantsOK, TenantVersions
  <2>1. /\ tenant \in TenantVersions /\ tenant.observed = tenants[s].observed
        /\ tenant.gen = tenants[s].gen + 1
    BY <2>0 DEF TenantVersions
  <2>2. PutTenant(s, tenant)
    BY <1>7 DEF EditTenant
  <2> HIDE DEF tenant
  <2>3. s = t => tenant.observed <= tenant.gen /\ ~IsReady(tenant)
    BY <2>0, <2>1 DEF IsReady
  <2> QED
    BY <1>3, <2>1, <2>2, <2>3
<1>8. ASSUME NEW s \in Tenants, DeleteTenant(s)
      PROVE  StatusMove(t)
  <2> DEFINE tenant == [tenants[s] EXCEPT !.phase = "terminating", !.gen = tenants[s].gen + 1]
  <2>0. /\ tenants[s] \in TenantVersions
        /\ tenants[s].gen \in Nat /\ tenants[s].gen + 1 \in Nat /\ tenants[s].observed \in Nat
    BY <1>0 DEF TenantsOK, TenantVersions
  <2>1. /\ tenant \in TenantVersions /\ tenant.observed = tenants[s].observed
        /\ tenant.gen = tenants[s].gen + 1 /\ tenant.phase = "terminating"
    BY <2>0 DEF TenantVersions, Phases
  <2>2. PutTenant(s, tenant) \/ PutTenant(s, NoTenant(0))
    BY <1>8 DEF DeleteTenant
  <2> HIDE DEF tenant
  <2>3. (s = t => tenant.observed <= tenant.gen) /\ ~IsReady(tenant)
    BY <2>0, <2>1 DEF IsReady
  <2> QED
    BY <1>3, <1>5, <2>1, <2>2, <2>3
<1>9. CASE UserStep
  <2>1. CASE \/ \E k \in Sources, content \in Contents : WriteSource(k, content)
             \/ \E k \in Sources : DeleteSource(k)
             \/ \E k \in Children : DeleteChild(k) \/ OverwriteChild(k)
    BY <1>1, <2>1 DEF WriteSource, DeleteSource, DeleteChild, OverwriteChild
  <2> QED
    BY <1>6, <1>7, <1>8, <1>9, <2>1 DEF UserStep
<1>10. ASSUME NEW lost \in BOOLEAN, AddFinalizer(lost) \/ WriteStatus(lost)
       PROVE  StatusMove(t)
  <2>1. /\ pc # "idle" /\ Current
        /\ \/ UNCHANGED tenants
           \/ PutTenant(cur, [snap EXCEPT !.finalizer = TRUE])
           \/ pc = "status" /\ pc' = "idle" /\ PutTenant(cur, Reported)
    BY <1>10 DEF AddFinalizer, WriteStatus, tenantStore, ReturnRetry, ClearPass
  <2>2. /\ cur \in Tenants /\ snap \in TenantVersions /\ snap = tenants[cur]
        /\ verdict \in Reasons /\ snap.gen \in Nat
    BY <2>1, PassFacts, CurrentIsStored DEF IInv, TypeOK, PassOK, TenantVersions
  <2>3. CASE PutTenant(cur, [snap EXCEPT !.finalizer = TRUE])
    <3> DEFINE tenant == [snap EXCEPT !.finalizer = TRUE]
    <3>1. /\ tenant \in TenantVersions
          /\ tenant.phase = snap.phase /\ tenant.gen = snap.gen /\ tenant.spec = snap.spec
          /\ tenant.reason = snap.reason /\ tenant.observed = snap.observed
      BY <2>2 DEF TenantVersions
    <3>2. PutTenant(cur, tenant)
      BY <2>3
    <3> HIDE DEF tenant
    <3> QED
      BY <1>4, <2>2, <3>1, <3>2 DEF SameEdit, IsReady
  <2>4. CASE pc = "status" /\ pc' = "idle" /\ PutTenant(cur, Reported)
    <3>1. /\ Reported \in TenantVersions
          /\ Reported.phase = snap.phase /\ Reported.gen = snap.gen
          /\ Reported.spec = snap.spec /\ Reported.reason = verdict
          /\ Reported.observed = snap.gen
      BY <2>2 DEF TenantVersions, Reported
    <3>2. cur = t /\ IsReady(Reported) => Reports(t)
      BY <2>2, <2>4, <3>1 DEF IsReady, Reports
    <3> QED
      BY <1>4, <2>2, <2>4, <3>1, <3>2 DEF SameEdit
  <2> QED
    BY <1>1, <2>1, <2>3, <2>4
<1>11. ASSUME NEW lost \in BOOLEAN, Release(lost)
       PROVE  StatusMove(t)
  <2>1. cur \in Tenants /\ PutTenant(cur, NoTenant(0))
    BY <1>11, ReleaseKeeps DEF Release
  <2> QED
    BY <1>3, <1>5, <2>1
<1>12. CASE \/ \E s \in Tenants : Fetch(s) \/ DeliverTenant(s) \/ TimerFires(s)
            \/ \E kind \in CachedKinds : Inform(kind)
            \/ TenantConflict \/ StatusConflict \/ RejectExtensions \/ AllApplied
            \/ ApplyRefused \/ CallFails \/ ReadValue \/ Rendered \/ GetObject
            \/ AllDeleted \/ CheckNext \/ AllChecked \/ Restart \/ ClusterStep
            \/ UNCHANGED vars
            \/ \E lost \in BOOLEAN : CreateObject(lost) \/ UpdateObject(lost) \/ DeleteNext(lost)
  <2>1. UNCHANGED tenants
    BY <1>12 DEF Fetch, FetchNothing, FetchDeleted, FetchLive, Begin, DeliverTenant,
                 TimerFires, Inform, StartInformer, DeliverObject,
                 TenantConflict, StatusConflict, RejectExtensions, AllApplied, ApplyRefused,
                 CallFails, ReadValue, Rendered, GetObject, AllDeleted, CheckNext, AllChecked,
                 Restart, Relist, ClusterStep, CreateDefaultSA, PurgeContent, FinishDeletion,
                 CreateObject, UpdateObject, DeleteNext, vars, apiVars, tenantStore
  <2> QED
    BY <1>1, <2>1
<1>13. ASSUME NEW lost \in BOOLEAN, Write(lost)
       PROVE  StatusMove(t)
  BY <1>10, <1>11, <1>12, <1>13 DEF Write
<1>14. Users \/ Cluster => StatusMove(t)
  BY <1>9, <1>12 DEF Users, Cluster
<1> QED
  BY <1>12, <1>13, <1>14 DEF Next, Work, Background, Fault

\* A pass takes what is in the cache; later it takes what is stored, when it has
\* added the finalizer to what it has.
SnapMove ==
    pc' # "idle" =>
        \/ pc # "idle" /\ cur' = cur /\ snap' = snap
        \/ /\ pc # "idle" /\ cur' = cur
           /\ snap = tenants[cur] /\ snap' = tenants'[cur]
           /\ SameEdit(tenants'[cur], tenants[cur])
        \/ /\ pc = "idle" /\ cur' \in Tenants /\ snap' = tenantView[cur']
           /\ UNCHANGED <<tenants, tenantView, tenantFeed>>

LEMMA SnapMoves ==
    ASSUME IInv, [Next]_vars
    PROVE  SnapMove
<1> SUFFICES ASSUME pc' # "idle", pc = "finalizer", snap' # snap
             PROVE  /\ cur' = cur /\ snap = tenants[cur] /\ snap' = tenants'[cur]
                    /\ SameEdit(tenants'[cur], tenants[cur])
  BY CopiesMove DEF SnapMove
<1>1. PICK lost \in BOOLEAN : AddFinalizer(lost)
  <2>1. ASSUME NEW t \in Tenants, Fetch(t)
        PROVE  FALSE
    BY <2>1 DEF Fetch, FetchNothing, FetchDeleted, FetchLive, Take
  <2>2. ~Fail /\ ~ReturnRetry /\ ~ClearPass
    BY DEF Fail, ReturnRetry, ClearPass
  <2>3. CASE \/ TenantConflict \/ StatusConflict \/ RejectExtensions
             \/ AllApplied \/ ApplyRefused \/ CallFails \/ ReadValue \/ Rendered
             \/ GetObject \/ AllDeleted \/ CheckNext \/ AllChecked \/ Restart
    BY <2>2, <2>3 DEF TenantConflict, StatusConflict, RejectExtensions, AllApplied,
                      ApplyRefused, CallFails, ReadValue, Rendered, GetObject, AllDeleted,
                      CheckNext, AllChecked, Restart
  <2>4. CASE \/ \E t \in Tenants : DeliverTenant(t) \/ TimerFires(t)
             \/ \E kind \in CachedKinds : Inform(kind)
             \/ Users \/ Cluster \/ UNCHANGED vars
    <3>1. UNCHANGED passVars
      BY <2>4 DEF DeliverTenant, TimerFires, Inform, Users, Cluster, PassStandsStill, vars
    <3> QED
      BY <3>1 DEF passVars
  <2>5. ASSUME NEW lost \in BOOLEAN, Write(lost)
        PROVE  AddFinalizer(lost)
    BY <2>5 DEF Write, CreateObject, UpdateObject, WriteStatus, DeleteNext, Release
  <2> QED
    BY <2>1, <2>3, <2>4, <2>5 DEF Next, Work, Background, Fault
<1> DEFINE tenant == [snap EXCEPT !.finalizer = TRUE]
<1>2. /\ PutTenant(cur, tenant) /\ cur' = cur /\ snap' = NextVersion(cur, tenant)
      /\ Current
  BY <1>1 DEF AddFinalizer, ReturnRetry, ClearPass
<1>3. /\ cur \in Tenants /\ snap \in TenantVersions /\ snap = tenants[cur]
      /\ TenantsOK
  BY <1>2, PassFacts, CurrentIsStored DEF IInv, TypeOK
<1>4. /\ tenant \in TenantVersions
      /\ tenant.phase = snap.phase /\ tenant.gen = snap.gen /\ tenant.spec = snap.spec
  BY <1>3 DEF TenantVersions
<1> HIDE DEF tenant
<1>5. tenants'[cur] = NextVersion(cur, tenant)
  BY <1>2, <1>3 DEF PutTenant, TenantsOK
<1> QED
  BY <1>2, <1>3, <1>4, <1>5, NextVersionFacts DEF SameEdit

\* The item a pass is at is in place after the step.
Settles ==
    /\ idx \in DOMAIN plan
    /\ LET k == Target.key
       IN  \/ k = NoKey
           \/ k.kind = "Namespace"
           \/ objects'[k].phase = "live" /\ objects'[k].data = Target.data

\* A pass gets to the next item when the one it is at is settled, and reports
\* that all is applied when it is through.
ProgressMove ==
    /\ pc' \in PlanSteps =>
          \/ idx' = 1
          \/ /\ pc \in PlanSteps /\ cur' = cur /\ snap' = snap
             /\ idx' = idx \/ (idx' = idx + 1 /\ Settles)
    /\ pc' = "status" /\ verdict' = ReasonReconciled =>
          /\ cur' = cur /\ snap' = snap
          /\ \/ pc = "status" /\ verdict = ReasonReconciled
             \/ pc = "get" /\ idx \notin DOMAIN plan

LEMMA ProgressMoves ==
    ASSUME IInv, PlanInv, LingerInv, SeenInv, [Next]_vars
    PROVE  ProgressMove
<1> USE DEF PlanSteps, WriteSteps, ProgressMove
<1>0. ObjectsOK
  BY DEF IInv, TypeOK
<1>1. ASSUME NEW t \in Tenants, Fetch(t)
      PROVE  ProgressMove
  <2>1. pc = "idle" /\ pc' \in {"idle", "release", "delete", "render", "finalizer"}
    BY <1>1 DEF Fetch, FetchNothing, FetchDeleted, FetchLive, Begin, Take, passVars
  <2> QED
    BY <2>1
<1>2. ASSUME Fail \/ ReturnRetry \/ ReturnDone \/ ClearPass
             \/ StopWith(ReasonReconcileError) \/ StopWith(ReasonUnknownExtension)
      PROVE  ProgressMove
  BY <1>2 DEF Fail, StopWith, ReturnRetry, ReturnDone, ClearPass,
              ReasonReconciled, ReasonReconcileError, ReasonUnknownExtension
<1>3. CASE \/ TenantConflict \/ StatusConflict \/ RejectExtensions \/ ApplyRefused \/ CallFails
           \/ Restart
  BY <1>2, <1>3 DEF TenantConflict, StatusConflict, RejectExtensions, ApplyRefused, CallFails,
                    Restart
<1>4. CASE AllApplied
  BY <1>4 DEF AllApplied, StopWith
<1>5. CASE ReadValue
  <2>1. pc = "render" /\ (StopWith(ReasonReconcileError) \/ pc' = pc)
    BY <1>5 DEF ReadValue
  <2> QED
    BY <1>2, <2>1
<1>6. CASE Rendered \/ AllDeleted \/ CheckNext \/ AllChecked
  BY <1>2, <1>6 DEF Rendered, AllDeleted, CheckNext, AllChecked, Goto
<1>7. CASE GetObject
  <2>1. /\ pc = "get" /\ idx \in DOMAIN plan
        /\ LET k == Target.key
           IN  Skip(k) \/ FindNothing(k) \/ LeaveNamespace(k) \/ FindVersion(k)
    BY <1>7 DEF GetObject
  <2>2. /\ cur' = cur /\ snap' = snap /\ pc' \in PlanSteps
        /\ \/ idx' = idx
           \/ idx' = idx + 1 /\ (Target.key = NoKey \/ Target.key.kind = "Namespace")
    BY <2>1 DEF Skip, FindNothing, LeaveNamespace, FindVersion, Continue
  <2> QED
    BY <2>1, <2>2 DEF Settles
<1>8. ASSUME NEW lost \in BOOLEAN, CreateObject(lost) \/ UpdateObject(lost)
      PROVE  ProgressMove
  <2> DEFINE k == Target.key
  <2>1. /\ pc \in WriteSteps /\ idx \in DOMAIN plan /\ k # NoKey
        /\ Fail \/ Continue("get")
    BY <1>8 DEF CreateObject, UpdateObject, IInv, TypeOK, PositionOK, PlanInv
  <2>2. k \in Keys
    <3>1. k \in ChildKeys(cur, snap.spec) /\ cur \in Tenants /\ snap.spec \in Specs
      BY <2>1, PlanFacts DEF Target
    <3> QED
      BY <3>1 DEF Keys, Children
  <2>3. objects'[k].phase = "live" /\ objects'[k].data = Target.data
    <3>1. CASE PutObject(k, "live", Target.data)
      <4> DEFINE data == Target.data
      <4>1. PutObject(k, "live", data)
        BY <3>1
      <4> HIDE DEF k, data
      <4>2. objects'[k].phase = "live" /\ objects'[k].data = data
        BY <1>0, <2>2, <4>1, PutObjectFacts
      <4> QED
        BY <4>2 DEF k, data
    <3>2. CASE UpdateObject(lost) /\ objects[k].data = Target.data
      <4>1. UNCHANGED objects /\ pc = "update" /\ objects[k].rv = seen
        BY <3>2 DEF UpdateObject, ReplaceObject
      <4>2. objects[k].phase # "absent" /\ objects[k].phase # "terminating"
        BY <2>2, <4>1 DEF SeenInv, Present, LingerInv, PlanInv
      <4> QED
        BY <1>0, <2>2, <3>2, <4>1, <4>2 DEF ObjectsOK, Phases
    <3> QED
      BY <1>8, <3>1, <3>2 DEF CreateObject, UpdateObject, ReplaceObject
  <2>4. CASE Continue("get")
    BY <2>1, <2>3, <2>4 DEF Continue, Settles
  <2> QED
    BY <1>2, <2>1, <2>4
<1>9. ASSUME NEW lost \in BOOLEAN, AddFinalizer(lost) \/ WriteStatus(lost) \/ Release(lost)
      PROVE  ProgressMove
  <2>1. ReturnRetry \/ ReturnDone \/ pc' = "render"
    BY <1>9 DEF AddFinalizer, WriteStatus, Release
  <2> QED
    BY <1>2, <2>1
<1>10. ASSUME NEW lost \in BOOLEAN, DeleteNext(lost)
       PROVE  ProgressMove
  <2>1. Fail \/ pc' = "delete"
    BY <1>10 DEF DeleteNext, Continue
  <2> QED
    BY <1>2, <2>1
<1>11. ASSUME NEW lost \in BOOLEAN, Write(lost)
       PROVE  ProgressMove
  BY <1>8, <1>9, <1>10, <1>11 DEF Write
<1>12. CASE \/ \E t \in Tenants : DeliverTenant(t) \/ TimerFires(t)
            \/ \E kind \in CachedKinds : Inform(kind)
            \/ Users \/ Cluster \/ UNCHANGED vars
  <2>1. UNCHANGED passVars
    BY <1>12 DEF DeliverTenant, TimerFires, Inform, Users, Cluster, PassStandsStill, vars
  <2> QED
    BY <2>1 DEF passVars
<1> HIDE DEF PlanSteps, WriteSteps, ProgressMove
<1> QED
  BY <1>1, <1>3, <1>4, <1>5, <1>6, <1>7, <1>11, <1>12 DEF Next, Work, Background, Fault

\* Copies that agree do so until the next edit.
LEMMA AgreementStays ==
    ASSUME IInv, [Next]_vars, NEW t \in Tenants, CopiesAgree(t),
           SameEdit(tenants'[t], tenants[t])
    PROVE  CopiesAgree(t)'
<1>1. /\ \/ tenantView'[t] = tenantView[t]
         \/ tenantView'[t] \in Range(tenantFeed[t])
         \/ tenantView'[t] = tenants'[t]
      /\ Range(tenantFeed'[t]) \subseteq Range(tenantFeed[t]) \cup {tenants'[t]}
  BY CopiesMove
<1>2. \A v : SameEdit(v, tenants[t]) => SameEdit(v, tenants'[t])
  BY DEF SameEdit
<1>3. SameEdit(tenants'[t], tenants'[t])
  BY DEF SameEdit
<1>4. SameEdit(tenantView[t], tenants[t])
      /\ \A v \in Range(tenantFeed[t]) : SameEdit(v, tenants[t])
  BY DEF CopiesAgree
<1>5. SameEdit(tenantView'[t], tenants'[t])
  BY <1>1, <1>2, <1>3, <1>4
<1>6. \A v \in Range(tenantFeed'[t]) : SameEdit(v, tenants'[t])
  BY <1>1, <1>2, <1>3, <1>4
<1> QED
  BY <1>5, <1>6 DEF CopiesAgree

SyncInv == IInv /\ PlanInv /\ LingerInv /\ ViewInv /\ SeenInv /\ ProgressInv /\ ReadyInv

\* What a pass has applied stays in place while the pass goes on.
LEMMA ProgressKeeps ==
    ASSUME TenantsApart, SyncInv, [Next]_vars, [HandsOff]_vars
    PROVE  ProgressInv'
<1>0. IInv /\ PlanInv /\ LingerInv /\ SeenInv /\ ProgressInv /\ ProgressMove
  BY ProgressMoves DEF SyncInv
\* The steps in which something has been applied.
<1>1. ASSUME pc \in PlanSteps \cup {"status"}
      PROVE  cur \in Tenants /\ snap.spec \in Specs
  <2>1. pc # "idle"
    BY <1>1 DEF PlanSteps, WriteSteps
  <2>2. cur \in Tenants /\ snap.phase # "absent" /\ VersionOf(tenants[cur], snap)
    BY <1>0, <2>1 DEF IInv, TypeOK, PassOK, PassInv
  <2> QED
    BY <2>2 DEF VersionOf
<1>2. ASSUME pc \in PlanSteps \cup {"status"},
             NEW o \in Range(Wanted(cur, snap.spec)), Placed(o)
      PROVE  Placed(o)'
  <2>1. pc # "delete"
    BY <1>2 DEF PlanSteps, WriteSteps
  <2> QED
    BY <1>0, <1>1, <1>2, <2>1, PlacedStays
<1>3. ASSUME pc \in PlanSteps
      PROVE  /\ IsSequence(plan) /\ IsSequence(Wanted(cur, snap.spec))
             /\ Len(plan) = Len(Wanted(cur, snap.spec)) /\ Len(plan) \in Nat
             /\ DOMAIN Wanted(cur, snap.spec) = 1 .. Len(plan)
             /\ DOMAIN plan = 1 .. Len(plan)
             /\ idx \in 1 .. Len(plan) + 1
  <2>1. Alike(plan, Wanted(cur, snap.spec))
    BY <1>0, <1>3 DEF PlanInv
  <2>2. /\ IsSequence(plan) /\ IsSequence(Wanted(cur, snap.spec))
        /\ Len(plan) = Len(Wanted(cur, snap.spec))
    BY <2>1 DEF Alike
  <2>3. /\ Len(plan) \in Nat
        /\ DOMAIN Wanted(cur, snap.spec) = 1 .. Len(plan)
        /\ DOMAIN plan = 1 .. Len(plan)
    BY <2>2, SequenceDomain
  <2>4. idx \in 1 .. Len(plan) + 1
    BY <1>0, <1>3, <2>3 DEF IInv, TypeOK, PositionOK, PlanSteps, WriteSteps
  <2> QED
    BY <2>2, <2>3, <2>4
<1>4. ASSUME pc \in PlanSteps, NEW j \in 1 .. idx - 1
      PROVE  /\ Wanted(cur, snap.spec)[j] \in Range(Wanted(cur, snap.spec))
             /\ Placed(Wanted(cur, snap.spec)[j])
  <2>1. j \in DOMAIN Wanted(cur, snap.spec)
    BY <1>3, <1>4
  <2> QED
    BY <1>0, <1>4, <2>1 DEF ProgressInv, Range
\* The object the pass is at.
<1>5. ASSUME pc \in PlanSteps, Settles, NEW o, o = Wanted(cur, snap.spec)[idx]
      PROVE  Placed(o)'
  <2>1. /\ idx \in DOMAIN plan /\ o \in Range(Wanted(cur, snap.spec))
        /\ o.key = Target.key
        /\ o.key.kind \in ArgoKinds => o.data = Target.data
    <3>1. /\ idx \in DOMAIN plan /\ idx \in DOMAIN Wanted(cur, snap.spec)
          /\ plan[idx].key = o.key
          /\ plan[idx].key.kind \in ArgoKinds => plan[idx].data = o.data
      BY <1>0, <1>5, PlanFacts DEF Settles
    <3> QED
      BY <1>5, <3>1 DEF Target, Range
  <2>2. /\ o.key.ns = ArgoCDNamespace => o.key # NoKey /\ o.key.kind # "Namespace"
        /\ o.key.kind \in ArgoKinds => o.key.ns = ArgoCDNamespace
    BY <1>1, <1>5, <2>1, WantedKeys
  <2>3. \/ o.key = NoKey \/ o.key.kind = "Namespace"
        \/ objects'[o.key].phase = "live" /\ objects'[o.key].data = Target.data
    BY <1>5, <2>1 DEF Settles
  <2> QED
    BY <2>1, <2>2, <2>3 DEF Placed, InPlace
<1>6. ASSUME pc' \in PlanSteps, NEW j \in 1 .. idx' - 1
      PROVE  Placed(Wanted(cur, snap.spec)[j])'
  <2>1. /\ pc \in PlanSteps /\ cur' = cur /\ snap' = snap
        /\ idx' = idx \/ (idx' = idx + 1 /\ Settles)
    BY <1>0, <1>6 DEF ProgressMove
  <2>2. PICK o : o = Wanted(cur, snap.spec)[j]
    OBVIOUS
  <2>3. Placed(o)'
    <3>1. CASE j \in 1 .. idx - 1
      BY <1>2, <1>4, <2>1, <2>2, <3>1
    <3>2. CASE j \notin 1 .. idx - 1
      <4>1. j = idx /\ Settles
        BY <1>3, <1>6, <2>1, <3>2
      <4> QED
        BY <1>5, <2>1, <2>2, <4>1
    <3> QED
      BY <3>1, <3>2
  <2>4. o = Wanted(cur', snap'.spec)[j]
    BY <2>1, <2>2
  <2> QED
    BY <2>3, <2>4
<1>7. ASSUME pc' = "status", verdict' = ReasonReconciled,
             NEW o \in Range(Wanted(cur', snap'.spec))
      PROVE  Placed(o)'
  <2>1. /\ cur' = cur /\ snap' = snap
        /\ \/ pc = "status" /\ verdict = ReasonReconciled
           \/ pc = "get" /\ idx \notin DOMAIN plan
    BY <1>0, <1>7 DEF ProgressMove
  <2>2. o \in Range(Wanted(cur, snap.spec))
    BY <1>7, <2>1
  <2>3. CASE pc = "status" /\ verdict = ReasonReconciled
    BY <1>0, <1>2, <2>2, <2>3 DEF ProgressInv
  <2>4. CASE pc = "get" /\ idx \notin DOMAIN plan
    <3>1. pc \in PlanSteps
      BY <2>4 DEF PlanSteps
    <3>2. PICK j \in 1 .. Len(plan) : o = Wanted(cur, snap.spec)[j]
      BY <1>3, <2>2, <3>1 DEF Range
    <3>3. j \in 1 .. idx - 1
      BY <1>3, <2>4, <3>1
    <3> QED
      BY <1>2, <1>4, <2>2, <3>1, <3>2, <3>3
  <2> QED
    BY <2>1, <2>3, <2>4
<1> QED
  BY <1>6, <1>7 DEF ProgressInv

\* A Tenant that is Ready at its generation has no copy of another one, and
\* what it asks for is in place.
LEMMA ReadyKeeps ==
    ASSUME TenantsApart, SyncInv, [Next]_vars, [HandsOff]_vars
    PROVE  ReadyInv'
<1>0. /\ IInv /\ PlanInv /\ ProgressInv /\ ReadyInv /\ SnapMove
      /\ \A t \in Tenants : StatusMove(t)
  BY SnapMoves, StatusMoves DEF SyncInv, ReadyInv
<1>1. ASSUME NEW t \in Tenants
      PROVE  /\ tenants[t].rv \in Nat /\ tenants'[t].rv \in Nat
             /\ tenantView[t].rv \in Nat
  BY <1>0, CopiesStayVersions DEF IInv, TypeOK, TenantsOK, TenantVersions
<1>2. ASSUME pc' # "idle", snap' = tenants'[cur']
      PROVE  CopiesAgree(cur)'
  <2>1. PICK t \in Tenants : cur' = t /\ snap' = tenants'[t]
    BY <1>2, CopiesStayVersions, <1>0
  <2>2. CopiesAgree(t)'
    <3>1. CASE pc # "idle" /\ cur' = cur /\ snap' = snap
      <4>1. snap.rv <= tenants[t].rv /\ (snap.rv = tenants[t].rv => snap = tenants[t])
            /\ snap = tenants'[t]
        BY <1>0, <2>1, <3>1 DEF IInv, PassInv, VersionOf
      <4>2. tenants'[t] = tenants[t] \/ tenants'[t].rv = tenants[t].rv + 1
        BY <1>0 DEF StatusMove
      <4>3. tenants'[t] = tenants[t] /\ snap = tenants[t]
        BY <1>1, <4>1, <4>2
      <4>4. CopiesAgree(t) /\ SameEdit(tenants'[t], tenants[t])
        BY <1>0, <2>1, <3>1, <4>3 DEF ReadyInv, SameEdit
      <4> QED
        BY <1>0, <4>4, AgreementStays
    <3>2. CASE /\ pc # "idle" /\ cur' = cur
               /\ snap = tenants[cur] /\ snap' = tenants'[cur]
               /\ SameEdit(tenants'[cur], tenants[cur])
      <4>1. CopiesAgree(t) /\ SameEdit(tenants'[t], tenants[t])
        BY <1>0, <2>1, <3>2 DEF ReadyInv
      <4> QED
        BY <1>0, <4>1, AgreementStays
    <3>3. CASE /\ pc = "idle" /\ cur' \in Tenants /\ snap' = tenantView[cur']
               /\ UNCHANGED <<tenants, tenantView, tenantFeed>>
      <4>1. tenantView[t] = tenants[t]
        BY <2>1, <3>3
      <4>2. ASSUME NEW v \in Range(tenantFeed[t])
            PROVE  FALSE
        <5>1. v.rv <= tenants[t].rv /\ tenantView[t].rv < v.rv /\ v.rv \in Nat
          BY <1>0, <4>2, CopiesAreVersions DEF VersionOf, TenantVersions
        <5> QED
          BY <1>1, <4>1, <5>1
      <4>3. CopiesAgree(t) /\ SameEdit(tenants'[t], tenants[t])
        BY <3>3, <4>1, <4>2 DEF CopiesAgree, SameEdit
      <4> QED
        BY <1>0, <4>3, AgreementStays
    <3> QED
      BY <1>0, <1>2, <3>1, <3>2, <3>3 DEF SnapMove
  <2> QED
    BY <2>1, <2>2
<1>3. ASSUME NEW t \in Tenants, IsReady(tenants'[t])
      PROVE  /\ CopiesAgree(t)'
             /\ pc' # "idle" /\ cur' = t => SameEdit(snap', tenants'[t])
             /\ \A o \in Range(Wanted(t, tenants'[t].spec)) : Placed(o)'
  <2>1. /\ SameEdit(tenants'[t], tenants[t])
        /\ IsReady(tenants[t]) \/ Reports(t)
    BY <1>0, <1>3 DEF StatusMove
  <2>2. CopiesAgree(t)
    BY <1>0, <2>1 DEF ReadyInv, Reports
  <2>3. CopiesAgree(t)'
    BY <1>0, <2>1, <2>2, AgreementStays
  <2>4. ASSUME pc' # "idle", cur' = t
        PROVE  SameEdit(snap', tenants'[t])
    <3>1. CASE pc # "idle" /\ cur' = cur /\ snap' = snap
      <4>1. SameEdit(snap, tenants[t])
        BY <1>0, <2>1, <2>4, <3>1 DEF ReadyInv, Reports
      <4> QED
        BY <2>1, <3>1, <4>1 DEF SameEdit
    <3>2. CASE snap' = tenants'[t]
      BY <3>2 DEF SameEdit
    <3>3. CASE snap' = tenantView[t]
      BY <2>1, <2>2, <3>3 DEF SameEdit, CopiesAgree
    <3> QED
      BY <1>0, <2>4, <3>1, <3>2, <3>3 DEF SnapMove
  <2>5. tenants[t].phase = "live" /\ tenants[t].spec \in Specs
        /\ tenants'[t].spec = tenants[t].spec
    <3>1. tenants[t].phase = "live" /\ tenants'[t].spec = tenants[t].spec
      BY <1>3, <2>1 DEF IsReady, SameEdit
    <3>2. VersionOf(tenants[t], tenants[t])
      BY <1>0, CopiesAreVersions
    <3> QED
      BY <3>1, <3>2 DEF VersionOf
  <2>6. /\ pc \in WriteSteps /\ cur = t => snap.spec = tenants[t].spec
        /\ pc = "delete" => cur # t
    <3>1. CASE Reports(t)
      BY <3>1 DEF Reports, WriteSteps
    <3>2. CASE IsReady(tenants[t])
      <4>1. pc # "idle" /\ cur = t => SameEdit(snap, tenants[t])
        BY <1>0, <3>2 DEF ReadyInv
      <4>2. pc = "delete" => snap.phase = "terminating"
        BY <1>0 DEF IInv, PassInv, TeardownSteps
      <4> QED
        BY <2>5, <4>1, <4>2 DEF SameEdit, WriteSteps
    <3> QED
      BY <2>1, <3>1, <3>2
  <2>7. ASSUME NEW o \in Range(Wanted(t, tenants[t].spec))
        PROVE  Placed(o)'
    <3>1. Placed(o)
      BY <1>0, <2>1, <2>7 DEF ReadyInv, Reports, ProgressInv
    <3> QED
      BY <1>0, <2>5, <2>6, <2>7, <3>1, PlacedStays
  <2> QED
    BY <2>3, <2>4, <2>5, <2>7
<1>4. \A t \in Tenants : tenants'[t].observed <= tenants'[t].gen
  BY <1>0 DEF StatusMove
<1> QED
  BY <1>2, <1>3, <1>4 DEF ReadyInv

LEMMA SyncKeeps ==
    ASSUME TenantsApart, SyncInv, [Next]_vars, [HandsOff]_vars
    PROVE  SyncInv'
<1>1. IInv' /\ PlanInv' /\ LingerInv'
  BY NextKeeps, PlanKeeps, LingerKeeps DEF SyncInv
<1>2. ViewInv' /\ SeenInv'
  BY ViewKeeps, SeenKeeps DEF SyncInv
<1>3. ProgressInv' /\ ReadyInv'
  BY ProgressKeeps, ReadyKeeps
<1> QED
  BY <1>1, <1>2, <1>3 DEF SyncInv

LEMMA InitSync == Init => SyncInv
<1> SUFFICES ASSUME Init
             PROVE  SyncInv
  OBVIOUS
<1>1. IInv /\ PlanInv /\ LingerInv /\ ViewInv /\ SeenInv
  BY InitCleanup DEF CleanupInv
<1>2. pc = "idle" /\ tenants = [t \in Tenants |-> NoTenant(0)]
  BY DEF Init, APIInit
<1>3. ProgressInv
  BY <1>2 DEF ProgressInv, PlanSteps, WriteSteps
<1>4. \A t \in Tenants : tenants[t].observed <= tenants[t].gen /\ ~IsReady(tenants[t])
  <2>1. /\ NoTenant(0).observed = 0 /\ NoTenant(0).gen = 0
        /\ NoTenant(0).phase = "absent"
    BY DEF NoTenant
  <2>2. \A t \in Tenants : tenants[t] = NoTenant(0)
    BY <1>2
  <2> QED
    BY <2>1, <2>2 DEF IsReady
<1> QED
  BY <1>1, <1>2, <1>3, <1>4 DEF SyncInv, ReadyInv

\* A Tenant that is Ready at its generation has in the argocd namespace what its
\* stored spec asks for: if no two tenants have a child in common, and nobody
\* but the operator touches what it has applied there.
THEOREM ReadyInSync ==
    ASSUME TenantsApart
    PROVE  Spec /\ [][HandsOff]_vars => []ReadyMeansArgoInSync
<1>1. ASSUME SyncInv
      PROVE  ReadyMeansArgoInSync
  <2>1. ASSUME NEW t \in Tenants, IsReady(tenants[t]),
               NEW i \in DOMAIN Wanted(t, tenants[t].spec)
        PROVE  Placed(Wanted(t, tenants[t].spec)[i])
    BY <1>1, <2>1 DEF SyncInv, ReadyInv, Range
  <2> QED
    BY <2>1 DEF ReadyMeansArgoInSync, IsReady, Placed, InPlace, Wanted, ArgoKinds
<1>2. SyncInv => ReadyMeansArgoInSync
  BY <1>1
<1>3. SyncInv /\ [Next]_vars /\ [HandsOff]_vars => SyncInv'
  BY SyncKeeps
<1> QED
  BY <1>2, <1>3, InitSync, PTL DEF Spec

-------------------------------------------------------------------------------
(***************************************************************************)
(* The page.  Its Tenant is a version that was stored when it was listed,  *)
(* and is not any more once it is written again; each list that came later *)
(* holds what a Tenant that is Ready has in place.                         *)
(***************************************************************************)
PageType ==
    page \in [name : {t.name : t \in Tenants} \cup {""}, of : Tenants \cup {None},
              raw : TenantVersions, shown : SUBSET Children,
              left : SUBSET (ChildLists \cup {"Tenant"})]

PageInv ==
    /\ PageType
    /\ "Tenant" \in page.left => page.of = None /\ ArgoKinds \subseteq page.left
    /\ page.of # None =>
          /\ page.of.name = page.name
          /\ page.raw.rv <= tenants[page.of].rv
          /\ page.raw = tenants[page.of] /\ IsReady(page.raw) =>
                \A k \in ChildKeys(page.of, page.raw.spec) :
                   k.kind \in ArgoKinds /\ k.kind \notin page.left => k \in page.shown

\* What a Tenant that is Ready has in the argocd namespace is in the list of
\* its kind.
LEMMA ReadyIsListed ==
    ASSUME SyncInv, NEW t \in Tenants, IsReady(tenants[t]),
           NEW k \in ChildKeys(t, tenants[t].spec), k.kind \in ArgoKinds
    PROVE  k \in Children /\ Present(k) /\ objects[k].data.owner = t.name
<1> DEFINE spec == tenants[t].spec
           texts == [j \in DOMAIN ValuesRead(spec) |-> ""]
<1>1. spec \in Specs /\ HoldsLists(spec)
  <2>1. VersionOf(tenants[t], tenants[t]) /\ tenants[t].phase = "live"
    BY CopiesAreVersions DEF SyncInv, IsReady
  <2> QED
    BY <2>1, SpecsHoldLists DEF VersionOf
<1>2. k \in Children
  BY <1>1 DEF Children
<1>3. \/ k = AppProjectKey(t)
      \/ \E n \in DOMAIN spec.environments : k = AppSetKey(t, spec.environments[n])
  BY KindsOfKeys DEF ChildKeys, ArgoKinds
<1>4. PICK o \in Range(Wanted(t, spec)) : o.key = k /\ o.data.owner = t.name
  <2>1. Wanted(t, spec) = Objects(t, spec, texts)
    BY DEF Wanted
  <2> HIDE DEF texts, spec
  <2>2. CASE k = AppProjectKey(t)
    <3>1. BuildAppProject(t, spec) \in Range(Wanted(t, spec))
      BY <1>1, <2>1, RenderedObjects
    <3>2. BuildAppProject(t, spec).key = k /\ BuildAppProject(t, spec).data.owner = t.name
      BY <2>2 DEF BuildAppProject
    <3> QED
      BY <3>1, <3>2
  <2>3. ASSUME NEW n \in DOMAIN spec.environments, k = AppSetKey(t, spec.environments[n])
        PROVE  \E o \in Range(Wanted(t, spec)) : o.key = k /\ o.data.owner = t.name
    <3> DEFINE set == BuildAppSet(t, spec, spec.environments[n])
           sets == {BuildAppSet(t, spec, spec.environments[m]) : m \in DOMAIN spec.environments}
    <3>1. set \in sets
      BY <2>3
    <3>2. sets \subseteq Range(Wanted(t, spec))
      <4> DEFINE spaces   == {BuildNamespace(t, spec.environments[m]) :
                                 m \in DOMAIN spec.environments}
                 secrets  == {BuildRepoSecret(t, spec, texts, i) : i \in DOMAIN spec.git}
                 pulls    == {BuildPullSecret(t, spec, texts, m) :
                                 m \in 1 .. EnvironmentsWithPull(spec)}
                 accounts == {BuildDefaultSA(t, spec.environments[m]) :
                                 m \in 1 .. EnvironmentsWithPull(spec)}
      <4>1. Range(Objects(t, spec, texts))
               = spaces \cup {BuildAppProject(t, spec)} \cup sets \cup secrets \cup pulls
                 \cup accounts
        BY <1>1, RenderedObjects
      <4> HIDE DEF spaces, sets, secrets, pulls, accounts
      <4> QED
        BY <2>1, <4>1
    <3>3. set.key = k /\ set.data.owner = t.name
      BY <2>3 DEF BuildAppSet
    <3> HIDE DEF set, sets
    <3> QED
      BY <3>1, <3>2, <3>3
  <2> QED
    BY <1>3, <2>2, <2>3
<1>5. Placed(o)
  BY <1>4 DEF SyncInv, ReadyInv
<1>6. k.ns = ArgoCDNamespace
  BY <1>3, KindsOfKeys
<1> QED
  BY <1>2, <1>4, <1>5, <1>6 DEF Placed, InPlace, Present

\* The Tenant of the page is out of date once it is written again.
LEMMA PageStays ==
    ASSUME SyncInv, PageInv, [Next]_vars, UNCHANGED page
    PROVE  PageInv'
<1> DEFINE t == page.of
<1>1. CASE t = None
  BY <1>1 DEF PageInv, PageType
<1>2. CASE t # None
  <2>1. /\ t \in Tenants /\ page.raw.rv \in Nat
        /\ page.raw.rv <= tenants[t].rv
    BY <1>2 DEF PageInv, PageType, TenantVersions
  <2>2. tenants'[t] = tenants[t] \/ tenants'[t].rv = tenants[t].rv + 1
    BY <2>1, StatusMoves DEF SyncInv, ReadyInv, StatusMove
  <2>3. tenants[t].rv \in Nat
    BY <2>1 DEF SyncInv, IInv, TypeOK, TenantsOK, TenantVersions
  <2>4. /\ page.raw.rv <= tenants'[t].rv
        /\ page.raw = tenants'[t] => page.raw = tenants[t]
    BY <2>1, <2>2, <2>3
  <2> QED
    BY <1>2, <2>4 DEF PageInv, PageType
<1> QED
  BY <1>1, <1>2

LEMMA PageMoves ==
    ASSUME SyncInv, PageInv, ViewStep, UNCHANGED vars
    PROVE  PageInv'
<1>0. /\ page \in [name : {t.name : t \in Tenants} \cup {""}, of : Tenants \cup {None},
                   raw : TenantVersions, shown : SUBSET Children,
                   left : SUBSET (ChildLists \cup {"Tenant"})]
      /\ tenants' = tenants /\ TenantsOK /\ None \notin Tenants
      /\ \A t \in Tenants : tenants[t] \in TenantVersions /\ tenants[t].rv \in Nat
  BY NoneIsNoTenant
     DEF PageInv, PageType, SyncInv, IInv, TypeOK, TenantsOK, TenantVersions, vars, apiVars
<1>1. NoSnap \in TenantVersions
  BY DEF NoSnap, NoTenant, TenantVersions, Phases, Reasons
<1>2. ArgoKinds \subseteq ChildLists /\ "Tenant" \notin ChildLists
  BY DEF ArgoKinds, ChildLists
<1>3. ASSUME page' = NoPage
      PROVE  PageInv'
  <2>1. NoPage.of = None /\ NoPage.left = {}
    BY DEF NoPage
  <2>2. NoPage \in [name : {t.name : t \in Tenants} \cup {""}, of : Tenants \cup {None},
                    raw : TenantVersions, shown : SUBSET Children,
                    left : SUBSET (ChildLists \cup {"Tenant"})]
    BY <1>1 DEF NoPage
  <2> QED
    BY <1>3, <2>1, <2>2 DEF PageInv, PageType
<1>4. ASSUME NEW t \in Tenants, Ask(t)
      PROVE  PageInv'
  <2>1. page' = [name |-> t.name, of |-> None, raw |-> NoSnap, shown |-> {},
                 left |-> ChildLists \cup {"Tenant"}]
    BY <1>4 DEF Ask, NoPage
  <2> QED
    BY <1>0, <1>1, <1>2, <2>1 DEF PageInv, PageType
<1>5. ASSUME FindTenant
      PROVE  PageInv'
  <2>1. CASE page' = NoPage
    BY <1>3, <2>1
  <2>2. ASSUME NEW t \in Tenants, Namesake(t),
               page' = [page EXCEPT !.of = t, !.raw = tenants[t],
                                    !.left = page.left \ {"Tenant"}]
        PROVE  PageInv'
    <3>1. /\ t \in Tenants /\ "Tenant" \in page.left /\ t.name = page.name
          /\ ArgoKinds \subseteq page.left
      BY <1>0, <1>5, <2>2 DEF FindTenant, PageInv, Namesake
    <3>2. /\ page'.of = t /\ page'.raw = tenants[t] /\ page'.name = page.name
          /\ page'.shown = page.shown /\ page'.left = page.left \ {"Tenant"}
      BY <1>0, <2>2
    <3>3. PageType'
      BY <1>0, <2>2, <3>1 DEF PageType
    <3>4. \A kind \in ArgoKinds : kind \in page'.left
      BY <1>2, <3>1, <3>2
    <3>5. "Tenant" \notin page'.left
      BY <3>2
    <3>6. page'.of # None => /\ page'.of.name = page'.name
                             /\ page'.raw.rv <= tenants'[page'.of].rv
      <4> DEFINE stored == tenants[t].rv
      <4>1. stored \in Nat
        BY <1>0
      <4> HIDE DEF stored
      <4>2. stored <= stored
        BY <4>1
      <4> QED
        BY <1>0, <3>1, <3>2, <4>2 DEF stored
    <3>7. \A k \in ChildKeys(page'.of, page'.raw.spec) :
             k.kind \in ArgoKinds /\ k.kind \notin page'.left => k \in page'.shown
      BY <3>4
    <3> QED
      BY <1>0, <3>3, <3>5, <3>6, <3>7 DEF PageInv
  <2> QED
    BY <1>5, <2>1, <2>2 DEF FindTenant
<1>6. ASSUME NEW kind \in ChildLists, ListChildren(kind)
      PROVE  PageInv'
  <2> DEFINE t == page.of
             labelled == Labelled(kind)
  <2>1. /\ "Tenant" \notin page.left
        /\ page' = [page EXCEPT !.shown = page.shown \cup labelled,
                                !.left = page.left \ {kind}]
    BY <1>6 DEF ListChildren
  <2>2. labelled \in SUBSET Children
    BY DEF Labelled
  <2>3. ASSUME t # None, page.raw = tenants[t], IsReady(page.raw),
               NEW k \in ChildKeys(t, page.raw.spec), k.kind \in ArgoKinds, k.kind = kind
        PROVE  k \in labelled
    <3>1. t \in Tenants /\ t.name = page.name
      BY <1>0, <2>3 DEF PageInv
    <3> QED
      BY <2>3, <3>1, ReadyIsListed DEF Labelled
  <2> HIDE DEF labelled
  <2>4. /\ page'.of = t /\ page'.raw = page.raw /\ page'.name = page.name
        /\ page'.shown = page.shown \cup labelled /\ page'.left = page.left \ {kind}
    BY <1>0, <2>1
  <2>5. PageType'
    BY <1>0, <2>1, <2>2 DEF PageType
  <2>6. ASSUME t # None, page.raw = tenants[t], IsReady(page.raw),
               NEW k \in ChildKeys(t, page.raw.spec), k.kind \in ArgoKinds,
               k.kind \notin page'.left
        PROVE  k \in page'.shown
    <3>1. CASE k.kind = kind
      BY <2>3, <2>4, <2>6, <3>1
    <3>2. CASE k.kind # kind
      BY <2>1, <2>4, <2>6, <3>2 DEF PageInv
    <3> QED
      BY <3>1, <3>2
  <2>7. t # None => t.name = page.name /\ page.raw.rv <= tenants[t].rv
    BY <2>1 DEF PageInv
  <2> QED
    BY <1>0, <2>1, <2>4, <2>5, <2>6, <2>7 DEF PageInv
<1>7. CASE Leave
  BY <1>3, <1>7 DEF Leave
<1> QED
  BY <1>4, <1>5, <1>6, <1>7 DEF ViewStep

\* A page that is complete and whose Tenant is Ready, and is still as stored,
\* shows all the Tenant has in the argocd namespace, however far apart its lists
\* were made: under the assumptions of ReadyInSync.
THEOREM PagesAreWhole ==
    ASSUME TenantsApart
    PROVE  ViewSpec /\ [][HandsOff]_vars => []PageIsWhole
<1>1. ASSUME PageInv
      PROVE  PageIsWhole
  BY <1>1 DEF PageInv, PageIsWhole, IsReady, ArgoKinds
<1>2. PageInv => PageIsWhole
  BY <1>1
<1>3. ASSUME SyncInv, PageInv, [ViewNext]_viewVars, [HandsOff]_vars
      PROVE  SyncInv' /\ PageInv'
  <2>1. CASE [Next]_vars /\ UNCHANGED page
    BY <1>3, <2>1, SyncKeeps, PageStays
  <2>2. CASE ViewStep /\ UNCHANGED vars
    BY <1>3, <2>2, SyncKeeps, PageMoves
  <2> QED
    BY <1>3, <2>1, <2>2 DEF ViewNext, viewVars
<1>4. ViewInit => SyncInv /\ PageInv
  <2> SUFFICES ASSUME ViewInit
               PROVE  SyncInv /\ PageInv
    OBVIOUS
  <2>1. SyncInv /\ page = NoPage
    BY InitSync DEF ViewInit
  <2>2. NoSnap \in TenantVersions
    BY DEF NoSnap, NoTenant, TenantVersions, Phases, Reasons
  <2>3. NoPage.of = None /\ NoPage.left = {}
    BY DEF NoPage
  <2>4. PageType
    BY <2>1, <2>2 DEF PageType, NoPage
  <2> QED
    BY <2>1, <2>3, <2>4 DEF PageInv
<1>5. SyncInv /\ PageInv /\ [ViewNext]_viewVars /\ [HandsOff]_vars => SyncInv' /\ PageInv'
  BY <1>3
<1> QED
  BY <1>2, <1>4, <1>5, PTL DEF ViewSpec
===============================================================================
