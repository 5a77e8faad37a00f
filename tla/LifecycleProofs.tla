--------------------------- MODULE LifecycleProofs ---------------------------
(***************************************************************************)
(* TenantController implements TenantLifecycle, for every set of tenants   *)
(* and specs and every value of the bounds.  Writes of a Tenant map to a   *)
(* turn of its state, writes of an object to a thing made or lost, and     *)
(* everything else to a stutter.                                           *)
(***************************************************************************)
EXTENDS LifecycleRefinement, TenantControllerProofs

-------------------------------------------------------------------------------
(***************************************************************************)
(* What a write looks like from outside.                                   *)
(***************************************************************************)
Stutter == UNCHANGED Lifecycle!vars

LEMMA NothingSeen ==
    ASSUME UNCHANGED tenants, LiveThings' = LiveThings
    PROVE  Stutter
BY DEF Stutter, Lifecycle!vars

\* One Tenant, and no other, is turned to a state and a spec.
TurnsTo(t, next, spec) ==
    /\ StateOf(tenants'[t]) = next
    /\ tenants'[t].spec = spec
    /\ \A s \in Tenants \ {t} : tenants'[s] = tenants[s]
    /\ LiveThings' = LiveThings

\* So does a write of a Tenant.
LEMMA TenantTurns ==
    ASSUME TenantsOK, NEW t \in Tenants, NEW tenant \in TenantVersions,
           PutTenant(t, tenant), UNCHANGED objects
    PROVE  TurnsTo(t, StateOf(tenant), tenant.spec)
<1>1. tenants' = [tenants EXCEPT ![t] = NextVersion(t, tenant)]
  BY DEF PutTenant
<1>2. /\ NextVersion(t, tenant).phase = tenant.phase
      /\ NextVersion(t, tenant).spec = tenant.spec
      /\ NextVersion(t, tenant).finalizer = tenant.finalizer
  BY DEF NextVersion, TenantVersions
<1>3. StateOf(NextVersion(t, tenant)) = StateOf(tenant)
  BY <1>2 DEF StateOf
<1>4. LiveThings' = LiveThings
  BY DEF LiveThings
<1> QED
  BY <1>1, <1>2, <1>3, <1>4 DEF TurnsTo, TenantsOK

\* In TenantLifecycle it is a turn.
LEMMA TurnIsTurn ==
    ASSUME NEW t \in Tenants, NEW next, NEW spec, TurnsTo(t, next, spec)
    PROVE  /\ [s \in Tenants |-> StateOf(tenants[s])]'
                 = [[s \in Tenants |-> StateOf(tenants[s])] EXCEPT ![t] = next]
           /\ [s \in Tenants |-> tenants[s].spec]'
                 = [[s \in Tenants |-> tenants[s].spec] EXCEPT ![t] = spec]
<1>1. \A s \in Tenants : StateOf(tenants'[s]) = IF s = t THEN next ELSE StateOf(tenants[s])
  BY DEF TurnsTo
<1>2. [s \in Tenants |-> StateOf(tenants[s])]' = [s \in Tenants |-> StateOf(tenants'[s])]
  BY DEF StateOf
<1> QED
  BY <1>1, <1>2 DEF TurnsTo

\* A turn to the state and the spec a Tenant has is none.
LEMMA TurnToSame ==
    ASSUME NEW t \in Tenants, NEW next, NEW spec, TurnsTo(t, next, spec),
           StateOf(tenants[t]) = next, tenants[t].spec = spec
    PROVE  Stutter
BY TurnIsTurn DEF Stutter, Lifecycle!vars, TurnsTo

\* The turns of TenantLifecycle.
LEMMA TurnIsAStep ==
    ASSUME NEW t \in Tenants, NEW next, NEW spec, TurnsTo(t, next, spec),
           LET now == StateOf(tenants[t])
           IN  \/ now = "absent" /\ next = "plain" /\ spec \in Specs
               \/ now # "absent" /\ next = now /\ spec \in Specs
               \/ now = "plain" /\ next = "guarded" /\ spec = tenants[t].spec
               \/ now = "guarded" /\ next = "deleting" /\ spec = tenants[t].spec
               \/ now = "plain" /\ next = "absent" /\ spec = NoSpec
    PROVE  Lifecycle!Next
<1> DEFINE now == StateOf(tenants[t])
<1>1. Lifecycle!Turn(t, next, spec)
  BY TurnIsTurn DEF Lifecycle!Turn, TurnsTo
<1> USE DEF Lifecycle!Turn
<1>2. CASE now = "absent" /\ next = "plain" /\ spec \in Specs
  <2>1. Lifecycle!Create(t, spec)
    BY <1>1, <1>2 DEF Lifecycle!Create
  <2> QED
    BY <1>2, <2>1 DEF Lifecycle!Next
<1>3. CASE now # "absent" /\ next = now /\ spec \in Specs
  <2>1. Lifecycle!Edit(t, spec)
    BY <1>1, <1>3 DEF Lifecycle!Edit
  <2> QED
    BY <1>3, <2>1 DEF Lifecycle!Next
<1>4. CASE now = "plain" /\ next = "guarded" /\ spec = tenants[t].spec
  <2>1. Lifecycle!Guard(t)
    BY <1>1, <1>4 DEF Lifecycle!Guard
  <2> QED
    BY <2>1 DEF Lifecycle!Next
<1>5. CASE now = "guarded" /\ next = "deleting" /\ spec = tenants[t].spec
  <2>1. Lifecycle!Delete(t)
    BY <1>1, <1>5 DEF Lifecycle!Delete
  <2> QED
    BY <2>1 DEF Lifecycle!Next
<1>6. CASE now = "plain" /\ next = "absent" /\ spec = NoSpec
  <2>1. Lifecycle!Drop(t)
    BY <1>1, <1>6 DEF Lifecycle!Drop
  <2> QED
    BY <2>1 DEF Lifecycle!Next
<1> QED
  BY <1>2, <1>3, <1>4, <1>5, <1>6

\* One object changes, comes to life or goes.
LEMMA ObjectChanges ==
    ASSUME NEW k \in Keys, \A c \in Keys \ {k} : objects'[c] = objects[c]
    PROVE  /\ k \notin Things => LiveThings' = LiveThings
           /\ objects'[k].phase # "live" => LiveThings' = LiveThings \ {k}
           /\ objects'[k].phase = "live" /\ k \in Things => LiveThings' = LiveThings \cup {k}
           /\ (objects'[k].phase = "live") = (objects[k].phase = "live")
                 => LiveThings' = LiveThings
<1>1. Things \subseteq Keys
  BY DEF Things, Keys
<1> QED
  BY <1>1 DEF LiveThings

\* An object that is taken away is a thing lost, or was none.
LEMMA ObjectIsLost ==
    ASSUME NEW k \in Keys, \A c \in Keys \ {k} : objects'[c] = objects[c],
           objects'[k].phase # "live", UNCHANGED tenants
    PROVE  Lifecycle!Next \/ Stutter
<1>1. LiveThings' = LiveThings \ {k}
  BY ObjectChanges
<1>2. CASE k \in LiveThings
  <2>1. Lifecycle!Lose(k)
    BY <1>1 DEF Lifecycle!Lose
  <2> QED
    BY <1>2, <2>1 DEF Lifecycle!Next
<1>3. CASE k \notin LiveThings
  BY <1>1, <1>3, NothingSeen
<1> QED
  BY <1>2, <1>3

\* An object that is applied is a thing made, if it is one.
LEMMA ObjectIsMade ==
    ASSUME NEW t \in Tenants, NEW spec \in Specs, NEW k \in ChildKeys(t, spec),
           StateOf(tenants[t]) \in {"guarded", "deleting"},
           \A c \in Keys \ {k} : objects'[c] = objects[c],
           objects'[k].phase = "live", UNCHANGED tenants
    PROVE  Lifecycle!Next \/ Stutter
<1>1. k \in Keys
  BY DEF Keys, Children
<1>2. CASE k \in Things
  <2>1. LiveThings' = LiveThings \cup {k}
    BY <1>1, <1>2, ObjectChanges
  <2> DEFINE owned == [u \in Tenants |-> [s \in Specs |-> ChildKeys(u, s) \cap Things]]
  <2>2. k \in owned[t][spec]
    BY <1>2
  <2> HIDE DEF owned
  <2>3. Lifecycle!Make(t, spec, k)
    BY <2>1, <2>2 DEF Lifecycle!Make, owned
  <2> QED
    BY <2>2, <2>3 DEF Lifecycle!Next, owned
<1>3. CASE k \notin Things
  BY <1>1, <1>3, ObjectChanges, NothingSeen
<1> QED
  BY <1>2, <1>3

-------------------------------------------------------------------------------
(***************************************************************************)
(* The writes of a pass.                                                   *)
(***************************************************************************)
LEMMA AddFinalizerSeen ==
    ASSUME IInv, NEW lost \in BOOLEAN, AddFinalizer(lost)
    PROVE  Lifecycle!Next \/ Stutter
<1> DEFINE tenant == [snap EXCEPT !.finalizer = TRUE]
<1>1. /\ pc = "finalizer" /\ Current
      /\ PutTenant(cur, tenant) /\ UNCHANGED objects
  BY DEF AddFinalizer, objectStore
<1>2. /\ cur \in Tenants /\ snap \in TenantVersions /\ snap.phase = "live"
      /\ tenants[cur] = snap
  BY <1>1, PassFacts, CurrentIsStored DEF IInv, PassInv
<1>3. /\ tenant \in TenantVersions /\ tenant.spec = snap.spec
      /\ StateOf(tenant) = "guarded"
  BY <1>2 DEF TenantVersions, StateOf
<1> HIDE DEF tenant
<1>4. TurnsTo(cur, "guarded", snap.spec)
  <2>1. TurnsTo(cur, StateOf(tenant), tenant.spec)
    BY <1>1, <1>2, <1>3, TenantTurns DEF IInv, TypeOK
  <2> QED
    BY <1>3, <2>1
<1>5. StateOf(snap) = "guarded" \/ StateOf(snap) = "plain"
  BY <1>2 DEF StateOf, TenantVersions
<1> QED
  BY <1>2, <1>4, <1>5, TurnToSame, TurnIsAStep

LEMMA WriteStatusSeen ==
    ASSUME IInv, NEW lost \in BOOLEAN, WriteStatus(lost)
    PROVE  Stutter
<1>1. /\ pc = "status" /\ Current /\ UNCHANGED objects
      /\ UNCHANGED tenants \/ PutTenant(cur, Reported)
  BY DEF WriteStatus, objectStore, tenantStore
<1>2. /\ cur \in Tenants /\ snap \in TenantVersions /\ tenants[cur] = snap
      /\ verdict \in Reasons
  BY <1>1, PassFacts, CurrentIsStored DEF IInv, TypeOK, PassOK
<1>3. /\ Reported \in TenantVersions /\ Reported.spec = snap.spec
      /\ StateOf(Reported) = StateOf(snap)
  <2>1. snap.gen \in Nat
    BY <1>2 DEF TenantVersions
  <2>2. /\ Reported \in TenantVersions /\ Reported.spec = snap.spec
        /\ Reported.phase = snap.phase /\ Reported.finalizer = snap.finalizer
    BY <1>2, <2>1 DEF Reported, TenantVersions
  <2> QED
    BY <2>2 DEF StateOf
<1>4. CASE UNCHANGED tenants
  BY <1>1, <1>4, NothingSeen DEF LiveThings
<1>5. CASE PutTenant(cur, Reported)
  <2>1. TurnsTo(cur, StateOf(Reported), Reported.spec)
    BY <1>1, <1>2, <1>3, <1>5, TenantTurns DEF IInv, TypeOK
  <2> QED
    BY <1>2, <1>3, <2>1, TurnToSame
<1> QED
  BY <1>1, <1>4, <1>5

\* A Tenant on its way out may go when nothing is left of its spec.
LEMMA MayFinish ==
    ASSUME NEW t \in Tenants, NEW spec \in Specs, TurnsTo(t, "absent", NoSpec),
           StateOf(tenants[t]) = "deleting", tenants[t].spec = spec,
           spec.preserve \/ (Range(Teardown(t, spec)) \ {NoKey}) \cap LiveThings = {}
    PROVE  Lifecycle!Next
<1>1. [s \in Tenants |-> tenants[s].spec][t] = spec
  OBVIOUS
<1>2. [s \in Tenants |-> StateOf(tenants[s])][t] = "deleting"
  OBVIOUS
<1> DEFINE cleaned == [u \in Tenants |-> [s \in Specs |-> Range(Teardown(u, s)) \ {NoKey}]]
<1>3. cleaned[t][spec] = Range(Teardown(t, spec)) \ {NoKey}
  OBVIOUS
<1> HIDE DEF cleaned
<1>4. spec \in {s \in Specs : s.preserve} \/ cleaned[t][spec] \cap LiveThings = {}
  BY <1>3
<1>5. Lifecycle!Turn(t, "absent", NoSpec)
  BY TurnIsTurn DEF Lifecycle!Turn, TurnsTo
<1>6. Lifecycle!Finish(t)
  BY <1>1, <1>2, <1>4, <1>5 DEF Lifecycle!Finish, Lifecycle!Turn, cleaned
<1> QED
  BY <1>6 DEF Lifecycle!Next

\* The finalizer goes: the teardown of the pass has left nothing alive.
LEMMA ReleaseSeen ==
    ASSUME IInv, NEW lost \in BOOLEAN, Release(lost)
    PROVE  Lifecycle!Next
<1> DEFINE none == NoTenant(0)
<1>1. /\ pc = "release" /\ Current
      /\ PutTenant(cur, none) /\ UNCHANGED objects
  BY DEF Release, objectStore
<1>2. /\ cur \in Tenants /\ snap \in TenantVersions /\ snap.phase = "terminating"
      /\ tenants[cur] = snap /\ snap.spec \in Specs
  BY <1>1, PassFacts, CurrentIsStored DEF IInv, PassInv, TeardownSteps
<1>3. none \in TenantVersions /\ none.spec = NoSpec /\ StateOf(none) = "absent"
  BY DEF NoTenant, TenantVersions, Phases, Reasons, StateOf
<1> HIDE DEF none
<1>4. TurnsTo(cur, "absent", NoSpec)
  <2>1. TurnsTo(cur, StateOf(none), none.spec)
    BY <1>1, <1>2, <1>3, TenantTurns DEF IInv, TypeOK
  <2> QED
    BY <1>3, <2>1
<1>5. StateOf(tenants[cur]) = "deleting"
  BY <1>2 DEF StateOf
<1>6. snap.spec.preserve \/ (Range(Teardown(cur, snap.spec)) \ {NoKey}) \cap LiveThings = {}
  <2> SUFFICES ASSUME ~snap.spec.preserve, NEW k \in Range(Doomed), k # NoKey
               PROVE  k \notin LiveThings
    BY DEF Doomed
  <2>1. PICK j \in DOMAIN Doomed : k = Doomed[j]
    BY DEF Range
  <2>2. Gone(Doomed[j])
    BY <1>1 DEF IInv, GoneInv
  <2> QED
    BY <2>1, <2>2 DEF Gone, LiveThings
<1> QED
  BY <1>2, <1>4, <1>5, <1>6, MayFinish

\* An object is applied: the Tenant is guarded, or on its way out, and the
\* object is one of those of the spec the pass works on.
LEMMA ApplySeen ==
    ASSUME IInv, PlanInv, NEW lost \in BOOLEAN, CreateObject(lost) \/ UpdateObject(lost)
    PROVE  Lifecycle!Next \/ Stutter
<1> DEFINE k == plan[idx].key
<1>1. /\ pc \in WriteSteps
      /\ UNCHANGED tenants
      /\ \/ UNCHANGED objects
         \/ PutObject(k, "live", plan[idx].data)
  BY DEF CreateObject, UpdateObject, ReplaceObject, tenantStore, WriteSteps, Target
<1>2. pc \in ApplySteps /\ pc \in PlanSteps /\ idx \in DOMAIN plan /\ pc # "idle"
  BY <1>1 DEF WriteSteps, ApplySteps, PlanSteps, IInv, TypeOK, PositionOK
<1>3. /\ cur \in Tenants /\ snap.spec \in Specs
      /\ VersionOf(tenants[cur], snap) /\ snap.phase = "live" /\ snap.finalizer
      /\ tenants[cur] \in TenantVersions
  BY <1>2, PassFacts DEF IInv, PassInv, GuardedSteps, TypeOK, TenantsOK
<1>4. StateOf(tenants[cur]) \in {"guarded", "deleting"}
  BY <1>3 DEF VersionOf, HoldsFinalizer, StateOf, TenantVersions, Phases
<1>5. k \in ChildKeys(cur, snap.spec)
  <2>1. plan[idx].key # NoKey
    BY <1>1 DEF PlanInv, Target
  <2> QED
    BY <1>2, <2>1, PlanFacts
<1>6. k \in Keys
  BY <1>3, <1>5 DEF Children, Keys
<1> HIDE DEF k
<1>7. CASE UNCHANGED objects
  BY <1>1, <1>7, NothingSeen DEF LiveThings
<1>8. CASE PutObject(k, "live", plan[idx].data)
  <2>1. /\ objects'[k].phase = "live"
        /\ \A c \in Keys \ {k} : objects'[c] = objects[c]
    BY <1>6, <1>8, PutObjectEffect DEF IInv, TypeOK, Phases
  <2> QED
    BY <1>1, <1>3, <1>4, <1>5, <2>1, ObjectIsMade
<1> QED
  BY <1>1, <1>7, <1>8

LEMMA DeleteSeen ==
    ASSUME IInv, NEW lost \in BOOLEAN, DeleteNext(lost)
    PROVE  Lifecycle!Next \/ Stutter
<1> DEFINE k == Doomed[idx]
<1>1. /\ UNCHANGED tenants
      /\ UNCHANGED objects \/ (k # NoKey /\ DeleteObject(k))
      /\ idx \in DOMAIN Doomed
      /\ pc # "idle"
  BY DEF DeleteNext, objectStore, tenantStore
<1>2. k # NoKey => k \in Keys
  BY <1>1, PassFacts, DoomedKeysAreKeys
<1> HIDE DEF k
<1>3. CASE UNCHANGED objects
  BY <1>1, <1>3, NothingSeen DEF LiveThings
<1>4. CASE k # NoKey /\ DeleteObject(k)
  <2>1. objects'[k].phase # "live" /\ \A c \in Keys \ {k} : objects'[c] = objects[c]
    BY <1>2, <1>4, DeleteObjectEffect DEF IInv, TypeOK
  <2> QED
    BY <1>1, <1>2, <1>4, <2>1, ObjectIsLost
<1> QED
  BY <1>1, <1>3, <1>4

-------------------------------------------------------------------------------
(***************************************************************************)
(* What users and the cluster do.                                          *)
(***************************************************************************)
\* An object that is no thing does not count.
LEMMA ObjectIsUnseen ==
    ASSUME NEW k \in Keys, k \notin Things, UNCHANGED tenants,
           \A c \in Keys \ {k} : objects'[c] = objects[c]
    PROVE  Stutter
BY ObjectChanges, NothingSeen

LEMMA UsersSeenInTenants ==
    ASSUME TenantsOK, CacheInv, NEW t \in Tenants,
           (\E spec \in Specs : CreateTenant(t, spec) \/ EditTenant(t, spec)) \/ DeleteTenant(t)
    PROVE  Lifecycle!Next
<1>1. tenants[t] \in TenantVersions /\ tenants[t].gen + 1 \in Nat
  BY DEF TenantsOK, TenantVersions
<1>2. ASSUME NEW spec \in Specs, CreateTenant(t, spec)
      PROVE  Lifecycle!Next
  <2> DEFINE tenant == [NoTenant(0) EXCEPT !.phase = "live", !.gen = 1, !.spec = spec]
  <2>1. tenant \in TenantVersions /\ tenant.spec = spec /\ StateOf(tenant) = "plain"
    BY DEF NoTenant, TenantVersions, Phases, Reasons, StateOf
  <2>2. StateOf(tenants[t]) = "absent" /\ PutTenant(t, tenant) /\ UNCHANGED objects
    BY <1>2 DEF CreateTenant, StateOf
  <2> HIDE DEF tenant
  <2>3. TurnsTo(t, "plain", spec)
    BY <2>1, <2>2, TenantTurns
  <2> QED
    BY <2>2, <2>3, TurnIsAStep
<1>3. ASSUME NEW spec \in Specs, EditTenant(t, spec)
      PROVE  Lifecycle!Next
  <2> DEFINE tenant == [tenants[t] EXCEPT !.gen = tenants[t].gen + 1, !.spec = spec]
  <2>1. /\ tenant \in TenantVersions /\ tenant.spec = spec
        /\ tenant.phase = tenants[t].phase /\ tenant.finalizer = tenants[t].finalizer
    BY <1>1 DEF TenantVersions
  <2>2. tenants[t].phase # "absent" /\ PutTenant(t, tenant) /\ UNCHANGED objects
    BY <1>3 DEF EditTenant
  <2> HIDE DEF tenant
  <2>3. StateOf(tenant) = StateOf(tenants[t])
    BY <2>1 DEF StateOf
  <2>4. StateOf(tenants[t]) # "absent"
    BY <1>1, <2>2 DEF StateOf, TenantVersions, Phases
  <2>5. TurnsTo(t, StateOf(tenants[t]), spec)
    BY <2>1, <2>2, <2>3, TenantTurns
  <2> QED
    BY <2>4, <2>5, TurnIsAStep
<1>4. CASE DeleteTenant(t)
  <2>1. tenants[t].phase = "live" /\ UNCHANGED objects
    BY <1>4 DEF DeleteTenant
  <2>2. CASE tenants[t].finalizer
    <3> DEFINE tenant == [tenants[t] EXCEPT !.phase = "terminating", !.gen = tenants[t].gen + 1]
    <3>1. /\ tenant \in TenantVersions /\ tenant.spec = tenants[t].spec
          /\ StateOf(tenant) = "deleting"
      BY <1>1 DEF TenantVersions, Phases, StateOf
    <3>2. PutTenant(t, tenant)
      BY <1>4, <2>2 DEF DeleteTenant
    <3> HIDE DEF tenant
    <3>3. TurnsTo(t, "deleting", tenants[t].spec)
      BY <2>1, <3>1, <3>2, TenantTurns
    <3>4. StateOf(tenants[t]) = "guarded"
      BY <2>1, <2>2 DEF StateOf
    <3> QED
      BY <3>3, <3>4, TurnIsAStep
  <2>3. CASE ~tenants[t].finalizer
    <3> DEFINE none == NoTenant(0)
    <3>1. none \in TenantVersions /\ none.spec = NoSpec /\ StateOf(none) = "absent"
      BY DEF NoTenant, TenantVersions, Phases, Reasons, StateOf
    <3>2. PutTenant(t, none)
      BY <1>4, <2>3 DEF DeleteTenant
    <3> HIDE DEF none
    <3>3. TurnsTo(t, "absent", NoSpec)
      BY <2>1, <3>1, <3>2, TenantTurns
    <3>4. StateOf(tenants[t]) = "plain"
      BY <2>1, <2>3 DEF StateOf
    <3> QED
      BY <3>3, <3>4, TurnIsAStep
  <2> QED
    BY <2>2, <2>3
<1> QED
  BY <1>2, <1>3, <1>4

LEMMA UserStepSeen ==
    ASSUME IInv, UserStep
    PROVE  Lifecycle!Next \/ Stutter
<1>1. CASE \/ \E t \in Tenants, spec \in Specs : CreateTenant(t, spec) \/ EditTenant(t, spec)
           \/ \E t \in Tenants : DeleteTenant(t)
  BY <1>1, UsersSeenInTenants DEF IInv, TypeOK
<1>2. ASSUME NEW k \in Sources, NEW phase \in Phases, NEW data,
             PutObject(k, phase, data), UNCHANGED tenants
      PROVE  Stutter
  <2>1. k \in Keys /\ k \notin Things
    BY SourcesAreNotChildren DEF Keys, Things
  <2>2. \A c \in Keys \ {k} : objects'[c] = objects[c]
    BY <1>2, PutObjectEffect DEF IInv, TypeOK
  <2> QED
    BY <1>2, <2>1, <2>2, ObjectIsUnseen
<1>3. CASE \/ \E k \in Sources, content \in Contents : WriteSource(k, content)
           \/ \E k \in Sources : DeleteSource(k)
  BY <1>2, <1>3 DEF WriteSource, DeleteSource, RemoveObject, Phases
<1>4. ASSUME NEW k \in Children, DeleteChild(k) \/ OverwriteChild(k)
      PROVE  Lifecycle!Next \/ Stutter
  <2>1. k \in Keys /\ UNCHANGED tenants
    BY <1>4 DEF DeleteChild, OverwriteChild, Keys
  <2>2. CASE DeleteChild(k)
    <3>1. objects'[k].phase # "live" /\ \A c \in Keys \ {k} : objects'[c] = objects[c]
      BY <2>1, <2>2, DeleteObjectEffect DEF DeleteChild, IInv, TypeOK
    <3> QED
      BY <2>1, <3>1, ObjectIsLost
  <2>3. CASE OverwriteChild(k)
    <3>1. objects[k].phase = "live" /\ PutObject(k, "live", Foreign)
      BY <2>3 DEF OverwriteChild
    <3>2. objects'[k].phase = "live" /\ \A c \in Keys \ {k} : objects'[c] = objects[c]
      BY <2>1, <3>1, PutObjectEffect DEF Phases, IInv, TypeOK
    <3> QED
      BY <2>1, <3>1, <3>2, ObjectChanges, NothingSeen
  <2> QED
    BY <1>4, <2>2, <2>3
<1> QED
  BY <1>1, <1>3, <1>4 DEF UserStep

LEMMA ClusterStepSeen ==
    ASSUME IInv, ClusterStep
    PROVE  Lifecycle!Next \/ Stutter
<1>1. PICK k \in Children : CreateDefaultSA(k) \/ PurgeContent(k) \/ FinishDeletion(k)
  BY DEF ClusterStep
<1>2. k \in Keys /\ UNCHANGED tenants
  BY <1>1 DEF Keys, CreateDefaultSA, PurgeContent, FinishDeletion
<1>3. CASE CreateDefaultSA(k)
  <2>1. k \notin Things /\ PutObject(k, "live", NoData)
    BY <1>3 DEF CreateDefaultSA, Things
  <2>2. \A c \in Keys \ {k} : objects'[c] = objects[c]
    BY <1>2, <2>1, PutObjectEffect DEF Phases, IInv, TypeOK
  <2> QED
    BY <1>2, <2>1, <2>2, ObjectIsUnseen
<1>4. CASE PurgeContent(k) \/ FinishDeletion(k)
  <2>1. PutObject(k, "absent", NoData)
    BY <1>4 DEF PurgeContent, FinishDeletion, RemoveObject
  <2>2. objects'[k].phase # "live" /\ \A c \in Keys \ {k} : objects'[c] = objects[c]
    BY <1>2, <2>1, PutObjectEffect DEF Phases, IInv, TypeOK
  <2> QED
    BY <1>2, <2>2, ObjectIsLost
<1> QED
  BY <1>1, <1>3, <1>4

-------------------------------------------------------------------------------
(***************************************************************************)
(* The refinement.                                                         *)
(***************************************************************************)
LEMMA StepSeen ==
    ASSUME IInv, PlanInv, [Next]_vars
    PROVE  Lifecycle!Next \/ Stutter
<1>1. CASE UNCHANGED <<tenants, objects>>
  BY <1>1, NothingSeen DEF LiveThings
<1>2. CASE \/ \E t \in Tenants : Fetch(t) \/ DeliverTenant(t) \/ TimerFires(t)
           \/ \E kind \in CachedKinds : Inform(kind)
           \/ TenantConflict \/ StatusConflict \/ RejectExtensions \/ AllApplied
           \/ ApplyRefused \/ CallFails \/ ReadValue \/ Rendered \/ GetObject
           \/ AllDeleted \/ CheckNext \/ AllChecked \/ Restart \/ UNCHANGED vars
  <2>1. UNCHANGED <<tenants, objects>>
    BY <1>2 DEF Fetch, FetchNothing, FetchDeleted, FetchLive, Begin, DeliverTenant,
                TimerFires, Inform, StartInformer, DeliverObject,
                TenantConflict, StatusConflict, RejectExtensions, AllApplied, ApplyRefused,
                CallFails, ReadValue, Rendered, GetObject, AllDeleted, CheckNext, AllChecked,
                Restart, Relist, vars, apiVars, tenantStore, objectStore
  <2> QED
    BY <1>1, <2>1
<1>3. ASSUME NEW lost \in BOOLEAN, Write(lost)
      PROVE  Lifecycle!Next \/ Stutter
  BY <1>3, AddFinalizerSeen, WriteStatusSeen, ReleaseSeen, ApplySeen, DeleteSeen DEF Write
<1>4. CASE Users \/ Cluster
  BY <1>4, UserStepSeen, ClusterStepSeen DEF Users, Cluster
<1> QED
  BY <1>2, <1>3, <1>4 DEF Next, Work, Background, Fault

LEMMA InitSeen ==
    ASSUME Init
    PROVE  Lifecycle!Init /\ PlanInv
<1>1. tenants = [t \in Tenants |-> NoTenant(0)]
  BY DEF Init, APIInit
<1>2. \A t \in Tenants : StateOf(tenants[t]) = "absent" /\ tenants[t].spec = NoSpec
  BY <1>1 DEF StateOf, NoTenant
<1>3. LiveThings = {}
  <2> SUFFICES ASSUME NEW k \in Things
               PROVE  objects[k].phase # "live"
    BY DEF LiveThings
  <2>1. k \in Keys /\ k \notin Sources
    BY SourcesAreNotChildren DEF Things, Keys
  <2>2. objects[k] = UnknownObject
    BY <2>1 DEF Init, APIInit
  <2> QED
    BY <2>2 DEF UnknownObject
<1>4. PlanInv
  BY DEF Init, PlanInv, PlanSteps, WriteSteps
<1> QED
  BY <1>2, <1>3, <1>4 DEF Lifecycle!Init

\* For every set of tenants and specs, and every value of the bounds, what can
\* be seen of the reconciler from outside is a behaviour of TenantLifecycle:
\* nothing of a tenant comes to life unguarded, and a guarded tenant goes only
\* when what finalize looks after is gone, or is to be preserved.
THEOREM Implementation == Spec => ImplementsLifecycle
<1>1. Init => Lifecycle!Init /\ PlanInv
  BY InitSeen
<1>2. IInv /\ PlanInv /\ [Next]_vars => PlanInv'
  BY PlanKeeps
<1>3. IInv /\ PlanInv /\ [Next]_vars => [Lifecycle!Next]_(Lifecycle!vars)
  BY StepSeen DEF Stutter
<1> QED
  BY <1>1, <1>2, <1>3, Invariance, PTL DEF Spec, ImplementsLifecycle, Lifecycle!Spec
===============================================================================
