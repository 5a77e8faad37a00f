----------------------- MODULE TenantControllerProofs -----------------------
(***************************************************************************)
(* Proofs about TenantController, for every set of tenants and specs and   *)
(* every value of the bounds.                                              *)
(*                                                                         *)
(* The argument rests on resource versions: every copy of a Tenant, in the *)
(* cache, on its way there or in the hands of the pass, is a version the   *)
(* server once stored, and the server accepts a write only at its latest   *)
(* version.                                                                *)
(***************************************************************************)
EXTENDS TenantController, RendererProofs

-------------------------------------------------------------------------------
(***************************************************************************)
(* Lists, for the tenants and specs at hand.                               *)
(***************************************************************************)

\* Render reads a list of values.
LEMMA ValuesAreAList ==
    ASSUME NEW spec \in Specs
    PROVE  IsSequence(ValuesRead(spec))
<1>1. /\ Len(spec.git) \in Nat
      /\ Len(spec.imagePullSecrets) \in Nat
      /\ Len(spec.environments) \in Nat
  BY SpecsHoldLists, SequenceDomain
<1> DEFINE m == 2 * Len(spec.git)
           n == 2 * Len(spec.imagePullSecrets) * Len(spec.environments)
           first  == [j \in 1 .. m |-> CredentialValues(spec.git[(j + 1) \div 2])[2 - (j % 2)]]
           second == [j \in 1 .. n |->
                        LET pull == spec.imagePullSecrets
                                        [(((j - 1) \div 2) % Len(spec.imagePullSecrets)) + 1]
                        IN  IF j % 2 = 1 THEN pull.username ELSE pull.password]
<1>2. m \in Nat /\ n \in Nat
  <2>1. \A a, b \in Nat : a * b \in Nat
    OBVIOUS
  <2>2. m \in Nat /\ 2 * Len(spec.imagePullSecrets) \in Nat
    BY <1>1
  <2> QED
    BY <1>1, <2>1, <2>2
<1>3. IsSequence(first)
  <2> first = [j \in 1 .. m |-> first[j]]
    OBVIOUS
  <2> HIDE DEF first, m
  <2> QED
    BY <1>2, FunctionIsSequence
<1>4. IsSequence(second)
  <2> second = [j \in 1 .. n |-> second[j]]
    OBVIOUS
  <2> HIDE DEF second, n
  <2> QED
    BY <1>2, FunctionIsSequence
<1>5. ValuesRead(spec) = first \o second
  BY DEF ValuesRead
<1> HIDE DEF first, second
<1> QED
  BY <1>3, <1>4, <1>5, ConcatElements

\* What finalize may meet: a key to skip, or a child that is no ServiceAccount.
DoomedKeys == {NoKey} \cup {k \in Children : k.kind # "ServiceAccount"}

\* finalize goes through a list of those.
LEMMA TeardownIsAList ==
    ASSUME NEW t \in Tenants, NEW spec \in Specs
    PROVE  /\ Teardown(t, spec) \in Seq(DoomedKeys)
           /\ Range(Teardown(t, spec)) \subseteq {NoKey} \cup ChildKeys(t, spec)
<1>1. HoldsLists(spec) /\ ChildKeys(t, spec) \subseteq Children
  BY SpecsHoldLists DEF Children
<1>2. ASSUME NEW k \in Range(Teardown(t, spec))
      PROVE  k = NoKey \/ (k \in ChildKeys(t, spec) /\ k.kind # "ServiceAccount")
  <2>1. \/ \E n \in DOMAIN spec.environments : k = AppSetKey(t, spec.environments[n])
        \/ k = AppProjectKey(t)
        \/ k = NoKey
        \/ \E i \in DOMAIN spec.git : k = RepoSecretKey(t, i)
        \/ \E n \in DOMAIN spec.environments : k = NamespaceKey(t, spec.environments[n])
    BY <1>1, <1>2, TornDownKeys
  <2>2. k = NoKey \/ k.kind # "ServiceAccount"
    BY <2>1, KindsOfKeys
  <2>3. k = NoKey \/ k \in ChildKeys(t, spec)
    BY <2>1 DEF ChildKeys
  <2> QED
    BY <2>2, <2>3
<1>3. Range(Teardown(t, spec)) \subseteq DoomedKeys
  BY <1>1, <1>2 DEF DoomedKeys
<1>4. Teardown(t, spec) \in Seq(Range(Teardown(t, spec)))
  BY <1>1, TornDownKeys DEF IsSequence
<1>5. Teardown(t, spec) \in Seq(DoomedKeys)
  BY <1>3, <1>4, SeqMonotonic
<1> QED
  BY <1>2, <1>5

\* What may stand in the list Render returns for a tenant.
PlanKey(t, spec, k) == k = NoKey \/ k \in ChildKeys(t, spec)

\* Render returns a list, and asks for nothing but the objects of its tenant.
LEMMA ObjectsOfTenant ==
    ASSUME NEW t, NEW spec \in Specs, NEW texts
    PROVE  /\ IsSequence(Objects(t, spec, texts))
           /\ \A i \in DOMAIN Objects(t, spec, texts) :
                 PlanKey(t, spec, Objects(t, spec, texts)[i].key)
<1>1. HoldsLists(spec)
  BY SpecsHoldLists
<1>2. ASSUME NEW o \in Range(Objects(t, spec, texts))
      PROVE  PlanKey(t, spec, o.key)
  <2>1. \/ \E n \in DOMAIN spec.environments : o = BuildNamespace(t, spec.environments[n])
        \/ o = BuildAppProject(t, spec)
        \/ \E n \in DOMAIN spec.environments : o = BuildAppSet(t, spec, spec.environments[n])
        \/ \E i \in DOMAIN spec.git : o = BuildRepoSecret(t, spec, texts, i)
        \/ \E n \in 1 .. EnvironmentsWithPull(spec) : o = BuildPullSecret(t, spec, texts, n)
        \/ \E n \in 1 .. EnvironmentsWithPull(spec) : o = BuildDefaultSA(t, spec.environments[n])
    BY <1>1, <1>2, RenderedObjects
  <2>2. \/ \E n \in DOMAIN spec.environments : o.key = NamespaceKey(t, spec.environments[n])
        \/ o.key = AppProjectKey(t)
        \/ \E n \in DOMAIN spec.environments : o.key = AppSetKey(t, spec.environments[n])
        \/ \E i \in DOMAIN spec.git : o.key = NoKey \/ o.key = RepoSecretKey(t, i)
        \/ \E n \in 1 .. EnvironmentsWithPull(spec) : o.key = PullSecretKey(t, spec.environments[n])
        \/ \E n \in 1 .. EnvironmentsWithPull(spec) : o.key = DefaultSAKey(t, spec.environments[n])
    BY <2>1, KeysOfObjects
  <2> QED
    BY <2>2 DEF PlanKey, ChildKeys
<1> QED
  BY <1>1, <1>2, RenderedObjects DEF Range

-------------------------------------------------------------------------------
(***************************************************************************)
(* Homes: the namespace an object goes with, if the operator created it,   *)
(* or the object itself.                                                   *)
(***************************************************************************)
Home(k) == IF NamespaceOf(k) \in Keys THEN NamespaceOf(k) ELSE k

\* The children of a tenant, by where they live.
LEMMA HomesOfKeys ==
    ASSUME NEW t \in Tenants, NEW spec \in Specs
    PROVE  /\ Home(AppProjectKey(t)) = AppProjectKey(t)
           /\ \A n \in DOMAIN spec.environments :
                 /\ Home(AppSetKey(t, spec.environments[n])) = AppSetKey(t, spec.environments[n])
                 /\ Home(NamespaceKey(t, spec.environments[n]))
                       = NamespaceKey(t, spec.environments[n])
           /\ \A i : Home(RepoSecretKey(t, i)) = RepoSecretKey(t, i)
           /\ \A n \in 1 .. EnvironmentsWithPull(spec) :
                 /\ n \in DOMAIN spec.environments
                 /\ Home(PullSecretKey(t, spec.environments[n]))
                       = NamespaceKey(t, spec.environments[n])
                 /\ Home(DefaultSAKey(t, spec.environments[n]))
                       = NamespaceKey(t, spec.environments[n])
<1>1. \A k : k.ns \in {ClusterScope, ArgoCDNamespace} => Home(k) = k
  <2> SUFFICES ASSUME NEW k, k.ns \in {ClusterScope, ArgoCDNamespace}, NamespaceOf(k) \in Keys
               PROVE  FALSE
    BY DEF Home
  <2>1. NamespaceOf(k).kind = "Namespace" /\ NamespaceOf(k).name = k.ns
    BY DEF NamespaceOf, Key
  <2> QED
    BY <2>1, NamespacesAreNamed
<1>2. ASSUME NEW n \in 1 .. EnvironmentsWithPull(spec),
             NEW k \in {PullSecretKey(t, spec.environments[n]), DefaultSAKey(t, spec.environments[n])}
      PROVE  n \in DOMAIN spec.environments /\ Home(k) = NamespaceKey(t, spec.environments[n])
  <2>1. n \in DOMAIN spec.environments
    <3>1. /\ EnvironmentsWithPull(spec) \in Nat
          /\ EnvironmentsWithPull(spec) <= Len(spec.environments)
          /\ Len(spec.environments) \in Nat
          /\ DOMAIN spec.environments = 1 .. Len(spec.environments)
      BY SpecsHoldLists, SpecLists
    <3> QED
      BY <3>1
  <2>2. NamespaceOf(k) = NamespaceKey(t, spec.environments[n])
    BY KindsOfKeys DEF NamespaceOf, NamespaceKey
  <2>3. NamespaceKey(t, spec.environments[n]) \in Keys
    <3>1. NamespaceKey(t, spec.environments[n]) \in ChildKeys(t, spec)
      BY <2>1 DEF ChildKeys
    <3> QED
      BY <3>1 DEF Keys, Children
  <2> QED
    BY <2>1, <2>2, <2>3 DEF Home
<1> QED
  BY <1>1, <1>2, KindsOfKeys

\* A child's home is a child of the same tenant, and at home in itself; and it
\* is a namespace if it is not the child.
LEMMA HomeOfChild ==
    ASSUME NEW t \in Tenants, NEW spec \in Specs, NEW k \in ChildKeys(t, spec)
    PROVE  /\ Home(k) \in ChildKeys(t, spec)
           /\ Home(Home(k)) = Home(k)
           /\ Home(k) # k => /\ Home(k).kind = "Namespace" /\ Home(k) = NamespaceOf(k)
                             /\ NamespaceOf(k) \in Keys
           /\ k.kind = "Namespace" => Home(k) = k
           /\ k.kind = "ServiceAccount" => Home(k) # k
<1> DEFINE env(n) == spec.environments[n]
<1>1. \/ \E n \in DOMAIN spec.environments : k = NamespaceKey(t, env(n))
      \/ k = AppProjectKey(t)
      \/ \E n \in DOMAIN spec.environments : k = AppSetKey(t, env(n))
      \/ \E i \in DOMAIN spec.git : k = RepoSecretKey(t, i)
      \/ \E n \in 1 .. EnvironmentsWithPull(spec) : k = PullSecretKey(t, env(n))
      \/ \E n \in 1 .. EnvironmentsWithPull(spec) : k = DefaultSAKey(t, env(n))
  BY DEF ChildKeys
<1>2. Home(k) = k \/ \E n \in DOMAIN spec.environments : Home(k) = NamespaceKey(t, env(n))
  BY <1>1, HomesOfKeys
<1>3. \A n \in DOMAIN spec.environments : NamespaceKey(t, env(n)) \in ChildKeys(t, spec)
  BY DEF ChildKeys
<1>4. Home(k) \in ChildKeys(t, spec)
  BY <1>2, <1>3
<1>5. Home(Home(k)) = Home(k)
  BY <1>2, HomesOfKeys
<1>6. Home(k) # k => Home(k) = NamespaceOf(k) /\ NamespaceOf(k) \in Keys
  BY DEF Home
<1>7. Home(k) # k => Home(k).kind = "Namespace"
  BY <1>6 DEF NamespaceOf, Key
<1>8. k.kind = "Namespace" => Home(k) = k
  BY <1>1, HomesOfKeys, KindsOfKeys
<1>9. k.kind = "ServiceAccount" => Home(k) # k
  BY <1>1, HomesOfKeys, KindsOfKeys
<1> QED
  BY <1>4, <1>5, <1>6, <1>7, <1>8, <1>9

\* finalize takes every rendered object with it, itself or with its namespace.
LEMMA TeardownTakesAll ==
    ASSUME NEW t \in Tenants, NEW spec \in Specs, NEW texts,
           NEW i \in DOMAIN Objects(t, spec, texts), Objects(t, spec, texts)[i].key # NoKey
    PROVE  Home(Objects(t, spec, texts)[i].key) \in Range(Teardown(t, spec))
<1> DEFINE o == Objects(t, spec, texts)[i]
<1>1. HoldsLists(spec) /\ o \in Range(Objects(t, spec, texts))
  BY SpecsHoldLists DEF Range
<1> HIDE DEF o
<1>2. \/ \E n \in DOMAIN spec.environments : o = BuildNamespace(t, spec.environments[n])
      \/ o = BuildAppProject(t, spec)
      \/ \E n \in DOMAIN spec.environments : o = BuildAppSet(t, spec, spec.environments[n])
      \/ \E m \in DOMAIN spec.git : o = BuildRepoSecret(t, spec, texts, m)
      \/ \E n \in 1 .. EnvironmentsWithPull(spec) : o = BuildPullSecret(t, spec, texts, n)
      \/ \E n \in 1 .. EnvironmentsWithPull(spec) : o = BuildDefaultSA(t, spec.environments[n])
  BY <1>1, RenderedObjects
<1>3. \/ \E n \in DOMAIN spec.environments : Home(o.key) = NamespaceKey(t, spec.environments[n])
      \/ Home(o.key) = AppProjectKey(t)
      \/ \E n \in DOMAIN spec.environments : Home(o.key) = AppSetKey(t, spec.environments[n])
      \/ \E m \in DOMAIN spec.git : \/ o.key = NoKey
                                    \/ /\ spec.git[m].credentials # NoCredentials
                                       /\ Home(o.key) = RepoSecretKey(t, m)
  BY <1>2, KeysOfObjects, HomesOfKeys
<1> QED
  BY <1>1, <1>3, TornDownKeys DEF o

-------------------------------------------------------------------------------
(***************************************************************************)
(* The store.                                                              *)
(***************************************************************************)

\* What a write does: the object has the new phase, the others stay.
LEMMA PutObjectEffect ==
    ASSUME ObjectsOK, NEW k, NEW phase \in Phases, NEW data,
           PutObject(k, phase, data)
    PROVE  /\ ObjectsOK'
           /\ k \in Keys => objects'[k].phase = phase
           /\ \A c \in Keys \ {k} : objects'[c] = objects[c]
BY DEF ObjectsOK, PutObject

\* A deletion leaves the object gone, or on its way out.
LEMMA DeleteObjectEffect ==
    ASSUME ObjectsOK, NEW k \in Keys, DeleteObject(k)
    PROVE  /\ ObjectsOK'
           /\ objects'[k].phase # "live"
           /\ \A c \in Keys \ {k} : objects'[c] = objects[c]
<1>1. CASE objects[k].phase = "terminating"
  <2>1. UNCHANGED objects
    BY <1>1 DEF DeleteObject
  <2> QED
    BY <1>1, <2>1 DEF ObjectsOK
<1>2. CASE objects[k].phase = "live" /\ k.kind = "Namespace"
  <2>1. PutObject(k, "terminating", objects[k].data)
    BY <1>2 DEF DeleteObject
  <2> QED
    BY <2>1, PutObjectEffect DEF Phases
<1>3. CASE ~(objects[k].phase = "terminating")
           /\ ~(objects[k].phase = "live" /\ k.kind = "Namespace")
  <2>1. PutObject(k, "absent", NoData)
    BY <1>3 DEF DeleteObject, RemoveObject
  <2> QED
    BY <2>1, PutObjectEffect DEF Phases
<1> QED
  BY <1>1, <1>2, <1>3

\* No child finalize looks after comes (back) to life.
NothingRevived ==
    \A k \in DoomedKeys \ {NoKey} :
        objects[k].phase # "live" => objects'[k].phase # "live"

LEMMA DoomedKeysAreKeys ==
    \A k \in DoomedKeys \ {NoKey} : k \in Keys /\ k \notin Sources /\ k.kind # "ServiceAccount"
BY SourcesAreNotChildren DEF DoomedKeys, Keys

\* Users revive none: they write only Secrets of their own, and overwrite only
\* what is live.
LEMMA UserStepRevivesNothing ==
    ASSUME ObjectsOK, UserStep
    PROVE  ObjectsOK' /\ NothingRevived
<1>1. CASE \E t \in Tenants, spec \in Specs : CreateTenant(t, spec) \/ EditTenant(t, spec)
  BY <1>1 DEF CreateTenant, EditTenant, ObjectsOK, NothingRevived
<1>2. CASE \E t \in Tenants : DeleteTenant(t)
  BY <1>2 DEF DeleteTenant, ObjectsOK, NothingRevived
<1>3. CASE \E k \in Sources, content \in Contents : WriteSource(k, content)
  <2>1. PICK k \in Sources, content \in Contents : WriteSource(k, content)
    BY <1>3
  <2>2. k \in Keys /\ PutObject(k, "live", content)
    BY <2>1 DEF WriteSource, Keys
  <2>3. ObjectsOK' /\ \A c \in Keys \ {k} : objects'[c] = objects[c]
    BY <2>2, PutObjectEffect DEF Phases
  <2> QED
    BY <2>3, DoomedKeysAreKeys DEF NothingRevived
<1>4. CASE \E k \in Sources : DeleteSource(k)
  <2>1. PICK k \in Sources : DeleteSource(k)
    BY <1>4
  <2>2. k \in Keys /\ PutObject(k, "absent", NoData)
    BY <2>1 DEF DeleteSource, RemoveObject, Keys
  <2>3. ObjectsOK' /\ \A c \in Keys \ {k} : objects'[c] = objects[c]
    BY <2>2, PutObjectEffect DEF Phases
  <2> QED
    BY <2>3, DoomedKeysAreKeys DEF NothingRevived
<1>5. CASE \E k \in Children : DeleteChild(k) \/ OverwriteChild(k)
  <2>1. PICK k \in Children : DeleteChild(k) \/ OverwriteChild(k)
    BY <1>5
  <2>2. k \in Keys
    BY DEF Keys
  <2>3. CASE DeleteChild(k)
    <3>1. DeleteObject(k)
      BY <2>3 DEF DeleteChild
    <3>2. ObjectsOK' /\ objects'[k].phase # "live"
          /\ \A c \in Keys \ {k} : objects'[c] = objects[c]
      BY <2>2, <3>1, DeleteObjectEffect
    <3> QED
      BY <3>2, DoomedKeysAreKeys DEF NothingRevived
  <2>4. CASE OverwriteChild(k)
    <3>1. objects[k].phase = "live" /\ PutObject(k, "live", Foreign)
      BY <2>4 DEF OverwriteChild
    <3>2. ObjectsOK' /\ \A c \in Keys \ {k} : objects'[c] = objects[c]
      BY <2>2, <3>1, PutObjectEffect DEF Phases
    <3> QED
      BY <3>1, <3>2, DoomedKeysAreKeys DEF NothingRevived
  <2> QED
    BY <2>1, <2>3, <2>4
<1> QED
  BY <1>1, <1>2, <1>3, <1>4, <1>5 DEF UserStep

\* The cluster revives none: what it creates are ServiceAccounts.
LEMMA ClusterStepRevivesNothing ==
    ASSUME ObjectsOK, ClusterStep
    PROVE  ObjectsOK' /\ NothingRevived
<1>1. PICK k \in Children : CreateDefaultSA(k) \/ PurgeContent(k) \/ FinishDeletion(k)
  BY DEF ClusterStep
<1>2. k \in Keys
  BY DEF Keys
<1>3. CASE CreateDefaultSA(k)
  <2>1. k.kind = "ServiceAccount" /\ PutObject(k, "live", NoData)
    BY <1>3 DEF CreateDefaultSA
  <2>2. ObjectsOK' /\ \A c \in Keys \ {k} : objects'[c] = objects[c]
    BY <1>2, <2>1, PutObjectEffect DEF Phases
  <2> QED
    BY <2>1, <2>2, DoomedKeysAreKeys DEF NothingRevived
<1>4. CASE PurgeContent(k) \/ FinishDeletion(k)
  <2>1. PutObject(k, "absent", NoData)
    BY <1>4 DEF PurgeContent, FinishDeletion, RemoveObject
  <2>2. /\ ObjectsOK' /\ objects'[k].phase = "absent"
        /\ \A c \in Keys \ {k} : objects'[c] = objects[c]
    BY <1>2, <2>1, PutObjectEffect DEF Phases
  <2> QED
    BY <2>2, DoomedKeysAreKeys DEF NothingRevived
<1> QED
  BY <1>1, <1>3, <1>4

-------------------------------------------------------------------------------
(***************************************************************************)
(* The inductive invariant.                                                *)
(***************************************************************************)
HoldsFinalizer(tenant) == tenant.phase # "absent" /\ tenant.finalizer

\* v is a version of the Tenant now stored as stored: not a later one, the same
\* if it is as late; and if it promises a finalizer, the stored one has it.
VersionOf(stored, v) ==
    /\ v.rv <= stored.rv
    /\ v.rv = stored.rv => v = stored
    /\ v.phase # "absent" => v.spec \in Specs
    /\ v.phase = "live" /\ v.finalizer => HoldsFinalizer(stored)

\* The cache holds a version, and the events on their way to it are later ones,
\* in order.
CacheInv ==
    \A t \in Tenants :
        /\ VersionOf(tenants[t], tenants[t])
        /\ VersionOf(tenants[t], tenantView[t])
        /\ \A i \in 1 .. Len(tenantFeed[t]) :
              /\ VersionOf(tenants[t], tenantFeed[t][i])
              /\ tenantView[t].rv < tenantFeed[t][i].rv
              /\ \A j \in 1 .. i - 1 : tenantFeed[t][j].rv < tenantFeed[t][i].rv

ApplySteps    == {"render", "get", "create", "update"}
GuardedSteps  == ApplySteps \cup {"status"}
TeardownSteps == {"delete", "check", "release"}

\* What a pass holds is a version, of the phase its branch is for.
PassInv ==
    /\ pc # "idle" => VersionOf(tenants[cur], snap)
    /\ pc = "finalizer" => snap.phase = "live"
    /\ pc \in GuardedSteps => snap.phase = "live" /\ snap.finalizer
    /\ pc \in TeardownSteps => /\ snap.phase = "terminating"
                               /\ snap.rv <= tenantView[cur].rv

\* Positions start at one, and what is applied is a list.
ListInv ==
    /\ pc \in {"idle", "finalizer"} => idx = 1
    /\ pc \in {"get", "create", "update"} => IsSequence(plan)

Gone(k) == k = NoKey \/ objects[k].phase # "live"

\* What the pass has deleted so far stays deleted.
GoneInv ==
    /\ pc = "delete" => \A j \in 1 .. idx - 1 : Gone(Doomed[j])
    /\ pc = "check" => \A j \in DOMAIN Doomed : Gone(Doomed[j])
    /\ pc = "release" /\ ~snap.spec.preserve => \A j \in DOMAIN Doomed : Gone(Doomed[j])

IInv == TypeOK /\ CacheInv /\ PassInv /\ ListInv /\ GoneInv

-------------------------------------------------------------------------------
(***************************************************************************)
(* Versions.                                                               *)
(***************************************************************************)

\* A version stays one when the server stores the next, if that one holds the
\* finalizer the version promises.
LEMMA StaysAVersion ==
    ASSUME NEW stored \in TenantVersions, NEW next \in TenantVersions,
           NEW v \in TenantVersions,
           next.rv = stored.rv + 1,
           VersionOf(stored, v),
           v.phase = "live" /\ v.finalizer => HoldsFinalizer(next)
    PROVE  VersionOf(next, v)
BY DEF VersionOf, TenantVersions

\* A write of a Tenant keeps the cache and its feed in order, if the Tenant
\* written holds every finalizer that they still promise.
LEMMA PutTenantKeepsCache ==
    ASSUME TenantsOK, CacheInv,
           NEW t \in Tenants, NEW tenant \in TenantVersions,
           tenant.phase # "absent" => tenant.spec \in Specs,
           \A v \in TenantVersions :
              /\ VersionOf(tenants[t], v) /\ tenantView[t].rv <= v.rv
              /\ v.phase = "live" /\ v.finalizer
              => HoldsFinalizer(tenant),
           PutTenant(t, tenant), UNCHANGED tenantView
    PROVE  /\ TenantsOK' /\ CacheInv'
           /\ tenants'[t] = NextVersion(t, tenant)
           /\ \A s \in Tenants \ {t} : tenants'[s] = tenants[s]
<1> DEFINE next == NextVersion(t, tenant)
           last == Len(tenantFeed[t]) + 1
<1>1. /\ next \in TenantVersions
      /\ next.rv = tenants[t].rv + 1
      /\ HoldsFinalizer(tenant) => HoldsFinalizer(next)
      /\ next.phase # "absent" => next.spec \in Specs
  <2>1. next = [tenant EXCEPT !.rv = tenants[t].rv + 1]
    BY DEF NextVersion
  <2>2. tenants[t].rv + 1 \in Nat
    BY DEF TenantsOK, TenantVersions
  <2> HIDE DEF next
  <2>3. /\ next \in TenantVersions
        /\ next.rv = tenants[t].rv + 1
        /\ next.phase = tenant.phase
        /\ next.finalizer = tenant.finalizer
        /\ next.spec = tenant.spec
    BY <2>1, <2>2 DEF TenantVersions
  <2> QED
    BY <2>3, Zenon DEF HoldsFinalizer
<1>2. /\ tenants' = [tenants EXCEPT ![t] = next]
      /\ tenantFeed' = [tenantFeed EXCEPT ![t] = Append(@, next)]
  BY DEF PutTenant
<1> HIDE DEF next
<1>3. /\ tenants'[t] = next
      /\ \A s \in Tenants \ {t} : tenants'[s] = tenants[s]
      /\ \A s \in Tenants \ {t} : tenantFeed'[s] = tenantFeed[s]
  BY <1>2 DEF TenantsOK
<1>4. /\ Len(tenantFeed[t]) \in Nat
      /\ Len(tenantFeed'[t]) = last
      /\ tenantFeed'[t][last] = next
      /\ \A i \in 1 .. Len(tenantFeed[t]) :
            /\ tenantFeed[t][i] \in TenantVersions
            /\ tenantFeed'[t][i] = tenantFeed[t][i]
  BY <1>1, <1>2 DEF TenantsOK
<1>5. TenantsOK'
  BY <1>1, <1>2 DEF TenantsOK
<1>6. \A v \in TenantVersions :
         VersionOf(tenants[t], v) /\ tenantView[t].rv <= v.rv => VersionOf(next, v)
  BY <1>1, StaysAVersion DEF TenantsOK
<1>7. VersionOf(next, next)
  BY <1>1 DEF VersionOf, HoldsFinalizer, TenantVersions
<1>8. VersionOf(next, tenantView[t]) /\ tenantView[t].rv < next.rv
  <2>1. VersionOf(tenants[t], tenantView[t]) /\ tenantView[t] \in TenantVersions
    BY DEF CacheInv, TenantsOK
  <2>2. VersionOf(next, tenantView[t])
    BY <1>6, <2>1 DEF TenantVersions
  <2>3. tenantView[t].rv <= tenants[t].rv
    BY <2>1 DEF VersionOf
  <2>4. tenantView[t].rv \in Nat /\ tenants[t].rv \in Nat
    BY DEF TenantsOK, TenantVersions
  <2> QED
    BY <1>1, <2>2, <2>3, <2>4
<1>9. \A i \in 1 .. Len(tenantFeed[t]) :
         /\ VersionOf(next, tenantFeed[t][i])
         /\ tenantFeed[t][i].rv < next.rv
  <2> TAKE i \in 1 .. Len(tenantFeed[t])
  <2>1. /\ tenantFeed[t][i] \in TenantVersions
        /\ VersionOf(tenants[t], tenantFeed[t][i])
        /\ tenantView[t].rv < tenantFeed[t][i].rv
        /\ tenants[t] \in TenantVersions /\ tenantView[t] \in TenantVersions
    BY <1>4 DEF CacheInv, TenantsOK
  <2>2. VersionOf(next, tenantFeed[t][i])
    BY <1>6, <2>1 DEF TenantVersions
  <2>3. tenantFeed[t][i].rv <= tenants[t].rv
    BY <2>1 DEF VersionOf
  <2>4. tenantFeed[t][i].rv \in Nat /\ tenants[t].rv \in Nat
    BY <2>1 DEF TenantVersions
  <2> QED
    BY <1>1, <2>2, <2>3, <2>4
<1>10. CacheInv'
  <2> SUFFICES ASSUME NEW s \in Tenants
               PROVE  /\ VersionOf(tenants'[s], tenants'[s])
                      /\ VersionOf(tenants'[s], tenantView[s])
                      /\ \A i \in 1 .. Len(tenantFeed'[s]) :
                            /\ VersionOf(tenants'[s], tenantFeed'[s][i])
                            /\ tenantView[s].rv < tenantFeed'[s][i].rv
                            /\ \A j \in 1 .. i - 1 :
                                  tenantFeed'[s][j].rv < tenantFeed'[s][i].rv
    BY DEF CacheInv
  <2>1. CASE s # t
    BY <1>3, <2>1 DEF CacheInv
  <2>2. CASE s = t
    <3> SUFFICES ASSUME NEW i \in 1 .. last
                 PROVE  /\ VersionOf(next, tenantFeed'[t][i])
                        /\ tenantView[t].rv < tenantFeed'[t][i].rv
                        /\ \A j \in 1 .. i - 1 :
                              tenantFeed'[t][j].rv < tenantFeed'[t][i].rv
      BY <1>3, <1>4, <1>7, <1>8, <2>2
    <3>1. CASE i = last
      BY <1>4, <1>7, <1>8, <1>9, <3>1
    <3>2. CASE i # last
      <4>1. i \in 1 .. Len(tenantFeed[t]) /\ \A j \in 1 .. i - 1 : j \in 1 .. Len(tenantFeed[t])
        BY <1>4, <3>2
      <4> QED
        BY <1>4, <1>9, <4>1 DEF CacheInv
    <3> QED
      BY <3>1, <3>2
  <2> QED
    BY <2>1, <2>2
<1> QED
  BY <1>3, <1>5, <1>10 DEF next

\* The next event reaches the cache: it makes the cached version a later one.
LEMMA DeliverTenantKeepsCache ==
    ASSUME TenantsOK, CacheInv, NEW t \in Tenants, DeliverTenant(t)
    PROVE  /\ TenantsOK' /\ CacheInv'
           /\ \A s \in Tenants : tenantView[s].rv <= tenantView'[s].rv
<1> DEFINE n == Len(tenantFeed[t])
<1>1. /\ tenantFeed[t] # <<>>
      /\ tenantFeed[t] \in Seq(TenantVersions)
      /\ tenantView' = [tenantView EXCEPT ![t] = Head(tenantFeed[t])]
      /\ tenantFeed' = [tenantFeed EXCEPT ![t] = Tail(tenantFeed[t])]
      /\ UNCHANGED tenants
  BY DEF DeliverTenant, TenantsOK
<1>2. /\ n \in Nat /\ n > 0
      /\ \A i \in 1 .. n : tenantFeed[t][i] \in TenantVersions
      /\ Head(tenantFeed[t]) = tenantFeed[t][1]
      /\ Tail(tenantFeed[t]) \in Seq(TenantVersions)
      /\ Len(Tail(tenantFeed[t])) = n - 1
      /\ \A i \in 1 .. n - 1 : Tail(tenantFeed[t])[i] = tenantFeed[t][i + 1]
  BY <1>1
<1>3. /\ tenantView'[t] = tenantFeed[t][1]
      /\ Len(tenantFeed'[t]) = n - 1
      /\ \A i \in 1 .. n - 1 : tenantFeed'[t][i] = tenantFeed[t][i + 1]
      /\ \A s \in Tenants \ {t} : /\ tenantView'[s] = tenantView[s]
                                   /\ tenantFeed'[s] = tenantFeed[s]
  BY <1>1, <1>2 DEF TenantsOK
<1>4. TenantsOK'
  BY <1>1, <1>2 DEF TenantsOK
<1>5. /\ \A i \in 1 .. n : /\ VersionOf(tenants[t], tenantFeed[t][i])
                           /\ tenantView[t].rv < tenantFeed[t][i].rv
                           /\ \A j \in 1 .. i - 1 : tenantFeed[t][j].rv < tenantFeed[t][i].rv
      /\ 1 \in 1 .. n
      /\ \A i \in 1 .. n - 1 : i + 1 \in 1 .. n
  BY <1>2 DEF CacheInv
<1>6. CacheInv'
  <2> SUFFICES ASSUME NEW s \in Tenants
               PROVE  /\ VersionOf(tenants[s], tenants[s])
                      /\ VersionOf(tenants[s], tenantView'[s])
                      /\ \A i \in 1 .. Len(tenantFeed'[s]) :
                            /\ VersionOf(tenants[s], tenantFeed'[s][i])
                            /\ tenantView'[s].rv < tenantFeed'[s][i].rv
                            /\ \A j \in 1 .. i - 1 :
                                  tenantFeed'[s][j].rv < tenantFeed'[s][i].rv
    BY <1>1 DEF CacheInv
  <2>1. CASE s # t
    BY <1>3, <2>1 DEF CacheInv
  <2>2. CASE s = t
    <3>1. VersionOf(tenants[t], tenants[t]) /\ VersionOf(tenants[t], tenantView'[t])
      BY <1>3, <1>5 DEF CacheInv
    <3>2. ASSUME NEW i \in 1 .. n - 1
          PROVE  /\ VersionOf(tenants[t], tenantFeed'[t][i])
                 /\ tenantView'[t].rv < tenantFeed'[t][i].rv
                 /\ \A j \in 1 .. i - 1 : tenantFeed'[t][j].rv < tenantFeed'[t][i].rv
      <4>1. 1 \in 1 .. (i + 1) - 1
        BY <1>2
      <4>2. \A j \in 1 .. i - 1 : j \in 1 .. n - 1 /\ j + 1 \in 1 .. (i + 1) - 1
        BY <1>2
      <4> QED
        BY <1>3, <1>5, <4>1, <4>2
    <3> QED
      BY <1>3, <2>2, <3>1, <3>2
  <2> QED
    BY <2>1, <2>2
<1>7. ASSUME NEW s \in Tenants
      PROVE  tenantView[s].rv <= tenantView'[s].rv
  <2>1. tenantView[s].rv \in Nat /\ tenantView'[s].rv \in Nat
    BY <1>4 DEF TenantsOK, TenantVersions
  <2> QED
    BY <1>3, <1>5, <2>1
<1> QED
  BY <1>4, <1>6, <1>7

\* A new process lists what is stored.
LEMMA RelistKeepsCache ==
    ASSUME TenantsOK, CacheInv, Relist
    PROVE  TenantsOK' /\ CacheInv'
<1>1. /\ UNCHANGED tenants
      /\ tenantView' = tenants
      /\ tenantFeed' = [t \in Tenants |-> <<>>]
  BY DEF Relist
<1>2. TenantsOK'
  BY <1>1 DEF TenantsOK
<1>3. CacheInv'
  BY <1>1 DEF CacheInv
<1> QED
  BY <1>2, <1>3

-------------------------------------------------------------------------------
(***************************************************************************)
(* The pass.                                                               *)
(***************************************************************************)
PassHolds == PassOK /\ PositionOK /\ PassInv /\ ListInv /\ GoneInv

\* What a pass that is under way has in its hands.
LEMMA PassFacts ==
    ASSUME IInv, pc # "idle"
    PROVE  /\ cur \in Tenants
           /\ snap \in TenantVersions
           /\ VersionOf(tenants[cur], snap)
           /\ snap.spec \in Specs
           /\ Len(Values) \in Nat /\ DOMAIN Values = 1 .. Len(Values)
           /\ Doomed \in Seq(DoomedKeys)
           /\ Len(Doomed) \in Nat /\ DOMAIN Doomed = 1 .. Len(Doomed)
<1>1. cur \in Tenants /\ snap \in TenantVersions /\ snap.phase # "absent"
  BY DEF IInv, TypeOK, PassOK
<1>2. VersionOf(tenants[cur], snap)
  BY DEF IInv, PassInv
<1>3. snap.spec \in Specs
  BY <1>1, <1>2 DEF VersionOf
<1>4. IsSequence(Values)
  BY <1>3, ValuesAreAList DEF Values
<1>5. Len(Values) \in Nat /\ DOMAIN Values = 1 .. Len(Values)
  BY <1>4, SequenceDomain
<1>6. Doomed \in Seq(DoomedKeys)
  BY <1>1, <1>3, TeardownIsAList DEF Doomed
<1>7. Len(Doomed) \in Nat /\ DOMAIN Doomed = 1 .. Len(Doomed)
  BY <1>6
<1> QED
  BY <1>1, <1>2, <1>3, <1>5, <1>6, <1>7

\* The end of a pass.
LEMMA PassEnds ==
    ASSUME ClearPass, queue' \subseteq Tenants, delayed' \subseteq Tenants
    PROVE  PassHolds'
<1>1. NoTenant(0) \in TenantVersions
  BY DEF NoTenant, TenantVersions, Phases, Reasons
<1>2. PassOK'
  BY <1>1 DEF ClearPass, PassOK, NoSnap, Steps, Reasons
<1>3. PositionOK' /\ PassInv' /\ ListInv' /\ GoneInv'
  BY DEF ClearPass, PositionOK, PassInv, ListInv, GoneInv, ApplySteps, GuardedSteps, TeardownSteps
<1> QED
  BY <1>2, <1>3 DEF PassHolds

\* A pass that has something to report.
LEMMA PassReports ==
    ASSUME IInv, pc \in ApplySteps, NEW reason \in Reasons, StopWith(reason), UNCHANGED tenants
    PROVE  PassHolds'
<1>1. PassOK'
  BY DEF IInv, TypeOK, PassOK, StopWith, Steps, ApplySteps
<1>2. PassInv'
  BY PassFacts DEF IInv, StopWith, PassInv, ApplySteps, GuardedSteps, TeardownSteps
<1>3. PositionOK' /\ ListInv' /\ GoneInv'
  BY DEF StopWith, PositionOK, ListInv, GoneInv
<1> QED
  BY <1>1, <1>2, <1>3 DEF PassHolds

\* Either way a failure ends well.
LEMMA PassFails ==
    ASSUME IInv, pc # "idle", Fail, UNCHANGED tenants
    PROVE  PassHolds'
<1>1. CASE pc \in ApplySteps /\ StopWith(ReasonReconcileError)
  BY <1>1, PassReports DEF Reasons
<1>2. CASE ReturnRetry
  <2>1. queue' \subseteq Tenants /\ delayed' \subseteq Tenants
    BY <1>2, PassFacts DEF ReturnRetry, IInv, TypeOK, PassOK
  <2> QED
    BY <1>2, <2>1, PassEnds DEF ReturnRetry
<1> QED
  BY <1>1, <1>2 DEF Fail, ApplySteps

\* A pass that stands still while the world moves on.
LEMMA PassStays ==
    ASSUME IInv, UNCHANGED passVars,
           queue' \subseteq Tenants, delayed' \subseteq Tenants,
           pc # "idle" => VersionOf(tenants'[cur], snap),
           pc \in TeardownSteps => snap.rv <= tenantView'[cur].rv,
           NothingRevived
    PROVE  PassHolds'
<1>1. PassOK'
  BY DEF IInv, TypeOK, PassOK, passVars
<1>2. PositionOK'
  BY DEF IInv, TypeOK, PositionOK, passVars, Values, Doomed
<1>3. PassInv'
  BY DEF IInv, PassInv, passVars, ApplySteps, GuardedSteps, TeardownSteps
<1>4. ListInv'
  BY DEF IInv, ListInv, passVars
<1>5. GoneInv'
  <2>1. \A k \in DoomedKeys : Gone(k) => Gone(k)'
    BY DEF NothingRevived, Gone
  <2>2. pc # "idle" => Doomed \in Seq(DoomedKeys) /\ DOMAIN Doomed = 1 .. Len(Doomed)
                       /\ Len(Doomed) \in Nat
    BY PassFacts
  <2>3. UNCHANGED <<Doomed, pc, idx, snap>>
    BY DEF passVars, Doomed
  <2>4. ASSUME pc = "delete"
        PROVE  \A j \in 1 .. idx - 1 : Gone(Doomed[j])'
    <3>1. idx \in 1 .. Len(Doomed) + 1
      BY <2>4 DEF IInv, TypeOK, PositionOK
    <3>2. \A j \in 1 .. idx - 1 : Doomed[j] \in DoomedKeys
      BY <2>2, <2>4, <3>1
    <3> QED
      BY <2>1, <2>3, <2>4, <3>2 DEF IInv, GoneInv, Gone
  <2>5. ASSUME pc = "check" \/ (pc = "release" /\ ~snap.spec.preserve)
        PROVE  \A j \in DOMAIN Doomed : Gone(Doomed[j])'
    <3>1. \A j \in DOMAIN Doomed : Doomed[j] \in DoomedKeys
      BY <2>2, <2>5
    <3> QED
      BY <2>1, <2>3, <2>5, <3>1 DEF IInv, GoneInv, Gone
  <2> QED
    BY <2>3, <2>4, <2>5 DEF GoneInv, Gone
<1> QED
  BY <1>1, <1>2, <1>3, <1>4, <1>5 DEF PassHolds

\* A pass that goes on within its branch, at a position its list has.
LEMMA PassGoesOn ==
    ASSUME IInv, pc # "idle",
           \/ pc \in ApplySteps /\ pc' \in ApplySteps
           \/ pc \in TeardownSteps /\ pc' \in TeardownSteps,
           UNCHANGED <<cur, snap, verdict, queue, delayed, tenants, tenantView>>,
           waiting' \in BOOLEAN, PositionOK', ListInv', GoneInv'
    PROVE  PassHolds'
<1>1. pc' \in Steps /\ pc' # "idle" /\ pc' # "finalizer"
  BY DEF ApplySteps, GuardedSteps, TeardownSteps, Steps
<1>2. PassOK'
  BY <1>1 DEF IInv, TypeOK, PassOK
<1>3. PassInv'
  BY <1>1, PassFacts DEF IInv, PassInv, ApplySteps, GuardedSteps, TeardownSteps
<1> QED
  BY <1>2, <1>3 DEF PassHolds

\* The pass returns, with or without a timer.
LEMMA PassReturns ==
    ASSUME IInv, pc # "idle", ReturnRetry \/ ReturnDone
    PROVE  PassHolds'
<1>1. queue' \subseteq Tenants /\ delayed' \subseteq Tenants
  BY PassFacts DEF ReturnRetry, ReturnDone, IInv, TypeOK, PassOK
<1> QED
  BY <1>1, PassEnds DEF ReturnRetry, ReturnDone

\* What a step that leaves the API alone leaves true.
LEMMA APIUnchanged ==
    ASSUME IInv, UNCHANGED <<tenants, tenantView, tenantFeed, objects>>
    PROVE  TenantsOK' /\ CacheInv' /\ ObjectsOK' /\ NothingRevived
BY DEF IInv, TypeOK, TenantsOK, CacheInv, ObjectsOK, NothingRevived

\* The parts make the whole.
LEMMA Whole ==
    ASSUME TenantsOK', CacheInv', ObjectsOK', PassHolds'
    PROVE  IInv'
BY DEF IInv, TypeOK, PassHolds

-------------------------------------------------------------------------------
(***************************************************************************)
(* Every step keeps the invariant: first those that only move the pass.    *)
(***************************************************************************)

\* A pass begins with the cached version, which is of the phase for its branch.
LEMMA FetchKeeps ==
    ASSUME IInv, NEW t \in Tenants, Fetch(t)
    PROVE  IInv'
<1>1. UNCHANGED <<tenants, tenantView, tenantFeed, objects>>
  BY DEF Fetch, FetchNothing, FetchDeleted, FetchLive, Begin, apiVars
<1>2. TenantsOK' /\ CacheInv' /\ ObjectsOK' /\ NothingRevived
  BY <1>1, APIUnchanged
<1>3. queue' \subseteq Tenants /\ delayed' \subseteq Tenants
  BY DEF Fetch, FetchNothing, FetchDeleted, FetchLive, Take, Begin, IInv, TypeOK, PassOK
<1>4. pc = "idle"
  BY DEF Fetch, FetchNothing, FetchDeleted, FetchLive, Take
<1>5. CASE FetchNothing(t)
  <2>1. PassHolds'
    BY <1>2, <1>3, <1>4, <1>5, PassStays DEF FetchNothing, TeardownSteps
  <2> QED
    BY <1>2, <2>1, Whole
<1>6. CASE FetchDeleted(t) \/ FetchLive(t)
  <2>1. /\ tenantView[t] \in TenantVersions
        /\ VersionOf(tenants[t], tenantView[t])
        /\ tenantView[t].rv <= tenantView[t].rv
    BY DEF IInv, TypeOK, TenantsOK, TenantVersions, CacheInv
  <2>2. /\ cur' = t /\ snap' = tenantView[t] /\ idx' = 1
        /\ UNCHANGED <<vals, plan, seen, verdict, waiting>>
    BY <1>4, <1>6 DEF FetchDeleted, FetchLive, Begin, IInv, ListInv
  <2>3. \/ /\ tenantView[t].phase = "terminating"
           /\ \/ pc' = "release" /\ tenantView[t].spec.preserve
              \/ pc' = "delete"
        \/ /\ tenantView[t].phase = "live"
           /\ \/ pc' = "render" /\ tenantView[t].finalizer
              \/ pc' = "finalizer"
    BY <1>6 DEF FetchDeleted, FetchLive, Begin
  <2>4. PassOK'
    BY <1>3, <2>1, <2>2, <2>3 DEF PassOK, Steps, IInv, TypeOK
  <2>5. PassInv'
    BY <1>1, <2>1, <2>2, <2>3 DEF PassInv, ApplySteps, GuardedSteps, TeardownSteps
  <2>6. /\ Len(ValuesRead(tenantView[t].spec)) \in Nat
        /\ Len(Teardown(t, tenantView[t].spec)) \in Nat
    <3>1. tenantView[t].spec \in Specs
      BY <2>1, <2>3 DEF VersionOf
    <3> QED
      BY <3>1, ValuesAreAList, TeardownIsAList, SequenceDomain
  <2>7. PositionOK'
    BY <2>2, <2>3, <2>6 DEF PositionOK, Values, Doomed
  <2>8. ListInv' /\ GoneInv'
    BY <2>2, <2>3 DEF ListInv, GoneInv
  <2> QED
    BY <1>2, <2>4, <2>5, <2>7, <2>8, Whole DEF PassHolds
<1> QED
  BY <1>5, <1>6 DEF Fetch

\* The pass ends, or has something to report, without having written anything.
LEMMA EndingsKeep ==
    ASSUME IInv,
           \/ TenantConflict \/ StatusConflict \/ RejectExtensions
           \/ AllApplied \/ ApplyRefused \/ CallFails
    PROVE  IInv'
<1>1. UNCHANGED <<tenants, tenantView, tenantFeed, objects>>
  BY DEF TenantConflict, StatusConflict, RejectExtensions, AllApplied, ApplyRefused,
         CallFails, apiVars, tenantStore, objectStore, caches
<1>2. TenantsOK' /\ CacheInv' /\ ObjectsOK'
  BY <1>1, APIUnchanged
<1>3. pc # "idle"
  BY DEF TenantConflict, StatusConflict, RejectExtensions, AllApplied, ApplyRefused, CallFails
<1>4. CASE TenantConflict \/ StatusConflict
  BY <1>2, <1>3, <1>4, PassReturns, Whole DEF TenantConflict, StatusConflict
<1>5. CASE RejectExtensions \/ AllApplied
  BY <1>1, <1>2, <1>3, <1>5, PassReports, Whole
     DEF RejectExtensions, AllApplied, Reasons, ApplySteps
<1>6. CASE ApplyRefused \/ CallFails
  BY <1>1, <1>2, <1>3, <1>6, PassFails, Whole DEF ApplyRefused, CallFails
<1> QED
  BY <1>4, <1>5, <1>6

\* Render reads the next value, or has read them all.
LEMMA RenderKeeps ==
    ASSUME IInv, ReadValue \/ Rendered
    PROVE  IInv'
<1>1. UNCHANGED <<tenants, tenantView, tenantFeed, objects>> /\ pc = "render"
  BY DEF ReadValue, Rendered, apiVars
<1>2. TenantsOK' /\ CacheInv' /\ ObjectsOK'
  BY <1>1, APIUnchanged
<1>3. idx \in 1 .. Len(Values) + 1
  BY <1>1 DEF IInv, TypeOK, PositionOK
<1>4. /\ cur \in Tenants /\ snap.spec \in Specs
      /\ Len(Values) \in Nat /\ DOMAIN Values = 1 .. Len(Values)
  BY <1>1, PassFacts
<1>5. CASE ReadValue /\ StopWith(ReasonReconcileError)
  BY <1>1, <1>2, <1>5, PassReports, Whole DEF Reasons, ApplySteps
<1>6. CASE ReadValue /\ ~StopWith(ReasonReconcileError)
  <2>1. /\ idx' = idx + 1 /\ pc' = "render" /\ idx \in DOMAIN Values
        /\ UNCHANGED <<cur, snap, plan, seen, verdict, waiting, queue, delayed>>
    BY <1>1, <1>6 DEF ReadValue
  <2>2. PositionOK'
    BY <1>3, <1>4, <2>1 DEF PositionOK, Values
  <2>3. ListInv' /\ GoneInv' /\ waiting' \in BOOLEAN
    BY <2>1 DEF ListInv, GoneInv, IInv, TypeOK, PassOK
  <2>4. PassHolds'
    BY <1>1, <2>1, <2>2, <2>3, PassGoesOn DEF ApplySteps, GuardedSteps
  <2> QED
    BY <1>2, <2>4, Whole
<1>7. CASE Rendered
  <2>1. /\ idx' = 1 /\ pc' = "get" /\ plan' = Objects(cur, snap.spec, vals)
        /\ UNCHANGED <<cur, snap, seen, verdict, waiting, queue, delayed>>
    BY <1>7 DEF Rendered
  <2>2. IsSequence(plan') /\ Len(plan') \in Nat
    BY <1>4, <2>1, ObjectsOfTenant, SequenceDomain
  <2>3. PositionOK'
    BY <2>1, <2>2 DEF PositionOK
  <2>4. ListInv' /\ GoneInv' /\ waiting' \in BOOLEAN
    BY <2>1, <2>2 DEF ListInv, GoneInv, IInv, TypeOK, PassOK
  <2>5. PassHolds'
    BY <1>1, <2>1, <2>3, <2>4, PassGoesOn DEF ApplySteps, GuardedSteps
  <2> QED
    BY <1>2, <2>5, Whole
<1> QED
  BY <1>5, <1>6, <1>7

\* Apply moves along the plan.
LEMMA ApplyMoves ==
    ASSUME IInv, pc \in {"get", "create", "update"},
           UNCHANGED <<cur, snap, plan, verdict, waiting, queue, delayed, tenants, tenantView>>,
           \/ pc' = "get" /\ idx' = idx + 1 /\ idx \in DOMAIN plan
           \/ pc' \in {"create", "update"} /\ idx' = idx /\ idx \in DOMAIN plan
    PROVE  PassHolds'
<1>1. IsSequence(plan) /\ Len(plan) \in Nat /\ DOMAIN plan = 1 .. Len(plan)
  BY SequenceDomain DEF IInv, ListInv
<1>2. PositionOK'
  BY <1>1 DEF PositionOK
<1>3. ListInv' /\ GoneInv' /\ waiting' \in BOOLEAN
  BY <1>1 DEF ListInv, GoneInv, IInv, TypeOK, PassOK
<1> QED
  BY <1>2, <1>3, PassGoesOn DEF ApplySteps, GuardedSteps

LEMMA GetKeeps ==
    ASSUME IInv, GetObject
    PROVE  IInv'
<1>1. /\ UNCHANGED <<tenants, tenantView, tenantFeed, objects>>
      /\ pc = "get" /\ idx \in DOMAIN plan
  BY DEF GetObject, apiVars
<1>2. TenantsOK' /\ CacheInv' /\ ObjectsOK'
  BY <1>1, APIUnchanged
<1>3. PICK k : Skip(k) \/ FindNothing(k) \/ LeaveNamespace(k) \/ FindVersion(k)
  BY DEF GetObject
<1>4. /\ UNCHANGED <<cur, snap, plan, verdict, waiting, queue, delayed>>
      /\ \/ pc' = "get" /\ idx' = idx + 1
         \/ pc' \in {"create", "update"} /\ idx' = idx
  BY <1>3 DEF Skip, FindNothing, LeaveNamespace, FindVersion, Continue
<1>5. PassHolds'
  BY <1>1, <1>4, ApplyMoves
<1> QED
  BY <1>2, <1>5, Whole

LEMMA ApplyKeeps ==
    ASSUME IInv, NEW lost \in BOOLEAN, CreateObject(lost) \/ UpdateObject(lost)
    PROVE  IInv'
<1>1. /\ UNCHANGED <<tenants, tenantView, tenantFeed>>
      /\ pc \in {"create", "update"}
  BY DEF CreateObject, UpdateObject, tenantStore, caches
<1>2. TenantsOK' /\ CacheInv'
  BY <1>1 DEF IInv, TypeOK, TenantsOK, CacheInv
<1>3. ObjectsOK'
  <2>1. ObjectsOK
    BY DEF IInv, TypeOK
  <2>2. \/ UNCHANGED objects
        \/ PutObject(Target.key, "live", Target.data)
    BY DEF CreateObject, UpdateObject, ReplaceObject
  <2>3. "live" \in Phases
    BY DEF Phases
  <2>4. CASE UNCHANGED objects
    BY <2>1, <2>4 DEF ObjectsOK
  <2>5. CASE PutObject(Target.key, "live", Target.data)
    BY <2>1, <2>3, <2>5, PutObjectEffect
  <2> QED
    BY <2>2, <2>4, <2>5
<1>4. idx \in DOMAIN plan
  BY <1>1 DEF IInv, TypeOK, PositionOK
<1>5. PassHolds'
  <2>1. Fail \/ Continue("get")
    BY DEF CreateObject, UpdateObject
  <2>2. CASE Fail
    BY <1>1, <2>2, PassFails
  <2>3. CASE Continue("get")
    BY <1>1, <1>4, <2>3, ApplyMoves DEF Continue
  <2> QED
    BY <2>1, <2>2, <2>3
<1> QED
  BY <1>2, <1>3, <1>5, Whole

-------------------------------------------------------------------------------
(***************************************************************************)
(* The teardown.                                                           *)
(***************************************************************************)

\* What has been deleted stays deleted, as no step brings a child of a tenant
\* under deletion back.
LEMMA DeleteKeeps ==
    ASSUME IInv, NEW lost \in BOOLEAN, DeleteNext(lost)
    PROVE  IInv'
<1> DEFINE k == Doomed[idx]
<1>1. /\ UNCHANGED <<tenants, tenantView, tenantFeed>>
      /\ pc = "delete" /\ idx \in DOMAIN Doomed
  BY DEF DeleteNext, tenantStore, caches
<1>2. TenantsOK' /\ CacheInv'
  BY <1>1 DEF IInv, TypeOK, TenantsOK, CacheInv
<1>3. /\ Doomed \in Seq(DoomedKeys)
      /\ Len(Doomed) \in Nat /\ DOMAIN Doomed = 1 .. Len(Doomed)
      /\ idx \in 1 .. Len(Doomed)
      /\ \A j \in DOMAIN Doomed : Doomed[j] \in DoomedKeys
  BY <1>1, PassFacts
<1>4. ObjectsOK
  BY DEF IInv, TypeOK
<1>5. ObjectsOK' /\ NothingRevived /\ (k = NoKey \/ objects'[k].phase # "live")
  <2>1. CASE k # NoKey /\ Present(k)
    <3>1. DeleteObject(k)
      BY <2>1 DEF DeleteNext
    <3>2. k \in DoomedKeys \ {NoKey}
      BY <1>1, <1>3, <2>1
    <3>3. k \in Keys
      BY <3>2, DoomedKeysAreKeys
    <3> HIDE DEF k
    <3>4. /\ ObjectsOK' /\ objects'[k].phase # "live"
          /\ \A c \in Keys \ {k} : objects'[c] = objects[c]
      BY <1>4, <3>1, <3>3, DeleteObjectEffect
    <3> QED
      BY <3>4, DoomedKeysAreKeys DEF NothingRevived
  <2>2. CASE ~(k # NoKey /\ Present(k))
    <3>1. UNCHANGED objects
      BY <2>2 DEF DeleteNext, objectStore
    <3>2. k = NoKey \/ objects[k].phase = "absent"
      BY <2>2 DEF Present
    <3> HIDE DEF k
    <3> QED
      BY <1>4, <3>1, <3>2 DEF ObjectsOK, NothingRevived
  <2> QED
    BY <2>1, <2>2
<1>6. PassHolds'
  <2>1. Fail \/ Continue("delete")
    BY DEF DeleteNext
  <2>2. CASE Fail
    BY <1>1, <2>2, PassFails
  <2>3. CASE Continue("delete")
    <3>1. /\ idx' = idx + 1 /\ pc' = "delete"
          /\ UNCHANGED <<cur, snap, plan, verdict, waiting, queue, delayed, Doomed>>
      BY <2>3 DEF Continue, Doomed
    <3>2. PositionOK' /\ ListInv' /\ waiting' \in BOOLEAN
      BY <1>3, <3>1 DEF PositionOK, ListInv, IInv, TypeOK, PassOK
    <3>3. \A j \in 1 .. idx - 1 : Gone(Doomed[j])'
      <4>1. \A j \in 1 .. idx - 1 : Gone(Doomed[j]) /\ Doomed[j] \in DoomedKeys
        BY <1>1, <1>3 DEF IInv, GoneInv
      <4> QED
        BY <1>5, <3>1, <4>1 DEF NothingRevived, Gone
    <3>4. GoneInv'
      <4> SUFFICES ASSUME NEW j \in 1 .. idx
                   PROVE  Gone(Doomed[j])'
        BY <1>3, <3>1 DEF GoneInv
      <4>1. j = idx \/ j \in 1 .. idx - 1
        BY <1>3
      <4> QED
        BY <1>5, <3>1, <3>3, <4>1 DEF Gone
    <3> QED
      BY <1>1, <3>1, <3>2, <3>4, PassGoesOn DEF TeardownSteps
  <2> QED
    BY <2>1, <2>2, <2>3
<1> QED
  BY <1>2, <1>5, <1>6, Whole

\* remainingResources changes nothing.
LEMMA CheckKeeps ==
    ASSUME IInv, AllDeleted \/ CheckNext \/ AllChecked
    PROVE  IInv'
<1>1. UNCHANGED <<tenants, tenantView, tenantFeed, objects>> /\ pc \in {"delete", "check"}
  BY DEF AllDeleted, CheckNext, AllChecked, apiVars
<1>2. TenantsOK' /\ CacheInv' /\ ObjectsOK'
  BY <1>1, APIUnchanged
<1>3. /\ Len(Doomed) \in Nat /\ DOMAIN Doomed = 1 .. Len(Doomed)
      /\ idx \in 1 .. Len(Doomed) + 1
      /\ waiting \in BOOLEAN
  BY <1>1, PassFacts DEF IInv, TypeOK, PositionOK, PassOK
<1>4. CASE ReturnRetry
  BY <1>1, <1>2, <1>4, PassReturns, Whole
<1>5. CASE ~ReturnRetry
  <2>1. /\ UNCHANGED <<cur, snap, plan, verdict, queue, delayed, Doomed>>
        /\ waiting' \in BOOLEAN
        /\ \/ pc = "delete" /\ pc' = "check" /\ idx' = 1 /\ idx \notin DOMAIN Doomed
           \/ pc = "check" /\ pc' = "check" /\ idx' = idx + 1 /\ idx \in DOMAIN Doomed
           \/ pc = "check" /\ pc' = "release"
    BY <1>3, <1>5 DEF AllDeleted, CheckNext, AllChecked, Goto, Doomed, StillThere
  <2>2. PositionOK' /\ ListInv'
    BY <1>3, <2>1 DEF PositionOK, ListInv
  <2>3. \A j \in DOMAIN Doomed : Gone(Doomed[j])
    BY <1>3, <2>1 DEF IInv, GoneInv
  <2>4. \A j \in DOMAIN Doomed : Gone(Doomed[j])'
    BY <1>1, <2>1, <2>3 DEF Gone
  <2>5. GoneInv'
    BY <2>1, <2>4 DEF GoneInv
  <2> QED
    BY <1>1, <1>2, <2>1, <2>2, <2>5, PassGoesOn, Whole DEF TeardownSteps
<1> QED
  BY <1>4, <1>5

-------------------------------------------------------------------------------
(***************************************************************************)
(* The writes of Tenants.                                                  *)
(***************************************************************************)

\* A write that takes no finalizer away leaves every version a version.
LEMMA PutTenantKeepsVersions ==
    ASSUME TenantsOK, CacheInv,
           NEW t \in Tenants, NEW tenant \in TenantVersions,
           tenant.phase # "absent" => tenant.spec \in Specs,
           HoldsFinalizer(tenants[t]) => HoldsFinalizer(tenant),
           PutTenant(t, tenant), UNCHANGED tenantView
    PROVE  /\ TenantsOK' /\ CacheInv'
           /\ tenants'[t] = NextVersion(t, tenant)
           /\ \A s \in Tenants \ {t} : tenants'[s] = tenants[s]
           /\ \A s \in Tenants, v \in TenantVersions :
                 VersionOf(tenants[s], v) => VersionOf(tenants'[s], v)
<1>1. \A v \in TenantVersions :
         /\ VersionOf(tenants[t], v) /\ tenantView[t].rv <= v.rv
         /\ v.phase = "live" /\ v.finalizer
         => HoldsFinalizer(tenant)
  BY Zenon DEF VersionOf
<1>2. /\ TenantsOK' /\ CacheInv'
      /\ tenants'[t] = NextVersion(t, tenant)
      /\ \A s \in Tenants \ {t} : tenants'[s] = tenants[s]
  BY <1>1, PutTenantKeepsCache
<1>3. /\ tenants'[t].rv = tenants[t].rv + 1
      /\ HoldsFinalizer(tenant) => HoldsFinalizer(tenants'[t])
  <2>1. tenants'[t] = [tenant EXCEPT !.rv = tenants[t].rv + 1]
    BY <1>2 DEF NextVersion
  <2>2. tenants[t].rv + 1 \in Nat
    BY DEF TenantsOK, TenantVersions
  <2>3. /\ tenants'[t].rv = tenants[t].rv + 1
        /\ tenants'[t].phase = tenant.phase
        /\ tenants'[t].finalizer = tenant.finalizer
    BY <2>1, <2>2 DEF TenantVersions
  <2> QED
    BY <2>3, Zenon DEF HoldsFinalizer
<1>4. ASSUME NEW v \in TenantVersions, VersionOf(tenants[t], v)
      PROVE  VersionOf(tenants'[t], v)
  <2>1. v.phase = "live" /\ v.finalizer => HoldsFinalizer(tenants'[t])
    BY <1>3, <1>4, Zenon DEF VersionOf
  <2>2. tenants[t] \in TenantVersions /\ tenants'[t] \in TenantVersions
    BY <1>2 DEF TenantsOK
  <2> QED
    BY <1>3, <1>4, <2>1, <2>2, StaysAVersion
<1> QED
  BY <1>2, <1>4

\* What the pass writes at the current version, it changed in the stored Tenant.
LEMMA CurrentIsStored ==
    ASSUME IInv, pc # "idle", Current
    PROVE  snap = tenants[cur]
BY PassFacts DEF Current, VersionOf

\* The finalizer is added to a Tenant that is not being deleted.
LEMMA AddFinalizerKeeps ==
    ASSUME IInv, NEW lost \in BOOLEAN, AddFinalizer(lost)
    PROVE  IInv' /\ \A t \in Tenants : tenants'[t].phase = tenants[t].phase
<1> DEFINE tenant == [snap EXCEPT !.finalizer = TRUE]
<1>1. /\ pc = "finalizer" /\ PutTenant(cur, tenant)
      /\ UNCHANGED <<tenantView, objects>>
  BY DEF AddFinalizer, caches, objectStore
<1>2. /\ cur \in Tenants /\ snap \in TenantVersions /\ snap.spec \in Specs
      /\ snap = tenants[cur] /\ snap.phase = "live" /\ idx = 1
      /\ TenantsOK /\ CacheInv
  BY <1>1, PassFacts, CurrentIsStored DEF AddFinalizer, IInv, PassInv, ListInv, TypeOK
<1>3. /\ tenant \in TenantVersions
      /\ tenant.phase = "live" /\ tenant.spec = snap.spec /\ tenant.finalizer = TRUE
  BY <1>2 DEF TenantVersions
<1>4. HoldsFinalizer(tenant)
  BY <1>3 DEF HoldsFinalizer
<1> HIDE DEF tenant
<1>5. /\ TenantsOK' /\ CacheInv'
      /\ tenants'[cur] = NextVersion(cur, tenant)
      /\ \A s \in Tenants \ {cur} : tenants'[s] = tenants[s]
  BY <1>1, <1>2, <1>3, <1>4, PutTenantKeepsVersions
<1>6. ObjectsOK'
  BY <1>1 DEF IInv, TypeOK, ObjectsOK
<1>7. /\ tenants'[cur].phase = "live" /\ tenants'[cur].finalizer = TRUE
      /\ tenants'[cur].spec \in Specs
      /\ tenants'[cur] \in TenantVersions
  BY <1>2, <1>3, <1>5 DEF NextVersion, TenantVersions, TenantsOK
<1>8. PassHolds'
  <2>1. CASE ReturnRetry
    BY <1>1, <2>1, PassReturns
  <2>2. CASE ~ReturnRetry
    <3>1. /\ pc' = "render" /\ snap' = tenants'[cur]
          /\ UNCHANGED <<cur, idx, vals, plan, seen, verdict, waiting, queue, delayed>>
      BY <1>5, <2>2 DEF AddFinalizer, tenant
    <3>2. PassOK'
      BY <1>1, <1>2, <1>7, <3>1 DEF IInv, TypeOK, PassOK, Steps
    <3>3. VersionOf(tenants'[cur], tenants'[cur])
      BY <1>2, <1>5 DEF CacheInv
    <3>4. PassInv'
      BY <1>7, <3>1, <3>3 DEF PassInv, ApplySteps, GuardedSteps, TeardownSteps
    <3>5. Len(ValuesRead(tenants'[cur].spec)) \in Nat
      BY <1>7, ValuesAreAList, SequenceDomain
    <3>6. PositionOK'
      BY <1>2, <3>1, <3>5 DEF PositionOK, Values
    <3>7. ListInv' /\ GoneInv'
      BY <3>1 DEF ListInv, GoneInv
    <3> QED
      BY <3>2, <3>4, <3>6, <3>7 DEF PassHolds
  <2> QED
    BY <2>1, <2>2
<1>9. \A t \in Tenants : tenants'[t].phase = tenants[t].phase
  BY <1>2, <1>5, <1>7
<1> QED
  BY <1>5, <1>6, <1>8, <1>9, Whole

\* The status is all that setStatus changes.
LEMMA WriteStatusKeeps ==
    ASSUME IInv, NEW lost \in BOOLEAN, WriteStatus(lost)
    PROVE  IInv' /\ \A t \in Tenants : tenants'[t].phase = tenants[t].phase
<1>1. /\ pc = "status" /\ ReturnRetry
      /\ UNCHANGED <<tenantView, objects>>
      /\ UNCHANGED <<tenants, tenantFeed>> \/ PutTenant(cur, Reported)
  BY DEF WriteStatus, tenantStore, caches, objectStore
<1>2. PassHolds'
  BY <1>1, PassReturns
<1>3. ObjectsOK'
  BY <1>1 DEF IInv, TypeOK, ObjectsOK
<1>4. CASE UNCHANGED <<tenants, tenantFeed>>
  BY <1>1, <1>2, <1>4, APIUnchanged, Whole
<1>5. CASE PutTenant(cur, Reported)
  <2>1. /\ cur \in Tenants /\ snap \in TenantVersions /\ snap.spec \in Specs
        /\ snap = tenants[cur] /\ verdict \in Reasons
        /\ TenantsOK /\ CacheInv
    BY <1>1, PassFacts, CurrentIsStored DEF WriteStatus, IInv, TypeOK, PassOK
  <2>2. /\ Reported \in TenantVersions
        /\ Reported.phase = snap.phase /\ Reported.spec = snap.spec
        /\ Reported.finalizer = snap.finalizer
    BY <2>1 DEF Reported, TenantVersions
  <2>3. HoldsFinalizer(tenants[cur]) => HoldsFinalizer(Reported)
    BY <2>1, <2>2, Zenon DEF HoldsFinalizer
  <2>4. /\ TenantsOK' /\ CacheInv'
        /\ tenants'[cur] = NextVersion(cur, Reported)
        /\ \A s \in Tenants \ {cur} : tenants'[s] = tenants[s]
    BY <1>1, <1>5, <2>1, <2>2, <2>3, PutTenantKeepsVersions
  <2>5. NextVersion(cur, Reported).phase = Reported.phase
    BY <2>2 DEF NextVersion, TenantVersions
  <2> QED
    BY <1>2, <1>3, <2>1, <2>2, <2>4, <2>5, Whole
<1> QED
  BY <1>1, <1>4, <1>5

\* When the finalizer goes, the cache already shows the Tenant being deleted.
LEMMA ReleaseKeeps ==
    ASSUME IInv, NEW lost \in BOOLEAN, Release(lost)
    PROVE  /\ IInv' /\ cur \in Tenants /\ snap = tenants[cur]
           /\ \A t \in Tenants \ {cur} : tenants'[t] = tenants[t]
<1>1. /\ pc = "release" /\ PutTenant(cur, NoTenant(0))
      /\ ReturnRetry \/ ReturnDone
      /\ UNCHANGED <<tenantView, objects>>
  BY DEF Release, caches, objectStore
<1>2. PassHolds'
  BY <1>1, PassReturns
<1>3. ObjectsOK'
  BY <1>1 DEF IInv, TypeOK, ObjectsOK
<1>4. /\ cur \in Tenants /\ snap = tenants[cur]
      /\ snap.phase = "terminating" /\ snap.rv <= tenantView[cur].rv
      /\ TenantsOK /\ CacheInv
  BY <1>1, PassFacts, CurrentIsStored DEF Release, IInv, TypeOK, PassInv, TeardownSteps
<1>5. NoTenant(0) \in TenantVersions /\ NoTenant(0).phase = "absent"
  BY DEF NoTenant, TenantVersions, Phases, Reasons
<1>6. \A v \in TenantVersions :
         VersionOf(tenants[cur], v) /\ tenantView[cur].rv <= v.rv => v.phase # "live"
  <2>1. tenants[cur].rv \in Nat /\ tenantView[cur].rv \in Nat
    BY <1>4 DEF TenantsOK, TenantVersions
  <2> QED
    BY <1>4, <2>1 DEF VersionOf, TenantVersions
<1>7. /\ TenantsOK' /\ CacheInv'
      /\ \A s \in Tenants \ {cur} : tenants'[s] = tenants[s]
  BY <1>1, <1>4, <1>5, <1>6, PutTenantKeepsCache
<1> QED
  BY <1>2, <1>3, <1>4, <1>7, Whole

\* Users write Tenants too, and take no finalizer away.
LEMMA UserStepKeepsTenants ==
    ASSUME TenantsOK, CacheInv, UserStep
    PROVE  /\ TenantsOK' /\ CacheInv' /\ UNCHANGED tenantView
           /\ \A s \in Tenants, v \in TenantVersions :
                 VersionOf(tenants[s], v) => VersionOf(tenants'[s], v)
           /\ \A s \in Tenants :
                 tenants[s].phase = "terminating" => tenants'[s].phase = "terminating"
<1> DEFINE Goal(t, tenant) ==
             /\ tenant \in TenantVersions
             /\ tenant.phase # "absent" => tenant.spec \in Specs
             /\ HoldsFinalizer(tenants[t]) => HoldsFinalizer(tenant)
             /\ tenants[t].phase = "terminating" => tenant.phase = "terminating"
             /\ PutTenant(t, tenant) /\ UNCHANGED tenantView
<1>1. ASSUME NEW t \in Tenants, NEW tenant, Goal(t, tenant)
      PROVE  /\ TenantsOK' /\ CacheInv'
             /\ \A s \in Tenants, v \in TenantVersions :
                   VersionOf(tenants[s], v) => VersionOf(tenants'[s], v)
             /\ \A s \in Tenants :
                   tenants[s].phase = "terminating" => tenants'[s].phase = "terminating"
  <2>1. /\ TenantsOK' /\ CacheInv'
        /\ tenants'[t] = NextVersion(t, tenant)
        /\ \A s \in Tenants \ {t} : tenants'[s] = tenants[s]
        /\ \A s \in Tenants, v \in TenantVersions :
              VersionOf(tenants[s], v) => VersionOf(tenants'[s], v)
    BY <1>1, PutTenantKeepsVersions
  <2>2. NextVersion(t, tenant).phase = tenant.phase
    BY <1>1 DEF NextVersion, TenantVersions
  <2> QED
    BY <1>1, <2>1, <2>2
<1>0. \A t \in Tenants : tenants[t] \in TenantVersions /\ tenants[t].gen + 1 \in Nat
  BY DEF TenantsOK, TenantVersions
<1> USE DEF Goal
<1>2. ASSUME NEW t \in Tenants, NEW spec \in Specs, CreateTenant(t, spec)
      PROVE  \E tenant : Goal(t, tenant)
  <2> DEFINE tenant == [NoTenant(0) EXCEPT !.phase = "live", !.gen = 1, !.spec = spec]
  <2>1. tenant \in TenantVersions /\ tenant.spec = spec
    BY DEF NoTenant, TenantVersions, Phases, Reasons
  <2>2. ~HoldsFinalizer(tenants[t]) /\ tenants[t].phase # "terminating"
        /\ PutTenant(t, tenant) /\ UNCHANGED tenantView
    BY <1>2 DEF CreateTenant, HoldsFinalizer
  <2> HIDE DEF tenant
  <2> QED
    BY <2>1, <2>2
<1>3. ASSUME NEW t \in Tenants, NEW spec \in Specs, EditTenant(t, spec)
      PROVE  \E tenant : Goal(t, tenant)
  <2> DEFINE tenant == [tenants[t] EXCEPT !.gen = tenants[t].gen + 1, !.spec = spec]
  <2>1. /\ tenant \in TenantVersions /\ tenant.spec = spec
        /\ tenant.phase = tenants[t].phase /\ tenant.finalizer = tenants[t].finalizer
    BY <1>0 DEF TenantVersions
  <2>2. PutTenant(t, tenant) /\ UNCHANGED tenantView
    BY <1>3 DEF EditTenant
  <2> HIDE DEF tenant
  <2>3. HoldsFinalizer(tenants[t]) => HoldsFinalizer(tenant)
    BY <2>1, Zenon DEF HoldsFinalizer
  <2> QED
    BY <2>1, <2>2, <2>3
<1>4. ASSUME NEW t \in Tenants, DeleteTenant(t)
      PROVE  \E tenant : Goal(t, tenant)
  <2>1. tenants[t].phase = "live" /\ UNCHANGED tenantView
    BY <1>4 DEF DeleteTenant
  <2>2. CASE tenants[t].finalizer
    <3> DEFINE tenant == [tenants[t] EXCEPT !.phase = "terminating", !.gen = tenants[t].gen + 1]
    <3>1. /\ tenant \in TenantVersions /\ tenant.spec = tenants[t].spec
          /\ tenant.phase = "terminating" /\ tenant.finalizer = tenants[t].finalizer
      BY <1>0 DEF TenantVersions, Phases
    <3>2. PutTenant(t, tenant)
      BY <1>4, <2>2 DEF DeleteTenant
    <3> HIDE DEF tenant
    <3>3. HoldsFinalizer(tenant)
      BY <2>2, <3>1, Zenon DEF HoldsFinalizer
    <3>4. tenant.spec \in Specs
      BY <2>1, <3>1 DEF CacheInv, VersionOf
    <3> QED
      BY <2>1, <3>1, <3>2, <3>3, <3>4
  <2>3. CASE ~tenants[t].finalizer
    <3>1. NoTenant(0) \in TenantVersions /\ NoTenant(0).phase = "absent"
      BY DEF NoTenant, TenantVersions, Phases, Reasons
    <3>2. ~HoldsFinalizer(tenants[t]) /\ PutTenant(t, NoTenant(0))
      BY <1>4, <2>3 DEF DeleteTenant, HoldsFinalizer
    <3> QED
      BY <2>1, <3>1, <3>2
  <2> QED
    BY <2>2, <2>3
<1>5. \/ \E t \in Tenants : \E tenant : Goal(t, tenant)
      \/ UNCHANGED <<tenants, tenantView, tenantFeed>>
  BY <1>2, <1>3, <1>4 DEF UserStep, WriteSource, DeleteSource, DeleteChild, OverwriteChild
<1> HIDE DEF Goal
<1>6. CASE \E t \in Tenants : \E tenant : Goal(t, tenant)
  BY <1>1, <1>6 DEF Goal
<1>7. CASE UNCHANGED <<tenants, tenantView, tenantFeed>>
  BY <1>7 DEF TenantsOK, CacheInv
<1> QED
  BY <1>5, <1>6, <1>7

-------------------------------------------------------------------------------
(***************************************************************************)
(* The world around the pass.                                              *)
(***************************************************************************)

LEMMA WorldKeeps ==
    ASSUME IInv,
           \/ \E t \in Tenants : DeliverTenant(t) \/ TimerFires(t)
           \/ \E kind \in CachedKinds : Inform(kind)
           \/ Users \/ Cluster \/ Restart \/ UNCHANGED vars
    PROVE  /\ IInv'
           /\ \A s \in Tenants :
                 tenants[s].phase = "terminating" => tenants'[s].phase = "terminating"
<1> USE DEF IInv, TypeOK
<1>1. /\ queue \subseteq Tenants /\ delayed \subseteq Tenants
      /\ pc # "idle" => /\ cur \in Tenants /\ snap \in TenantVersions
                        /\ VersionOf(tenants[cur], snap)
      /\ pc \in TeardownSteps => /\ pc # "idle" /\ snap.rv <= tenantView[cur].rv
                                 /\ snap.rv \in Nat
  BY PassFacts DEF PassOK, PassInv, TeardownSteps, TenantVersions
<1>2. ASSUME NEW t \in Tenants, DeliverTenant(t)
      PROVE  IInv' /\ UNCHANGED tenants
  <2>1. /\ UNCHANGED <<tenants, objects, passVars>>
        /\ queue' \subseteq Tenants /\ delayed' \subseteq Tenants
    BY <1>1, <1>2 DEF DeliverTenant
  <2>2. /\ TenantsOK' /\ CacheInv'
        /\ \A s \in Tenants : tenantView[s].rv <= tenantView'[s].rv
    BY <1>2, DeliverTenantKeepsCache
  <2>3. pc \in TeardownSteps => snap.rv <= tenantView'[cur].rv
    <3>1. \A s \in Tenants : tenantView[s].rv \in Nat /\ tenantView'[s].rv \in Nat
      BY <2>2 DEF TenantsOK, TenantVersions
    <3> QED
      BY <1>1, <2>2, <3>1
  <2>4. ObjectsOK' /\ NothingRevived
    BY <2>1 DEF ObjectsOK, NothingRevived
  <2>5. PassHolds'
    BY <1>1, <2>1, <2>3, <2>4, PassStays
  <2> QED
    BY <2>1, <2>2, <2>4, <2>5, Whole
<1>3. ASSUME \/ \E t \in Tenants : TimerFires(t)
             \/ \E kind \in CachedKinds : Inform(kind)
             \/ UNCHANGED vars
      PROVE  IInv' /\ UNCHANGED tenants
  <2>1. /\ UNCHANGED <<tenants, tenantView, tenantFeed, objects, passVars>>
        /\ queue' \subseteq Tenants /\ delayed' \subseteq Tenants
    BY <1>1, <1>3 DEF TimerFires, Inform, StartInformer, DeliverObject, PassStandsStill,
                      apiVars, vars
  <2>2. TenantsOK' /\ CacheInv' /\ ObjectsOK' /\ NothingRevived
    BY <2>1, APIUnchanged
  <2>3. PassHolds'
    BY <1>1, <2>1, <2>2, PassStays
  <2> QED
    BY <2>1, <2>2, <2>3, Whole
<1>4. ASSUME Users
      PROVE  /\ IInv'
             /\ \A s \in Tenants :
                   tenants[s].phase = "terminating" => tenants'[s].phase = "terminating"
  <2>1. UserStep /\ UNCHANGED <<queue, delayed, passVars>>
    BY <1>4 DEF Users, PassStandsStill
  <2>2. ObjectsOK' /\ NothingRevived
    BY <2>1, UserStepRevivesNothing
  <2>3. /\ TenantsOK' /\ CacheInv' /\ UNCHANGED tenantView
        /\ \A s \in Tenants, v \in TenantVersions :
              VersionOf(tenants[s], v) => VersionOf(tenants'[s], v)
        /\ \A s \in Tenants :
              tenants[s].phase = "terminating" => tenants'[s].phase = "terminating"
    BY <2>1, UserStepKeepsTenants
  <2>4. PassHolds'
    BY <1>1, <2>1, <2>2, <2>3, PassStays
  <2> QED
    BY <2>2, <2>3, <2>4, Whole
<1>5. ASSUME Cluster
      PROVE  IInv' /\ UNCHANGED tenants
  <2>1. /\ ClusterStep /\ UNCHANGED <<queue, delayed, passVars>>
        /\ UNCHANGED <<tenants, tenantView, tenantFeed>>
    BY <1>5 DEF Cluster, PassStandsStill, ClusterStep, CreateDefaultSA, PurgeContent,
                FinishDeletion
  <2>2. ObjectsOK' /\ NothingRevived
    BY <2>1, ClusterStepRevivesNothing
  <2>3. TenantsOK' /\ CacheInv'
    BY <2>1 DEF TenantsOK, CacheInv
  <2>4. PassHolds'
    BY <1>1, <2>1, <2>2, PassStays
  <2> QED
    BY <2>1, <2>2, <2>3, <2>4, Whole
<1>6. ASSUME Restart
      PROVE  IInv' /\ UNCHANGED tenants
  <2>1. TenantsOK' /\ CacheInv'
    BY <1>6, RelistKeepsCache DEF Restart
  <2>2. ObjectsOK' /\ UNCHANGED tenants
    BY <1>6 DEF Restart, Relist, ObjectsOK
  <2>3. PassHolds'
    BY <1>6, PassEnds DEF Restart
  <2> QED
    BY <2>1, <2>2, <2>3, Whole
<1> QED
  BY <1>2, <1>3, <1>4, <1>5, <1>6

-------------------------------------------------------------------------------
(***************************************************************************)
(* The theorems.                                                           *)
(***************************************************************************)

LEMMA InitEstablishes == Init => IInv
<1> SUFFICES ASSUME Init
             PROVE  IInv
  OBVIOUS
<1>1. NoTenant(0) \in TenantVersions /\ NoTenant(0).phase = "absent"
  BY DEF NoTenant, TenantVersions, Phases, Reasons
<1>2. /\ tenants = [t \in Tenants |-> NoTenant(0)]
      /\ tenantView = tenants
      /\ tenantFeed = [t \in Tenants |-> <<>>]
  BY DEF Init, APIInit
<1>3. TenantsOK
  BY <1>1, <1>2 DEF TenantsOK
<1>4. VersionOf(NoTenant(0), NoTenant(0))
  BY <1>1 DEF VersionOf, TenantVersions
<1>5. CacheInv
  BY <1>2, <1>4 DEF CacheInv
<1>6. ObjectsOK
  <2>1. PICK source \in [Sources -> Contents] :
           objects = [k \in Keys |->
                         IF k \in Sources
                         THEN [phase |-> "live", rv |-> 0, data |-> source[k]]
                         ELSE UnknownObject]
    BY DEF Init, APIInit
  <2> QED
    BY <2>1 DEF ObjectsOK, UnknownObject, Phases
<1>7. PassOK /\ PositionOK
  BY <1>1 DEF Init, PassOK, PositionOK, NoSnap, Steps, Reasons
<1>8. PassInv /\ ListInv /\ GoneInv
  BY DEF Init, PassInv, ListInv, GoneInv, ApplySteps, GuardedSteps, TeardownSteps
<1> QED
  BY <1>3, <1>5, <1>6, <1>7, <1>8 DEF IInv, TypeOK

\* Every step keeps the invariant; and a Tenant that is being deleted is taken
\* away by Release only.
LEMMA NextKeeps ==
    ASSUME IInv, [Next]_vars
    PROVE  /\ IInv'
           /\ \/ \A t \in Tenants :
                    tenants[t].phase = "terminating" => tenants'[t].phase = "terminating"
              \/ \E lost \in BOOLEAN : Release(lost)
<1> DEFINE Stay == \A t \in Tenants :
                      tenants[t].phase = "terminating" => tenants'[t].phase = "terminating"
<1>1. ASSUME NEW t \in Tenants, Fetch(t)
      PROVE  IInv' /\ Stay
  BY <1>1, FetchKeeps DEF Fetch, FetchNothing, FetchDeleted, FetchLive, Begin, apiVars
<1>2. CASE \/ TenantConflict \/ StatusConflict \/ RejectExtensions
           \/ AllApplied \/ ApplyRefused \/ CallFails
  BY <1>2, EndingsKeep
     DEF TenantConflict, StatusConflict, RejectExtensions, AllApplied, ApplyRefused,
         CallFails, apiVars, tenantStore
<1>3. CASE ReadValue \/ Rendered
  BY <1>3, RenderKeeps DEF ReadValue, Rendered, apiVars
<1>4. CASE GetObject
  BY <1>4, GetKeeps DEF GetObject, apiVars
<1>5. CASE AllDeleted \/ CheckNext \/ AllChecked
  BY <1>5, CheckKeeps DEF AllDeleted, CheckNext, AllChecked, apiVars
<1>6. ASSUME NEW lost \in BOOLEAN, Write(lost)
      PROVE  IInv' /\ (Stay \/ Release(lost))
  <2>1. CASE CreateObject(lost) \/ UpdateObject(lost)
    BY <2>1, ApplyKeeps DEF CreateObject, UpdateObject, tenantStore
  <2>2. CASE AddFinalizer(lost)
    BY <2>2, AddFinalizerKeeps
  <2>3. CASE WriteStatus(lost)
    BY <2>3, WriteStatusKeeps
  <2>4. CASE DeleteNext(lost)
    BY <2>4, DeleteKeeps DEF DeleteNext, tenantStore
  <2>5. CASE Release(lost)
    BY <2>5, ReleaseKeeps
  <2> QED
    BY <1>6, <2>1, <2>2, <2>3, <2>4, <2>5 DEF Write
<1>7. CASE \/ \E t \in Tenants : DeliverTenant(t) \/ TimerFires(t)
           \/ \E kind \in CachedKinds : Inform(kind)
           \/ Users \/ Cluster \/ Restart \/ UNCHANGED vars
  BY <1>7, WorldKeeps
<1> HIDE DEF Stay
<1>8. IInv' /\ (Stay \/ \E lost \in BOOLEAN : Release(lost))
  BY <1>1, <1>2, <1>3, <1>4, <1>5, <1>6, <1>7 DEF Next, Work, Background, Fault, Stay
<1> QED
  BY <1>8 DEF Stay

\* The inductive invariant holds in every reachable state of the reconciler.
THEOREM Invariance == Spec => []IInv
<1>1. IInv /\ [Next]_vars => IInv'
  BY NextKeeps
<1> QED
  BY <1>1, InitEstablishes, PTL DEF Spec

\* The stored and cached Tenants, the objects and the pass have their types,
\* and the pass never leaves the lists Reconcile and finalize work through.
THEOREM TypeCorrectness == Spec => []TypeOK
<1>1. IInv => TypeOK
  BY DEF IInv
<1> QED
  BY <1>1, Invariance, PTL

\* Reconcile renders and applies only for a Tenant that holds the finalizer,
\* however old the copy it works on and whatever users do meanwhile.
THEOREM FinalizerGuards == Spec => []FinalizerGuardsApply
<1>1. IInv => FinalizerGuardsApply
  <2> SUFFICES ASSUME IInv, pc \in GuardedSteps
               PROVE  HoldsFinalizer(tenants[cur])
    BY DEF FinalizerGuardsApply, HoldsFinalizer, ApplySteps, GuardedSteps
  <2>1. snap.phase = "live" /\ snap.finalizer
    BY DEF IInv, PassInv
  <2>2. VersionOf(tenants[cur], snap)
    BY PassFacts DEF ApplySteps, GuardedSteps
  <2> QED
    BY <2>1, <2>2 DEF VersionOf
<1> QED
  BY <1>1, Invariance, PTL

\* When finalize lets a Tenant go, it has deleted everything it looks after for
\* the spec stored at that moment: had the spec changed since the pass read it,
\* the server would have refused the update.
THEOREM CleanRelease == Spec => ReleaseIsClean
<1> DEFINE Clean(t) ==
             LET doomed == Teardown(t, tenants[t].spec)
             IN  \A j \in DOMAIN doomed :
                    doomed[j] # NoKey => objects[doomed[j]].phase # "live"
<1>1. ASSUME IInv, [Next]_vars, NEW t \in Tenants, Released(t)
      PROVE  Clean(t)
  <2>1. tenants[t].phase = "terminating" /\ tenants'[t].phase = "absent"
        /\ ~tenants[t].spec.preserve
    BY <1>1 DEF Released
  <2>2. PICK lost \in BOOLEAN : Release(lost)
    BY <1>1, <2>1, NextKeeps
  <2>3. /\ cur \in Tenants /\ snap = tenants[cur] /\ pc = "release"
        /\ \A s \in Tenants \ {cur} : tenants'[s] = tenants[s]
    BY <1>1, <2>2, ReleaseKeeps DEF Release
  <2>4. t = cur
    BY <2>1, <2>3
  <2>5. \A j \in DOMAIN Doomed : Gone(Doomed[j])
    BY <1>1, <2>1, <2>3, <2>4 DEF IInv, GoneInv
  <2> QED
    BY <2>3, <2>4, <2>5 DEF Doomed, Gone
<1>2. IInv /\ [Next]_vars =>
         [\A t \in Tenants : Released(t) => Clean(t)]_vars
  BY <1>1
<1> QED
  BY <1>2, Invariance, PTL DEF Spec, ReleaseIsClean

-------------------------------------------------------------------------------
(***************************************************************************)
(* What a pass applies is what Render returns for the spec it works on.    *)
(* Which values Render has read shows in the Secrets only.                 *)
(***************************************************************************)
WriteSteps == {"create", "update"}
PlanSteps  == {"get"} \cup WriteSteps

Wanted(t, spec) == Objects(t, spec, [j \in DOMAIN ValuesRead(spec) |-> ""])

PlanInv ==
    /\ pc \in PlanSteps => Alike(plan, Wanted(cur, snap.spec))
    /\ pc \in WriteSteps => Target.key # NoKey
    /\ pc = "update" => Target.key.kind # "Namespace"

\* So a pass applies objects of its tenant, which finalize takes away again.
LEMMA PlanFacts ==
    ASSUME IInv, PlanInv, pc \in PlanSteps, NEW i \in DOMAIN plan
    PROVE  /\ IsSequence(plan) /\ i \in 1 .. Len(plan)
           /\ cur \in Tenants /\ snap.spec \in Specs
           /\ i \in DOMAIN Wanted(cur, snap.spec)
           /\ plan[i].key = Wanted(cur, snap.spec)[i].key
           /\ plan[i].key.kind \in ArgoKinds => plan[i].data = Wanted(cur, snap.spec)[i].data
           /\ plan[i].key # NoKey =>
                 /\ plan[i].key \in ChildKeys(cur, snap.spec)
                 /\ Home(plan[i].key) \in Range(Teardown(cur, snap.spec))
<1> DEFINE wanted == Wanted(cur, snap.spec)
<1>1. cur \in Tenants /\ snap.spec \in Specs
  BY PassFacts DEF PlanSteps, WriteSteps
<1>2. Alike(plan, wanted)
  BY DEF PlanInv
<1>3. IsSequence(plan) /\ IsSequence(wanted) /\ Len(plan) = Len(wanted)
  BY <1>2 DEF Alike
<1>4. i \in 1 .. Len(plan) /\ i \in DOMAIN wanted
  BY <1>3, SequenceDomain
<1>5. PlanKey(cur, snap.spec, wanted[i].key)
  BY <1>1, <1>4, ObjectsOfTenant DEF Wanted
<1>6. wanted[i].key # NoKey => Home(wanted[i].key) \in Range(Teardown(cur, snap.spec))
  BY <1>1, <1>4, TeardownTakesAll DEF Wanted
<1> HIDE DEF wanted
<1>7. /\ plan[i].key = wanted[i].key
      /\ plan[i].key.kind \in ArgoKinds => plan[i].data = wanted[i].data
  BY <1>2, <1>4 DEF Alike
<1> QED
  BY <1>1, <1>3, <1>4, <1>5, <1>6, <1>7 DEF PlanKey, wanted

\* The list stays as long as the pass is at it.
LEMMA PlanStays ==
    ASSUME PlanInv, pc' \in PlanSteps => pc \in PlanSteps,
           pc' \in PlanSteps => UNCHANGED <<plan, cur, snap>>,
           pc' \in WriteSteps => plan[idx'].key # NoKey,
           pc' = "update" => plan[idx'].key.kind # "Namespace"
    PROVE  PlanInv'
BY DEF PlanInv, PlanSteps, WriteSteps, Target, Wanted

LEMMA FailLeavesPlan ==
    ASSUME Fail
    PROVE  pc' \notin PlanSteps
BY DEF Fail, StopWith, ReturnRetry, ClearPass, PlanSteps, WriteSteps

LEMMA PlanKeeps ==
    ASSUME IInv, PlanInv, [Next]_vars
    PROVE  PlanInv'
<1> USE DEF PlanSteps, WriteSteps
<1>1. ASSUME NEW t \in Tenants, Fetch(t)
      PROVE  PlanInv'
  <2>1. FetchNothing(t) => UNCHANGED passVars
    BY DEF FetchNothing
  <2>2. FetchDeleted(t) \/ FetchLive(t) => pc' \in {"release", "delete", "render", "finalizer"}
    BY DEF FetchDeleted, FetchLive, Begin
  <2>3. FetchNothing(t) => PlanInv'
    BY <2>1, PlanStays DEF passVars, PlanInv, Target
  <2> QED
    BY <1>1, <2>2, <2>3, PlanStays DEF Fetch
<1>2. CASE \/ TenantConflict \/ StatusConflict \/ RejectExtensions
           \/ AllApplied \/ ApplyRefused \/ CallFails
  <2>1. pc' \notin PlanSteps
    BY <1>2, FailLeavesPlan
       DEF TenantConflict, StatusConflict, RejectExtensions, AllApplied, ApplyRefused,
           CallFails, ReturnRetry, StopWith, ClearPass
  <2> QED
    BY <2>1, PlanStays
<1>3. CASE ReadValue
  <2>1. pc' \notin PlanSteps
    BY <1>3 DEF ReadValue, StopWith
  <2> QED
    BY <2>1, PlanStays
<1>4. CASE Rendered
  <2>1. /\ pc' = "get" /\ plan' = Objects(cur, snap.spec, vals)
        /\ UNCHANGED <<cur, snap>>
        /\ snap.spec \in Specs
    BY <1>4, PassFacts DEF Rendered
  <2>2. Alike(plan', Wanted(cur, snap.spec))
    BY <2>1, SpecsHoldLists, RenderedAlike DEF Wanted
  <2> QED
    BY <2>1, <2>2 DEF PlanInv, Wanted
<1>5. CASE GetObject
  <2>1. /\ pc = "get"
        /\ LET k == plan[idx].key
           IN  Skip(k) \/ FindNothing(k) \/ LeaveNamespace(k) \/ FindVersion(k)
    BY <1>5 DEF GetObject, Target
  <2>2. /\ UNCHANGED <<plan, cur, snap>>
        /\ \/ pc' = "get"
           \/ /\ pc' \in WriteSteps /\ idx' = idx /\ plan[idx].key # NoKey
              /\ pc' = "update" => plan[idx].key.kind # "Namespace"
    BY <2>1 DEF Skip, FindNothing, LeaveNamespace, FindVersion, Continue
  <2> QED
    BY <2>1, <2>2, PlanStays
<1>6. CASE AllDeleted \/ CheckNext \/ AllChecked
  <2>1. pc' \notin PlanSteps
    BY <1>6 DEF AllDeleted, CheckNext, AllChecked, Goto, ReturnRetry, ClearPass
  <2> QED
    BY <2>1, PlanStays
<1>7. ASSUME NEW lost \in BOOLEAN, Write(lost)
      PROVE  PlanInv'
  <2>1. CASE CreateObject(lost) \/ UpdateObject(lost)
    <3>1. pc \in WriteSteps /\ (Fail \/ Continue("get"))
      BY <2>1 DEF CreateObject, UpdateObject
    <3>2. CASE Fail
      BY <3>2, FailLeavesPlan, PlanStays
    <3>3. CASE Continue("get")
      BY <3>1, <3>3, PlanStays DEF Continue
    <3> QED
      BY <3>1, <3>2, <3>3
  <2>2. CASE AddFinalizer(lost) \/ WriteStatus(lost) \/ Release(lost)
    <3>1. pc' \notin PlanSteps
      BY <2>2 DEF AddFinalizer, WriteStatus, Release, ReturnRetry, ReturnDone, ClearPass
    <3> QED
      BY <3>1, PlanStays
  <2>3. CASE DeleteNext(lost)
    <3>1. pc' \notin PlanSteps
      BY <2>3, FailLeavesPlan DEF DeleteNext, Continue
    <3> QED
      BY <3>1, PlanStays
  <2> QED
    BY <1>7, <2>1, <2>2, <2>3 DEF Write
<1>8. CASE \/ \E t \in Tenants : DeliverTenant(t) \/ TimerFires(t)
           \/ \E kind \in CachedKinds : Inform(kind)
           \/ Users \/ Cluster \/ UNCHANGED vars
  <2>1. UNCHANGED passVars
    BY <1>8 DEF DeliverTenant, TimerFires, Inform, Users, Cluster, PassStandsStill, vars
  <2> QED
    BY <2>1, PlanStays DEF passVars, PlanInv, Target
<1>9. CASE Restart
  <2>1. pc' \notin PlanSteps
    BY <1>9 DEF Restart, ClearPass
  <2> QED
    BY <2>1, PlanStays
<1> QED
  BY <1>1, <1>2, <1>3, <1>4, <1>5, <1>6, <1>7, <1>8, <1>9 DEF Next, Work, Background, Fault

-------------------------------------------------------------------------------
(***************************************************************************)
(* How Tenants change, and where the copies of them come from.             *)
(***************************************************************************)
Created(old, new) == /\ old.phase = "absent"
                     /\ new.phase = "live" /\ ~new.finalizer

Edited(old, new)  == /\ old.phase # "absent" /\ new.phase = old.phase
                     /\ new.finalizer = old.finalizer
                     /\ new.gen = old.gen + 1

Doom(old, new)    == /\ old.phase = "live" /\ new.phase = "terminating"
                     /\ old.finalizer /\ new.finalizer
                     /\ new.gen = old.gen + 1 /\ new.spec = old.spec

Dropped(old, new) == old.phase = "live" /\ ~old.finalizer /\ new.phase = "absent"

\* The operator's own writes: of the finalizer, or of the status.
Kept(old, new)    == /\ old.phase # "absent" /\ new.phase = old.phase
                     /\ old.finalizer => new.finalizer
                     /\ new.gen = old.gen /\ new.spec = old.spec

ReleasedNow(t) == pc = "release" /\ cur = t /\ \E lost \in BOOLEAN : Release(lost)

LEMMA NextVersionFacts ==
    ASSUME TenantsOK, NEW t \in Tenants, NEW tenant \in TenantVersions
    PROVE  /\ NextVersion(t, tenant).rv = tenants[t].rv + 1
           /\ NextVersion(t, tenant).phase = tenant.phase
           /\ NextVersion(t, tenant).finalizer = tenant.finalizer
           /\ NextVersion(t, tenant).spec = tenant.spec
           /\ NextVersion(t, tenant).gen = tenant.gen
           /\ NextVersion(t, tenant).reason = tenant.reason
           /\ NextVersion(t, tenant).observed = tenant.observed
BY DEF NextVersion, TenantVersions

\* A Tenant is left alone, or changes in one of these ways.
LEMMA TenantMoves ==
    ASSUME IInv, [Next]_vars, NEW t \in Tenants
    PROVE  \/ tenants'[t] = tenants[t]
           \/ Created(tenants[t], tenants'[t])
           \/ Edited(tenants[t], tenants'[t])
           \/ Doom(tenants[t], tenants'[t])
           \/ Dropped(tenants[t], tenants'[t])
           \/ Kept(tenants[t], tenants'[t])
           \/ ReleasedNow(t)
<1> DEFINE Moves(old, new) == \/ Created(old, new) \/ Edited(old, new) \/ Doom(old, new)
                              \/ Dropped(old, new) \/ Kept(old, new)
           Goal == tenants'[t] = tenants[t] \/ Moves(tenants[t], tenants'[t]) \/ ReleasedNow(t)
<1> SUFFICES Goal
  OBVIOUS
<1>0. TenantsOK /\ tenants[t] \in TenantVersions
  BY DEF IInv, TypeOK, TenantsOK
<1>1. ASSUME NEW s \in Tenants, NEW tenant \in TenantVersions, PutTenant(s, tenant)
      PROVE  /\ s # t => tenants'[t] = tenants[t]
             /\ tenants'[s].phase = tenant.phase /\ tenants'[s].finalizer = tenant.finalizer
             /\ tenants'[s].spec = tenant.spec /\ tenants'[s].gen = tenant.gen
  <2>1. tenants' = [tenants EXCEPT ![s] = NextVersion(s, tenant)]
    BY <1>1 DEF PutTenant
  <2>2. /\ s # t => tenants'[t] = tenants[t]
        /\ tenants'[s] = NextVersion(s, tenant)
    BY <1>0, <2>1 DEF TenantsOK
  <2> QED
    BY <1>0, <2>2, NextVersionFacts
<1>2. ASSUME NEW s \in Tenants, NEW spec \in Specs, CreateTenant(s, spec)
      PROVE  Goal
  <2> DEFINE tenant == [NoTenant(0) EXCEPT !.phase = "live", !.gen = 1, !.spec = spec]
  <2>1. /\ tenant \in TenantVersions /\ tenant.phase = "live" /\ ~tenant.finalizer
        /\ PutTenant(s, tenant) /\ tenants[s].phase = "absent"
    BY <1>2 DEF NoTenant, TenantVersions, Phases, Reasons, CreateTenant
  <2> HIDE DEF tenant
  <2>2. s # t => tenants'[t] = tenants[t]
    BY <1>1, <2>1
  <2>3. Created(tenants[s], tenants'[s])
    BY <1>1, <2>1 DEF Created
  <2> QED
    BY <2>2, <2>3
<1>3. ASSUME NEW s \in Tenants, NEW spec \in Specs, EditTenant(s, spec)
      PROVE  Goal
  <2> DEFINE tenant == [tenants[s] EXCEPT !.gen = tenants[s].gen + 1, !.spec = spec]
  <2>0. tenants[s] \in TenantVersions /\ tenants[s].gen + 1 \in Nat
    BY <1>0 DEF TenantsOK, TenantVersions
  <2>1. /\ tenant \in TenantVersions
        /\ tenant.phase = tenants[s].phase /\ tenant.finalizer = tenants[s].finalizer
        /\ tenant.gen = tenants[s].gen + 1
    BY <2>0 DEF TenantVersions
  <2>2. PutTenant(s, tenant) /\ tenants[s].phase # "absent"
    BY <1>3 DEF EditTenant
  <2> HIDE DEF tenant
  <2>3. s # t => tenants'[t] = tenants[t]
    BY <1>1, <2>1, <2>2
  <2>4. Edited(tenants[s], tenants'[s])
    BY <1>1, <2>1, <2>2 DEF Edited
  <2> QED
    BY <2>3, <2>4
<1>4. ASSUME NEW s \in Tenants, DeleteTenant(s)
      PROVE  Goal
  <2>0. /\ tenants[s] \in TenantVersions /\ tenants[s].phase = "live"
        /\ tenants[s].gen + 1 \in Nat
    BY <1>0, <1>4 DEF TenantsOK, TenantVersions, DeleteTenant
  <2>1. CASE tenants[s].finalizer
    <3> DEFINE tenant == [tenants[s] EXCEPT !.phase = "terminating", !.gen = tenants[s].gen + 1]
    <3>1. /\ tenant \in TenantVersions /\ tenant.phase = "terminating"
          /\ tenant.finalizer = tenants[s].finalizer /\ tenant.spec = tenants[s].spec
          /\ tenant.gen = tenants[s].gen + 1
      BY <2>0 DEF TenantVersions, Phases
    <3>2. PutTenant(s, tenant)
      BY <1>4, <2>1 DEF DeleteTenant
    <3> HIDE DEF tenant
    <3>3. s # t => tenants'[t] = tenants[t]
      BY <1>1, <3>1, <3>2
    <3>4. Doom(tenants[s], tenants'[s])
      BY <1>1, <2>0, <2>1, <3>1, <3>2 DEF Doom
    <3> QED
      BY <3>3, <3>4
  <2>2. CASE ~tenants[s].finalizer
    <3> DEFINE none == NoTenant(0)
    <3>1. none \in TenantVersions /\ none.phase = "absent"
      BY DEF NoTenant, TenantVersions, Phases, Reasons
    <3>2. PutTenant(s, none)
      BY <1>4, <2>2 DEF DeleteTenant
    <3> HIDE DEF none
    <3>3. s # t => tenants'[t] = tenants[t]
      BY <1>1, <3>1, <3>2
    <3>4. Dropped(tenants[s], tenants'[s])
      BY <1>1, <2>0, <2>2, <3>1, <3>2 DEF Dropped
    <3> QED
      BY <3>3, <3>4
  <2> QED
    BY <2>1, <2>2
<1>5. CASE UserStep
  <2>1. CASE \/ \E s \in Tenants, spec \in Specs : CreateTenant(s, spec) \/ EditTenant(s, spec)
             \/ \E s \in Tenants : DeleteTenant(s)
    BY <1>2, <1>3, <1>4, <2>1
  <2>2. CASE \/ \E k \in Sources, content \in Contents : WriteSource(k, content)
             \/ \E k \in Sources : DeleteSource(k)
             \/ \E k \in Children : DeleteChild(k) \/ OverwriteChild(k)
    BY <2>2 DEF WriteSource, DeleteSource, DeleteChild, OverwriteChild
  <2> QED
    BY <1>5, <2>1, <2>2 DEF UserStep
<1>6. ASSUME NEW lost \in BOOLEAN, AddFinalizer(lost) \/ WriteStatus(lost)
      PROVE  Goal
  <2>1. /\ pc \in {"finalizer", "status"} /\ Current
        /\ \/ UNCHANGED tenants
           \/ PutTenant(cur, [snap EXCEPT !.finalizer = TRUE])
           \/ PutTenant(cur, Reported)
    BY <1>6 DEF AddFinalizer, WriteStatus, tenantStore
  <2>2. /\ cur \in Tenants /\ snap \in TenantVersions /\ snap = tenants[cur]
        /\ snap.phase # "absent" /\ verdict \in Reasons
    BY <2>1, PassFacts, CurrentIsStored DEF IInv, TypeOK, PassOK
  <2>3. ASSUME NEW tenant \in TenantVersions, PutTenant(cur, tenant), Kept(snap, tenant)
        PROVE  Goal
    <3>1. cur # t => tenants'[t] = tenants[t]
      BY <1>1, <2>2, <2>3
    <3>2. Kept(tenants[cur], tenants'[cur])
      BY <1>1, <2>2, <2>3 DEF Kept
    <3> QED
      BY <3>1, <3>2
  <2>4. CASE PutTenant(cur, [snap EXCEPT !.finalizer = TRUE])
    <3> DEFINE tenant == [snap EXCEPT !.finalizer = TRUE]
    <3>1. tenant \in TenantVersions
      BY <2>2 DEF TenantVersions
    <3>2. /\ tenant.phase = snap.phase /\ tenant.gen = snap.gen /\ tenant.spec = snap.spec
          /\ tenant.finalizer
      BY <2>2 DEF TenantVersions
    <3> QED
      BY <2>2, <2>3, <2>4, <3>1, <3>2 DEF Kept
  <2>5. CASE PutTenant(cur, Reported)
    <3>1. snap.gen \in Nat
      BY <2>2 DEF TenantVersions
    <3>2. Reported \in TenantVersions
      BY <2>2, <3>1 DEF TenantVersions, Reported
    <3>3. /\ Reported.phase = snap.phase /\ Reported.gen = snap.gen
          /\ Reported.spec = snap.spec /\ Reported.finalizer = snap.finalizer
      BY <2>2, <3>1 DEF TenantVersions, Reported
    <3> QED
      BY <2>2, <2>3, <2>5, <3>2, <3>3 DEF Kept
  <2>6. CASE UNCHANGED tenants
    BY <2>6
  <2> QED
    BY <2>1, <2>4, <2>5, <2>6
<1>7. ASSUME NEW lost \in BOOLEAN, Release(lost)
      PROVE  Goal
  <2>1. pc = "release" /\ cur # t => tenants'[t] = tenants[t]
    BY <1>7, ReleaseKeeps
  <2>2. pc = "release"
    BY <1>7 DEF Release
  <2> QED
    BY <1>7, <2>1, <2>2 DEF ReleasedNow
<1>8. CASE \/ \E s \in Tenants : Fetch(s) \/ DeliverTenant(s) \/ TimerFires(s)
           \/ \E kind \in CachedKinds : Inform(kind)
           \/ TenantConflict \/ StatusConflict \/ RejectExtensions \/ AllApplied
           \/ ApplyRefused \/ CallFails \/ ReadValue \/ Rendered \/ GetObject
           \/ AllDeleted \/ CheckNext \/ AllChecked \/ Restart \/ ClusterStep
           \/ UNCHANGED vars
  <2>1. UNCHANGED tenants
    BY <1>8 DEF Fetch, FetchNothing, FetchDeleted, FetchLive, Begin, DeliverTenant,
                TimerFires, Inform, StartInformer, DeliverObject,
                TenantConflict, StatusConflict, RejectExtensions, AllApplied, ApplyRefused,
                CallFails, ReadValue, Rendered, GetObject, AllDeleted, CheckNext, AllChecked,
                Restart, Relist, ClusterStep, CreateDefaultSA, PurgeContent, FinishDeletion,
                vars, apiVars, tenantStore
  <2> QED
    BY <2>1
<1>9. ASSUME NEW lost \in BOOLEAN, Write(lost)
      PROVE  Goal
  <2>1. CASE CreateObject(lost) \/ UpdateObject(lost) \/ DeleteNext(lost)
    BY <2>1 DEF CreateObject, UpdateObject, DeleteNext, tenantStore
  <2> QED
    BY <1>6, <1>7, <1>9, <2>1 DEF Write
<1> HIDE DEF Goal
<1>10. Users \/ Cluster => Goal
  BY <1>5, <1>8 DEF Users, Cluster
<1> QED
  BY <1>8, <1>9, <1>10 DEF Next, Work, Background, Fault

\* The copies of a Tenant come from the store, by way of the watch events: the
\* cache takes what is stored or the event that is next, and a pass what is in
\* the cache.
LEMMA CopiesMove ==
    ASSUME IInv, [Next]_vars
    PROVE  /\ \A t \in Tenants :
                 /\ \/ tenantView'[t] = tenantView[t]
                    \/ tenantView'[t] \in Range(tenantFeed[t])
                    \/ tenantView'[t] = tenants'[t]
                 /\ Range(tenantFeed'[t]) \subseteq Range(tenantFeed[t]) \cup {tenants'[t]}
           /\ pc' # "idle" =>
                 \/ /\ pc # "idle" /\ cur' = cur
                    /\ snap' = snap \/ (pc = "finalizer" /\ snap' = tenants'[cur])
                 \/ pc = "idle" /\ cur' \in Tenants /\ snap' = tenantView[cur']
                    /\ UNCHANGED <<tenants, tenantView, tenantFeed>>
<1> DEFINE View(t) == \/ tenantView'[t] = tenantView[t]
                      \/ tenantView'[t] \in Range(tenantFeed[t])
                      \/ tenantView'[t] = tenants'[t]
           Feed(t) == Range(tenantFeed'[t]) \subseteq Range(tenantFeed[t]) \cup {tenants'[t]}
           Caches  == \A t \in Tenants : View(t) /\ Feed(t)
           Hands   == pc' # "idle" =>
                         \/ /\ pc # "idle" /\ cur' = cur
                            /\ snap' = snap \/ (pc = "finalizer" /\ snap' = tenants'[cur])
                         \/ pc = "idle" /\ cur' \in Tenants /\ snap' = tenantView[cur']
                            /\ UNCHANGED <<tenants, tenantView, tenantFeed>>
<1> SUFFICES Caches /\ Hands
  OBVIOUS
<1>0. TenantsOK /\ \A t \in Tenants : IsSequence(tenantFeed[t])
  <2>1. TenantsOK
    BY DEF IInv, TypeOK
  <2>2. ASSUME NEW t \in Tenants
        PROVE  IsSequence(tenantFeed[t])
    <3>1. tenantFeed[t] \in Seq(TenantVersions)
      BY <2>1 DEF TenantsOK
    <3> QED
      BY <3>1, ListOf
  <2> QED
    BY <2>1, <2>2
<1>1. ASSUME UNCHANGED <<tenantView, tenantFeed>>
      PROVE  Caches
  BY <1>1
<1>2. ASSUME NEW s \in Tenants, NEW tenant, PutTenant(s, tenant), UNCHANGED tenantView
      PROVE  Caches /\ tenants'[s] = NextVersion(s, tenant)
  <2> DEFINE next == NextVersion(s, tenant)
  <2>1. /\ tenants' = [tenants EXCEPT ![s] = next]
        /\ tenantFeed' = [tenantFeed EXCEPT ![s] = Append(tenantFeed[s], next)]
    BY <1>2 DEF PutTenant
  <2> HIDE DEF next
  <2>2. tenants'[s] = next /\ tenantFeed'[s] = Append(tenantFeed[s], next)
        /\ \A t \in Tenants \ {s} : tenantFeed'[t] = tenantFeed[t]
    BY <1>0, <2>1 DEF TenantsOK
  <2>3. Feed(s)
    BY <1>0, <2>2, QueueMoves
  <2> QED
    BY <1>2, <2>2, <2>3 DEF next
<1>4. ASSUME NEW t \in Tenants, Fetch(t)
      PROVE  Caches /\ Hands
  <2>1. pc = "idle" /\ UNCHANGED <<tenants, tenantView, tenantFeed>>
    BY <1>4 DEF Fetch, FetchNothing, FetchDeleted, FetchLive, Begin, Take, apiVars
  <2>2. \/ UNCHANGED passVars
        \/ cur' = t /\ snap' = tenantView[t]
    BY <1>4 DEF Fetch, FetchNothing, FetchDeleted, FetchLive, Begin
  <2>3. CASE UNCHANGED passVars
    BY <1>1, <2>1, <2>3 DEF passVars
  <2>4. CASE cur' = t /\ snap' = tenantView[t]
    BY <1>1, <2>1, <2>4
  <2> QED
    BY <2>2, <2>3, <2>4
<1>5. CASE \/ TenantConflict \/ StatusConflict \/ RejectExtensions \/ AllApplied
           \/ ApplyRefused \/ CallFails \/ ReadValue \/ Rendered \/ GetObject
           \/ AllDeleted \/ CheckNext \/ AllChecked
           \/ \E lost \in BOOLEAN : CreateObject(lost) \/ UpdateObject(lost) \/ DeleteNext(lost)
  <2>1. UNCHANGED <<tenants, tenantView, tenantFeed>>
    BY <1>5 DEF TenantConflict, StatusConflict, RejectExtensions, AllApplied, ApplyRefused,
                CallFails, ReadValue, Rendered, GetObject, AllDeleted, CheckNext, AllChecked,
                CreateObject, UpdateObject, DeleteNext, apiVars, tenantStore, caches
  <2>2. pc # "idle" /\ (pc' = "idle" \/ UNCHANGED <<cur, snap>>)
    <3>1. CASE \/ TenantConflict \/ StatusConflict \/ RejectExtensions \/ AllApplied
               \/ ReadValue \/ Rendered \/ AllDeleted \/ CheckNext \/ AllChecked
      BY <3>1 DEF TenantConflict, StatusConflict, RejectExtensions, AllApplied,
                  ReadValue, Rendered, AllDeleted, CheckNext, AllChecked, StopWith,
                  ReturnRetry, ClearPass, Goto
    <3>2. CASE GetObject
      <4>1. PICK k : Skip(k) \/ FindNothing(k) \/ LeaveNamespace(k) \/ FindVersion(k)
        BY <3>2 DEF GetObject
      <4> QED
        BY <3>2, <4>1 DEF GetObject, Skip, FindNothing, LeaveNamespace, FindVersion, Continue
    <3>3. CASE \/ ApplyRefused \/ CallFails
               \/ \E lost \in BOOLEAN :
                     CreateObject(lost) \/ UpdateObject(lost) \/ DeleteNext(lost)
      <4>1. pc # "idle" /\ (Fail \/ \E where : Continue(where))
        BY <3>3 DEF ApplyRefused, CallFails, CreateObject, UpdateObject, DeleteNext
      <4> QED
        BY <4>1 DEF Fail, Continue, StopWith, ReturnRetry, ClearPass
    <3> QED
      BY <1>5, <3>1, <3>2, <3>3
  <2> QED
    BY <1>1, <2>1, <2>2
<1>6. ASSUME NEW lost \in BOOLEAN, AddFinalizer(lost)
      PROVE  Caches /\ Hands
  <2>1. /\ pc = "finalizer" /\ PutTenant(cur, [snap EXCEPT !.finalizer = TRUE])
        /\ UNCHANGED tenantView
        /\ \/ pc' = "idle"
           \/ cur' = cur /\ snap' = NextVersion(cur, [snap EXCEPT !.finalizer = TRUE])
    BY <1>6 DEF AddFinalizer, ReturnRetry, ClearPass, caches
  <2>2. cur \in Tenants
    BY <2>1, PassFacts
  <2> QED
    BY <1>2, <2>1, <2>2
<1>7. ASSUME NEW lost \in BOOLEAN, WriteStatus(lost) \/ Release(lost)
      PROVE  Caches /\ Hands
  <2>1. /\ pc # "idle" /\ pc' = "idle"
        /\ UNCHANGED tenantView
        /\ \/ UNCHANGED <<tenants, tenantFeed>>
           \/ PutTenant(cur, Reported) \/ PutTenant(cur, NoTenant(0))
    BY <1>7 DEF WriteStatus, Release, ReturnRetry, ReturnDone, ClearPass, caches, tenantStore
  <2>2. cur \in Tenants
    BY <2>1, PassFacts
  <2>3. Caches
    BY <1>1, <1>2, <2>1, <2>2
  <2> QED
    BY <2>1, <2>3
<1>8. CASE Users
  <2>1. UNCHANGED <<pc, cur, snap>> /\ UserStep
    BY <1>8 DEF Users, PassStandsStill, passVars
  <2>0. Hands
    BY <2>1
  <2>2. CASE \E t \in Tenants, spec \in Specs : CreateTenant(t, spec) \/ EditTenant(t, spec)
    BY <1>2, <2>0, <2>2 DEF CreateTenant, EditTenant
  <2>3. CASE \E t \in Tenants : DeleteTenant(t)
    BY <1>2, <2>0, <2>3 DEF DeleteTenant
  <2>4. CASE \/ \E k \in Sources, content \in Contents : WriteSource(k, content)
             \/ \E k \in Sources : DeleteSource(k)
             \/ \E k \in Children : DeleteChild(k) \/ OverwriteChild(k)
    <3>1. UNCHANGED <<tenantView, tenantFeed>>
      BY <2>4 DEF WriteSource, DeleteSource, DeleteChild, OverwriteChild
    <3> QED
      BY <1>1, <2>0, <3>1
  <2> QED
    BY <2>1, <2>2, <2>3, <2>4 DEF UserStep
<1>9. CASE Restart
  <2>1. /\ pc' = "idle" /\ tenantView' = tenants /\ UNCHANGED tenants
        /\ tenantFeed' = [t \in Tenants |-> <<>>]
    BY <1>9 DEF Restart, Relist, ClearPass
  <2>2. \A t \in Tenants : tenantFeed'[t] = <<>>
    BY <2>1
  <2>3. Range(<<>>) = {}
    BY DEF Range
  <2> QED
    BY <2>1, <2>2, <2>3
<1>10. ASSUME NEW s \in Tenants, DeliverTenant(s)
       PROVE  Caches /\ Hands
  <2>1. /\ tenantFeed[s] # <<>> /\ UNCHANGED <<pc, cur, snap>>
        /\ tenantView' = [tenantView EXCEPT ![s] = Head(tenantFeed[s])]
        /\ tenantFeed' = [tenantFeed EXCEPT ![s] = Tail(tenantFeed[s])]
    BY <1>10 DEF DeliverTenant, passVars
  <2>2. /\ tenantView'[s] = Head(tenantFeed[s]) /\ tenantFeed'[s] = Tail(tenantFeed[s])
        /\ \A t \in Tenants \ {s} : tenantView'[t] = tenantView[t]
                                    /\ tenantFeed'[t] = tenantFeed[t]
    BY <1>0, <2>1 DEF TenantsOK
  <2>3. View(s) /\ Feed(s)
    BY <1>0, <2>1, <2>2, QueueMoves
  <2> QED
    BY <2>1, <2>2, <2>3
<1>11. CASE \/ \E t \in Tenants : TimerFires(t)
            \/ \E kind \in CachedKinds : Inform(kind)
            \/ Cluster \/ UNCHANGED vars
  <2>1. UNCHANGED <<tenantView, tenantFeed, pc, cur, snap>>
    BY <1>11 DEF TimerFires, Inform, StartInformer, DeliverObject, Cluster, ClusterStep,
                 CreateDefaultSA, PurgeContent, FinishDeletion, PassStandsStill, passVars,
                 apiVars, vars
  <2> QED
    BY <1>1, <2>1
<1>12. ASSUME NEW lost \in BOOLEAN, Write(lost)
       PROVE  Caches /\ Hands
  BY <1>5, <1>6, <1>7, <1>12 DEF Write
<1> HIDE DEF Caches, Hands
<1> QED
  BY <1>4, <1>5, <1>8, <1>9, <1>10, <1>11, <1>12 DEF Next, Work, Background, Fault

-------------------------------------------------------------------------------
(***************************************************************************)
(* How objects change.                                                     *)
(***************************************************************************)

\* The operator applies the object it is at: it creates it, or replaces the
\* version it has seen.
Applied(k, data) ==
    /\ pc \in WriteSteps /\ k = Target.key /\ data = Target.data
    /\ \/ pc = "create" /\ CanCreate(k)
       \/ pc = "update" /\ objects[k].rv = seen

\* An object that is to go is gone at once, but a namespace: it is emptied first.
Goes(k, phase) ==
    \/ k.kind # "Namespace" /\ phase = "absent"
    \/ k.kind = "Namespace" /\ phase = "terminating" /\ objects[k].phase = "live"
    \/ /\ k.kind = "Namespace" /\ phase = "absent" /\ objects[k].phase = "terminating"
       /\ \A c \in Keys : NamespaceOf(c) = k => ~Present(c)

\* Who makes it go: finalize, a user, or the cluster, with its namespace or for
\* good.
Taken(k) ==
    \/ pc = "delete" /\ idx \in DOMAIN Doomed /\ k = Doomed[idx]
    \/ DeleteChild(k)
    \/ NamespaceOf(k) \in Keys /\ objects[NamespaceOf(k)].phase = "terminating"
    \/ objects[k].phase = "terminating"

ObjectMove(k, phase, data) ==
    \/ k \in Sources /\ phase # "terminating"
    \/ /\ k \in Children
       /\ \/ phase = "live" /\ Applied(k, data)
          \/ phase = "live" /\ k.kind = "ServiceAccount" /\ CanCreate(k)
          \/ phase = "live" /\ objects[k].phase = "live" /\ OverwriteChild(k)
          \/ Goes(k, phase) /\ Taken(k)

\* A namespace has no home but itself.
LEMMA NamespacesAreAtHome ==
    ASSUME NEW k \in Children, k.kind = "Namespace"
    PROVE  NamespaceOf(k) \notin Keys
<1>1. PICK t \in Tenants, spec \in Specs : k \in ChildKeys(t, spec)
  BY DEF Children
<1>2. \E n \in DOMAIN spec.environments : k = NamespaceKey(t, spec.environments[n])
  BY <1>1, KindsOfKeys DEF ChildKeys
<1>3. k.ns = ClusterScope
  BY <1>2, KindsOfKeys
<1>4. NamespaceOf(k).kind = "Namespace" /\ NamespaceOf(k).name = ClusterScope
  BY <1>3 DEF NamespaceOf, Key
<1> QED
  BY <1>4, NamespacesAreNamed

\* A deletion that has an effect.
LEMMA DeletionGoes ==
    ASSUME ObjectsOK, NEW k \in Keys, Present(k), DeleteObject(k)
    PROVE  UNCHANGED <<objects, feed>>
           \/ \E phase \in Phases : \E data : PutObject(k, phase, data) /\ Goes(k, phase)
<1>1. CASE objects[k].phase = "terminating"
  BY <1>1 DEF DeleteObject
<1>2. CASE objects[k].phase = "live" /\ k.kind = "Namespace"
  BY <1>2 DEF DeleteObject, Goes, Phases
<1>3. CASE ~(objects[k].phase = "terminating")
           /\ ~(objects[k].phase = "live" /\ k.kind = "Namespace")
  <2>1. PutObject(k, "absent", NoData)
    BY <1>3 DEF DeleteObject, RemoveObject
  <2>2. k.kind # "Namespace"
    BY <1>3 DEF ObjectsOK, Phases, Present
  <2> QED
    BY <2>1, <2>2 DEF Goes, Phases
<1> QED
  BY <1>1, <1>2, <1>3

\* A step leaves the objects alone, changes what the caches hold of them, or
\* changes one object, in one of these ways.
LEMMA ObjectMoves ==
    ASSUME IInv, PlanInv, [Next]_vars
    PROVE  \/ UNCHANGED <<objects, feed, view, synced>>
           \/ \E kind \in CachedKinds : Inform(kind)
           \/ Restart
           \/ \E k \in Keys, phase \in Phases : \E data :
                 /\ PutObject(k, phase, data) /\ UNCHANGED <<view, synced>>
                 /\ ObjectMove(k, phase, data)
<1> DEFINE Calm == UNCHANGED <<objects, feed, view, synced>>
           Move == \E k \in Keys, phase \in Phases : \E data :
                      /\ PutObject(k, phase, data) /\ UNCHANGED <<view, synced>>
                      /\ ObjectMove(k, phase, data)
           Goal == Calm \/ (\E kind \in CachedKinds : Inform(kind)) \/ Restart \/ Move
<1> SUFFICES Goal
  OBVIOUS
<1>0. ObjectsOK /\ \A k \in Children : k \in Keys
  BY DEF IInv, TypeOK, Keys
<1>1. CASE \/ \E t \in Tenants : Fetch(t) \/ DeliverTenant(t) \/ TimerFires(t)
           \/ TenantConflict \/ StatusConflict \/ RejectExtensions \/ AllApplied
           \/ ApplyRefused \/ CallFails \/ ReadValue \/ Rendered \/ GetObject
           \/ AllDeleted \/ CheckNext \/ AllChecked \/ UNCHANGED vars
           \/ \E lost \in BOOLEAN : AddFinalizer(lost) \/ WriteStatus(lost) \/ Release(lost)
  <2>1. Calm
    BY <1>1 DEF Fetch, FetchNothing, FetchDeleted, FetchLive, Begin, DeliverTenant,
                TimerFires, TenantConflict, StatusConflict, RejectExtensions, AllApplied,
                ApplyRefused, CallFails, ReadValue, Rendered, GetObject, AllDeleted,
                CheckNext, AllChecked, vars, apiVars, objectStore, caches,
                AddFinalizer, WriteStatus, Release
  <2> QED
    BY <2>1
<1>2. ASSUME NEW lost \in BOOLEAN, CreateObject(lost) \/ UpdateObject(lost)
      PROVE  Goal
  <2> DEFINE k == Target.key
             data == Target.data
  <2>1. /\ pc \in WriteSteps /\ UNCHANGED <<view, synced>>
        /\ \/ UNCHANGED <<objects, feed>>
           \/ PutObject(k, "live", data) /\ Applied(k, data)
    BY <1>2 DEF CreateObject, UpdateObject, ReplaceObject, caches, WriteSteps, Applied
  <2>2. k \in Children
    <3>1. pc \in PlanSteps /\ idx \in DOMAIN plan /\ Target.key # NoKey
      BY <2>1 DEF WriteSteps, PlanSteps, IInv, TypeOK, PositionOK, PlanInv
    <3>2. k \in ChildKeys(cur, snap.spec) /\ cur \in Tenants /\ snap.spec \in Specs
      BY <3>1, PlanFacts DEF Target
    <3> QED
      BY <3>2 DEF Children
  <2> HIDE DEF k, data
  <2>3. CASE PutObject(k, "live", data) /\ Applied(k, data)
    BY <1>0, <2>1, <2>2, <2>3 DEF ObjectMove, Phases
  <2> QED
    BY <2>1, <2>3
<1>3. ASSUME NEW lost \in BOOLEAN, DeleteNext(lost)
      PROVE  Goal
  <2> DEFINE k == Doomed[idx]
  <2>1. /\ pc = "delete" /\ idx \in DOMAIN Doomed /\ UNCHANGED <<view, synced>>
        /\ \/ UNCHANGED <<objects, feed>>
           \/ k # NoKey /\ Present(k) /\ DeleteObject(k)
    BY <1>3 DEF DeleteNext, objectStore, caches
  <2>2. k # NoKey => k \in Children
    BY <2>1, PassFacts DEF DoomedKeys
  <2>3. Taken(k)
    BY <2>1 DEF Taken
  <2> HIDE DEF k
  <2>4. CASE k # NoKey /\ Present(k) /\ DeleteObject(k)
    BY <1>0, <2>1, <2>2, <2>3, <2>4, DeletionGoes DEF ObjectMove
  <2> QED
    BY <2>1, <2>4
<1>4. CASE UserStep
  <2>1. CASE \/ \E t \in Tenants, spec \in Specs : CreateTenant(t, spec) \/ EditTenant(t, spec)
             \/ \E t \in Tenants : DeleteTenant(t)
    BY <2>1 DEF CreateTenant, EditTenant, DeleteTenant
  <2>2. CASE \/ \E k \in Sources, content \in Contents : WriteSource(k, content)
             \/ \E k \in Sources : DeleteSource(k)
    BY <2>2 DEF WriteSource, DeleteSource, RemoveObject, ObjectMove, Phases, Keys
  <2>3. ASSUME NEW k \in Children, DeleteChild(k)
        PROVE  Goal
    <3>1. DeleteObject(k) /\ Present(k) /\ UNCHANGED <<view, synced>>
      BY <2>3 DEF DeleteChild, Present
    <3>2. CASE UNCHANGED <<objects, feed>>
      BY <3>1, <3>2
    <3> QED
      BY <1>0, <2>3, <3>1, <3>2, DeletionGoes DEF ObjectMove, Taken
  <2>4. ASSUME NEW k \in Children, OverwriteChild(k)
        PROVE  Goal
    <3>1. PutObject(k, "live", Foreign) /\ UNCHANGED <<view, synced>>
          /\ objects[k].phase = "live"
      BY <2>4 DEF OverwriteChild
    <3>2. ObjectMove(k, "live", Foreign)
      BY <2>4, <3>1 DEF ObjectMove
    <3> QED
      BY <1>0, <3>1, <3>2 DEF Phases
  <2> QED
    BY <1>4, <2>1, <2>2, <2>3, <2>4 DEF UserStep
<1>5. CASE ClusterStep
  <2>1. PICK k \in Children : CreateDefaultSA(k) \/ PurgeContent(k) \/ FinishDeletion(k)
    BY <1>5 DEF ClusterStep
  <2>2. CASE CreateDefaultSA(k)
    <3>1. /\ PutObject(k, "live", NoData) /\ UNCHANGED <<view, synced>>
          /\ k.kind = "ServiceAccount" /\ CanCreate(k)
      BY <2>2 DEF CreateDefaultSA
    <3> QED
      BY <1>0, <3>1 DEF ObjectMove, Phases
  <2>3. CASE PurgeContent(k)
    <3>1. /\ PutObject(k, "absent", NoData) /\ UNCHANGED <<view, synced>>
          /\ NamespaceOf(k) \in Keys /\ Taken(k)
      BY <2>3 DEF PurgeContent, RemoveObject, Taken
    <3>2. Goes(k, "absent")
      BY <3>1, NamespacesAreAtHome DEF Goes
    <3>3. ObjectMove(k, "absent", NoData)
      BY <3>1, <3>2 DEF ObjectMove
    <3> QED
      BY <1>0, <3>1, <3>3 DEF Phases
  <2>4. CASE FinishDeletion(k)
    <3>1. /\ PutObject(k, "absent", NoData) /\ UNCHANGED <<view, synced>>
          /\ Taken(k) /\ Goes(k, "absent")
      BY <2>4 DEF FinishDeletion, RemoveObject, Taken, Goes
    <3>3. ObjectMove(k, "absent", NoData)
      BY <3>1 DEF ObjectMove
    <3> QED
      BY <1>0, <3>1, <3>3 DEF Phases
  <2> QED
    BY <2>1, <2>2, <2>3, <2>4
<1>6. Users \/ Cluster => Goal
  BY <1>4, <1>5 DEF Users, Cluster
<1>7. ASSUME NEW lost \in BOOLEAN, Write(lost)
      PROVE  Goal
  BY <1>1, <1>2, <1>3, <1>7 DEF Write
<1>8. (\E kind \in CachedKinds : Inform(kind)) \/ Restart => Goal
  OBVIOUS
<1> HIDE DEF Goal
<1> QED
  BY <1>1, <1>6, <1>7, <1>8 DEF Next, Work, Background, Fault

\* What such a change is, object by object.
LEMMA PutObjectFacts ==
    ASSUME ObjectsOK, NEW k \in Keys, NEW phase, NEW data, PutObject(k, phase, data)
    PROVE  /\ objects'[k] = [phase |-> phase, rv |-> objects[k].rv + 1, data |-> data]
           /\ objects'[k].phase = phase /\ objects'[k].data = data
           /\ objects'[k].rv = objects[k].rv + 1
           /\ \A c \in Keys \ {k} : objects'[c] = objects[c]
BY DEF PutObject, ObjectsOK

-------------------------------------------------------------------------------
(***************************************************************************)
(* What the informer caches hold, and the version an update refers to.     *)
(***************************************************************************)

\* v is a version of the object now stored as o, or nothing.
ObjectVersionOf(o, v) ==
    /\ v.rv \in Nat /\ v.rv <= o.rv
    /\ v.phase # "absent" /\ v.rv = o.rv => v = o

ViewInv ==
    /\ synced \subseteq CachedKinds
    /\ DOMAIN view = CachedKeys /\ DOMAIN feed = CachedKinds
    /\ \A k \in CachedKeys : ObjectVersionOf(objects[k], view[k])
    /\ \A kind \in CachedKinds :
          /\ IsSequence(feed[kind])
          /\ \A e \in Range(feed[kind]) :
                e.key \in CachedKeys /\ ObjectVersionOf(objects[e.key], e.object)

LEMMA ViewKeeps ==
    ASSUME IInv, PlanInv, ViewInv, [Next]_vars
    PROVE  ViewInv'
<1>0. ObjectsOK /\ \A k \in CachedKeys : k \in Keys /\ objects[k].rv \in Nat
  BY DEF IInv, TypeOK, ObjectsOK, CachedKeys
<1>1. CASE UNCHANGED <<objects, feed, view, synced>>
  BY <1>1 DEF ViewInv
<1>2. ASSUME NEW kind \in CachedKinds, StartInformer(kind)
      PROVE  ViewInv'
  <2>1. /\ synced' \subseteq CachedKinds /\ UNCHANGED <<objects, feed>>
        /\ view' = [k \in CachedKeys |-> IF k.kind = kind THEN objects[k] ELSE view[k]]
    BY <1>2 DEF StartInformer, ViewInv
  <2>2. \A k \in CachedKeys : ObjectVersionOf(objects[k], view'[k])
    BY <1>0, <2>1 DEF ViewInv, ObjectVersionOf
  <2> QED
    BY <2>1, <2>2 DEF ViewInv
<1>3. ASSUME NEW kind \in CachedKinds, DeliverObject(kind)
      PROVE  ViewInv'
  <2> DEFINE e == Head(feed[kind])
             rest == Tail(feed[kind])
  <2>1. /\ UNCHANGED <<objects, synced>> /\ feed[kind] # <<>>
        /\ view' = [view EXCEPT ![e.key] = e.object]
        /\ feed' = [feed EXCEPT ![kind] = rest]
    BY <1>3 DEF DeliverObject
  <2>2. /\ e \in Range(feed[kind])
        /\ IsSequence(rest) /\ Range(rest) \subseteq Range(feed[kind])
    BY <2>1, QueueMoves DEF ViewInv
  <2> HIDE DEF e, rest
  <2>3. /\ DOMAIN feed' = CachedKinds /\ feed'[kind] = rest
        /\ \A c \in CachedKinds \ {kind} : feed'[c] = feed[c]
    BY <2>1 DEF ViewInv
  <2>4. /\ DOMAIN view' = CachedKeys
        /\ \A k \in CachedKeys : ObjectVersionOf(objects[k], view'[k])
    BY <2>1, <2>2 DEF ViewInv
  <2>5. ASSUME NEW c \in CachedKinds
        PROVE  IsSequence(feed'[c]) /\ Range(feed'[c]) \subseteq Range(feed[c])
    BY <2>2, <2>3 DEF ViewInv
  <2> QED
    BY <2>1, <2>3, <2>4, <2>5 DEF ViewInv
<1>4. CASE Restart
  <2>1. /\ view' = EmptyView /\ feed' = EmptyFeed /\ synced' = {} /\ UNCHANGED objects
    BY <1>4 DEF Restart, Relist
  <2>2. \A k \in CachedKeys : ObjectVersionOf(objects[k], UnknownObject)
    BY <1>0 DEF ObjectVersionOf, UnknownObject
  <2>3. DOMAIN EmptyView = CachedKeys /\ \A k \in CachedKeys : EmptyView[k] = UnknownObject
    BY DEF EmptyView
  <2>4. DOMAIN EmptyFeed = CachedKinds /\ \A kind \in CachedKinds : EmptyFeed[kind] = <<>>
    BY DEF EmptyFeed
  <2>5. IsSequence(<<>>) /\ Range(<<>>) = {}
    BY DEF IsSequence, Range
  <2> QED
    BY <2>1, <2>2, <2>3, <2>4, <2>5 DEF ViewInv
<1>5. ASSUME NEW k \in Keys, NEW phase \in Phases, NEW data,
             PutObject(k, phase, data), UNCHANGED <<view, synced>>
      PROVE  ViewInv'
  <2> DEFINE object == [phase |-> phase, rv |-> objects[k].rv + 1, data |-> data]
             e == [key |-> k, object |-> object]
  <2>1. /\ objects'[k] = object
        /\ \A c \in Keys \ {k} : objects'[c] = objects[c]
    BY <1>0, <1>5, PutObjectFacts
  <2>2. feed' = IF k.kind \in synced
                THEN [feed EXCEPT ![k.kind] = Append(feed[k.kind], e)] ELSE feed
    BY <1>5 DEF PutObject
  <2>3. object.rv = objects[k].rv + 1 /\ objects[k].rv \in Nat /\ e.key = k /\ e.object = object
    BY <1>0 DEF ObjectsOK
  <2> HIDE DEF object, e
  <2>4. ASSUME NEW c \in CachedKeys, NEW v, ObjectVersionOf(objects[c], v)
        PROVE  ObjectVersionOf(objects'[c], v)
    <3>1. CASE c = k
      BY <1>0, <2>1, <2>3, <2>4, <3>1 DEF ObjectVersionOf
    <3>2. CASE c # k
      BY <1>0, <2>1, <2>4, <3>2
    <3> QED
      BY <3>1, <3>2
  <2>5. ObjectVersionOf(objects'[k], object)
    <3>1. object.rv \in Nat
      BY <2>3
    <3> QED
      BY <2>1, <3>1 DEF ObjectVersionOf
  <2>6. DOMAIN feed' = CachedKinds
    BY <2>2 DEF ViewInv
  <2>7. ASSUME NEW c \in CachedKinds
        PROVE  /\ IsSequence(feed'[c])
               /\ \A x \in Range(feed'[c]) : x \in Range(feed[c]) \/ (x = e /\ k \in CachedKeys)
    <3>1. IsSequence(feed[c])
      BY DEF ViewInv
    <3>2. CASE k.kind \in synced /\ c = k.kind
      <4>1. feed'[c] = Append(feed[c], e)
        BY <2>2, <3>2 DEF ViewInv
      <4>2. k \in CachedKeys
        BY <3>2 DEF CachedKeys
      <4> QED
        BY <3>1, <4>1, <4>2, QueueMoves
    <3>3. CASE ~(k.kind \in synced /\ c = k.kind)
      <4>1. feed'[c] = feed[c]
        BY <2>2, <3>3 DEF ViewInv
      <4> QED
        BY <3>1, <4>1
    <3> QED
      BY <3>2, <3>3
  <2>8. ASSUME NEW c \in CachedKinds, NEW x \in Range(feed'[c])
        PROVE  x.key \in CachedKeys /\ ObjectVersionOf(objects'[x.key], x.object)
    BY <2>3, <2>4, <2>5, <2>7 DEF ViewInv
  <2> QED
    BY <1>5, <2>4, <2>6, <2>7, <2>8 DEF ViewInv
<1> QED
  BY <1>1, <1>2, <1>3, <1>4, <1>5, ObjectMoves DEF Inform

\* The version an update refers to is one the server had: if it is still the
\* version stored, the object is there.
SeenInv ==
    pc = "update" => /\ seen \in Nat /\ seen <= objects[Target.key].rv
                     /\ seen = objects[Target.key].rv => Present(Target.key)

LEMMA SeenKeeps ==
    ASSUME IInv, PlanInv, ViewInv, SeenInv, [Next]_vars
    PROVE  SeenInv'
<1> DEFINE Sees(k) == /\ seen' \in Nat /\ seen' <= objects[k].rv
                      /\ seen' = objects[k].rv => Present(k)
<1> SUFFICES ASSUME pc' = "update"
             PROVE  /\ seen' \in Nat /\ seen' <= objects'[Target'.key].rv
                    /\ seen' = objects'[Target'.key].rv => objects'[Target'.key].phase # "absent"
  BY DEF SeenInv, Present
<1>0. ObjectsOK
  BY DEF IInv, TypeOK
<1>1. \/ pc = "update" /\ UNCHANGED passVars
      \/ GetObject
  <2>1. ASSUME NEW t \in Tenants, Fetch(t)
        PROVE  FALSE
    BY <2>1 DEF Fetch, FetchNothing, FetchDeleted, FetchLive, Begin, Take, passVars
  <2>2. CASE \/ TenantConflict \/ StatusConflict \/ RejectExtensions
             \/ AllApplied \/ ApplyRefused \/ CallFails \/ ReadValue \/ Rendered
             \/ AllDeleted \/ CheckNext \/ AllChecked \/ Restart
    <3>1. ~Fail /\ ~ReturnRetry /\ ~ClearPass /\ \A r : ~StopWith(r)
      BY DEF Fail, ReturnRetry, ClearPass, StopWith
    <3>2. ~(\/ TenantConflict \/ StatusConflict \/ RejectExtensions
            \/ AllApplied \/ ApplyRefused \/ CallFails \/ Restart)
      BY <3>1 DEF TenantConflict, StatusConflict, RejectExtensions, AllApplied, ApplyRefused,
                  CallFails, Restart
    <3> QED
      BY <2>2, <3>1, <3>2 DEF ReadValue, Rendered, AllDeleted, CheckNext, AllChecked, Goto
  <2>3. ASSUME NEW lost \in BOOLEAN, Write(lost)
        PROVE  FALSE
    <3>1. ~Fail /\ ~ReturnRetry /\ ~ReturnDone
      BY DEF Fail, ReturnRetry, ReturnDone, ClearPass, StopWith
    <3> QED
      BY <2>3, <3>1 DEF Write, AddFinalizer, CreateObject, UpdateObject, WriteStatus,
                        DeleteNext, Release, Continue
  <2>4. CASE \/ \E t \in Tenants : DeliverTenant(t) \/ TimerFires(t)
             \/ \E kind \in CachedKinds : Inform(kind)
             \/ Users \/ Cluster \/ UNCHANGED vars
    <3>1. UNCHANGED passVars
      BY <2>4 DEF DeliverTenant, TimerFires, Inform, Users, Cluster, PassStandsStill, vars
    <3> QED
      BY <3>1 DEF passVars
  <2> QED
    BY <2>1, <2>2, <2>3, <2>4 DEF Next, Work, Background, Fault
<1>2. CASE GetObject
  <2> DEFINE k == Target.key
  <2>1. /\ pc = "get" /\ idx \in DOMAIN plan /\ UNCHANGED objects
        /\ Skip(k) \/ FindNothing(k) \/ LeaveNamespace(k) \/ FindVersion(k)
    BY <1>2 DEF GetObject, apiVars
  <2>2. FindVersion(k)
    BY <2>1 DEF Skip, FindNothing, LeaveNamespace, Continue
  <2>3. /\ k # NoKey /\ Found(k).phase # "absent" /\ seen' = Found(k).rv /\ Target' = Target
    BY <2>2 DEF FindVersion, Target
  <2>4. k \in Keys
    <3>1. k \in ChildKeys(cur, snap.spec) /\ cur \in Tenants /\ snap.spec \in Specs
      BY <2>1, <2>3, PlanFacts DEF PlanSteps, Target
    <3> QED
      BY <3>1 DEF Keys, Children
  <2> HIDE DEF k
  <2>5. ObjectVersionOf(objects[k], Found(k))
    <3>1. CASE k.kind \in TypedInApply
      <4>1. k \in CachedKeys /\ Found(k) = view[k]
        BY <2>1, <2>4, <3>1 DEF Found, TypedInApply, CachedKeys, CachedKinds
      <4> QED
        BY <4>1 DEF ViewInv
    <3>2. CASE k.kind \notin TypedInApply
      <4>1. Found(k) = objects[k] /\ objects[k].rv \in Nat
        BY <1>0, <2>1, <2>4, <3>2 DEF Found, ObjectsOK
      <4> QED
        BY <4>1 DEF ObjectVersionOf
    <3> QED
      BY <3>1, <3>2
  <2> QED
    BY <2>1, <2>3, <2>5 DEF ObjectVersionOf, k
<1>3. CASE pc = "update" /\ UNCHANGED passVars
  <2> DEFINE k == Target.key
  <2>1. /\ Target'.key = k /\ seen' = seen
    BY <1>3 DEF passVars, Target
  <2>2. k \in Keys
    <3>1. idx \in DOMAIN plan /\ pc \in PlanSteps /\ Target.key # NoKey
      BY <1>3 DEF IInv, TypeOK, PositionOK, PlanSteps, WriteSteps, PlanInv
    <3>2. k \in ChildKeys(cur, snap.spec) /\ cur \in Tenants /\ snap.spec \in Specs
      BY <3>1, PlanFacts DEF Target
    <3> QED
      BY <3>2 DEF Keys, Children
  <2>3. /\ seen \in Nat /\ seen <= objects[k].rv
        /\ seen = objects[k].rv => objects[k].phase # "absent"
        /\ objects[k].rv \in Nat
    BY <1>0, <1>3, <2>2 DEF SeenInv, Present, ObjectsOK
  <2> HIDE DEF k
  <2>4. objects'[k] = objects[k] \/ objects'[k].rv = objects[k].rv + 1
    <3>1. ASSUME NEW c \in Keys, NEW phase, NEW data, PutObject(c, phase, data)
          PROVE  objects'[k] = objects[k] \/ objects'[k].rv = objects[k].rv + 1
      BY <1>0, <2>2, <3>1, PutObjectFacts
    <3>2. (\E kind \in CachedKinds : Inform(kind)) \/ Restart => UNCHANGED objects
      BY DEF Inform, StartInformer, DeliverObject, Restart, Relist
    <3> QED
      BY <3>1, <3>2, ObjectMoves
  <2> QED
    BY <2>1, <2>3, <2>4
<1> QED
  BY <1>1, <1>2, <1>3
===============================================================================
