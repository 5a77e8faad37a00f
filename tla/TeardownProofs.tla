---------------------------- MODULE TeardownProofs ----------------------------
(***************************************************************************)
(* finalize goes in order: NamespacesGoLast, for every set of tenants and  *)
(* specs and every value of the bounds.  Positions in the list of          *)
(* deletions stand for an order in time, because what the pass has         *)
(* deleted stays deleted (GoneInv) and only namespaces linger.             *)
(***************************************************************************)
EXTENDS TenantControllerProofs

\* Only namespaces linger as Terminating.
LingerInv == \A k \in Keys : k.kind # "Namespace" => objects[k].phase # "terminating"

LEMMA LingerKeeps ==
    ASSUME IInv, PlanInv, LingerInv, [Next]_vars
    PROVE  LingerInv'
<1>1. ObjectsOK
  BY DEF IInv, TypeOK
<1>2. CASE UNCHANGED objects
  BY <1>2 DEF LingerInv
<1>3. ASSUME NEW k \in Keys, NEW phase \in Phases, NEW data,
             PutObject(k, phase, data), ObjectMove(k, phase, data)
      PROVE  LingerInv'
  <2>1. phase = "terminating" => k.kind = "Namespace"
    BY <1>3 DEF ObjectMove, Goes
  <2>2. /\ objects'[k].phase = phase
        /\ \A c \in Keys \ {k} : objects'[c] = objects[c]
    BY <1>1, <1>3, PutObjectFacts
  <2> QED
    BY <2>1, <2>2 DEF LingerInv
<1>4. (\E kind \in CachedKinds : Inform(kind)) \/ Restart => UNCHANGED objects
  BY DEF Inform, StartInformer, DeliverObject, Restart, Relist
<1> QED
  BY <1>2, <1>3, <1>4, ObjectMoves

LEMMA InitLinger == Init => LingerInv /\ PlanInv
<1> SUFFICES ASSUME Init
             PROVE  LingerInv /\ PlanInv
  OBVIOUS
<1>1. ASSUME NEW k \in Keys
      PROVE  objects[k].phase # "terminating"
  <2>1. PICK source : objects = [c \in Keys |->
                                   IF c \in Sources
                                   THEN [phase |-> "live", rv |-> 0, data |-> source[c]]
                                   ELSE UnknownObject]
    BY DEF Init, APIInit
  <2>2. objects[k].phase \in {"live", "absent"}
    BY <2>1 DEF UnknownObject
  <2> QED
    BY <2>2
<1>2. PlanInv
  BY DEF Init, PlanInv, PlanSteps, WriteSteps
<1> QED
  BY <1>1, <1>2 DEF LingerInv

NoNamespaces(list) == \A n \in DOMAIN list : list[n].kind # "Namespace"

LEMMA ConcatNoNamespaces ==
    ASSUME NEW s, NEW u, IsSequence(s), IsSequence(u), NoNamespaces(s), NoNamespaces(u)
    PROVE  IsSequence(s \o u) /\ NoNamespaces(s \o u)
<1>1. IsSequence(s \o u) /\ Range(s \o u) = Range(s) \cup Range(u)
  BY ConcatElements
<1>2. \A list : NoNamespaces(list) <=> \A k \in Range(list) : k.kind # "Namespace"
  BY DEF NoNamespaces, Range
<1> QED
  BY <1>1, <1>2

\* In the list of finalize, the ApplicationSets and the AppProject come before
\* every namespace.
LEMMA NamespacesAtTheEnd ==
    ASSUME NEW t \in Tenants, NEW spec \in Specs, NEW i \in DOMAIN Teardown(t, spec),
           Teardown(t, spec)[i].kind = "Namespace"
    PROVE  /\ \E j \in 1 .. i - 1 : Teardown(t, spec)[j] = AppProjectKey(t)
           /\ \A n \in DOMAIN spec.environments :
                 \E j \in 1 .. i - 1 : Teardown(t, spec)[j] = AppSetKey(t, spec.environments[n])
<1> DEFINE m    == Len(spec.environments)
           sets == [n \in DOMAIN spec.environments |-> AppSetKey(t, spec.environments[n])]
           one  == <<AppProjectKey(t)>>
           secs == TeardownSecrets(t, spec)
           nss  == TeardownNamespaces(t, spec)
           all  == Teardown(t, spec)
<1>1. /\ Len(spec.git) \in Nat
      /\ DOMAIN spec.git = 1 .. Len(spec.git)
      /\ m \in Nat
      /\ DOMAIN spec.environments = 1 .. m
  BY SpecsHoldLists, SequenceDomain
<1>2. /\ IsSequence(sets) /\ Len(sets) = m /\ NoNamespaces(sets)
      /\ \A n \in 1 .. m : sets[n] = AppSetKey(t, spec.environments[n])
  <2>1. /\ sets = [n \in 1 .. m |-> sets[n]]
        /\ \A n \in 1 .. m : sets[n] = AppSetKey(t, spec.environments[n])
    BY <1>1
  <2>2. \A n \in DOMAIN sets : sets[n].kind = "ApplicationSet"
    BY DEF AppSetKey, Key
  <2> HIDE DEF sets, m
  <2> QED
    BY <1>1, <2>1, <2>2, FunctionIsSequence DEF NoNamespaces
<1>3. /\ IsSequence(one) /\ Len(one) = 1 /\ NoNamespaces(one)
      /\ one[1] = AppProjectKey(t)
  <2>1. one = [n \in 1 .. 1 |-> one[n]] /\ one[1] = AppProjectKey(t)
    OBVIOUS
  <2>2. \A n \in DOMAIN one : one[n].kind = "AppProject"
    BY DEF AppProjectKey, Key
  <2> HIDE DEF one
  <2> QED
    BY <2>1, <2>2, FunctionIsSequence DEF NoNamespaces
<1>4. IsSequence(secs) /\ NoNamespaces(secs)
  <2>1. secs = [n \in 1 .. Len(spec.git) |-> secs[n]]
    BY <1>1 DEF TeardownSecrets
  <2>2. \A n \in DOMAIN secs : secs[n] = NoKey \/ secs[n] = RepoSecretKey(t, n)
    BY DEF TeardownSecrets
  <2>3. NoKey.kind = "None" /\ \A n : RepoSecretKey(t, n).kind = "Secret"
    BY DEF NoKey, RepoSecretKey, Key
  <2> HIDE DEF secs
  <2> QED
    BY <1>1, <2>1, <2>2, <2>3, FunctionIsSequence DEF NoNamespaces
<1>5. IsSequence(nss)
  <2>1. nss = [n \in 1 .. m |-> nss[n]]
    BY <1>1 DEF TeardownNamespaces
  <2> HIDE DEF nss, m
  <2> QED
    BY <1>1, <2>1, FunctionIsSequence
<1> DEFINE argo == sets \o one
           head == argo \o secs
<1>6. all = head \o nss
  BY DEF Teardown, TeardownArgo
<1> HIDE DEF m, sets, one, secs, nss, all
<1>7. /\ IsSequence(argo) /\ Len(argo) = m + 1 /\ NoNamespaces(argo)
      /\ \A n \in 1 .. m : argo[n] = AppSetKey(t, spec.environments[n])
      /\ argo[m + 1] = AppProjectKey(t)
  <2>1. IsSequence(argo) /\ NoNamespaces(argo)
    BY <1>2, <1>3, ConcatNoNamespaces
  <2>2. Len(argo) = m + 1 /\ \A n \in 1 .. m : argo[n] = sets[n]
    <3>1. /\ Len(sets \o one) = Len(sets) + Len(one)
          /\ \A n \in 1 .. Len(sets) : (sets \o one)[n] = sets[n]
      BY <1>2, <1>3, ConcatElements
    <3> QED
      BY <1>2, <1>3, <3>1
  <2>3. argo = Append(sets, AppProjectKey(t))
    BY <1>2, AppendIsConcat DEF IsSequence, one
  <2>4. argo[m + 1] = AppProjectKey(t)
    BY <1>1, <1>2, <2>3 DEF IsSequence
  <2> QED
    BY <1>2, <2>1, <2>2, <2>4
<1> HIDE DEF argo
<1>8. /\ IsSequence(head) /\ NoNamespaces(head)
      /\ Len(head) \in Nat /\ Len(head) >= m + 1 /\ DOMAIN head = 1 .. Len(head)
      /\ \A n \in 1 .. m + 1 : head[n] = argo[n]
  <2>1. IsSequence(head) /\ NoNamespaces(head)
    BY <1>4, <1>7, ConcatNoNamespaces
  <2> QED
    BY <1>1, <1>4, <1>7, <2>1, ConcatElements
<1> HIDE DEF head
<1>9. /\ DOMAIN all \subseteq Nat
      /\ \A n \in 1 .. Len(head) : all[n] = head[n]
  BY <1>5, <1>6, <1>8, ConcatElements
<1>10. i \in Nat /\ all[i].kind = "Namespace" /\ i >= 1
  <2>1. DOMAIN all = 1 .. Len(head) + Len(nss) /\ Len(nss) \in Nat
    BY <1>5, <1>6, <1>8, ConcatElements
  <2> QED
    BY <1>8, <2>1 DEF all
<1>11. i > Len(head)
  BY <1>8, <1>9, <1>10 DEF NoNamespaces
<1>12. \A n \in 1 .. m + 1 : n \in 1 .. i - 1 /\ all[n] = argo[n]
  BY <1>1, <1>8, <1>9, <1>10, <1>11
<1>13. \E j \in 1 .. i - 1 : all[j] = AppProjectKey(t)
  BY <1>1, <1>7, <1>12
<1>14. \A n \in 1 .. m : \E j \in 1 .. i - 1 : all[j] = AppSetKey(t, spec.environments[n])
  <2>1. \A n \in 1 .. m : n \in 1 .. m + 1
    BY <1>1
  <2> QED
    BY <1>7, <1>12, <2>1
<1> QED
  BY <1>1, <1>13, <1>14 DEF all

\* A step of the pass that takes an object away is one of finalize's deletions.
LEMMA OnlyFinalizeDeletes ==
    ASSUME IInv, [Next]_vars, OperatorStep, NEW k \in Keys,
           objects[k].phase = "live", objects'[k].phase # "live"
    PROVE  pc = "delete" /\ idx \in DOMAIN Doomed /\ Doomed[idx] = k
<1>1. ~UNCHANGED objects
  OBVIOUS
<1>2. ~(Users \/ Cluster)
  BY DEF Users, Cluster, PassStandsStill, passVars, OperatorStep
<1>3. PICK lost \in BOOLEAN : Write(lost)
  BY <1>1, <1>2
     DEF Next, Work, Background, Fault, Fetch, FetchNothing, FetchDeleted, FetchLive, Begin,
         DeliverTenant, TimerFires, Inform, StartInformer, DeliverObject,
         TenantConflict, StatusConflict, RejectExtensions, AllApplied, ApplyRefused,
         CallFails, ReadValue, Rendered, GetObject, AllDeleted, CheckNext, AllChecked,
         Restart, Relist, vars, apiVars, objectStore
<1>4. ~(AddFinalizer(lost) \/ WriteStatus(lost) \/ Release(lost))
  BY <1>1 DEF AddFinalizer, WriteStatus, Release, objectStore
<1>5. ObjectsOK
  BY DEF IInv, TypeOK
<1>6. ~(CreateObject(lost) \/ UpdateObject(lost))
  <2> SUFFICES ASSUME CreateObject(lost) \/ UpdateObject(lost)
               PROVE  FALSE
    OBVIOUS
  <2>1. PICK c, data : PutObject(c, "live", data)
    BY <1>1 DEF CreateObject, UpdateObject, ReplaceObject
  <2>2. /\ c \in Keys => objects'[c].phase = "live"
        /\ \A d \in Keys \ {c} : objects'[d] = objects[d]
    BY <1>5, <2>1, PutObjectEffect DEF Phases
  <2> QED
    BY <2>2
<1>7. DeleteNext(lost)
  BY <1>3, <1>4, <1>6 DEF Write
<1> DEFINE c == Doomed[idx]
<1>8. pc = "delete" /\ idx \in DOMAIN Doomed /\ c # NoKey /\ DeleteObject(c)
  BY <1>1, <1>7 DEF DeleteNext, objectStore
<1>9. c \in Keys
  BY <1>8, PassFacts, DoomedKeysAreKeys
<1>10. \A d \in Keys \ {c} : objects'[d] = objects[d]
  <2> HIDE DEF c
  <2> QED
    BY <1>5, <1>8, <1>9, DeleteObjectEffect
<1> QED
  BY <1>8, <1>10

\* finalize sends a namespace on its way out only when the ApplicationSets and
\* the AppProject of the tenant, as the pass knows it, are gone: whatever users
\* do meanwhile, whichever calls fail, and wherever a pass was cut short.
THEOREM NamespacesLast == Spec => NamespacesGoLast
<1> DEFINE Done(k) == /\ objects[AppProjectKey(cur)].phase = "absent"
                      /\ \A n \in DOMAIN snap.spec.environments :
                            objects[AppSetKey(cur, snap.spec.environments[n])].phase = "absent"
<1>1. ASSUME IInv, LingerInv, [Next]_vars, NEW k \in Keys, OperatorStep,
             k.kind = "Namespace",
             objects[k].phase = "live", objects'[k].phase = "terminating"
      PROVE  Done(k)
  <2>1. pc = "delete" /\ idx \in DOMAIN Doomed /\ Doomed[idx] = k
    BY <1>1, OnlyFinalizeDeletes
  <2>2. cur \in Tenants /\ snap.spec \in Specs
    BY <1>1, <2>1, PassFacts
  <2>3. /\ \E j \in 1 .. idx - 1 : Doomed[j] = AppProjectKey(cur)
        /\ \A n \in DOMAIN snap.spec.environments :
              \E j \in 1 .. idx - 1 : Doomed[j] = AppSetKey(cur, snap.spec.environments[n])
    BY <1>1, <2>1, <2>2, NamespacesAtTheEnd DEF Doomed
  <2>4. \A j \in 1 .. idx - 1 : Gone(Doomed[j])
    BY <1>1, <2>1 DEF IInv, GoneInv
  <2>5. ASSUME NEW c \in ChildKeys(cur, snap.spec), c.kind \notin {"Namespace", "None"}, Gone(c)
        PROVE  objects[c].phase = "absent"
    <3>0. NoKey.kind = "None"
      BY DEF NoKey, Key
    <3>1. c # NoKey
      BY <2>5, <3>0
    <3>2. c \in Keys
      BY <2>2, <2>5 DEF Keys, Children
    <3> QED
      BY <1>1, <2>5, <3>1, <3>2 DEF LingerInv, Gone, IInv, TypeOK, ObjectsOK, Phases
  <2>6. objects[AppProjectKey(cur)].phase = "absent"
    <3>1. /\ AppProjectKey(cur) \in ChildKeys(cur, snap.spec)
          /\ AppProjectKey(cur).kind = "AppProject"
      BY DEF ChildKeys, AppProjectKey, Key
    <3> QED
      BY <2>3, <2>4, <2>5, <3>1
  <2>7. ASSUME NEW n \in DOMAIN snap.spec.environments
        PROVE  objects[AppSetKey(cur, snap.spec.environments[n])].phase = "absent"
    <3>1. /\ AppSetKey(cur, snap.spec.environments[n]) \in ChildKeys(cur, snap.spec)
          /\ AppSetKey(cur, snap.spec.environments[n]).kind = "ApplicationSet"
      BY DEF ChildKeys, AppSetKey, Key
    <3> QED
      BY <2>3, <2>4, <2>5, <3>1
  <2> QED
    BY <2>6, <2>7
<1>2. Init => LingerInv /\ PlanInv
  BY InitLinger
<1>3. IInv /\ LingerInv /\ PlanInv /\ [Next]_vars => LingerInv' /\ PlanInv'
  BY LingerKeeps, PlanKeeps
<1>4. IInv /\ LingerInv /\ [Next]_vars =>
        [\A k \in Keys : /\ OperatorStep
                         /\ k.kind = "Namespace"
                         /\ objects[k].phase = "live" /\ objects'[k].phase = "terminating"
                         => Done(k)]_vars
  BY <1>1
<1> QED
  BY <1>2, <1>3, <1>4, Invariance, PTL DEF Spec, NamespacesGoLast

-------------------------------------------------------------------------------
(***************************************************************************)
(* What is alive is held: a Tenant that holds the finalizer has it on its  *)
(* list of deletions, or the namespace it is in is on its way out.         *)
(*                                                                         *)
(* Three things the code does not see to are assumed.  Environments are    *)
(* added, not taken off (finalize looks at the spec as it is in the end);  *)
(* no two tenants' namespaces or Argo CD objects have the same name (names *)
(* are joined with dashes, so they may); and a Tenant that is deleted does *)
(* not ask for its resources to be preserved.                              *)
(***************************************************************************)
TenantsApart ==
    \A t, u \in Tenants : t # u =>
        \A spec, other \in Specs : ChildKeys(t, spec) \cap ChildKeys(u, other) = {}

EditsOnlyAdd ==
    \A t \in Tenants :
        tenants[t].phase # "absent" /\ tenants'[t].phase # "absent" =>
            Range(Teardown(t, tenants[t].spec)) \subseteq Range(Teardown(t, tenants'[t].spec))

NothingPreserved ==
    \A t \in Tenants : tenants[t].phase = "terminating" => ~tenants[t].spec.preserve

LEMMA CopiesAreVersions ==
    ASSUME IInv
    PROVE  \A t \in Tenants :
              /\ VersionOf(tenants[t], tenants[t]) /\ VersionOf(tenants[t], tenantView[t])
              /\ \A v \in Range(tenantFeed[t]) :
                    VersionOf(tenants[t], v) /\ tenantView[t].rv < v.rv
                    /\ v \in TenantVersions
<1> SUFFICES ASSUME NEW t \in Tenants
             PROVE  /\ VersionOf(tenants[t], tenants[t]) /\ VersionOf(tenants[t], tenantView[t])
                    /\ \A v \in Range(tenantFeed[t]) :
                          VersionOf(tenants[t], v) /\ tenantView[t].rv < v.rv
                          /\ v \in TenantVersions
  OBVIOUS
<1>1. tenantFeed[t] \in Seq(TenantVersions)
  BY DEF IInv, TypeOK, TenantsOK
<1>2. DOMAIN tenantFeed[t] = 1 .. Len(tenantFeed[t])
      /\ \A i \in DOMAIN tenantFeed[t] : tenantFeed[t][i] \in TenantVersions
  BY <1>1
<1> QED
  BY <1>2 DEF IInv, CacheInv, Range

\* ... after a step as before it.
LEMMA CopiesStayVersions ==
    ASSUME IInv, [Next]_vars
    PROVE  /\ IInv'
           /\ \A t \in Tenants :
                 /\ VersionOf(tenants'[t], tenantView'[t])
                 /\ \A v \in Range(tenantFeed'[t]) :
                       VersionOf(tenants'[t], v) /\ v \in TenantVersions
           /\ pc' # "idle" => cur' \in Tenants /\ VersionOf(tenants'[cur'], snap')
<1>1. IInv'
  BY NextKeeps
<1>2. ASSUME NEW t \in Tenants
      PROVE  /\ VersionOf(tenants'[t], tenantView'[t])
             /\ \A v \in Range(tenantFeed'[t]) :
                   VersionOf(tenants'[t], v) /\ v \in TenantVersions
  <2>1. tenantFeed'[t] \in Seq(TenantVersions)
    BY <1>1 DEF IInv, TypeOK, TenantsOK
  <2>2. DOMAIN tenantFeed'[t] = 1 .. Len(tenantFeed'[t])
        /\ \A i \in DOMAIN tenantFeed'[t] : tenantFeed'[t][i] \in TenantVersions
    BY <2>1
  <2> QED
    BY <1>1, <2>2 DEF IInv, CacheInv, Range
<1>3. pc' # "idle" => cur' \in Tenants /\ VersionOf(tenants'[cur'], snap')
  BY <1>1 DEF IInv, TypeOK, PassOK, PassInv
<1> QED
  BY <1>1, <1>2, <1>3

\* What a copy that promises a finalizer would tear down, the stored Tenant does.
Bounded(t, v) ==
    v.phase = "live" /\ v.finalizer =>
        Range(Teardown(t, v.spec)) \subseteq Range(Teardown(t, tenants[t].spec))

GrowInv ==
    /\ \A t \in Tenants :
          Bounded(t, tenantView[t]) /\ \A v \in Range(tenantFeed[t]) : Bounded(t, v)
    /\ pc # "idle" => Bounded(cur, snap)

LEMMA GrowKeeps ==
    ASSUME IInv, GrowInv, [Next]_vars, [EditsOnlyAdd]_vars
    PROVE  GrowInv'
<1> DEFINE After(t, v) == v.phase = "live" /\ v.finalizer =>
                             Range(Teardown(t, v.spec))
                                 \subseteq Range(Teardown(t, tenants'[t].spec))
<1>1. ASSUME NEW t \in Tenants, NEW v, Bounded(t, v),
             VersionOf(tenants[t], v), VersionOf(tenants'[t], v)
      PROVE  After(t, v)
  <2> SUFFICES ASSUME v.phase = "live", v.finalizer
               PROVE  Range(Teardown(t, v.spec)) \subseteq Range(Teardown(t, tenants'[t].spec))
    OBVIOUS
  <2>1. tenants[t].phase # "absent" /\ tenants'[t].phase # "absent"
    BY <1>1 DEF VersionOf, HoldsFinalizer
  <2>2. Range(Teardown(t, tenants[t].spec)) \subseteq Range(Teardown(t, tenants'[t].spec))
    <3>1. CASE EditsOnlyAdd
      BY <2>1, <3>1 DEF EditsOnlyAdd
    <3>2. CASE UNCHANGED vars
      BY <3>2 DEF vars, apiVars
    <3> QED
      BY <3>1, <3>2
  <2> QED
    BY <1>1, <2>2 DEF Bounded
<1>2. \A t \in Tenants : After(t, tenants'[t])
  OBVIOUS
<1>3. ASSUME NEW t \in Tenants, NEW v \in Range(tenantFeed[t]) \cup {tenants'[t]},
             VersionOf(tenants'[t], v)
      PROVE  After(t, v)
  BY <1>1, <1>2, <1>3, CopiesAreVersions DEF GrowInv
<1>4. ASSUME NEW t \in Tenants
      PROVE  After(t, tenantView'[t])
  <2>1. VersionOf(tenants'[t], tenantView'[t])
    BY CopiesStayVersions
  <2>2. CASE tenantView'[t] = tenantView[t]
    BY <1>1, <2>1, <2>2, CopiesAreVersions DEF GrowInv
  <2>3. CASE tenantView'[t] # tenantView[t]
    BY <1>3, <2>1, <2>3, CopiesMove
  <2> QED
    BY <2>2, <2>3
<1>5. ASSUME NEW t \in Tenants, NEW v \in Range(tenantFeed'[t])
      PROVE  After(t, v)
  <2>1. VersionOf(tenants'[t], v)
    BY <1>5, CopiesStayVersions
  <2> QED
    BY <1>3, <1>5, <2>1, CopiesMove
<1>6. ASSUME pc' # "idle"
      PROVE  After(cur', snap')
  <2>1. cur' \in Tenants /\ VersionOf(tenants'[cur'], snap')
    BY <1>6, CopiesStayVersions
  <2>2. CASE pc # "idle" /\ cur' = cur /\ snap' = snap
    <3>1. VersionOf(tenants[cur], snap)
      BY <2>2, PassFacts
    <3> QED
      BY <1>1, <2>1, <2>2, <3>1 DEF GrowInv
  <2>3. CASE cur' = cur /\ snap' = tenants'[cur]
    BY <1>2, <2>1, <2>3
  <2>4. CASE snap' = tenantView[cur']
    BY <1>1, <2>1, <2>4, CopiesAreVersions DEF GrowInv
  <2> QED
    BY <1>6, <2>2, <2>3, <2>4, CopiesMove
<1> QED
  BY <1>4, <1>5, <1>6 DEF GrowInv, Bounded

LEMMA ChildHomes ==
    ASSUME NEW c \in Children
    PROVE  /\ c \in Keys /\ c \notin Sources /\ Home(c) \in Children /\ Home(c) \in Keys
           /\ Home(c) \notin Sources
           /\ Home(Home(c)) = Home(c)
           /\ Home(c) # c => /\ Home(c).kind = "Namespace" /\ Home(c) = NamespaceOf(c)
                             /\ NamespaceOf(c) \in Keys
           /\ c.kind = "Namespace" => Home(c) = c
           /\ c.kind = "ServiceAccount" => Home(c) # c
<1>1. PICK t \in Tenants, spec \in Specs : c \in ChildKeys(t, spec)
  BY DEF Children
<1>2. Home(c) \in Children
  BY <1>1, HomeOfChild DEF Children
<1>3. \A k \in Children : k \in Keys /\ k \notin Sources
  BY SourcesAreNotChildren DEF Keys
<1> QED
  BY <1>1, <1>2, <1>3, HomeOfChild

\* What is there has a home that is there, if the operator made the home.
HousedInv == \A c \in Children : Present(c) => Present(Home(c))

LEMMA HousedKeeps ==
    ASSUME IInv, PlanInv, SeenInv, HousedInv, [Next]_vars
    PROVE  HousedInv'
<1>1. ObjectsOK
  BY DEF IInv, TypeOK
<1>2. CASE UNCHANGED objects
  <2>1. \A k : Present(k)' <=> Present(k)
    BY <1>2 DEF Present
  <2> QED
    BY <2>1 DEF HousedInv, Home, NamespaceOf
<1>3. (\E kind \in CachedKinds : Inform(kind)) \/ Restart => UNCHANGED objects
  BY DEF Inform, StartInformer, DeliverObject, Restart, Relist
<1>4. ASSUME NEW k \in Keys, NEW phase \in Phases, NEW data,
             PutObject(k, phase, data), ObjectMove(k, phase, data),
             NEW c \in Children, objects'[c].phase # "absent"
      PROVE  objects'[Home(c)].phase # "absent"
  <2>1. /\ objects'[k].phase = phase
        /\ \A x \in Keys \ {k} : objects'[x] = objects[x]
    BY <1>1, <1>4, PutObjectFacts
  <2>2. /\ c \in Keys /\ Home(c) \in Keys
        /\ Home(c) # c => Home(c).kind = "Namespace" /\ Home(c) = NamespaceOf(c)
    BY ChildHomes
  <2>3. Present(c) => Present(Home(c))
    BY DEF HousedInv
  <2>4. CASE c # k /\ Home(c) # k
    BY <1>4, <2>1, <2>2, <2>3, <2>4 DEF Present
  <2>5. CASE c = k
    <3>1. CASE Home(c) = c
      BY <1>4, <3>1
    <3>2. CASE Home(c) # c /\ Present(c)
      BY <2>1, <2>2, <2>3, <2>5, <3>2 DEF Present
    <3>3. CASE Home(c) # c /\ ~Present(c)
      <4>1. k \notin Sources /\ phase # "absent"
        BY <1>4, <2>1, <2>5, ChildHomes
      <4>2. CanCreate(k)
        <5>1. Applied(k, data) => CanCreate(k)
          BY <2>5, <3>3 DEF Applied, SeenInv
        <5>2. ~Goes(k, phase)
          BY <2>5, <3>3, <4>1 DEF Goes, Present
        <5>3. objects[k].phase # "live"
          BY <2>5, <3>3 DEF Present
        <5> QED
          BY <1>4, <4>1, <5>1, <5>2, <5>3 DEF ObjectMove
      <4>3. objects[Home(c)].phase = "live"
        BY <2>2, <2>5, <3>3, <4>2 DEF CanCreate, NamespaceLive
      <4> QED
        BY <2>1, <2>2, <2>5, <3>3, <4>3
    <3> QED
      BY <3>1, <3>2, <3>3
  <2>6. CASE c # k /\ Home(c) = k
    <3>1. Present(c) /\ Present(k)
      BY <1>4, <2>1, <2>2, <2>3, <2>6 DEF Present
    <3>2. phase # "absent"
      <4> SUFFICES ASSUME phase = "absent"
                   PROVE  FALSE
        OBVIOUS
      <4>1. k \notin Sources /\ k.kind = "Namespace" /\ NamespaceOf(c) = k
        BY <2>2, <2>6, ChildHomes
      <4>2. Goes(k, phase)
        BY <1>4, <4>1 DEF ObjectMove
      <4> QED
        BY <2>2, <3>1, <4>1, <4>2 DEF Goes
    <3> QED
      BY <2>1, <2>6, <3>2
  <2> QED
    BY <2>4, <2>5, <2>6
<1>5. ASSUME NEW k \in Keys, NEW phase \in Phases, NEW data,
             PutObject(k, phase, data), ObjectMove(k, phase, data)
      PROVE  HousedInv'
  BY <1>4, <1>5 DEF HousedInv, Present, Home, NamespaceOf
<1> QED
  BY <1>2, <1>3, <1>5, ObjectMoves

\* A Tenant lets go of the finalizer in Release only.
LEMMA FinalizerStays ==
    ASSUME IInv, [Next]_vars, NEW t \in Tenants, HoldsFinalizer(tenants[t])
    PROVE  HoldsFinalizer(tenants'[t]) \/ ReleasedNow(t)
<1>1. tenants[t].phase # "absent" /\ tenants[t].finalizer
  BY DEF HoldsFinalizer
<1>2. ~Created(tenants[t], tenants'[t]) /\ ~Dropped(tenants[t], tenants'[t])
  BY <1>1 DEF Created, Dropped
<1>3. \/ Edited(tenants[t], tenants'[t]) \/ Doom(tenants[t], tenants'[t])
      \/ Kept(tenants[t], tenants'[t]) \/ tenants'[t] = tenants[t]
      => tenants'[t].phase # "absent" /\ tenants'[t].finalizer
  <2>1. Edited(tenants[t], tenants'[t]) =>
           tenants'[t].phase # "absent" /\ tenants'[t].finalizer = tenants[t].finalizer
    BY <1>1 DEF Edited
  <2>2. Doom(tenants[t], tenants'[t]) => tenants'[t].phase # "absent" /\ tenants'[t].finalizer
    <3>1. Doom(tenants[t], tenants'[t]) => tenants'[t].phase = "terminating"
      BY DEF Doom
    <3>2. Doom(tenants[t], tenants'[t]) => tenants'[t].finalizer
      BY Zenon DEF Doom
    <3> QED
      BY <3>1, <3>2
  <2>3. Kept(tenants[t], tenants'[t]) => tenants'[t].phase # "absent" /\ tenants'[t].finalizer
    BY <1>1, Zenon DEF Kept
  <2>4. tenants'[t].finalizer = tenants[t].finalizer => tenants'[t].finalizer
    BY <1>1, Zenon
  <2>5. tenants'[t] = tenants[t] =>
           tenants'[t].phase # "absent" /\ tenants'[t].finalizer = tenants[t].finalizer
    BY <1>1
  <2> QED
    BY <2>1, <2>2, <2>3, <2>4, <2>5
<1> QED
  BY <1>2, <1>3, TenantMoves DEF HoldsFinalizer

\* What is alive goes with a namespace on its way out, or is on the list of
\* deletions of a Tenant that holds the finalizer.
HeldBy(t, c) ==
    HoldsFinalizer(tenants[t]) /\ Home(c) \in Range(Teardown(t, tenants[t].spec))

Held(c) == objects[Home(c)].phase = "terminating" \/ \E t \in Tenants : HeldBy(t, c)

HeldInv == \A c \in Children : objects[c].phase = "live" => Held(c)

CleanupInv ==
    /\ IInv /\ PlanInv /\ LingerInv /\ ViewInv /\ SeenInv
    /\ HousedInv /\ GrowInv /\ HeldInv

\* A Tenant goes when what it holds is dead; what is left of it is in a
\* namespace on its way out.
LEMMA ReleaseHolds ==
    ASSUME CleanupInv, NothingPreserved, NEW t \in Tenants, ReleasedNow(t),
           NEW c \in Children, objects[c].phase = "live", HeldBy(t, c)
    PROVE  objects[Home(c)].phase = "terminating"
<1>1. PICK lost \in BOOLEAN : Release(lost) /\ pc = "release" /\ cur = t
  BY DEF ReleasedNow
<1>2. snap = tenants[t] /\ snap.phase = "terminating"
  BY <1>1, ReleaseKeeps DEF CleanupInv, IInv, PassInv, TeardownSteps
<1>3. ~snap.spec.preserve
  BY <1>2 DEF NothingPreserved
<1>4. \A j \in DOMAIN Doomed : Gone(Doomed[j])
  BY <1>1, <1>3 DEF CleanupInv, IInv, GoneInv
<1>5. Home(c) \in Range(Doomed)
  BY <1>1, <1>2 DEF HeldBy, Doomed
<1>6. Home(c) \in Keys /\ Home(c) # NoKey
  BY ChildHomes, NoKeyIsNoKey
<1>7. objects[Home(c)].phase # "live"
  BY <1>4, <1>5, <1>6 DEF Gone, Range
<1>8. objects[Home(c)].phase # "absent"
  BY DEF CleanupInv, HousedInv, Present
<1> QED
  BY <1>6, <1>7, <1>8 DEF CleanupInv, IInv, TypeOK, ObjectsOK, Phases

\* What a step leaves alive stays held, by the same Tenant or in the same
\* namespace.
LEMMA HoldStays ==
    ASSUME CleanupInv, NothingPreserved, [Next]_vars, [EditsOnlyAdd]_vars,
           NEW t \in Tenants, NEW c \in Children, HeldBy(t, c), ~ReleasedNow(t)
    PROVE  /\ HoldsFinalizer(tenants'[t])
           /\ Home(c) \in Range(Teardown(t, tenants'[t].spec))
<1>1. HoldsFinalizer(tenants'[t])
  BY FinalizerStays DEF HeldBy, CleanupInv
<1>2. tenants[t].phase # "absent" /\ tenants'[t].phase # "absent"
  BY <1>1 DEF HeldBy, HoldsFinalizer
<1>3. Range(Teardown(t, tenants[t].spec)) \subseteq Range(Teardown(t, tenants'[t].spec))
  <2>1. CASE EditsOnlyAdd
    BY <1>2, <2>1 DEF EditsOnlyAdd
  <2>2. CASE UNCHANGED vars
    BY <2>2 DEF vars, apiVars
  <2> QED
    BY <2>1, <2>2
<1> QED
  BY <1>1, <1>3 DEF HeldBy

LEMMA HeldKeeps ==
    ASSUME CleanupInv, NothingPreserved, [Next]_vars, [EditsOnlyAdd]_vars
    PROVE  HeldInv'
<1> DEFINE StillHeld(c) == \/ objects'[Home(c)].phase = "terminating"
                       \/ \E t \in Tenants :
                             /\ HoldsFinalizer(tenants'[t])
                             /\ Home(c) \in Range(Teardown(t, tenants'[t].spec))
<1> SUFFICES ASSUME NEW c \in Children, objects'[c].phase = "live"
             PROVE  StillHeld(c)
  BY DEF HeldInv, Held, HeldBy, Home, NamespaceOf, HoldsFinalizer
<1>1. ObjectsOK /\ IInv /\ PlanInv
  BY DEF CleanupInv, IInv, TypeOK
<1>2. ASSUME NEW t \in Tenants, HeldBy(t, c), ~ReleasedNow(t)
      PROVE  StillHeld(c)
  BY <1>2, HoldStays
<1>3. ASSUME NEW t \in Tenants, ReleasedNow(t)
      PROVE  StillHeld(c)
  <2>1. UNCHANGED objects
    BY <1>3 DEF ReleasedNow, Release, objectStore
  <2>2. CASE objects[Home(c)].phase = "terminating"
    BY <2>1, <2>2
  <2>3. CASE \E u \in Tenants : HeldBy(u, c)
    <3>1. PICK u \in Tenants : HeldBy(u, c)
      BY <2>3
    <3>2. CASE ReleasedNow(u)
      BY <2>1, <3>1, <3>2, ReleaseHolds
    <3> QED
      BY <1>2, <3>1, <3>2
  <2> QED
    BY <2>1, <2>2, <2>3 DEF CleanupInv, HeldInv, Held
<1>4. /\ c \in Keys /\ c \notin Sources /\ Home(c) \in Keys /\ Home(c) \in Children
      /\ Home(c) \notin Sources /\ Home(Home(c)) = Home(c)
      /\ Home(c) # c => Home(c).kind = "Namespace" /\ Home(c) = NamespaceOf(c)
      /\ c.kind = "ServiceAccount" => Home(c) # c
  BY ChildHomes
<1>5. ASSUME UNCHANGED objects, \A t \in Tenants : ~ReleasedNow(t)
      PROVE  StillHeld(c)
  BY <1>2, <1>5 DEF CleanupInv, HeldInv, Held
<1>6. ASSUME NEW k \in Keys, NEW phase \in Phases, NEW data,
             PutObject(k, phase, data), ObjectMove(k, phase, data),
             \A t \in Tenants : ~ReleasedNow(t)
      PROVE  StillHeld(c)
  <2>1. /\ objects'[k].phase = phase
        /\ \A x \in Keys \ {k} : objects'[x] = objects[x]
    BY <1>1, <1>6, PutObjectFacts
  <2>2. CASE objects[c].phase = "live"
    <3>1. CASE \E t \in Tenants : HeldBy(t, c)
      BY <1>2, <1>6, <3>1
    <3>2. CASE objects[Home(c)].phase = "terminating"
      <4>1. Home(c) # c /\ Home(c).kind = "Namespace" /\ NamespaceOf(c) = Home(c)
        BY <1>4, <2>2, <3>2
      <4>2. Home(c) # k
        <5> SUFFICES ASSUME Home(c) = k
                     PROVE  FALSE
          OBVIOUS
        <5>1. Present(c) /\ Present(k) /\ objects[k].phase = "terminating"
          BY <2>2, <3>2 DEF Present
        <5>2. ~Goes(k, phase)
          BY <1>4, <4>1, <5>1 DEF Goes
        <5>3. ~Applied(k, data)
          <6>1. pc # "update" \/ Target.key # k
            BY <1>1, <4>1 DEF PlanInv
          <6> QED
            BY <5>1, <6>1 DEF Applied, CanCreate
        <5> QED
          BY <1>4, <1>6, <4>1, <5>1, <5>2, <5>3 DEF ObjectMove
      <4> QED
        BY <1>4, <2>1, <3>2, <4>2
    <3> QED
      BY <2>2, <3>1, <3>2 DEF CleanupInv, HeldInv, Held
  <2>3. CASE objects[c].phase # "live"
    <3>1. c = k /\ phase = "live"
      BY <1>4, <2>1, <2>3
    <3>2. Applied(k, data) \/ (k.kind = "ServiceAccount" /\ CanCreate(k))
      <4>1. ~Goes(k, phase)
        BY <2>3, <3>1 DEF Goes
      <4> QED
        BY <1>4, <1>6, <2>3, <3>1, <4>1 DEF ObjectMove
    <3>3. CASE Applied(k, data)
      <4>1. /\ pc \in PlanSteps /\ pc \in ApplySteps /\ pc # "idle"
            /\ idx \in DOMAIN plan /\ plan[idx].key = k /\ k # NoKey
        BY <1>1, <1>4, <3>1, <3>3, NoKeyIsNoKey
           DEF Applied, WriteSteps, PlanSteps, ApplySteps, IInv, TypeOK, PositionOK, Target
      <4>2. cur \in Tenants /\ Home(c) \in Range(Teardown(cur, snap.spec))
        BY <1>1, <3>1, <4>1, PlanFacts
      <4>3. snap.phase = "live" /\ snap.finalizer /\ VersionOf(tenants[cur], snap)
        BY <1>1, <4>1 DEF IInv, PassInv, GuardedSteps
      <4>4. HoldsFinalizer(tenants[cur])
        BY <4>3 DEF VersionOf
      <4>5. Home(c) \in Range(Teardown(cur, tenants[cur].spec))
        BY <4>1, <4>2, <4>3 DEF CleanupInv, GrowInv, Bounded
      <4> QED
        BY <1>2, <1>6, <4>2, <4>4, <4>5 DEF HeldBy
    <3>4. CASE k.kind = "ServiceAccount" /\ CanCreate(k)
      <4>1. objects[Home(c)].phase = "live"
        BY <1>4, <3>1, <3>4 DEF CanCreate, NamespaceLive
      <4>2. PICK t \in Tenants : HeldBy(t, Home(c))
        BY <1>4, <4>1 DEF CleanupInv, HeldInv, Held
      <4>3. HeldBy(t, c)
        BY <1>4, <4>2 DEF HeldBy
      <4> QED
        BY <1>2, <1>6, <4>3
    <3> QED
      BY <3>2, <3>3, <3>4
  <2> QED
    BY <2>2, <2>3
<1>7. (\E kind \in CachedKinds : Inform(kind)) \/ Restart => UNCHANGED objects
  BY DEF Inform, StartInformer, DeliverObject, Restart, Relist
<1> HIDE DEF StillHeld
<1> QED
  BY <1>1, <1>3, <1>5, <1>6, <1>7, ObjectMoves

LEMMA InitCleanup == Init => CleanupInv
<1> SUFFICES ASSUME Init
             PROVE  CleanupInv
  OBVIOUS
<1>1. IInv /\ LingerInv /\ PlanInv
  BY InitEstablishes, InitLinger
<1>2. ASSUME NEW c \in Children
      PROVE  objects[c].phase = "absent"
  <2>1. c \in Keys /\ c \notin Sources
    BY ChildHomes
  <2>2. objects[c] = UnknownObject
    BY <2>1 DEF Init, APIInit
  <2> QED
    BY <2>2 DEF UnknownObject
<1>3. HousedInv /\ HeldInv
  BY <1>2 DEF HousedInv, HeldInv, Present
<1>4. ViewInv
  <2>1. synced = {} /\ view = EmptyView /\ feed = EmptyFeed
    BY DEF Init, APIInit
  <2>2. \A k \in CachedKeys : objects[k].rv \in Nat
    BY <1>1 DEF IInv, TypeOK, ObjectsOK, CachedKeys
  <2>3. \A k \in CachedKeys : ObjectVersionOf(objects[k], UnknownObject)
    BY <2>2 DEF ObjectVersionOf, UnknownObject
  <2>4. DOMAIN EmptyView = CachedKeys /\ \A k \in CachedKeys : EmptyView[k] = UnknownObject
    BY DEF EmptyView
  <2>5. DOMAIN EmptyFeed = CachedKinds /\ \A kind \in CachedKinds : EmptyFeed[kind] = <<>>
    BY DEF EmptyFeed
  <2>6. IsSequence(<<>>) /\ Range(<<>>) = {}
    BY DEF IsSequence, Range
  <2> QED
    BY <2>1, <2>3, <2>4, <2>5, <2>6 DEF ViewInv
<1>5. SeenInv
  BY DEF Init, SeenInv
<1>6. GrowInv
  <2>1. /\ tenants = [t \in Tenants |-> NoTenant(0)] /\ tenantView = tenants
        /\ tenantFeed = [t \in Tenants |-> <<>>] /\ pc = "idle"
    BY DEF Init, APIInit
  <2>2. Range(<<>>) = {}
    BY DEF Range
  <2>3. NoTenant(0).phase = "absent"
    BY DEF NoTenant
  <2> QED
    BY <2>1, <2>2, <2>3 DEF GrowInv, Bounded
<1> QED
  BY <1>1, <1>3, <1>4, <1>5, <1>6 DEF CleanupInv

LEMMA CleanupKeeps ==
    ASSUME CleanupInv, NothingPreserved, [Next]_vars, [EditsOnlyAdd]_vars
    PROVE  CleanupInv'
<1>1. IInv'
  BY NextKeeps DEF CleanupInv
<1>2. PlanInv' /\ LingerInv'
  BY PlanKeeps, LingerKeeps DEF CleanupInv
<1>3. ViewInv' /\ SeenInv' /\ HousedInv'
  BY ViewKeeps, SeenKeeps, HousedKeeps DEF CleanupInv
<1>4. GrowInv' /\ HeldInv'
  BY GrowKeeps, HeldKeeps DEF CleanupInv
<1> QED
  BY <1>1, <1>2, <1>3, <1>4 DEF CleanupInv

\* A Tenant that is gone leaves nothing alive, but in a namespace on its way
\* out: if specs only ever grow, tenants have no child in common, and no Tenant
\* is deleted that preserves its resources.
THEOREM Cleanup ==
    ASSUME TenantsApart
    PROVE  Spec /\ [][EditsOnlyAdd]_vars /\ []NothingPreserved => []NothingLeftBehind
<1>1. ASSUME CleanupInv
      PROVE  NothingLeftBehind
  <2> SUFFICES ASSUME NEW t \in Tenants, NEW spec \in Specs, tenants[t].phase = "absent",
                      NEW k \in ChildKeys(t, spec), objects[k].phase = "live"
               PROVE  NamespaceOf(k) \in Keys /\ objects[NamespaceOf(k)].phase = "terminating"
    BY DEF NothingLeftBehind
  <2>1. k \in Children
    BY DEF Children
  <2>2. CASE objects[Home(k)].phase = "terminating"
    BY <2>1, <2>2, ChildHomes
  <2>3. ASSUME NEW u \in Tenants, HeldBy(u, k)
        PROVE  FALSE
    <3>1. HoldsFinalizer(tenants[u]) /\ u # t
      BY <2>3 DEF HeldBy, HoldsFinalizer
    <3>2. tenants[u].spec \in Specs
      BY <1>1, <3>1 DEF CleanupInv, IInv, CacheInv, VersionOf, HoldsFinalizer
    <3>3. Home(k) \in {NoKey} \cup ChildKeys(u, tenants[u].spec)
      BY <2>3, <3>2, TeardownIsAList DEF HeldBy
    <3>4. Home(k) \in ChildKeys(t, spec)
      BY HomeOfChild
    <3>5. Home(k) # NoKey
      BY <2>1, ChildHomes, NoKeyIsNoKey
    <3> QED
      BY <3>1, <3>2, <3>3, <3>4, <3>5 DEF TenantsApart
  <2> QED
    BY <1>1, <2>1, <2>2, <2>3 DEF CleanupInv, HeldInv, Held
<1>2. CleanupInv => NothingLeftBehind
  BY <1>1
<1>3. CleanupInv /\ NothingPreserved /\ [Next]_vars /\ [EditsOnlyAdd]_vars => CleanupInv'
  BY CleanupKeeps
<1> QED
  BY <1>2, <1>3, InitCleanup, PTL DEF Spec

-------------------------------------------------------------------------------
(***************************************************************************)
(* preserveResourcesOnDeletion is honoured.  A pass that deletes works on  *)
(* a copy of a Tenant that is being deleted, however old: either it is an  *)
(* edit of the one now stored, or all that it would delete is gone.        *)
(***************************************************************************)
EditOf(stored, v) ==
    /\ stored.phase = "terminating"
    /\ v.gen <= stored.gen
    /\ v.gen = stored.gen => v.spec = stored.spec

CleanedUp(t, v) == ~v.spec.preserve => \A k \in Range(Teardown(t, v.spec)) : Gone(k)

Harmless(t, v) == EditOf(tenants[t], v) \/ CleanedUp(t, v)

DoomInv ==
    /\ \A t \in Tenants :
          /\ \A v \in Range(tenantFeed[t]) : v.phase = "terminating" => EditOf(tenants[t], v)
          /\ tenantView[t].phase = "terminating" => Harmless(t, tenantView[t])
    /\ pc # "idle" /\ snap.phase = "terminating" => Harmless(cur, snap)
    /\ pc \in ApplySteps \cup {"finalizer"} /\ tenantView[cur].phase = "terminating" =>
          EditOf(tenants[cur], tenantView[cur])
    /\ pc \in {"delete", "check"} => ~snap.spec.preserve

\* An edit of a Tenant stays one until the Tenant is released.
LEMMA EditStays ==
    ASSUME IInv, [Next]_vars, NEW t \in Tenants, ~ReleasedNow(t),
           NEW v \in TenantVersions, EditOf(tenants[t], v)
    PROVE  EditOf(tenants'[t], v)
<1>1. tenants[t].gen \in Nat /\ v.gen \in Nat /\ tenants[t].phase = "terminating"
  BY DEF IInv, TypeOK, TenantsOK, TenantVersions, EditOf
<1>2. ~Created(tenants[t], tenants'[t]) /\ ~Doom(tenants[t], tenants'[t])
      /\ ~Dropped(tenants[t], tenants'[t])
  BY <1>1 DEF Created, Doom, Dropped
<1>3. CASE Edited(tenants[t], tenants'[t])
  <2>1. tenants'[t].phase = "terminating" /\ tenants'[t].gen = tenants[t].gen + 1
    BY <1>1, <1>3 DEF Edited
  <2> QED
    BY <1>1, <2>1 DEF EditOf
<1>4. CASE Kept(tenants[t], tenants'[t])
  <2>1. /\ tenants'[t].phase = "terminating"
        /\ tenants'[t].gen = tenants[t].gen /\ tenants'[t].spec = tenants[t].spec
    BY <1>1, <1>4 DEF Kept
  <2> QED
    BY <2>1 DEF EditOf
<1> QED
  BY <1>2, <1>3, <1>4, TenantMoves

\* What is cleaned up stays so, but for a pass that applies the same tenant.
LEMMA CleanStays ==
    ASSUME TenantsApart, IInv, PlanInv, [Next]_vars,
           NEW t \in Tenants, NEW spec \in Specs, NEW k \in Range(Teardown(t, spec)),
           Gone(k), pc \in ApplySteps => cur # t
    PROVE  k = NoKey \/ objects'[k].phase # "live"
<1> SUFFICES ASSUME k # NoKey
             PROVE  objects'[k].phase # "live"
  OBVIOUS
<1>1. k \in ChildKeys(t, spec) /\ k \in DoomedKeys \ {NoKey}
  <2>1. k \in {NoKey} \cup ChildKeys(t, spec) /\ Teardown(t, spec) \in Seq(DoomedKeys)
    BY TeardownIsAList
  <2> QED
    BY <2>1 DEF Range
<1>2. k \in Keys /\ k \notin Sources /\ k.kind # "ServiceAccount"
  BY <1>1, DoomedKeysAreKeys
<1>3. objects[k].phase # "live"
  BY DEF Gone
<1>4. (\E kind \in CachedKinds : Inform(kind)) \/ Restart => UNCHANGED objects
  BY DEF Inform, StartInformer, DeliverObject, Restart, Relist
<1>5. ASSUME NEW c \in Keys, NEW phase \in Phases, NEW data,
             PutObject(c, phase, data), ObjectMove(c, phase, data)
      PROVE  objects'[k].phase # "live"
  <2>1. /\ objects'[c].phase = phase
        /\ \A x \in Keys \ {c} : objects'[x] = objects[x]
    BY <1>5, PutObjectFacts DEF IInv, TypeOK
  <2>2. CASE c # k
    BY <1>2, <1>3, <2>1, <2>2
  <2>3. CASE c = k
    <3>1. ~Applied(k, data)
      <4> SUFFICES ASSUME Applied(k, data)
                   PROVE  FALSE
        OBVIOUS
      <4>1. /\ pc \in PlanSteps /\ pc \in ApplySteps
            /\ idx \in DOMAIN plan /\ plan[idx].key = k
        BY DEF Applied, WriteSteps, PlanSteps, ApplySteps, IInv, TypeOK, PositionOK, Target
      <4>2. /\ cur \in Tenants /\ snap.spec \in Specs
            /\ k \in ChildKeys(cur, snap.spec)
        BY <4>1, PlanFacts
      <4> QED
        BY <1>1, <4>1, <4>2 DEF TenantsApart
    <3>2. Goes(k, phase) => phase # "live"
      BY DEF Goes
    <3> QED
      BY <1>2, <1>3, <1>5, <2>1, <2>3, <3>1, <3>2 DEF ObjectMove
  <2> QED
    BY <2>2, <2>3
<1> QED
  BY <1>3, <1>4, <1>5, ObjectMoves

\* A Tenant is released when the cache holds it as it is stored, with no event
\* on its way, and what it is to tear down is gone.
LEMMA ReleaseSettles ==
    ASSUME IInv, NEW t \in Tenants, ReleasedNow(t)
    PROVE  /\ pc' = "idle" /\ tenants'[t].phase = "absent"
           /\ UNCHANGED <<objects, tenantView>>
           /\ \A v : v \notin Range(tenantFeed[t])
           /\ CleanedUp(t, tenantView[t])
<1>1. PICK lost \in BOOLEAN : Release(lost) /\ pc = "release" /\ cur = t
  BY DEF ReleasedNow
<1>2. /\ snap = tenants[t]
      /\ pc' = "idle" /\ UNCHANGED <<objects, tenantView>>
      /\ PutTenant(t, NoTenant(0))
  <2>1. snap = tenants[t]
    BY <1>1, ReleaseKeeps, CurrentIsStored DEF Release
  <2> QED
    BY <1>1, <2>1 DEF Release, ReturnRetry, ReturnDone, ClearPass, objectStore, caches
<1>3. tenants'[t].phase = "absent"
  <2>1. NoTenant(0) \in TenantVersions /\ NoTenant(0).phase = "absent"
    BY DEF NoTenant, TenantVersions, Phases, Reasons
  <2>2. tenants'[t] = NextVersion(t, NoTenant(0))
    BY <1>2 DEF PutTenant, IInv, TypeOK, TenantsOK
  <2> QED
    BY <2>1, <2>2, NextVersionFacts DEF IInv, TypeOK
<1>4. snap.rv <= tenantView[t].rv
  BY <1>1 DEF IInv, PassInv, TeardownSteps
<1>5. /\ tenants[t].rv \in Nat /\ tenantView[t].rv \in Nat
      /\ tenantView[t].rv <= tenants[t].rv
      /\ tenantView[t].rv = tenants[t].rv => tenantView[t] = tenants[t]
  BY CopiesAreVersions DEF IInv, TypeOK, TenantsOK, TenantVersions, VersionOf
<1>6. tenantView[t] = snap
  BY <1>2, <1>4, <1>5
<1>7. ASSUME NEW v \in Range(tenantFeed[t])
      PROVE  FALSE
  <2>1. v.rv <= tenants[t].rv /\ tenantView[t].rv < v.rv /\ v.rv \in Nat
    BY <1>7, CopiesAreVersions DEF VersionOf, TenantVersions
  <2> QED
    BY <1>2, <1>5, <1>6, <2>1
<1>8. CleanedUp(t, snap)
  BY <1>1 DEF CleanedUp, IInv, GoneInv, Doomed, Range
<1> QED
  BY <1>2, <1>3, <1>6, <1>7, <1>8

\* A pass comes to apply from a cached Tenant that is not being deleted, and to
\* delete from one that does not preserve its resources.
MakingSteps == ApplySteps \cup {"finalizer"}
TakingSteps == {"delete", "check"}

PassTurn ==
    /\ pc' \in MakingSteps =>
          \/ pc \in MakingSteps /\ cur' = cur
          \/ pc = "idle" /\ cur' \in Tenants /\ tenantView'[cur'].phase = "live"
    /\ pc' \in TakingSteps =>
          \/ pc \in TakingSteps /\ snap' = snap
          \/ ~snap'.spec.preserve

LEMMA PassTurns ==
    ASSUME IInv, [Next]_vars
    PROVE  PassTurn
<1> USE DEF MakingSteps, TakingSteps, ApplySteps, PassTurn
<1>1. ASSUME NEW t \in Tenants, Fetch(t)
      PROVE  PassTurn
  <2>1. pc = "idle"
    BY <1>1 DEF Fetch, FetchNothing, FetchDeleted, FetchLive, Take
  <2>2. CASE FetchNothing(t)
    BY <2>1, <2>2 DEF FetchNothing, passVars
  <2>3. CASE FetchDeleted(t)
    BY <2>3 DEF FetchDeleted, Begin
  <2>4. CASE FetchLive(t)
    BY <2>1, <2>4 DEF FetchLive, Begin, apiVars
  <2> QED
    BY <1>1, <2>2, <2>3, <2>4 DEF Fetch
<1>2. ASSUME Fail
      PROVE  PassTurn
  BY <1>2 DEF Fail, StopWith, ReturnRetry, ClearPass
<1>3. CASE \/ TenantConflict \/ StatusConflict \/ RejectExtensions \/ AllApplied
           \/ ReadValue \/ Rendered
  BY <1>3 DEF TenantConflict, StatusConflict, RejectExtensions, AllApplied, ReadValue, Rendered,
              ReturnRetry, StopWith, ClearPass
<1>4. CASE ApplyRefused \/ CallFails
  BY <1>2, <1>4 DEF ApplyRefused, CallFails
<1>5. CASE GetObject
  <2>1. PICK k : Skip(k) \/ FindNothing(k) \/ LeaveNamespace(k) \/ FindVersion(k)
    BY <1>5 DEF GetObject
  <2>2. pc = "get" /\ pc' \in {"get", "create", "update"} /\ cur' = cur
    BY <1>5, <2>1 DEF GetObject, Skip, FindNothing, LeaveNamespace, FindVersion, Continue
  <2> QED
    BY <2>2
<1>6. CASE AllDeleted \/ CheckNext \/ AllChecked
  BY <1>6 DEF AllDeleted, CheckNext, AllChecked, Goto, ReturnRetry, ClearPass
<1>7. ASSUME NEW lost \in BOOLEAN, Write(lost)
      PROVE  PassTurn
  <2>1. CASE CreateObject(lost) \/ UpdateObject(lost)
    <3>1. pc \in WriteSteps /\ (Fail \/ Continue("get"))
      BY <2>1 DEF CreateObject, UpdateObject, WriteSteps
    <3> QED
      BY <1>2, <3>1 DEF Continue, WriteSteps
  <2>2. CASE AddFinalizer(lost)
    BY <2>2 DEF AddFinalizer, ReturnRetry, ClearPass
  <2>3. CASE WriteStatus(lost) \/ Release(lost)
    BY <2>3 DEF WriteStatus, Release, ReturnRetry, ReturnDone, ClearPass
  <2>4. CASE DeleteNext(lost)
    <3>1. pc = "delete" /\ (Fail \/ Continue("delete"))
      BY <2>4 DEF DeleteNext
    <3> QED
      BY <1>2, <3>1 DEF Continue
  <2> QED
    BY <1>7, <2>1, <2>2, <2>3, <2>4 DEF Write
<1>8. CASE \/ \E t \in Tenants : DeliverTenant(t) \/ TimerFires(t)
           \/ \E kind \in CachedKinds : Inform(kind)
           \/ Users \/ Cluster \/ UNCHANGED vars
  <2>1. UNCHANGED passVars
    BY <1>8 DEF DeliverTenant, TimerFires, Inform, Users, Cluster, PassStandsStill, vars
  <2> QED
    BY <2>1 DEF passVars
<1>9. CASE Restart
  BY <1>9 DEF Restart, ClearPass
<1> HIDE DEF MakingSteps, TakingSteps, ApplySteps, PassTurn
<1> QED
  BY <1>1, <1>3, <1>4, <1>5, <1>6, <1>7, <1>8, <1>9 DEF Next, Work, Background, Fault

LEMMA DoomKeeps ==
    ASSUME TenantsApart, IInv, PlanInv, DoomInv, [Next]_vars
    PROVE  DoomInv'
<1> DEFINE Safe(t, v) == \/ EditOf(tenants'[t], v)
                         \/ ~v.spec.preserve =>
                               \A k \in Range(Teardown(t, v.spec)) :
                                  k = NoKey \/ objects'[k].phase # "live"
<1>0. /\ PassTurn
      /\ IInv' /\ TenantsOK /\ TenantsOK'
  BY PassTurns, CopiesStayVersions DEF IInv, TypeOK
<1>1. ASSUME NEW t \in Tenants, NEW v, v.phase = "terminating", v = tenants'[t]
      PROVE  EditOf(tenants'[t], v)
  BY <1>0, <1>1 DEF EditOf, TenantsOK, TenantVersions
<1>2. ASSUME NEW t \in Tenants, NEW v \in TenantVersions, VersionOf(tenants[t], v),
             v.phase = "terminating", CleanedUp(t, v), pc \in ApplySteps => cur # t
      PROVE  Safe(t, v)
  <2> SUFFICES ASSUME ~v.spec.preserve, NEW k \in Range(Teardown(t, v.spec))
               PROVE  k = NoKey \/ objects'[k].phase # "live"
    OBVIOUS
  <2>1. v.spec \in Specs /\ Gone(k)
    BY <1>2 DEF VersionOf, CleanedUp
  <2> QED
    BY <1>2, <2>1, CleanStays
\* What is harmless stays so, if it is an edit while its tenant is applied.
<1>3. ASSUME NEW t \in Tenants, NEW v \in TenantVersions, VersionOf(tenants[t], v),
             v.phase = "terminating", ~ReleasedNow(t), Harmless(t, v),
             pc \in ApplySteps /\ cur = t => EditOf(tenants[t], v)
      PROVE  Safe(t, v)
  <2>1. CASE EditOf(tenants[t], v)
    BY <1>3, <2>1, EditStays
  <2>2. CASE ~EditOf(tenants[t], v)
    BY <1>2, <1>3, <2>2 DEF Harmless
  <2> QED
    BY <2>1, <2>2
<1>4. ASSUME NEW t \in Tenants, NEW v \in Range(tenantFeed[t]) \cup {tenants'[t]},
             v.phase = "terminating"
      PROVE  EditOf(tenants'[t], v)
  <2>1. CASE v = tenants'[t]
    BY <1>1, <1>4, <2>1
  <2>2. CASE v \in Range(tenantFeed[t])
    <3>1. ~ReleasedNow(t)
      BY <2>2, ReleaseSettles
    <3>2. v \in TenantVersions /\ EditOf(tenants[t], v)
      BY <1>4, <2>2, CopiesAreVersions DEF DoomInv
    <3> QED
      BY <3>1, <3>2, EditStays
  <2> QED
    BY <1>4, <2>1, <2>2
<1>5. ASSUME NEW t \in Tenants, tenantView'[t].phase = "terminating"
      PROVE  /\ Safe(t, tenantView'[t])
             /\ pc \in MakingSteps /\ cur = t => EditOf(tenants'[t], tenantView'[t])
  <2> DEFINE v == tenantView'[t]
  <2>1. CASE v # tenantView[t]
    BY <1>4, <1>5, <2>1, CopiesMove
  <2>2. CASE v = tenantView[t]
    <3>1. /\ v \in TenantVersions /\ VersionOf(tenants[t], v)
          /\ Harmless(t, v)
          /\ pc \in MakingSteps /\ cur = t => EditOf(tenants[t], v)
      BY <1>0, <1>5, <2>2, CopiesAreVersions DEF DoomInv, MakingSteps, TenantsOK
    <3>2. CASE ReleasedNow(t)
      <4>1. /\ pc \notin MakingSteps /\ pc \notin ApplySteps
            /\ CleanedUp(t, v)
        BY <2>2, <3>2, ReleaseSettles DEF MakingSteps, ApplySteps, ReleasedNow
      <4> QED
        BY <1>2, <1>5, <3>1, <4>1
    <3>3. CASE ~ReleasedNow(t)
      <4>1. pc \in MakingSteps /\ cur = t => EditOf(tenants'[t], v)
        BY <3>1, <3>3, EditStays
      <4> QED
        BY <1>3, <1>5, <3>1, <3>3, <4>1 DEF MakingSteps
    <3> QED
      BY <3>2, <3>3
  <2> QED
    BY <2>1, <2>2
<1>6. ASSUME pc' # "idle", snap'.phase = "terminating"
      PROVE  Safe(cur', snap')
  <2>1. cur' \in Tenants
    BY <1>6, CopiesStayVersions
  <2>2. CASE pc # "idle" /\ cur' = cur /\ snap' = snap
    <3>1. /\ snap \in TenantVersions /\ VersionOf(tenants[cur], snap) /\ cur \in Tenants
          /\ pc \notin ApplySteps /\ Harmless(cur, snap)
      BY <1>6, <2>2, PassFacts DEF DoomInv, IInv, PassInv, GuardedSteps
    <3>2. ~ReleasedNow(cur)
      BY <1>6, <3>1, ReleaseSettles
    <3> QED
      BY <1>3, <1>6, <2>2, <3>1, <3>2
  <2>3. CASE cur' = cur /\ snap' = tenants'[cur]
    BY <1>1, <1>6, <2>1, <2>3
  <2>4. CASE snap' = tenantView[cur'] /\ UNCHANGED tenantView
    BY <1>5, <1>6, <2>1, <2>4
  <2> QED
    BY <1>6, <2>2, <2>3, <2>4, CopiesMove
<1>7. ASSUME pc' \in MakingSteps, tenantView'[cur'].phase = "terminating"
      PROVE  EditOf(tenants'[cur'], tenantView'[cur'])
  <2>1. pc \in MakingSteps /\ cur' = cur /\ cur \in Tenants
    <3>1. pc \in MakingSteps /\ cur' = cur
      BY <1>0, <1>7 DEF PassTurn
    <3> QED
      BY <3>1, PassFacts DEF MakingSteps, ApplySteps
  <2> QED
    BY <1>5, <1>7, <2>1
<1>8. pc' \in TakingSteps => ~snap'.spec.preserve
  BY <1>0 DEF PassTurn, DoomInv, TakingSteps
<1>9. \A t \in Tenants : \A v \in Range(tenantFeed'[t]) :
         v.phase = "terminating" => EditOf(tenants'[t], v)
  BY <1>4, CopiesMove
<1> QED
  BY <1>5, <1>6, <1>7, <1>8, <1>9
     DEF DoomInv, Harmless, CleanedUp, Gone, MakingSteps, TakingSteps

LEMMA InitDoom == Init => DoomInv
<1> SUFFICES ASSUME Init
             PROVE  DoomInv
  OBVIOUS
<1>1. /\ tenants = [t \in Tenants |-> NoTenant(0)] /\ tenantView = tenants
      /\ tenantFeed = [t \in Tenants |-> <<>>] /\ pc = "idle"
  BY DEF Init, APIInit
<1>2. Range(<<>>) = {} /\ NoTenant(0).phase = "absent"
  BY DEF Range, NoTenant
<1> QED
  BY <1>1, <1>2 DEF DoomInv, ApplySteps

\* finalize takes an object away only for a Tenant that is to be deleted with
\* its resources: whatever users edit while the pass is under way, whatever the
\* caches lag, wherever an earlier pass was cut short; if no two tenants have
\* a child in common.
THEOREM PreserveIsHonoured ==
    ASSUME TenantsApart
    PROVE  Spec => PreserveHonoured
<1> DEFINE Asked == /\ tenants[cur].phase # "live"
                    /\ tenants[cur].gen = snap.gen => ~tenants[cur].spec.preserve
<1>1. ASSUME IInv, DoomInv, [Next]_vars, NEW k \in Children, OperatorStep,
             objects[k].phase = "live", objects'[k].phase # "live"
      PROVE  Asked
  <2>1. k \in Keys /\ k # NoKey
    BY NoKeyIsNoKey DEF Keys
  <2>2. pc = "delete" /\ idx \in DOMAIN Doomed /\ Doomed[idx] = k
    BY <1>1, <2>1, OnlyFinalizeDeletes
  <2>3. snap.phase = "terminating" /\ ~snap.spec.preserve
    BY <1>1, <2>2 DEF IInv, PassInv, TeardownSteps, DoomInv
  <2>4. ~CleanedUp(cur, snap)
    BY <1>1, <2>1, <2>2, <2>3 DEF CleanedUp, Gone, Doomed, Range
  <2>5. EditOf(tenants[cur], snap)
    BY <1>1, <2>2, <2>3, <2>4 DEF DoomInv, Harmless
  <2> QED
    BY <2>3, <2>5 DEF EditOf
<1>2. IInv /\ DoomInv /\ [Next]_vars =>
        [\A k \in Children :
            /\ OperatorStep
            /\ objects[k].phase = "live" /\ objects'[k].phase # "live"
            => Asked]_vars
  BY <1>1
<1>3. IInv /\ PlanInv /\ DoomInv /\ [Next]_vars => DoomInv' /\ PlanInv'
  BY DoomKeeps, PlanKeeps
<1>4. Init => DoomInv /\ PlanInv
  BY InitDoom, InitLinger
<1> QED
  BY <1>2, <1>3, <1>4, Invariance, PTL DEF Spec, PreserveHonoured
===============================================================================
