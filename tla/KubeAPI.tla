------------------------------- MODULE KubeAPI -------------------------------
(***************************************************************************)
(* What the operator runs against: the Kubernetes API server with the      *)
(* Tenants and every other object the operator reads or writes, the users, *)
(* the cluster's own controllers, and the informer caches of the manager's *)
(* client.  None of it is the repository's code; it is modelled from how   *)
(* the code uses it.                                                       *)
(*                                                                         *)
(* An object that does not exist is a tombstone that keeps the last        *)
(* resource version, so no version is ever used twice.                     *)
(***************************************************************************)
EXTENDS Renderer

CONSTANTS
    Tenants,      \* the tenants, [ns, name]
    Specs,        \* the specs a user may give them
    NoSpec,       \* the spec of a tenant that does not exist
    Contents,     \* what a source Secret may hold: functions from keys to text
    MaxEdits,     \* bound: creations, edits and deletions of Tenants
    MaxDrift,     \* bound: changes behind the operator's back
    MaxFaults,    \* bound: API calls that fail, or whose answer is lost
    MaxCrashes,   \* bound: restarts of the operator
    MaxTotal      \* bound: all of these together

VARIABLES
    tenants,      \* the stored Tenants
    tenantView,   \* the Tenants in the informer cache
    tenantFeed,   \* the watch events on their way to it, per tenant
    objects,      \* the stored objects, by key
    view,         \* those in the informer caches
    feed,         \* the watch events on their way there, per kind
    synced,       \* the kinds whose informer has started
    spent         \* how much of each bound is used up

apiVars == <<tenants, tenantView, tenantFeed, objects, view, feed, synced, spent>>

-------------------------------------------------------------------------------
(***************************************************************************)
(* Keys.                                                                   *)
(***************************************************************************)
CachedKinds == {"Secret", "ServiceAccount", "Namespace"}

ChildKeys(t, spec) ==
    {NamespaceKey(t, spec.environments[n]) : n \in DOMAIN spec.environments}
    \cup {AppProjectKey(t)}
    \cup {AppSetKey(t, spec.environments[n]) : n \in DOMAIN spec.environments}
    \cup {RepoSecretKey(t, i) : i \in DOMAIN spec.git}
    \cup {PullSecretKey(t, spec.environments[n]) : n \in 1 .. EnvironmentsWithPull(spec)}
    \cup {DefaultSAKey(t, spec.environments[n]) : n \in 1 .. EnvironmentsWithPull(spec)}

SourcesOf(t, spec) ==
    LET values == ValuesRead(spec)
    IN  {SourceKey(t.ns, values[j].secret) :
            j \in {i \in DOMAIN values : values[i].form = "ref"}}

Children   == UNION {ChildKeys(t, spec) : t \in Tenants, spec \in Specs}
Sources    == UNION {SourcesOf(t, spec) : t \in Tenants, spec \in Specs}
Keys       == Children \cup Sources
CachedKeys == {k \in Keys : k.kind \in CachedKinds}

\* The Secrets tenants refer to are not themselves rendered by the operator.
ASSUME SourcesAreNotChildren == Children \cap Sources = {}
ASSUME NoKeyIsNoKey          == NoKey \notin Keys

\* What the CRD's schema lets through.
Admitted(spec) ==
    /\ spec.git # <<>> /\ spec.environments # <<>>
    /\ \A i \in DOMAIN spec.git :
          \/ spec.git[i].credentials = NoCredentials
          \/ spec.git[i].credentials.type \in CredentialTypes
ASSUME SpecsAreAdmitted == \A spec \in Specs : Admitted(spec)

ASSUME SpecsHoldLists == \A spec \in Specs : HoldsLists(spec)

\* The name of a tenant's namespace holds a dash: it is neither the empty name
\* nor the one the Argo CD objects live in.
ASSUME NamespacesAreNamed ==
    \A k \in Keys : k.kind = "Namespace" => k.name \notin {ClusterScope, ArgoCDNamespace}

\* A tenant's name and a dash go before the name of every environment, and
\* leave different names different.
ASSUME EnvironmentsHaveNames ==
    \A t \in Tenants, spec \in Specs : \A m, n \in DOMAIN spec.environments :
        AppSetKey(t, spec.environments[m]) = AppSetKey(t, spec.environments[n])
        => spec.environments[m] = spec.environments[n]

ASSUME BoundsAreNumbers == {MaxEdits, MaxDrift, MaxFaults, MaxCrashes, MaxTotal} \subseteq Nat

-------------------------------------------------------------------------------
(***************************************************************************)
(* The store.  Every write makes a new version, and tells the watchers.    *)
(***************************************************************************)
NoData  == [owner |-> ""]
Foreign == [owner |-> "someone else"]

Phases == {"absent", "live", "terminating"}

ObjectsOK == /\ DOMAIN objects = Keys
             /\ \A k \in Keys : objects[k].phase \in Phases /\ objects[k].rv \in Nat

Present(k)     == objects[k].phase # "absent"
NamespaceOf(k) == Key("Namespace", ClusterScope, k.ns)
\* The namespaces the operator does not create are taken to be there.
NamespaceLive(k) == NamespaceOf(k) \in Keys => objects[NamespaceOf(k)].phase = "live"
CanCreate(k)     == ~Present(k) /\ NamespaceLive(k)

Total == spent.edits + spent.drift + spent.faults + spent.crashes

Spend(what, limit) == /\ spent[what] < limit
                      /\ Total < MaxTotal
                      /\ spent' = [spent EXCEPT ![what] = @ + 1]

NextVersion(t, tenant) == [tenant EXCEPT !.rv = tenants[t].rv + 1]

PutTenant(t, tenant) ==
    /\ tenants' = [tenants EXCEPT ![t] = NextVersion(t, tenant)]
    /\ tenantFeed' = [tenantFeed EXCEPT ![t] = Append(@, NextVersion(t, tenant))]

NoTenant(rv) ==
    [phase |-> "absent", rv |-> rv, gen |-> 0, spec |-> NoSpec,
     finalizer |-> FALSE, reason |-> "", observed |-> 0]

PutObject(k, phase, data) ==
    LET object == [phase |-> phase, rv |-> objects[k].rv + 1, data |-> data]
    IN  /\ objects' = [objects EXCEPT ![k] = object]
        /\ feed' = IF k.kind \in synced
                   THEN [feed EXCEPT ![k.kind] = Append(@, [key |-> k, object |-> object])]
                   ELSE feed

RemoveObject(k) == PutObject(k, "absent", NoData)

\* DELETE.  A namespace turns Terminating, and deleting it once more succeeds
\* without effect; the other manifests carry no finalizers.
DeleteObject(k) ==
    CASE objects[k].phase = "terminating" -> UNCHANGED <<objects, feed>>
      [] objects[k].phase = "live" /\ k.kind = "Namespace" ->
             PutObject(k, "terminating", objects[k].data)
      [] OTHER -> RemoveObject(k)

\* PUT.  One that changes nothing makes no version.
ReplaceObject(k, data) ==
    IF objects[k].data = data THEN UNCHANGED <<objects, feed>>
                              ELSE PutObject(k, "live", data)

-------------------------------------------------------------------------------
(***************************************************************************)
(* Users.                                                                  *)
(***************************************************************************)
CreateTenant(t, spec) ==
    /\ tenants[t].phase = "absent"
    /\ Spend("edits", MaxEdits)
    /\ PutTenant(t, [NoTenant(0) EXCEPT !.phase = "live", !.gen = 1, !.spec = spec])
    /\ UNCHANGED <<tenantView, objects, view, feed, synced>>

EditTenant(t, spec) ==
    /\ tenants[t].phase # "absent"
    /\ tenants[t].spec # spec
    /\ Spend("edits", MaxEdits)
    /\ PutTenant(t, [tenants[t] EXCEPT !.gen = @ + 1, !.spec = spec])
    /\ UNCHANGED <<tenantView, objects, view, feed, synced>>

DeleteTenant(t) ==
    /\ tenants[t].phase = "live"
    /\ Spend("edits", MaxEdits)
    /\ PutTenant(t, IF tenants[t].finalizer
                    THEN [tenants[t] EXCEPT !.phase = "terminating", !.gen = @ + 1]
                    ELSE NoTenant(0))
    /\ UNCHANGED <<tenantView, objects, view, feed, synced>>

\* A source Secret is written or rotated, or deleted.
WriteSource(k, content) ==
    /\ objects[k].phase = "absent" \/ objects[k].data # content
    /\ Spend("drift", MaxDrift)
    /\ PutObject(k, "live", content)
    /\ UNCHANGED <<tenants, tenantView, tenantFeed, view, synced>>

DeleteSource(k) ==
    /\ Present(k)
    /\ Spend("drift", MaxDrift)
    /\ RemoveObject(k)
    /\ UNCHANGED <<tenants, tenantView, tenantFeed, view, synced>>

\* Somebody deletes, or overwrites, an object the operator applied.
DeleteChild(k) ==
    /\ objects[k].phase = "live"
    /\ Spend("drift", MaxDrift)
    /\ DeleteObject(k)
    /\ UNCHANGED <<tenants, tenantView, tenantFeed, view, synced>>

OverwriteChild(k) ==
    /\ objects[k].phase = "live"
    /\ objects[k].data # Foreign
    /\ Spend("drift", MaxDrift)
    /\ PutObject(k, "live", Foreign)
    /\ UNCHANGED <<tenants, tenantView, tenantFeed, view, synced>>

UserStep ==
    \/ \E t \in Tenants, spec \in Specs : CreateTenant(t, spec) \/ EditTenant(t, spec)
    \/ \E t \in Tenants : DeleteTenant(t)
    \/ \E k \in Sources, content \in Contents : WriteSource(k, content)
    \/ \E k \in Sources : DeleteSource(k)
    \/ \E k \in Children : DeleteChild(k) \/ OverwriteChild(k)

-------------------------------------------------------------------------------
(***************************************************************************)
(* The cluster's own controllers: every live namespace gets its default    *)
(* ServiceAccount; a Terminating one is emptied, then goes.                *)
(***************************************************************************)
CreateDefaultSA(k) ==
    /\ k.kind = "ServiceAccount"
    /\ CanCreate(k)
    /\ PutObject(k, "live", NoData)
    /\ UNCHANGED <<tenants, tenantView, tenantFeed, view, synced, spent>>

PurgeContent(k) ==
    /\ Present(k)
    /\ NamespaceOf(k) \in Keys
    /\ objects[NamespaceOf(k)].phase = "terminating"
    /\ RemoveObject(k)
    /\ UNCHANGED <<tenants, tenantView, tenantFeed, view, synced, spent>>

FinishDeletion(k) ==
    /\ objects[k].phase = "terminating"
    /\ \A c \in Keys : NamespaceOf(c) = k => ~Present(c)
    /\ RemoveObject(k)
    /\ UNCHANGED <<tenants, tenantView, tenantFeed, view, synced, spent>>

ClusterStep ==
    \E k \in Children : CreateDefaultSA(k) \/ PurgeContent(k) \/ FinishDeletion(k)

-------------------------------------------------------------------------------
(***************************************************************************)
(* The informers.  One starts with the first typed Get of its kind, which  *)
(* waits for its list; from then on it applies one watch event at a time.  *)
(***************************************************************************)
UnknownObject == [phase |-> "absent", rv |-> 0, data |-> NoData]
EmptyView     == [k \in CachedKeys |-> UnknownObject]
EmptyFeed     == [kind \in CachedKinds |-> <<>>]

StartInformer(kind) ==
    /\ kind \notin synced
    /\ synced' = synced \cup {kind}
    /\ view' = [k \in CachedKeys |-> IF k.kind = kind THEN objects[k] ELSE view[k]]
    /\ UNCHANGED <<tenants, tenantView, tenantFeed, objects, feed, spent>>

DeliverObject(kind) ==
    /\ feed[kind] # <<>>
    /\ view' = [view EXCEPT ![Head(feed[kind]).key] = Head(feed[kind]).object]
    /\ feed' = [feed EXCEPT ![kind] = Tail(@)]
    /\ UNCHANGED <<tenants, tenantView, tenantFeed, objects, synced, spent>>

\* A new process lists the Tenants; its other informers have not started.
Relist ==
    /\ tenantView' = tenants
    /\ tenantFeed' = [t \in Tenants |-> <<>>]
    /\ view' = EmptyView
    /\ feed' = EmptyFeed
    /\ synced' = {}
    /\ UNCHANGED <<tenants, objects>>

APIInit ==
    /\ tenants = [t \in Tenants |-> NoTenant(0)]
    /\ tenantView = tenants
    /\ tenantFeed = [t \in Tenants |-> <<>>]
    /\ \E source \in [Sources -> Contents] :
          objects = [k \in Keys |->
                        IF k \in Sources
                        THEN [phase |-> "live", rv |-> 0, data |-> source[k]]
                        ELSE UnknownObject]
    /\ view = EmptyView
    /\ feed = EmptyFeed
    /\ synced = {}
    /\ spent = [edits |-> 0, drift |-> 0, faults |-> 0, crashes |-> 0]

===============================================================================
