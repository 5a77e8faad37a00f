# Noperator in TLA+

Noperator turns a `Tenant` custom resource into namespaces, an Argo CD
`AppProject`, one `ApplicationSet` per environment and the Secrets they need, and
takes them away again when the tenant is deleted. These modules model its
controller and what the controller runs against, check the model with TLC, and
prove its central safety properties with TLAPS.

Source paths below are relative to the repository's root.

## 1. Inventory

| Component | Code | State it keeps | Operations |
|---|---|---|---|
| Tenant controller | `tenant-controller/internal/controller/tenant_controller.go` | none between passes but the finalizer and status it writes into the Tenant | `Reconcile`, `apply`, `finalize`, `remainingResources`, `exists`, `deleteResource`, `setStatus` |
| Renderer | `tenant-controller/internal/renderer/renderer.go` | none | `Render`: Tenant and Secrets to an ordered list of objects |
| Extension registry | `tenant-controller/internal/extensions/registry.go` | the map loaded at startup | `Load`, `Resolve`, `Has` |
| Manager | `tenant-controller/cmd/main.go` | flags, the registry, the leader lease | start, load the registry, run the controller |
| API types | `tenant-controller/api/v1alpha1` | - | CRD schema, generated deep copies |
| Web UI | `ui/src` | a sign-in session | list tenants, put a tenant's page together (read only) |
| Chart, kustomize, CI | `charts`, `tenant-controller/config`, `.github` | - | declarative |
| *External:* API server, cluster controllers, informers | - | the objects; the caches; the work queue | GET/POST/PUT/DELETE, watch events, namespace termination |

**How they interact.** The manager starts one controller with one worker. A watch
on Tenants, and only on Tenants, feeds the work queue; so do `RequeueAfter` and the
backoff of a pass that returned an error. A pass fetches its Tenant from the
informer cache, calls the renderer (which resolves extensions against the registry
and `$secret:key` references against Secrets), applies the objects one by one, and
writes the status. A deletion turns the pass to `finalize`: delete in order, look
for what remains, release the finalizer when nothing does.

**What is hard.**

* Reads come from two places. The manager's client reads typed objects (Tenants,
  Secrets, ServiceAccounts, and the Namespaces of `exists`) from informer caches,
  and unstructured ones (the Namespaces of `apply`, AppProjects, ApplicationSets)
  from the API server. A cache may be behind, also behind the controller's own
  writes.
* Every API call can fail, be refused (conflict, AlreadyExists, namespace
  Terminating), or take effect while its answer is lost.
* Users edit, delete and re-create Tenants, and touch children and credentials, in
  the middle of a pass; nothing the controller creates is watched.
* The process can die between any two calls; the only memory is in the cluster.
* The cluster has its own ideas: it creates the `default` ServiceAccount the
  operator also wants to create, and namespaces go away slowly.

**What correctness means.** For the controller: nothing is applied unless a
finalizer guards it; the finalizer goes only after the cleanup; a tenant that is
gone leaves nothing behind; namespaces go after the Argo CD objects; the status does
not claim more than was done and tells the truth in the end; objects converge to the
spec; deletions complete. For the renderer: the applied list and the torn-down list
agree; namespaces come before their content; the whitelist is exactly what was
granted. For the registry: deterministic, duplicate-free resolution, failing closed.
For the manager: the whitelist in the cluster is always one a user configured, as a
whole; it does not go back; in the end it is the leader's. For the UI: a page that
shows a Ready tenant shows its objects, although its lists come from different
moments.

## 2. Modules

| Module | Models | How |
|---|---|---|
| `Extensions` | `registry.go` | `Load`, `LoadFails`, `Resolve`, `Dedupe` as functions |
| `Renderer` | `renderer.go`, and the lists `finalize` walks | `Objects` (what is applied), `ValuesRead` (what is read, in order), `Teardown` (what is deleted) |
| `KubeAPI` | external: API server, users, cluster controllers, informers | one action per user or cluster operation |
| `TenantController` | `tenant_controller.go` | one action per API call, or decision, of a pass |
| `LateRequests` | `TenantController`, with a request of a process that is no more still under way | `TakeOver` (a restart that leaves the pending write behind), `Land` (the server takes it, or never does) |
| `ArgoTeardown` | `TenantController` next to Argo CD | external `Deploy` and `Prune` of the workloads of an ApplicationSet |
| `TenantView` | `getTenantDetail` of `ui/src/lib/k8s.ts`, next to `TenantController` | one action per list, in any order after the first |
| `Manager` | `main.go` | start (flags, registry), leader election, stop, and a pass reduced to the one object the registry decides, the AppProject |
| `TenantLifecycle` | what the owner of a cluster is promised | an abstract specification: absent, plain, guarded, deleting, and the things that are live |
| `LifecycleRefinement` | the mapping from `TenantController` to it | `INSTANCE ... WITH` |
| `MCTenantController`, `MCLateRequests`, `MCArgoTeardown`, `MCTenantView`, `MCManager`, `MCRenderer` | instances for TLC | |
| `ExtensionsProofs`, `RendererProofs`, `MCRendererProofs`, `TenantControllerProofs`, `TeardownProofs`, `ReadyProofs`, `LifecycleProofs`, `ManagerProofs` | lemmas and theorems | |

`TenantController` extends `KubeAPI` extends `Renderer` extends `Extensions`: the
pass and its surroundings interleave over one set of variables. `LateRequests`,
`ArgoTeardown` and `TenantView` each extend `TenantController` by one variable and
the steps of one more actor; steps of `TenantController` leave that variable alone.
`Manager` extends `Extensions` only: what it asks does not depend on how the other
objects are applied.

### State

A stored Tenant is `[phase, rv, gen, spec, finalizer, reason, observed]`: `phase`
is `absent`, `live` or `terminating` (a deletion timestamp is set), `rv` the
resource version, `gen` the generation, `reason` and `observed` the Ready
condition's reason and `status.observedGeneration` (Ready is True exactly for
`Reconciled`). Any other object is `[phase, rv, data]`; `data` holds the fields
Render computes. An absent object keeps its last version, so a version is never
reused, as in etcd. `tenantView` and `view` are the informer caches, `tenantFeed`
and `feed` the watch events they have not seen yet.

`pc` is the place of the pass, `snap` the `tenant` variable of `Reconcile`, `idx` the
position in the list it is working through, `plan` what Render returned, `seen` the
resource version `apply` copied, `waiting` whether `remaining` is non-empty.
`queue` and `delayed` are the work queue and the timers.

| `pc` | code | leaves it by |
|---|---|---|
| `idle` | between passes | `FetchNothing`, `FetchDeleted`, `FetchLive` (lines 125-154) |
| `finalizer` | 154-159 | `AddFinalizer`, `TenantConflict` |
| `render` | 161-170, renderer | `RejectExtensions`, `ReadValue` (one Get each), `Rendered` |
| `get` | `apply`, its Get | `GetObject`, `AllApplied` |
| `create`, `update` | `apply`, its write | `CreateObject`, `UpdateObject`, `ApplyRefused` |
| `status` | `setStatus` | `WriteStatus`, `StatusConflict` |
| `delete` | `finalize`, `deleteResource` | `DeleteNext`, `AllDeleted` |
| `check` | `remainingResources` | `CheckNext`, `AllChecked` |
| `release` | 138-139, 150-151 | `Release`, `TenantConflict` |

In every place where a call is pending, `CallFails` may fail it without effect
(then the code's error path is taken: a status with `ReconcileError` while
rendering or applying, a plain error otherwise), and the write actions have a
variant (`lost = TRUE`) that takes effect but reports an error. `Restart` may happen
anywhere.

In `Manager`, `mode[r]` is where the process of a replica is (`down`, `standby`,
`leading`, `writing`: between the Get and the PUT of the AppProject), `loaded[r]` which
content of the ConfigMap its registry is from, `due[r]` whether the tenant is in its
queue or on a timer. `configMaps` remembers every content the ConfigMap has had, and
`project.from` which one the stored whitelist was made from: ghosts, there so that
"earlier" and "later" can be said. `flight` holds the writes of processes that stopped.

In `TenantLifecycle`, a tenant is `plain` until the finalizer is there, then `guarded`,
then `deleting`. Its things are the objects the operator applies, without the default
ServiceAccounts, which the cluster makes of its own accord. A thing is made only while
its tenant is guarded or deleting; a guarded tenant goes (`Finish`) only when what must
be cleaned is not live, or its spec says to preserve it. `Promise` adds that a deletion
that was asked for ends.

### Abstractions

* Names are joined as the code joins them; values are atoms; a `$name:key`
  reference is a record, parsed already (a malformed one is a form of its own).
* The condition's message is left out: a status update that would change only the
  message is taken to change nothing.
* Fixed manifest text is left out. Events are kept only as what the last step
  emitted.
* Users do not remove finalizers by hand, and namespaces the operator does not
  create (`argocd`, the tenants' own) exist.
* The specs are those the CRD's schema admits (`Admitted`, assumed of `Specs`): at
  least one repository and one environment, a known credential type.
* In `TenantController` the extension registry is a constant: it is loaded once per
  process, and `Manager` is about how it changes.
* `Manager` has one tenant and takes the environment of its pass (Secrets, the other
  objects) as given. A duration is a number of seconds, or `Unparsed`.
* A process that stops has at most one request under way in `LateRequests` (one
  worker), and nothing of it stays but what the server may still take.
* Argo CD prunes the workloads of an ApplicationSet when the ApplicationSet is gone;
  nothing is said of how long that takes.
* The UI's page of events, the masking of Secret data and the layout are left out.

## 3. Runs

All bounds are constants of the cfg files: `MaxEdits` (creations, edits and deletions of
Tenants; in `Manager`, edits of the ConfigMap), `MaxStops` (processes that stop, in
`Manager`), `MaxDrift` (changes to children and source Secrets behind the operator's back),
`MaxFaults` (failed or lost calls), `MaxCrashes`, and `MaxTotal` (all of these together; it
binds in `two_tenants` only). The passes themselves are unbounded: a live tenant is
reconciled for ever. `CHECK_DEADLOCK FALSE` is said because the system may really stop: when
the last Tenant is gone, or every process is down, and the bounds are used up, nothing is
left to do.

| Run | Question | Bounds |
|---|---|---|
| `lifecycle` | Does the finalizer guard what is applied, and go only after the cleanup, when the spec is edited, the preserve flag toggled and the tenant deleted at any moment? Does Ready=True ever vouch for an older spec? In what order do things go? Is what is seen a behaviour of `TenantLifecycle`? | 1 tenant, 2 specs, 3 edits, 1 fault |
| `drift` | Do status and objects get right after drift? (liveness) | 1 tenant, 1 edit, 1 drift, 1 fault, 2 credential versions |
| `pull_secret` | Is the race for the default ServiceAccount harmless in the end (liveness); is anything left behind, wherever the process was cut short? | 1 tenant, 1 spec, 2 edits, 1 crash |
| `two_tenants` | Does a failing tenant starve another; is a restart survived; is `TenantLifecycle`'s promise, that deletions end included, kept to a tenant that is deleted while another one fails for ever, or is applied? (liveness) | 2 tenants, 2 specs, 3 edits, or 2 and 1 crash |
| `failover` | Does a request of an earlier process, made for another spec perhaps, get past the finalizer, or keep objects or deletions from their end? (liveness) | 1 tenant, 2 specs that differ in the objects they ask for and in the preserve flag, 3 edits, 1 takeover |
| `page` | Does the page of a Ready tenant show its Argo CD objects, though its lists are of different moments? | 1 tenant, 1 spec, 3 edits |
| `one_replica` | Which whitelist is in the cluster, when a process is restarted with any flags over a ConfigMap that is edited, also into one that does not load? (safety and liveness) | 1 replica, 5 contents, 3 flag sets, 2 edits, 2 stops |
| `renderer` | Are the renderer's lists right for every small spec? | specs of up to 6 entries |

Why the bounds are enough: three edits are the shortest history with a tenant created,
changed (or deleted) and deleted (or created anew) while a pass works on a copy two versions
old; with all three spent on the spec, it is changed and changed back, so that two versions
share a spec but not a generation. A tenant is gone after two, which is all that
`pull_secret` asks about; that `NothingLeftBehind` holds of a tenant that is deleted a
second time, with a cache of namespaces that is behind, is what the theorem adds. One fault
and one crash can hit any step, and every step of the pass writes at most one object, so
that two faults in one pass differ from one fault in each of two passes only in what the
second pass finds. One takeover with one request under way is what the late request of any
process can meet, for a second one is checked by the server against the same versions;
`failover` has three edits so that the request can be of a tenant that was deleted and
created anew, or of a spec that was edited and edited back. `two_tenants` has three, of
which `MaxTotal` lets a restart take the place of one, so that one of two tenants can be
deleted while the other is there: the mutant of `KeepsPromise` has one timer for all
tenants, which makes no difference to a tenant that is alone. Three lists of a page can lie
before, between and after the deletion and the creation that three edits allow. Two stops
let a write of the first process be late for the third; two edits of the ConfigMap give each
of the three a registry of its own. The contents include a ConfigMap that is missing, one
with an empty core, and one without the extension the tenant enables; the flags an interval
of zero and one that does not parse. Two environments, two entries for a registry, two
extensions that share a reference are what the lists' index arithmetic and deduplication can
confuse.

### Fairness

`FairSpec` adds weak fairness of `Work` (the worker runs while it has something to
do), of `Background` (watch events arrive, informers start, deletions the cluster
has begun go on) and of each `TimerFires(t)` (`RequeueAfter` and backoff are
timers), and strong fairness of each `Fetch(t)`: the work queue is first in first
out, so no queued tenant waits for ever though the worker is busy again and again.
Nothing is assumed of users, faults and crashes; their bounds make them finite,
which is the usual reading of "eventually": after the last of them. The code
justifies the timers: every return of `Reconcile` for a live tenant is an error
(backoff) or carries `RequeueAfter`.

`LateFairSpec` adds that a request does not stay under way for ever. `Manager`'s
`FairSpec` has weak fairness of `Run(r)` (a process is started again, as the deployment
does, and goes on) and of `LeaseExpires` (a lease that nobody renews expires); late
writes may never arrive, and an edit is never forced. A process that cannot start,
because the ConfigMap does not load, stays down until it is edited.

### What the runs found

Four runs refute what a comment says; `PROJECT.json` quotes each.

* `dropped_environment`: `finalize` knows only the spec of the moment, so an
  environment (or repository credentials) dropped earlier is never cleaned up.
* `stale_exists`: `exists` reads namespaces from a cache. After a quick
  delete-create-delete the cache may not show the namespace, and the Tenant goes
  while its namespace is Terminating. (`NothingLeftBehind` still holds: deletion was
  requested for everything.)
* `colliding_names`: `acme` with `eu-dev` and `acme-eu` with `dev` are both Ready on one
  namespace, which carries the label of one of them.
* `unpruned`: the namespaces and the AppProject are deleted while Argo CD still has the
  workloads to prune: deleting the ApplicationSets first only asks for the pruning.

The models show more of this kind, which no run states as a property:

* The Deleted event is recorded when a deletion is accepted, not when the object is
  removed (line 354), so that for a namespace it comes too early and more than once.
* Ready=True may be reported for a tenant whose namespace is Terminating, because
  `apply` leaves any namespace it finds alone; later passes create it anew, and `drift`
  shows that it does not last.
* When somebody overwrites the label of a namespace, it stays so: the periodic passes leave
  namespaces alone. Nothing in the repository says otherwise.
* A page of the UI may show a Tenant that is gone, or that has been created anew, as it was
  when it was listed, without objects that have gone since.
* After a successful pass the next one may report ReconcileError, because it creates a
  Secret again that its cache does not show; this does not last either.
* A POST of an earlier process may arrive after the next one has looked for that object
  and before it releases the finalizer; the object then stays.
* An edit of the registry ConfigMap "after install" (`README.md`, line 60) is not in
  force until a restart: only `Start` loads it. What `RegistryInForce` says is that after
  the restart it is.

What holds is as telling. A late write may put an earlier content of an object back, also of
a Tenant that is Ready and in sync: a process stops at the PUT of an edit that is taken back
before the next process looks, which then finds everything as it should be and makes no new
version, so that the late PUT still names the stored one. The next pass heals it
(`failover`: `ConvergesToSpec`), and only a pass that looks at Tenants it has dealt with
already does: the mutant of that run, which skips these, is refuted. (So
`ReadyMeansArgoInSync` is a property of `TenantController`, where nothing arrives late.)
With one replica, the whitelist of an AppProject never goes back, because a PUT names the
version it was read at; with two, a standby that loaded the registry before an edit may
bring the older whitelist back when it takes over. A preserve flag that is set while
`finalize` runs does not bring back what is deleted already, but the generation tells, and
the finalizer is not released for the older spec (`PreserveHonoured`). `PageIsWhole` is
about Argo CD objects only: a namespace may be deleted by hand while its tenant is Ready. It
needs the Tenant's list to come first, as it does in the code: its mutant asks for all the
lists at once, and the page of a Tenant that got Ready meanwhile lacks its objects.

## 4. Proofs

`tlapm` checks eight modules. `ExtensionsProofs` and `RendererProofs` are about what the
pure functions compute, for every input; `MCRendererProofs` takes that to the properties
of the run `renderer`; `TenantControllerProofs`, `TeardownProofs`, `ReadyProofs` and
`LifecycleProofs` are about the controller (and, in `ReadyProofs`, the page),
`ManagerProofs` about the processes. The theorems hold for every set of Tenants, Specs,
Contents, Replicas, ConfigMaps and FlagSets, every Registry and every value of the bounds.

| Theorem | States |
|---|---|
| `TenantControllerProofs!TypeCorrectness` | `Spec => []TypeOK` |
| `TenantControllerProofs!FinalizerGuards` | `Spec => []FinalizerGuardsApply` |
| `TenantControllerProofs!CleanRelease` | `Spec => ReleaseIsClean` |
| `TenantControllerProofs!Invariance` | `Spec => []IInv`, on which the three rest |
| `TeardownProofs!NamespacesLast` | `Spec => NamespacesGoLast` |
| `TeardownProofs!Cleanup` | `TenantsApart` proves `Spec /\ [][EditsOnlyAdd]_vars /\ []NothingPreserved => []NothingLeftBehind` |
| `TeardownProofs!PreserveIsHonoured` | `TenantsApart` proves `Spec => PreserveHonoured` |
| `ReadyProofs!ReadyInSync` | `TenantsApart` proves `Spec /\ [][HandsOff]_vars => []ReadyMeansArgoInSync` |
| `ReadyProofs!PagesAreWhole` | `TenantsApart` proves `ViewSpec /\ [][HandsOff]_vars => []PageIsWhole` |
| `LifecycleProofs!Implementation` | `Spec => ImplementsLifecycle`: the refinement of `TenantLifecycle!Spec` |
| `ManagerProofs!TypeCorrectness` | `Spec => []TypeOK` of `Manager` |
| `ManagerProofs!NeverGoesBack` | `Spec => WhitelistNeverGoesBack` |
| `ManagerProofs!WasConfigured` | `Spec => []WhitelistWasConfigured` |
| `ExtensionsProofs!DedupeDistils`, `ResolveGrants` | what `Dedupe` and `Resolve` return for every list, registry and choice of extensions |
| `RendererProofs!TeardownAgrees`, `NamespacesFirst` | the applied and the torn-down list agree, namespaces come first, for every tenant and spec |
| `MCRendererProofs!TeardownCovers`, `TeardownStays`, `NamespacesLead`, `LastPullSecret`, `WhitelistIsExact` | the five properties of the run `renderer`, for specs of any length (the entries are those of the run; `WhitelistIsExact` is about the run's registry) |

**Assumed of the constants.** Source Secrets are not rendered objects
(`SourcesAreNotChildren`); `NoKey`, `None` and `NoOne` are no key, no tenant and no
replica; the list fields of a spec are lists, and specs are `Admitted`; the YAML of a
registry that loads parses into lists (`RegistriesHoldLists`); the bounds are numbers. Two
are about names, because the provers know nothing of what joining strings gives: a
namespace's name holds a dash, so it is neither empty nor `argocd` (`NamespacesAreNamed`),
and prefixing two environments with the same tenant's name keeps them apart
(`EnvironmentsHaveNames`).

**Assumed in a theorem, because the code does not see to it.** Without each of these the
property fails.

* `TenantsApart`: no two tenants have a child in common. Names are joined with dashes and
  tenants live in namespaces of their own, so they can (`colliding_names`); then one
  tenant's deletion takes the other's objects, preserved or Ready or not.
* `EditsOnlyAdd`: an edit takes nothing off the list `finalize` works through
  (`dropped_environment` is what happens otherwise). It is weaker than the restriction of
  the run `pull_secret`, where specs are never edited at all.
* `NothingPreserved`: no Tenant is deleted that preserves its resources; one that is
  leaves them behind, as it says.
* `HandsOff`: nobody but the operator deletes or overwrites a child in the argocd
  namespace. Drift is not noticed until the next pass.

Each is a condition on the environment that behaviours with edits, deletions, faults and
crashes satisfy; the runs that check the same properties are such behaviours.

**The reconciler.** None of its properties is inductive by itself, because a pass acts
on copies. The inductive invariant `IInv` adds three ideas.

1. *Versions* (`VersionOf`, `CacheInv`). Every copy of a Tenant, cached, on its way to the
   cache or in the hands of the pass, is a version the server once stored: not
   later than the stored one, equal to it if it has the same resource version, and
   if the copy is live with the finalizer, the stored Tenant exists and has the
   finalizer. The last part is what a finalizer means: users cannot get past it.
   The one step that could break it is `Release`; there the pass's copy is the stored
   version and is no newer than the cache, so the cache and its feed hold no older
   copy that still promises a finalizer. That is why `PassInv` records
   `snap.rv <= tenantView[cur].rv` for a pass that tears down.
2. *Branches* (`PassInv`). A pass that renders, applies or reports holds a live copy with the finalizer,
   a pass that tears down holds a terminating one. With 1, `FinalizerGuardsApply`.
3. *Deleted stays deleted* (`GoneInv`). What `finalize` has gone through is not live, and
   nothing brings it back: the worker is the only one to create such objects and it
   is busy deleting, users and the cluster create only source Secrets and
   ServiceAccounts, which are not in the teardown list (`NothingRevived`).
   At the `Release` step the server's version check makes the pass's spec the
   stored one: `ReleaseIsClean`.

**The order of the teardown.** Positions in the list of deletions stand for an order in
time only if what has been passed is really away. `GoneInv` says that it is not live;
`LingerInv` (only namespaces linger Terminating, proved by induction next to `IInv`)
turns that into absent for the ApplicationSets and the AppProject.
`NamespacesAtTheEnd` is the fact about the list: every position before a namespace's
covers them. `OnlyFinalizeDeletes` says that of the steps of the pass only `DeleteNext`
ends the life of an object.

**Nothing is left behind.** `HeldInv` says who answers for what is alive: a child that is
live is on the list of deletions of a Tenant that holds the finalizer, or the namespace it
lives in is on its way out. It needs the rest of `CleanupInv`. `GrowInv`: the list of a
copy that promises a finalizer is part of the stored Tenant's list, so what a pass on an
old copy creates is held as well (here `EditsOnlyAdd` is used). `HousedInv`: what is in a
namespace of a tenant has that namespace there. `ViewInv` and `SeenInv`: what the caches
hold is a version of the object, and `apply` updates the version it has seen, so an update
does not bring back what was deleted in between. `Release` is the step that could leave
something: what it holds is dead by `GoneInv`, and what lives in its namespaces goes with
them.

**Preserve is honoured.** What a pass deletes, it deletes for the copy it holds, and a user
may have set the preserve flag since. `DoomInv` says of every copy that is being deleted, in
the feed, the cache or the hands of the pass, that it is *harmless*: either the stored
Tenant is a later edit of the same deletion (and then the generation tells), or all that
the copy would have deleted is gone already (`CleanedUp`), which is how a pass looks that
runs on a copy of a Tenant that was released, and perhaps created anew. The second
alternative would be lost if the new Tenant were applied while the old copy is still in
the cache. The part of `DoomInv` about passes that apply excludes that: such a pass took a
live copy from the cache, so a copy being deleted that the cache gets after it belongs to
the deletion that is stored.

**Ready, and the page.** A status is true when it is written, because the server takes it
only of the stored version: `ProgressInv` says that what the pass has gone through is in
place. It stays true as long as nobody applies another spec. That takes the fact that all
copies of a Tenant that is Ready at its generation, cached, on their way or in the hands of
a pass, are of that generation too (`CopiesAgree`, in `ReadyInv`): when the pass reports,
it holds the stored version, and the cache it was taken from holds nothing older any more.
The mutant of the run, which writes the status to a Tenant that was fetched again, breaks
this step of the proof. `PageInv` then says what a page has: its Tenant is a version that was
stored, and if it is still stored and is Ready, every list made since has its Argo CD
objects; there are no lists made before, because the Tenant's comes first.

**The refinement.** `PlanInv` adds to `IInv` that a pass in the apply loop carries a
plan whose keys belong to its tenant and its spec (`TenantLifecycle` makes a thing only
for a tenant, under one of its specs). The mapping takes a stored Tenant to its phase
and finalizer; a write of a Tenant turns one tenant and no other (the `TurnsTo` facts,
which give the mapped functions point by point, since the tenants are a function
and so is the abstract state). `StepSeen` then has one step per action: what
writes neither a Tenant nor a thing's phase is a stutter; `AddFinalizer` is `Guard`;
`CreateObject` and `UpdateObject` are `Make` (or a stutter) by `FinalizerGuardsApply`;
`Release` is `Finish` by the argument of `CleanRelease`; deletions, by whomever, are `Lose`.

**The manager.** Its `IInv` has, besides the types, `RequestsOK` (a request is from a
content the ConfigMap has had, and carries the whitelist of that content) and, for one
replica, `InOrder`: the stored whitelist is from no later content than the process has
loaded, and a late write that names the stored version is from none earlier than what it
would replace. That is needed because a write that changes nothing makes no version:
the version alone does not tell what was written after the request was made.

For `WasConfigured`, `GroundInv` says that the stored whitelist, and that of every request
under way, is what `Resolve` grants for one content of the ConfigMap. `ResolveGrants` turns
that into the set of references that content names.

**The renderer and the registry.** `Dedupe`, `Resolve` and `FlattenSeq` are defined by
recursive functions, and the library's induction theorems cannot be used, for they take an
operator as a parameter. A least counterexample takes their place: were there a prefix for
which the claim is false, there would be a shortest one (the order of the natural numbers
is well founded), the one before it is right, and one unfolding of the definition
contradicts that. `Distils` is the claim about `Dedupe`: the same references, each once, in
the order of first mention. `DedupeInTwoLoops` shows that the registry's loop followed by
the renderer's is one deduplication of all. The lists of objects are concatenations of lists with a
known index range, so which object is where is arithmetic (`RenderedObjects`,
`TornDownKeys`, `RowAndColumn`); `PullValuesRead` finds the value of an entry's password
among those `Render` has read, for every environment.

TLC checked each invariant before it was proved (`PageInv` and `SyncInv` next to the run
`page`, on some millions of states). Model-checked only:

* liveness (`StatusTellsTruth`, `ConvergesToSpec`, `DeletionCompletes`, `KeepsPromise`'s
  promise that deletions end, `RegistryInForce`): out of the prover's reach here, as is
  `ENABLED`;
* `FinalizerGuardsApply` in the presence of late requests (`failover`): the theorem is about
  `TenantController` alone.

## 5. Not modelled, and what is left

Not modelled: generated deep copies (no behaviour of their own); the registration of
the types with the scheme; metrics, TLS, webhook server and probes in `main.go`
(framework wiring); the chart, kustomize and CI (declarative; read for how many replicas
run and how the ConfigMap gets there); the UI's pages, sign-in and logging
(presentation, library code), and in its data access the list of all tenants (one call),
events, masking and conversions. The message of the condition and fixed manifest text are
left out as said under Abstractions.

Left for later: a rotation of the credentials of a pull secret that goes to two
environments (an instance has more states than a run can visit; `drift` rotates those of a
repository); the finalizer's guard for `LateRequests` as a theorem (`IInv` holds of its
steps too, but the request under way needs an invariant of its own); two colliding tenants
that delete each other's objects as a liveness question; one run in which `Manager`'s
processes drive the whole of `TenantController`, for which the state space is too large
today.
