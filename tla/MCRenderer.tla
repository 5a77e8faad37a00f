----------------------------- MODULE MCRenderer -----------------------------
(***************************************************************************)
(* Renderer and Extensions over bounded inputs: the states are the specs   *)
(* of up to MaxEntries entries in all, reached by adding one entry at a    *)
(* time to one repository and one environment, which the CRD requires.     *)
(***************************************************************************)
EXTENDS Renderer

CONSTANT MaxEntries

VARIABLE spec

Acme == [ns |-> "ops", name |-> "acme"]

Quota  == [group |-> "", kind |-> "ResourceQuota"]
Issuer == [group |-> "cert-manager.io", kind |-> "Issuer"]
Bucket == [group |-> "s3.aws", kind |-> "Bucket"]

\* The two extensions share a reference, and one repeats a core one.
RegistryMap ==
    [exists  |-> TRUE,
     hasKey  |-> TRUE,
     parses  |-> TRUE,
     entries |-> [core    |-> <<Quota>>,
                  certs   |-> <<Issuer, Quota>>,
                  buckets |-> <<Bucket, Issuer>>]]

\* The operator starts only with a registry that loads.
ASSUME RegistryLoads == ~LoadFails(RegistryMap)

MCRegistry == Load(RegistryMap)

Environments == {"dev", "prod"}

Public  == [repoURL |-> "git/app", revision |-> "main", credentials |-> NoCredentials]
Private == [repoURL     |-> "git/lib",
            revision    |-> "main",
            credentials |-> [type   |-> "pat",
                             first  |-> Inline("bot"),
                             second |-> SecretRef("creds", "pass")]]

Pulls == {[registry |-> registry, username |-> Inline("bot"), password |-> Inline(password)] :
             registry \in {"ghcr.io", "quay.io"}, password \in {"p1", "p2"}}

Smallest(env, repo) ==
    [environments     |-> <<env>>,
     git              |-> <<repo>>,
     imagePullSecrets |-> <<>>,
     extensions       |-> <<>>,
     extraWhitelist   |-> <<>>,
     server           |-> "",
     preserve         |-> FALSE]

Size == Len(spec.environments) + Len(spec.git) + Len(spec.imagePullSecrets)
        + Len(spec.extensions) + Len(spec.extraWhitelist)

Add(field, entry) == /\ Size < MaxEntries
                     /\ spec' = [spec EXCEPT ![field] = Append(@, entry)]

Init == \E env \in Environments, repo \in {Public, Private} : spec = Smallest(env, repo)
Next == \/ \E env \in Environments : Add("environments", env)
        \/ \E repo \in {Public, Private} : Add("git", repo)
        \/ \E pull \in Pulls : Add("imagePullSecrets", pull)
        \/ \E name \in {"certs", "buckets"} : Add("extensions", name)
        \/ \E ref \in {Quota, Bucket} : Add("extraWhitelist", ref)
Spec == Init /\ [][Next]_spec

-------------------------------------------------------------------------------
\* The Secret every reference names, and what the values resolve to.
Store == [k \in {SourceKey("ops", "creds")} |->
             [phase |-> "live", rv |-> 0, data |-> [pass |-> "s3cret"]]]

Values == LET values == ValuesRead(spec)
          IN  [j \in DOMAIN values |-> ResolveValue(Store, "ops", values[j])]

Rendered == Objects(Acme, spec, Values)

\* The references a tenant is granted, in the order they are named: core, the
\* enabled extensions, the tenant's own.
Named == MCRegistry.core
         \o FlattenSeq([i \in DOMAIN spec.extensions |->
                           MCRegistry.extensions[spec.extensions[i]]])
         \o spec.extraWhitelist

FirstIn(refs, ref) == CHOOSE i \in DOMAIN refs :
                         refs[i] = ref /\ \A j \in 1 .. i - 1 : refs[j] # ref

\* The AppProject's whitelist is the set of the named references, each once,
\* in the order of first mention, although two loops deduplicate in turn.
AllowlistExact ==
    LET list == Allowlist(spec)
    IN  /\ Range(list) = Range(Named)
        /\ \A i, j \in DOMAIN list :
              i < j => /\ list[i] # list[j]
                       /\ FirstIn(Named, list[i]) < FirstIn(Named, list[j])

\* Render and finalize agree: deleting what finalize names takes every
\* rendered object with it, itself or with its namespace.
TeardownCoversRender ==
    LET doomed == Range(Teardown(Acme, spec))
    IN  \A i \in DOMAIN Rendered :
            LET k == Rendered[i].key
            IN  k \in doomed \/ Key("Namespace", ClusterScope, k.ns) \in doomed

\* finalize names nothing that Render does not apply.
TeardownOnlyRendered ==
    Range(Teardown(Acme, spec)) \subseteq {Rendered[i].key : i \in DOMAIN Rendered}

\* No object is applied before the namespace it lives in.
NamespaceBeforeContent ==
    \A i \in DOMAIN Rendered :
        LET k == Rendered[i].key
        IN  k.ns \notin {ClusterScope, ArgoCDNamespace} =>
                \E j \in 1 .. i - 1 : Rendered[j].key = Key("Namespace", ClusterScope, k.ns)

\* Every environment's pull secret names each registry once, with the
\* credentials of the last entry for it.
LastPullSecretWins ==
    \A i \in DOMAIN Rendered :
        LET k == Rendered[i].key
        IN  k.kind = "Secret" /\ k.ns # ArgoCDNamespace =>
                \A m \in DOMAIN spec.imagePullSecrets :
                    LET pull == spec.imagePullSecrets[m]
                        later == {n \in DOMAIN spec.imagePullSecrets :
                                     n > m /\ spec.imagePullSecrets[n].registry = pull.registry}
                    IN  later = {} => Rendered[i].data.auths[pull.registry]
                                          = <<pull.username.text, pull.password.text>>
===============================================================================
