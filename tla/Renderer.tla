------------------------------- MODULE Renderer -------------------------------
(***************************************************************************)
(* internal/renderer/renderer.go: a Tenant turned into the ordered list of *)
(* objects the operator applies, and the list the controller tears down    *)
(* (the two lists are built by different code and must agree).             *)
(*                                                                         *)
(* A tenant is [ns, name], an object's key is [kind, ns, name].  Names are *)
(* joined with a dash, as the code joins them: "a" with "b-c" and "a-b"    *)
(* with "c" give the same name.                                            *)
(***************************************************************************)
EXTENDS Integers, Extensions

CONSTANTS
    Registry,       \* the loaded extension registry: [core, extensions]
    NoCredentials   \* a git entry without credentials

\* The two names of the argocd namespace: the renderer and the repo secrets
\* use the reconciler's field, which main.go sets to the renderer's default,
\* and finalize names Argo CD objects in the default itself.
DefaultArgoCDNamespace == "argocd"
ArgoCDNamespace == DefaultArgoCDNamespace
DefaultDestinationServer == "https://kubernetes.default.svc"
CredentialTypes == {"githubApp", "pat"}

ClusterScope == ""
Key(kind, ns, name) == [kind |-> kind, ns |-> ns, name |-> name]

NamespaceName(tenant, env) == tenant \o "-" \o env

NamespaceKey(t, env)  == Key("Namespace", ClusterScope, NamespaceName(t.name, env))
AppProjectKey(t)      == Key("AppProject", ArgoCDNamespace, t.name)
AppSetKey(t, env)     == Key("ApplicationSet", ArgoCDNamespace, t.name \o "-" \o env)
RepoSecretKey(t, i)   == Key("Secret", ArgoCDNamespace, t.name \o "-repo-" \o ToString(i - 1))
PullSecretName(t)     == t.name \o "-pull-secret"
PullSecretKey(t, env) == Key("Secret", NamespaceName(t.name, env), PullSecretName(t))
DefaultSAKey(t, env)  == Key("ServiceAccount", NamespaceName(t.name, env), "default")

\* The place of a git entry without credentials in a list: the loops skip it.
NoKey    == Key("None", ClusterScope, "")
NoObject == [key |-> NoKey, data |-> [owner |-> ""]]

\* Lists are lists.
HoldsLists(spec) == /\ IsSequence(spec.environments)
                    /\ IsSequence(spec.git)
                    /\ IsSequence(spec.imagePullSecrets)

-------------------------------------------------------------------------------
(***************************************************************************)
(* The values a rendering reads, in the order it reads them: two for each  *)
(* git entry with credentials, then two for each image pull secret, once   *)
(* more for every environment.  A value is inline text, a reference        *)
(* $secret:key, a malformed reference, or the nothing of a skipped entry.  *)
(***************************************************************************)
Inline(text)        == [form |-> "inline", text |-> text]
SecretRef(name, key) == [form |-> "ref", secret |-> name, key |-> key]
Malformed           == [form |-> "malformed"]
NoValue             == [form |-> "none"]

CredentialValues(repo) ==
    CASE repo.credentials = NoCredentials                   -> <<NoValue, NoValue>>
      [] repo.credentials # NoCredentials
         /\ repo.credentials.type \in CredentialTypes       ->
             <<repo.credentials.first, repo.credentials.second>>
      [] OTHER                                              -> <<Malformed, Malformed>>

ValuesRead(spec) ==
    LET pulls == spec.imagePullSecrets
    IN  [j \in 1 .. 2 * Len(spec.git) |->
            CredentialValues(spec.git[(j + 1) \div 2])[2 - (j % 2)]]
        \o
        [j \in 1 .. 2 * Len(pulls) * Len(spec.environments) |->
            LET pull == pulls[(((j - 1) \div 2) % Len(pulls)) + 1]
            IN  IF j % 2 = 1 THEN pull.username ELSE pull.password]

SourceKey(ns, secret) == Key("Secret", ns, secret)

\* resolveValue against the Secrets of a store (key -> [phase, rv, data]).
ResolveFails(secrets, ns, value) ==
    \/ value.form = "malformed"
    \/ /\ value.form = "ref"
       /\ LET secret == secrets[SourceKey(ns, value.secret)]
          IN  secret.phase = "absent" \/ value.key \notin DOMAIN secret.data

ResolveValue(secrets, ns, value) ==
    CASE value.form = "inline" -> value.text
      [] value.form = "ref"    -> secrets[SourceKey(ns, value.secret)].data[value.key]
      [] OTHER                 -> ""

-------------------------------------------------------------------------------
(***************************************************************************)
(* The objects.  Every one carries the label naming its tenant (owner).    *)
(***************************************************************************)
Server(spec) == IF spec.server = "" THEN DefaultDestinationServer ELSE spec.server

Allowlist(spec) ==
    Dedupe(Resolve(Registry, spec.extensions) \o spec.extraWhitelist)

BuildNamespace(t, env) ==
    [key |-> NamespaceKey(t, env), data |-> [owner |-> t.name]]

BuildAppProject(t, spec) ==
    [key  |-> AppProjectKey(t),
     data |-> [owner        |-> t.name,
               sourceRepos  |-> [i \in DOMAIN spec.git |-> spec.git[i].repoURL],
               destinations |-> [i \in DOMAIN spec.environments |->
                                    NamespaceName(t.name, spec.environments[i])],
               server       |-> Server(spec),
               whitelist    |-> Allowlist(spec)]]

BuildAppSet(t, spec, env) ==
    [key  |-> AppSetKey(t, env),
     data |-> [owner       |-> t.name,
               elements    |-> [i \in DOMAIN spec.git |->
                                   <<spec.git[i].repoURL, spec.git[i].revision>>],
               directory   |-> env,
               project     |-> t.name,
               server      |-> Server(spec),
               destination |-> NamespaceName(t.name, env)]]

BuildRepoSecret(t, spec, vals, i) ==
    IF spec.git[i].credentials = NoCredentials
    THEN NoObject
    ELSE [key  |-> RepoSecretKey(t, i),
          data |-> [owner  |-> t.name,
                    url    |-> spec.git[i].repoURL,
                    type   |-> spec.git[i].credentials.type,
                    first  |-> vals[2 * i - 1],
                    second |-> vals[2 * i]]]

\* Mutant: an earlier entry for the same registry is kept.
BuildPullSecretFirst(t, spec, vals, n) ==
    LET pulls    == spec.imagePullSecrets
        at(m)    == 2 * Len(spec.git) + 2 * ((n - 1) * Len(pulls) + (m - 1))
        first(r) == SelectInSeq(pulls, LAMBDA pull : pull.registry = r)
    IN  [key  |-> PullSecretKey(t, spec.environments[n]),
         data |-> [owner |-> t.name,
                   auths |-> [r \in {pulls[m].registry : m \in DOMAIN pulls} |->
                                 <<vals[at(first(r)) + 1], vals[at(first(r)) + 2]>>]]]

\* The auths map of the n-th environment: a later entry for the same registry
\* overwrites an earlier one.
BuildPullSecret(t, spec, vals, n) ==
    LET pulls   == spec.imagePullSecrets
        at(m)   == 2 * Len(spec.git) + 2 * ((n - 1) * Len(pulls) + (m - 1))
        last(r) == SelectLastInSeq(pulls, LAMBDA pull : pull.registry = r)
    IN  [key  |-> PullSecretKey(t, spec.environments[n]),
         data |-> [owner |-> t.name,
                   auths |-> [r \in {pulls[m].registry : m \in DOMAIN pulls} |->
                                 <<vals[at(last(r)) + 1], vals[at(last(r)) + 2]>>]]]

BuildDefaultSA(t, env) ==
    [key  |-> DefaultSAKey(t, env),
     data |-> [owner |-> t.name, imagePullSecrets |-> <<PullSecretName(t)>>]]

EnvironmentsWithPull(spec) ==
    IF spec.imagePullSecrets = <<>> THEN 0 ELSE Len(spec.environments)

RenderNamespaces(t, spec) ==
    [n \in DOMAIN spec.environments |-> BuildNamespace(t, spec.environments[n])]

RenderArgo(t, spec, vals) ==
    <<BuildAppProject(t, spec)>>
    \o [n \in DOMAIN spec.environments |-> BuildAppSet(t, spec, spec.environments[n])]
    \o [i \in DOMAIN spec.git |-> BuildRepoSecret(t, spec, vals, i)]

RenderPull(t, spec, vals) ==
    [j \in 1 .. 2 * EnvironmentsWithPull(spec) |->
        LET n == (j + 1) \div 2
        IN  IF j % 2 = 1 THEN BuildPullSecret(t, spec, vals, n)
                         ELSE BuildDefaultSA(t, spec.environments[n])]

\* Mutant: the namespaces come last.
ObjectsNamespacesLast(t, spec, vals) ==
    RenderArgo(t, spec, vals) \o RenderPull(t, spec, vals) \o RenderNamespaces(t, spec)

\* Render's result once every value is read and no extension is unknown.
Objects(t, spec, vals) ==
    RenderNamespaces(t, spec) \o RenderArgo(t, spec, vals) \o RenderPull(t, spec, vals)

-------------------------------------------------------------------------------
(***************************************************************************)
(* The keys finalize deletes, and remainingResources looks for, in order.  *)
(***************************************************************************)
TeardownArgo(t, spec) ==
    [n \in DOMAIN spec.environments |-> AppSetKey(t, spec.environments[n])]
    \o <<AppProjectKey(t)>>

\* Mutant: the credential secrets are left behind.
NoTeardownSecrets(t, spec) == [i \in DOMAIN spec.git |-> NoKey]

\* Mutant: entries without credentials are not skipped.
TeardownEverySecret(t, spec) == [i \in DOMAIN spec.git |-> RepoSecretKey(t, i)]

TeardownSecrets(t, spec) ==
    [i \in DOMAIN spec.git |->
        IF spec.git[i].credentials = NoCredentials THEN NoKey ELSE RepoSecretKey(t, i)]

\* Mutant: the loop over the environments stops one short.
TeardownNamespacesShort(t, spec) ==
    [n \in 1 .. Len(spec.environments) - 1 |-> NamespaceKey(t, spec.environments[n])]

TeardownNamespaces(t, spec) ==
    [n \in DOMAIN spec.environments |-> NamespaceKey(t, spec.environments[n])]

\* Mutant: the namespaces go first.
TeardownNamespacesFirst(t, spec) ==
    TeardownNamespaces(t, spec) \o TeardownArgo(t, spec) \o TeardownSecrets(t, spec)

Teardown(t, spec) ==
    TeardownArgo(t, spec) \o TeardownSecrets(t, spec) \o TeardownNamespaces(t, spec)

===============================================================================
