---------------------------- MODULE RendererProofs ----------------------------
(***************************************************************************)
(* Lemmas about the lists Renderer builds, for every tenant and every spec *)
(* that holds lists: what is in them, and in which order.                  *)
(***************************************************************************)
EXTENDS Renderer, ExtensionsProofs

-------------------------------------------------------------------------------
(***************************************************************************)
(* Keys.                                                                   *)
(***************************************************************************)

\* The kinds of the objects and where they live.
LEMMA KindsOfKeys ==
    \A t, env, i :
       /\ NamespaceKey(t, env).kind = "Namespace"       /\ NamespaceKey(t, env).ns = ClusterScope
       /\ AppProjectKey(t).kind = "AppProject"          /\ AppProjectKey(t).ns = ArgoCDNamespace
       /\ AppSetKey(t, env).kind = "ApplicationSet"     /\ AppSetKey(t, env).ns = ArgoCDNamespace
       /\ RepoSecretKey(t, i).kind = "Secret"           /\ RepoSecretKey(t, i).ns = ArgoCDNamespace
       /\ PullSecretKey(t, env).kind = "Secret"
       /\ PullSecretKey(t, env).ns = NamespaceName(t.name, env)
       /\ DefaultSAKey(t, env).kind = "ServiceAccount"
       /\ DefaultSAKey(t, env).ns = NamespaceName(t.name, env)
       /\ NoKey.kind = "None"
BY DEF NamespaceKey, AppProjectKey, AppSetKey, RepoSecretKey, PullSecretKey, DefaultSAKey,
       NoKey, Key

\* The keys of the objects.
LEMMA KeysOfObjects ==
    \A t, spec, texts, env, i :
       /\ BuildNamespace(t, env).key = NamespaceKey(t, env)
       /\ BuildAppProject(t, spec).key = AppProjectKey(t)
       /\ BuildAppSet(t, spec, env).key = AppSetKey(t, env)
       /\ BuildRepoSecret(t, spec, texts, i).key = IF spec.git[i].credentials = NoCredentials
                                                   THEN NoKey ELSE RepoSecretKey(t, i)
       /\ BuildPullSecret(t, spec, texts, i).key = PullSecretKey(t, spec.environments[i])
       /\ BuildDefaultSA(t, env).key = DefaultSAKey(t, env)
BY DEF BuildNamespace, BuildAppProject, BuildAppSet, BuildRepoSecret, NoObject,
       BuildPullSecret, BuildDefaultSA

-------------------------------------------------------------------------------
(***************************************************************************)
(* What Render and finalize go through.                                    *)
(***************************************************************************)

\* The lists of a spec have a length.
LEMMA SpecLists ==
    ASSUME NEW spec, HoldsLists(spec)
    PROVE  /\ Len(spec.environments) \in Nat
           /\ DOMAIN spec.environments = 1 .. Len(spec.environments)
           /\ Len(spec.git) \in Nat
           /\ DOMAIN spec.git = 1 .. Len(spec.git)
           /\ Len(spec.imagePullSecrets) \in Nat
           /\ DOMAIN spec.imagePullSecrets = 1 .. Len(spec.imagePullSecrets)
           /\ EnvironmentsWithPull(spec) \in Nat
           /\ EnvironmentsWithPull(spec) <= Len(spec.environments)
           /\ 2 * EnvironmentsWithPull(spec) \in Nat
<1>1. /\ Len(spec.environments) \in Nat
      /\ DOMAIN spec.environments = 1 .. Len(spec.environments)
      /\ Len(spec.git) \in Nat
      /\ DOMAIN spec.git = 1 .. Len(spec.git)
      /\ Len(spec.imagePullSecrets) \in Nat
      /\ DOMAIN spec.imagePullSecrets = 1 .. Len(spec.imagePullSecrets)
  BY SequenceDomain DEF HoldsLists
<1>2. /\ EnvironmentsWithPull(spec) \in Nat
      /\ EnvironmentsWithPull(spec) <= Len(spec.environments)
  BY <1>1 DEF EnvironmentsWithPull
<1>3. 2 * EnvironmentsWithPull(spec) \in Nat
  BY <1>2
<1> QED
  BY <1>1, <1>2, <1>3

\* The parts of the list Render returns.
AppSets(t, spec) ==
    [n \in DOMAIN spec.environments |-> BuildAppSet(t, spec, spec.environments[n])]
RepoSecrets(t, spec, texts) == [i \in DOMAIN spec.git |-> BuildRepoSecret(t, spec, texts, i)]

LEMMA RenderedParts ==
    ASSUME NEW t, NEW spec, HoldsLists(spec), NEW texts
    PROVE  /\ Objects(t, spec, texts) =
                (RenderNamespaces(t, spec)
                 \o ((<<BuildAppProject(t, spec)>> \o AppSets(t, spec))
                     \o RepoSecrets(t, spec, texts)))
                \o RenderPull(t, spec, texts)
           /\ IsSequence(RenderNamespaces(t, spec))
           /\ Len(RenderNamespaces(t, spec)) = Len(spec.environments)
           /\ IsSequence(<<BuildAppProject(t, spec)>>)
           /\ Len(<<BuildAppProject(t, spec)>>) = 1
           /\ IsSequence(AppSets(t, spec))
           /\ Len(AppSets(t, spec)) = Len(spec.environments)
           /\ IsSequence(RepoSecrets(t, spec, texts))
           /\ Len(RepoSecrets(t, spec, texts)) = Len(spec.git)
           /\ IsSequence(RenderPull(t, spec, texts))
           /\ Len(RenderPull(t, spec, texts)) = 2 * EnvironmentsWithPull(spec)
<1> DEFINE spaces  == RenderNamespaces(t, spec)
           project == <<BuildAppProject(t, spec)>>
           appSets == AppSets(t, spec)
           secrets == RepoSecrets(t, spec, texts)
           pulls   == RenderPull(t, spec, texts)
<1>1. Objects(t, spec, texts) = (spaces \o ((project \o appSets) \o secrets)) \o pulls
  BY DEF Objects, RenderArgo, AppSets, RepoSecrets
<1>2. spaces = [n \in 1 .. Len(spec.environments) |-> spaces[n]]
  BY SpecLists DEF RenderNamespaces
<1>3. project = [n \in 1 .. 1 |-> project[n]]
  OBVIOUS
<1>4. appSets = [n \in 1 .. Len(spec.environments) |-> appSets[n]]
  BY SpecLists DEF AppSets
<1>5. secrets = [n \in 1 .. Len(spec.git) |-> secrets[n]]
  BY SpecLists DEF RepoSecrets
<1>6. pulls = [n \in 1 .. 2 * EnvironmentsWithPull(spec) |-> pulls[n]]
  BY DEF RenderPull
<1> HIDE DEF spaces, project, appSets, secrets, pulls
<1>7. IsSequence(spaces) /\ Len(spaces) = Len(spec.environments)
  BY <1>2, SpecLists, FunctionIsSequence
<1>8. IsSequence(project) /\ Len(project) = 1
  BY <1>3, FunctionIsSequence
<1>9. IsSequence(appSets) /\ Len(appSets) = Len(spec.environments)
  BY <1>4, SpecLists, FunctionIsSequence
<1>10. IsSequence(secrets) /\ Len(secrets) = Len(spec.git)
  BY <1>5, SpecLists, FunctionIsSequence
<1>11. IsSequence(pulls) /\ Len(pulls) = 2 * EnvironmentsWithPull(spec)
  BY <1>6, SpecLists, FunctionIsSequence
<1> QED
  BY <1>1, <1>7, <1>8, <1>9, <1>10, <1>11 DEF spaces, project, appSets, secrets, pulls

\* Render returns a list of a tenant's namespaces, its AppProject, its
\* ApplicationSets, its repository secrets (or a gap), and for every environment
\* the pull secret and the default ServiceAccount, if there are pull secrets.
LEMMA RenderedObjects ==
    ASSUME NEW t, NEW spec, HoldsLists(spec), NEW texts
    PROVE  /\ IsSequence(Objects(t, spec, texts))
           /\ Range(Objects(t, spec, texts)) =
                 {BuildNamespace(t, spec.environments[n]) : n \in DOMAIN spec.environments}
                 \cup {BuildAppProject(t, spec)}
                 \cup {BuildAppSet(t, spec, spec.environments[n]) : n \in DOMAIN spec.environments}
                 \cup {BuildRepoSecret(t, spec, texts, i) : i \in DOMAIN spec.git}
                 \cup {BuildPullSecret(t, spec, texts, n) : n \in 1 .. EnvironmentsWithPull(spec)}
                 \cup {BuildDefaultSA(t, spec.environments[n]) :
                          n \in 1 .. EnvironmentsWithPull(spec)}
<1> DEFINE spaces  == RenderNamespaces(t, spec)
           project == <<BuildAppProject(t, spec)>>
           appSets == AppSets(t, spec)
           secrets == RepoSecrets(t, spec, texts)
           pulls   == RenderPull(t, spec, texts)
<1>1. Range(spaces) = {BuildNamespace(t, spec.environments[n]) : n \in DOMAIN spec.environments}
  BY DEF Range, RenderNamespaces
<1>2. Range(project) = {BuildAppProject(t, spec)}
  BY DEF Range
<1>3. Range(appSets) = {BuildAppSet(t, spec, spec.environments[n]) : n \in DOMAIN spec.environments}
  BY DEF Range, AppSets
<1>4. Range(secrets) = {BuildRepoSecret(t, spec, texts, i) : i \in DOMAIN spec.git}
  BY DEF Range, RepoSecrets
<1>5. Range(pulls) = {BuildPullSecret(t, spec, texts, n) : n \in 1 .. EnvironmentsWithPull(spec)}
                     \cup {BuildDefaultSA(t, spec.environments[n]) :
                              n \in 1 .. EnvironmentsWithPull(spec)}
  <2> DEFINE E == EnvironmentsWithPull(spec)
             secret(n)  == BuildPullSecret(t, spec, texts, n)
             account(n) == BuildDefaultSA(t, spec.environments[n])
  <2>1. pulls = [j \in 1 .. 2 * E |-> IF j % 2 = 1 THEN secret((j + 1) \div 2)
                                                   ELSE account((j + 1) \div 2)]
    BY DEF RenderPull
  <2>2. E \in Nat
    BY SpecLists
  <2> HIDE DEF pulls, E, secret, account
  <2>3. ASSUME NEW j \in 1 .. 2 * E
        PROVE  pulls[j] \in {secret(n) : n \in 1 .. E} \cup {account(n) : n \in 1 .. E}
    <3>1. (j + 1) \div 2 \in 1 .. E
      BY <2>2
    <3> QED
      BY <2>1, <3>1
  <2>4. ASSUME NEW n \in 1 .. E
        PROVE  secret(n) \in Range(pulls) /\ account(n) \in Range(pulls)
    <3>1. /\ 2 * n - 1 \in 1 .. 2 * E /\ (2 * n - 1) % 2 = 1 /\ ((2 * n - 1) + 1) \div 2 = n
          /\ 2 * n \in 1 .. 2 * E /\ (2 * n) % 2 # 1 /\ (2 * n + 1) \div 2 = n
      BY <2>2
    <3>2. pulls[2 * n - 1] = secret(n) /\ pulls[2 * n] = account(n)
      BY <2>1, <3>1
    <3> QED
      BY <2>1, <3>1, <3>2 DEF Range
  <2>5. Range(pulls) = {secret(n) : n \in 1 .. E} \cup {account(n) : n \in 1 .. E}
    BY <2>1, <2>3, <2>4 DEF Range
  <2> QED
    BY <2>5 DEF E, secret, account
<1>6. /\ Objects(t, spec, texts) = (spaces \o ((project \o appSets) \o secrets)) \o pulls
      /\ IsSequence(spaces) /\ IsSequence(project) /\ IsSequence(appSets)
      /\ IsSequence(secrets) /\ IsSequence(pulls)
  BY RenderedParts
<1> HIDE DEF spaces, project, appSets, secrets, pulls
<1>7. IsSequence(project \o appSets) /\ Range(project \o appSets) = Range(project) \cup Range(appSets)
  BY <1>6, ConcatElements
<1> DEFINE argo == (project \o appSets) \o secrets
<1>8. IsSequence(argo) /\ Range(argo) = (Range(project) \cup Range(appSets)) \cup Range(secrets)
  BY <1>6, <1>7, ConcatElements
<1> HIDE DEF argo
<1>9. IsSequence(spaces \o argo) /\ Range(spaces \o argo) = Range(spaces) \cup Range(argo)
  BY <1>6, <1>8, ConcatElements
<1>10. /\ IsSequence((spaces \o argo) \o pulls)
       /\ Range((spaces \o argo) \o pulls) = (Range(spaces) \cup Range(argo)) \cup Range(pulls)
  BY <1>6, <1>9, ConcatElements
<1>11. Objects(t, spec, texts) = (spaces \o argo) \o pulls
  BY <1>6 DEF argo
<1>12. Range(Objects(t, spec, texts))
          = Range(spaces) \cup Range(project) \cup Range(appSets) \cup Range(secrets) \cup Range(pulls)
  BY <1>8, <1>10, <1>11
<1> QED
  BY <1>1, <1>2, <1>3, <1>4, <1>5, <1>10, <1>11, <1>12

\* finalize goes through a list of a tenant's ApplicationSets, its AppProject,
\* its repository secrets (or a gap) and its namespaces.
LEMMA TornDownKeys ==
    ASSUME NEW t, NEW spec, HoldsLists(spec)
    PROVE  /\ IsSequence(Teardown(t, spec))
           /\ Range(Teardown(t, spec)) =
                 {AppSetKey(t, spec.environments[n]) : n \in DOMAIN spec.environments}
                 \cup {AppProjectKey(t)}
                 \cup {IF spec.git[i].credentials = NoCredentials
                       THEN NoKey ELSE RepoSecretKey(t, i) : i \in DOMAIN spec.git}
                 \cup {NamespaceKey(t, spec.environments[n]) : n \in DOMAIN spec.environments}
<1> DEFINE sets    == [n \in DOMAIN spec.environments |-> AppSetKey(t, spec.environments[n])]
           project == <<AppProjectKey(t)>>
           secrets == TeardownSecrets(t, spec)
           spaces  == TeardownNamespaces(t, spec)
<1>1. Teardown(t, spec) = ((sets \o project) \o secrets) \o spaces
  BY DEF Teardown, TeardownArgo
<1>2. /\ Range(sets) = {AppSetKey(t, spec.environments[n]) : n \in DOMAIN spec.environments}
      /\ Range(project) = {AppProjectKey(t)}
      /\ Range(secrets) = {IF spec.git[i].credentials = NoCredentials
                           THEN NoKey ELSE RepoSecretKey(t, i) : i \in DOMAIN spec.git}
      /\ Range(spaces) = {NamespaceKey(t, spec.environments[n]) : n \in DOMAIN spec.environments}
  <2>1. Range(sets) = {AppSetKey(t, spec.environments[n]) : n \in DOMAIN spec.environments}
    BY DEF Range
  <2>2. Range(project) = {AppProjectKey(t)}
    BY DEF Range
  <2>3. Range(secrets) = {IF spec.git[i].credentials = NoCredentials
                          THEN NoKey ELSE RepoSecretKey(t, i) : i \in DOMAIN spec.git}
    BY DEF Range, TeardownSecrets
  <2>4. Range(spaces) = {NamespaceKey(t, spec.environments[n]) : n \in DOMAIN spec.environments}
    BY DEF Range, TeardownNamespaces
  <2> QED
    BY <2>1, <2>2, <2>3, <2>4
<1>3. /\ sets = [n \in 1 .. Len(spec.environments) |-> sets[n]]
      /\ project = [n \in 1 .. 1 |-> project[n]]
      /\ secrets = [n \in 1 .. Len(spec.git) |-> secrets[n]]
      /\ spaces = [n \in 1 .. Len(spec.environments) |-> spaces[n]]
  BY SpecLists DEF TeardownSecrets, TeardownNamespaces
<1> HIDE DEF sets, project, secrets, spaces
<1>4. IsSequence(sets) /\ IsSequence(project) /\ IsSequence(secrets) /\ IsSequence(spaces)
  BY <1>3, SpecLists, FunctionIsSequence
<1>5. IsSequence(sets \o project) /\ Range(sets \o project) = Range(sets) \cup Range(project)
  BY <1>4, ConcatElements
<1> DEFINE head == (sets \o project) \o secrets
<1>6. IsSequence(head) /\ Range(head) = Range(sets) \cup Range(project) \cup Range(secrets)
  BY <1>4, <1>5, ConcatElements
<1> HIDE DEF head
<1>7. IsSequence(head \o spaces) /\ Range(head \o spaces) = Range(head) \cup Range(spaces)
  BY <1>4, <1>6, ConcatElements
<1>8. Teardown(t, spec) = head \o spaces
  BY <1>1 DEF head
<1> QED
  BY <1>2, <1>6, <1>7, <1>8

-------------------------------------------------------------------------------
(***************************************************************************)
(* The values Render has read show in the Secrets only.                    *)
(***************************************************************************)
ArgoKinds == {"AppProject", "ApplicationSet"}

\* Two lists of objects, the same but for what is in the Secrets.
Alike(s, u) ==
    /\ IsSequence(s) /\ IsSequence(u)
    /\ Len(s) = Len(u)
    /\ \A i \in 1 .. Len(s) : /\ s[i].key = u[i].key
                              /\ s[i].key.kind \in ArgoKinds => s[i].data = u[i].data

LEMMA AlikeInARow ==
    ASSUME NEW s1, NEW s2, NEW u1, NEW u2, Alike(s1, s2), Alike(u1, u2)
    PROVE  Alike(s1 \o u1, s2 \o u2)
<1> DEFINE w1 == s1 \o u1
           w2 == s2 \o u2
           m  == Len(s1)
           n  == Len(u1)
<1>1. /\ m \in Nat /\ n \in Nat
      /\ IsSequence(w1) /\ Len(w1) = m + n
      /\ \A i \in 1 .. m : w1[i] = s1[i]
      /\ \A i \in 1 .. n : w1[m + i] = u1[i]
  <2>1. IsSequence(s1) /\ IsSequence(u1)
    BY DEF Alike
  <2> QED
    BY <2>1, ConcatElements
<1>2. /\ IsSequence(w2) /\ Len(w2) = m + n
      /\ \A i \in 1 .. m : w2[i] = s2[i]
      /\ \A i \in 1 .. n : w2[m + i] = u2[i]
  <2>1. IsSequence(s2) /\ IsSequence(u2) /\ Len(s2) = m /\ Len(u2) = n
    BY DEF Alike
  <2> HIDE DEF m, n
  <2> QED
    BY <2>1, ConcatElements
<1> HIDE DEF w1, w2, m, n
<1>3. ASSUME NEW i \in 1 .. m + n
      PROVE  /\ w1[i].key = w2[i].key
             /\ w1[i].key.kind \in ArgoKinds => w1[i].data = w2[i].data
  <2>1. CASE i <= m
    <3>1. i \in 1 .. m
      BY <1>1, <2>1
    <3> QED
      BY <1>1, <1>2, <3>1 DEF Alike, m
  <2>2. CASE ~(i <= m)
    <3>1. i - m \in 1 .. n /\ m + (i - m) = i
      BY <1>1, <2>2
    <3>2. w1[i] = u1[i - m] /\ w2[i] = u2[i - m]
      BY <1>1, <1>2, <3>1
    <3> QED
      BY <3>1, <3>2 DEF Alike, n
  <2> QED
    BY <2>1, <2>2
<1> QED
  BY <1>1, <1>2, <1>3 DEF Alike, w1, w2

LEMMA RenderedAlike ==
    ASSUME NEW t, NEW spec, HoldsLists(spec), NEW texts, NEW others
    PROVE  Alike(Objects(t, spec, texts), Objects(t, spec, others))
<1> DEFINE spaces     == RenderNamespaces(t, spec)
           project    == <<BuildAppProject(t, spec)>>
           appSets    == AppSets(t, spec)
           secrets(v) == RepoSecrets(t, spec, v)
           pulls(v)   == RenderPull(t, spec, v)
<1>1. Alike(spaces, spaces) /\ Alike(project, project) /\ Alike(appSets, appSets)
  BY RenderedParts DEF Alike
<1>2. Alike(secrets(texts), secrets(others))
  <2>1. \A v : IsSequence(secrets(v)) /\ Len(secrets(v)) = Len(spec.git)
    BY RenderedParts
  <2>2. ASSUME NEW i \in 1 .. Len(spec.git), NEW v
        PROVE  secrets(v)[i].key = IF spec.git[i].credentials = NoCredentials
                                   THEN NoKey ELSE RepoSecretKey(t, i)
    <3>1. i \in DOMAIN spec.git
      BY SpecLists
    <3> QED
      BY <3>1, KeysOfObjects DEF RepoSecrets
  <2> HIDE DEF secrets
  <2> QED
    BY <2>1, <2>2, KindsOfKeys DEF Alike, ArgoKinds
<1>3. Alike(pulls(texts), pulls(others))
  <2>1. \A v : IsSequence(pulls(v)) /\ Len(pulls(v)) = 2 * EnvironmentsWithPull(spec)
    BY RenderedParts
  <2>2. ASSUME NEW j \in 1 .. 2 * EnvironmentsWithPull(spec), NEW v
        PROVE  pulls(v)[j].key = IF j % 2 = 1
                                 THEN PullSecretKey(t, spec.environments[(j + 1) \div 2])
                                 ELSE DefaultSAKey(t, spec.environments[(j + 1) \div 2])
    BY KeysOfObjects DEF RenderPull
  <2> HIDE DEF pulls
  <2> QED
    BY <2>1, <2>2, KindsOfKeys DEF Alike, ArgoKinds
<1>4. /\ Objects(t, spec, texts)
            = (spaces \o ((project \o appSets) \o secrets(texts))) \o pulls(texts)
      /\ Objects(t, spec, others)
            = (spaces \o ((project \o appSets) \o secrets(others))) \o pulls(others)
  BY RenderedParts
<1> HIDE DEF spaces, project, appSets, secrets, pulls
<1>5. Alike(project \o appSets, project \o appSets)
  BY <1>1, AlikeInARow
<1>6. Alike((project \o appSets) \o secrets(texts), (project \o appSets) \o secrets(others))
  BY <1>2, <1>5, AlikeInARow
<1>7. Alike(spaces \o ((project \o appSets) \o secrets(texts)),
            spaces \o ((project \o appSets) \o secrets(others)))
  BY <1>1, <1>6, AlikeInARow
<1>8. Alike((spaces \o ((project \o appSets) \o secrets(texts))) \o pulls(texts),
            (spaces \o ((project \o appSets) \o secrets(others))) \o pulls(others))
  BY <1>3, <1>7, AlikeInARow
<1> QED
  BY <1>4, <1>8

-------------------------------------------------------------------------------
(***************************************************************************)
(* The two lists agree, and so do the values and where they are read.      *)
(***************************************************************************)

\* Every rendered object is torn down, itself or with its namespace, and
\* nothing else is.
THEOREM TeardownAgrees ==
    ASSUME NEW t, NEW spec, HoldsLists(spec), NEW texts
    PROVE  /\ \A object \in Range(Objects(t, spec, texts)) :
                 \/ object.key \in Range(Teardown(t, spec))
                 \/ Key("Namespace", ClusterScope, object.key.ns) \in Range(Teardown(t, spec))
           /\ \A k \in Range(Teardown(t, spec)) :
                 \E object \in Range(Objects(t, spec, texts)) : object.key = k
<1> DEFINE envs   == DOMAIN spec.environments
           env(n) == spec.environments[n]
           gap(i) == IF spec.git[i].credentials = NoCredentials
                     THEN NoKey ELSE RepoSecretKey(t, i)
           doomed == Range(Teardown(t, spec))
           made   == Range(Objects(t, spec, texts))
<1>1. doomed = {AppSetKey(t, env(n)) : n \in envs} \cup {AppProjectKey(t)}
               \cup {gap(i) : i \in DOMAIN spec.git} \cup {NamespaceKey(t, env(n)) : n \in envs}
  BY TornDownKeys
<1>2. made = {BuildNamespace(t, env(n)) : n \in envs} \cup {BuildAppProject(t, spec)}
             \cup {BuildAppSet(t, spec, env(n)) : n \in envs}
             \cup {BuildRepoSecret(t, spec, texts, i) : i \in DOMAIN spec.git}
             \cup {BuildPullSecret(t, spec, texts, n) : n \in 1 .. EnvironmentsWithPull(spec)}
             \cup {BuildDefaultSA(t, env(n)) : n \in 1 .. EnvironmentsWithPull(spec)}
  BY RenderedObjects
<1>3. 1 .. EnvironmentsWithPull(spec) \subseteq envs
  BY SpecLists
<1>4. \A n : /\ BuildNamespace(t, env(n)).key = NamespaceKey(t, env(n))
             /\ BuildAppSet(t, spec, env(n)).key = AppSetKey(t, env(n))
             /\ BuildPullSecret(t, spec, texts, n).key = PullSecretKey(t, env(n))
             /\ BuildDefaultSA(t, env(n)).key = DefaultSAKey(t, env(n))
             /\ BuildRepoSecret(t, spec, texts, n).key = gap(n)
  BY KeysOfObjects
<1>5. BuildAppProject(t, spec).key = AppProjectKey(t)
  BY KeysOfObjects
<1>6. \A n : /\ Key("Namespace", ClusterScope, PullSecretKey(t, env(n)).ns) = NamespaceKey(t, env(n))
             /\ Key("Namespace", ClusterScope, DefaultSAKey(t, env(n)).ns) = NamespaceKey(t, env(n))
  BY DEF PullSecretKey, DefaultSAKey, NamespaceKey, Key
<1> HIDE DEF envs, env, gap, doomed, made
<1>7. ASSUME NEW object \in made
      PROVE  \/ object.key \in doomed
             \/ Key("Namespace", ClusterScope, object.key.ns) \in doomed
  <2>1. CASE \E n \in 1 .. EnvironmentsWithPull(spec) :
                object \in {BuildPullSecret(t, spec, texts, n), BuildDefaultSA(t, env(n))}
    <3>1. PICK n \in 1 .. EnvironmentsWithPull(spec) :
             object.key \in {PullSecretKey(t, env(n)), DefaultSAKey(t, env(n))}
      BY <1>4, <2>1
    <3>2. Key("Namespace", ClusterScope, object.key.ns) = NamespaceKey(t, env(n)) /\ n \in envs
      BY <1>3, <1>6, <3>1
    <3> QED
      BY <1>1, <3>2
  <2>2. CASE ~\E n \in 1 .. EnvironmentsWithPull(spec) :
                object \in {BuildPullSecret(t, spec, texts, n), BuildDefaultSA(t, env(n))}
    <3>1. \/ \E n \in envs : object \in {BuildNamespace(t, env(n)), BuildAppSet(t, spec, env(n))}
          \/ object = BuildAppProject(t, spec)
          \/ \E i \in DOMAIN spec.git : object = BuildRepoSecret(t, spec, texts, i)
      BY <1>2, <2>2
    <3> QED
      BY <1>1, <1>4, <1>5, <3>1
  <2> QED
    BY <2>1, <2>2
<1>8. ASSUME NEW k \in doomed
      PROVE  \E object \in made : object.key = k
  <2>1. CASE \E n \in envs : k \in {AppSetKey(t, env(n)), NamespaceKey(t, env(n))}
    BY <1>2, <1>4, <2>1
  <2>2. CASE k = AppProjectKey(t)
    BY <1>2, <1>5, <2>2
  <2>3. CASE \E i \in DOMAIN spec.git : k = gap(i)
    BY <1>2, <1>4, <2>3
  <2> QED
    BY <1>1, <2>1, <2>2, <2>3
<1> QED
  BY <1>7, <1>8 DEF doomed, made

\* The namespaces come first: an object of another namespace than Argo CD's
\* comes after the Namespace it lives in.
THEOREM NamespacesFirst ==
    ASSUME NEW t, NEW spec, HoldsLists(spec), NEW texts,
           NEW i \in DOMAIN Objects(t, spec, texts),
           Objects(t, spec, texts)[i].key.ns \notin {ClusterScope, ArgoCDNamespace}
    PROVE  \E j \in 1 .. i - 1 :
              Objects(t, spec, texts)[j].key
                 = Key("Namespace", ClusterScope, Objects(t, spec, texts)[i].key.ns)
<1> DEFINE list   == Objects(t, spec, texts)
           spaces == RenderNamespaces(t, spec)
           argo   == (<<BuildAppProject(t, spec)>> \o AppSets(t, spec)) \o RepoSecrets(t, spec, texts)
           pulls  == RenderPull(t, spec, texts)
           E      == EnvironmentsWithPull(spec)
<1>1. /\ list = (spaces \o argo) \o pulls
      /\ IsSequence(spaces) /\ Len(spaces) = Len(spec.environments)
      /\ IsSequence(pulls) /\ Len(pulls) = 2 * E
      /\ IsSequence(<<BuildAppProject(t, spec)>>) /\ IsSequence(AppSets(t, spec))
      /\ IsSequence(RepoSecrets(t, spec, texts))
  BY RenderedParts
<1>2. IsSequence(<<BuildAppProject(t, spec)>> \o AppSets(t, spec))
  BY <1>1, ConcatElements
<1>3. IsSequence(argo)
  BY <1>1, <1>2, ConcatElements
<1>4. Len(spec.environments) \in Nat /\ E \in Nat /\ E <= Len(spec.environments)
      /\ DOMAIN spec.environments = 1 .. Len(spec.environments)
  BY SpecLists
<1>5. \A n \in 1 .. Len(spec.environments) : spaces[n].key = NamespaceKey(t, spec.environments[n])
  BY <1>4, KeysOfObjects DEF RenderNamespaces
<1>6. \A n \in 1 .. 2 * E :
         pulls[n].key.ns = NamespaceName(t.name, spec.environments[(n + 1) \div 2])
  BY KeysOfObjects, KindsOfKeys DEF RenderPull
<1>7. Range(argo) \subseteq {BuildAppProject(t, spec)} \cup Range(AppSets(t, spec))
                            \cup Range(RepoSecrets(t, spec, texts))
  <2>1. Range(<<BuildAppProject(t, spec)>>) = {BuildAppProject(t, spec)}
    BY DEF Range
  <2> DEFINE head == <<BuildAppProject(t, spec)>> \o AppSets(t, spec)
  <2>2. Range(head) = {BuildAppProject(t, spec)} \cup Range(AppSets(t, spec)) /\ IsSequence(head)
    BY <1>1, <1>2, <2>1, ConcatElements
  <2> HIDE DEF head
  <2>3. Range(head \o RepoSecrets(t, spec, texts))
           = Range(head) \cup Range(RepoSecrets(t, spec, texts))
    <3>1. IsSequence(RepoSecrets(t, spec, texts))
      BY <1>1
    <3> QED
      BY <2>2, <3>1, ConcatElements
  <2> QED
    BY <2>2, <2>3 DEF head
<1>8. \A object \in Range(argo) : object.key.ns \in {ClusterScope, ArgoCDNamespace}
  <2>1. BuildAppProject(t, spec).key.ns = ArgoCDNamespace
    BY KeysOfObjects, KindsOfKeys
  <2>2. \A object \in Range(AppSets(t, spec)) : object.key.ns = ArgoCDNamespace
    <3>1. \A env : BuildAppSet(t, spec, env).key.ns = ArgoCDNamespace
      BY KeysOfObjects, KindsOfKeys
    <3>2. \A object \in Range(AppSets(t, spec)) : \E env : object = BuildAppSet(t, spec, env)
      BY DEF AppSets, Range
    <3> QED
      BY <3>1, <3>2
  <2>3. NoKey.ns = ClusterScope
    BY DEF NoKey, Key
  <2>4. \A object \in Range(RepoSecrets(t, spec, texts)) :
           object.key.ns \in {ClusterScope, ArgoCDNamespace}
    <3>1. \A n : BuildRepoSecret(t, spec, texts, n).key.ns \in {ClusterScope, ArgoCDNamespace}
      BY <2>3, KeysOfObjects, KindsOfKeys
    <3>2. \A object \in Range(RepoSecrets(t, spec, texts)) :
             \E n : object = BuildRepoSecret(t, spec, texts, n)
      BY DEF RepoSecrets, Range
    <3> QED
      BY <3>1, <3>2
  <2> QED
    BY <1>7, <2>1, <2>2, <2>4
<1> HIDE DEF list, spaces, argo, pulls, E
<1> DEFINE s == Len(spaces)
           front == spaces \o argo
           f == Len(front)
<1> HIDE DEF s, f
<1>9. /\ IsSequence(front)
      /\ s \in Nat /\ Len(argo) \in Nat /\ f = s + Len(argo)
      /\ \A n \in 1 .. s : front[n] = spaces[n]
      /\ \A n \in 1 .. Len(argo) : front[s + n] = argo[n]
  <2>1. IsSequence(spaces) /\ IsSequence(argo)
    BY <1>1, <1>3
  <2> QED
    BY <2>1, ConcatElements DEF s, f
<1> HIDE DEF front
<1>10. /\ f \in Nat /\ Len(pulls) \in Nat /\ DOMAIN list = 1 .. f + Len(pulls)
       /\ \A n \in 1 .. f : list[n] = front[n]
       /\ \A n \in 1 .. Len(pulls) : list[f + n] = pulls[n]
  <2>1. IsSequence(pulls) /\ list = front \o pulls
    BY <1>1 DEF front
  <2>2. /\ Len(front) \in Nat /\ Len(pulls) \in Nat
        /\ DOMAIN (front \o pulls) = 1 .. Len(front) + Len(pulls)
        /\ \A l \in 1 .. Len(front) : (front \o pulls)[l] = front[l]
        /\ \A l \in 1 .. Len(pulls) : (front \o pulls)[Len(front) + l] = pulls[l]
    BY <1>9, <2>1, ConcatElements
  <2> QED
    BY <2>1, <2>2 DEF f
<1>11. i \in DOMAIN list /\ list[i].key.ns \notin {ClusterScope, ArgoCDNamespace}
  BY DEF list
<1>12. \A n \in 1 .. s : spaces[n].key.ns = ClusterScope
  BY <1>1, <1>5, KindsOfKeys DEF s
<1>13. ~(i <= s)
  BY <1>9, <1>10, <1>11, <1>12
<1>14. ~(i <= f)
  <2> SUFFICES ASSUME i <= f PROVE FALSE
    OBVIOUS
  <2>1. i - s \in 1 .. Len(argo) /\ s + (i - s) = i /\ i \in 1 .. f
    BY <1>9, <1>10, <1>11, <1>13
  <2>2. list[i] = argo[i - s]
    BY <1>9, <1>10, <2>1
  <2>3. argo[i - s] \in Range(argo)
    BY <1>3, <2>1, SequenceDomain DEF Range
  <2> QED
    BY <1>8, <1>11, <2>2, <2>3
<1>15. i - f \in 1 .. 2 * E /\ f + (i - f) = i
  <2>1. Len(pulls) = 2 * E /\ E \in Nat /\ f \in Nat
    BY <1>1, <1>4, <1>10
  <2>2. i \in 1 .. f + 2 * E
    BY <1>10, <1>11, <2>1
  <2> QED
    BY <1>14, <2>1, <2>2
<1> DEFINE n == ((i - f) + 1) \div 2
<1>16. n \in 1 .. s
  BY <1>1, <1>4, <1>15 DEF s
<1>17. list[i].key.ns = NamespaceName(t.name, spec.environments[n])
  BY <1>1, <1>6, <1>10, <1>15
<1>18. n \in 1 .. i - 1
  BY <1>9, <1>10, <1>11, <1>14, <1>16
<1>19. list[n].key = NamespaceKey(t, spec.environments[n])
  <2>1. n \in 1 .. f
    BY <1>9, <1>10, <1>16
  <2> QED
    BY <1>1, <1>5, <1>9, <1>10, <1>16, <2>1 DEF s
<1>20. list[n].key = Key("Namespace", ClusterScope, list[i].key.ns)
  BY <1>17, <1>19 DEF NamespaceKey
<1> QED
  BY <1>18, <1>20 DEF list

\* A grid of height rows, read row by row, two values to a cell: where a cell
\* is, and which cell a value belongs to.
LEMMA RowAndColumn ==
    ASSUME NEW width \in Nat, NEW height \in Nat,
           NEW n \in 1 .. height, NEW m \in 1 .. width
    PROVE  /\ (n - 1) * width + (m - 1) \in Nat
           /\ (n - 1) * width + m <= width * height
           /\ width * height \in Nat
           /\ 2 * width * height = 2 * (width * height)
           /\ ((n - 1) * width + (m - 1)) % width = m - 1
<1> DEFINE row == n - 1
           column == m - 1
<1>1. row \in Nat /\ column \in Nat /\ column < width /\ width > 0 /\ row + 1 <= height
  OBVIOUS
<1> HIDE DEF row, column
<1>2. row * width \in Nat
  BY <1>1
<1>3. width * height \in Nat
  OBVIOUS
<1>4. 2 * width * height = 2 * (width * height)
  OBVIOUS
<1>5. (row + 1) * width <= width * height
  BY <1>1
<1>6. (row + 1) * width = row * width + width
  BY <1>1
<1> DEFINE x == row * width + column
           d == x \div width
           r == x % width
<1>7. x \in Nat
  BY <1>1, <1>2
<1> HIDE DEF x
<1>8. d \in Int /\ r \in 0 .. width - 1 /\ x = width * d + r
  BY <1>1, <1>7
<1> HIDE DEF d, r
<1>9. ~(d >= row + 1)
  <2> SUFFICES ASSUME d >= row + 1 PROVE FALSE
    OBVIOUS
  <2>1. width * d >= width * (row + 1)
    BY <1>1, <1>8
  <2>2. width * (row + 1) = row * width + width
    BY <1>1
  <2> QED
    BY <1>1, <1>2, <1>8, <2>1, <2>2 DEF x
<1>10. ~(d <= row - 1)
  <2> SUFFICES ASSUME d <= row - 1 PROVE FALSE
    OBVIOUS
  <2>1. width * d <= width * (row - 1)
    BY <1>1, <1>8
  <2>2. width * (row - 1) = row * width - width
    BY <1>1
  <2> QED
    BY <1>1, <1>2, <1>8, <2>1, <2>2 DEF x
<1>11. d = row
  BY <1>1, <1>8, <1>9, <1>10
<1>12. width * row = row * width
  BY <1>1
<1>13. r = column
  BY <1>1, <1>2, <1>8, <1>11, <1>12 DEF x
<1>14. row * width + m = (row * width + column) + 1 /\ column + 1 <= width
  BY <1>1, <1>2 DEF column
<1> QED
  BY <1>1, <1>2, <1>3, <1>4, <1>5, <1>6, <1>7, <1>13, <1>14 DEF x, r, row, column

\* The values of the m-th pull secret, read for the n-th environment.
PullAt(spec, n, m) ==
    2 * Len(spec.git) + 2 * ((n - 1) * Len(spec.imagePullSecrets) + (m - 1))

LEMMA PullValuesRead ==
    ASSUME NEW spec, HoldsLists(spec),
           NEW n \in 1 .. Len(spec.environments),
           NEW m \in 1 .. Len(spec.imagePullSecrets)
    PROVE  /\ PullAt(spec, n, m) + 1 \in DOMAIN ValuesRead(spec)
           /\ PullAt(spec, n, m) + 2 \in DOMAIN ValuesRead(spec)
           /\ ValuesRead(spec)[PullAt(spec, n, m) + 1] = spec.imagePullSecrets[m].username
           /\ ValuesRead(spec)[PullAt(spec, n, m) + 2] = spec.imagePullSecrets[m].password
<1> DEFINE pulls == spec.imagePullSecrets
           P == Len(spec.imagePullSecrets)
           E == Len(spec.environments)
           G == Len(spec.git)
           place(j) == (((j - 1) \div 2) % P) + 1
           texts == [j \in 1 .. 2 * Len(spec.git) |->
                        CredentialValues(spec.git[(j + 1) \div 2])[2 - (j % 2)]]
           size == 2 * Len(spec.imagePullSecrets) * Len(spec.environments)
           rest == [j \in 1 .. size |->
                       IF j % 2 = 1 THEN pulls[place(j)].username ELSE pulls[place(j)].password]
           q == (n - 1) * P + (m - 1)
<1>1. ValuesRead(spec) = texts \o rest
  BY DEF ValuesRead
<1>2. size = 2 * P * E /\ PullAt(spec, n, m) = 2 * G + 2 * q
  BY DEF PullAt
<1>3. P \in Nat /\ E \in Nat /\ G \in Nat
  BY SpecLists
<1>4. n \in 1 .. E /\ m \in 1 .. P
  OBVIOUS
<1>5. \A j \in 1 .. size : rest[j] = IF j % 2 = 1 THEN pulls[place(j)].username
                                                  ELSE pulls[place(j)].password
  OBVIOUS
<1>6. texts = [j \in 1 .. 2 * G |-> texts[j]] /\ rest = [j \in 1 .. size |-> rest[j]]
  OBVIOUS
<1>7. \A j : place(j) = (((j - 1) \div 2) % P) + 1
  OBVIOUS
<1>8. q = (n - 1) * P + (m - 1)
  OBVIOUS
<1> HIDE DEF P, E, G, texts, rest, size, place, q, pulls
<1>9. /\ q \in Nat /\ q + 1 <= P * E /\ P * E \in Nat
      /\ size = 2 * (P * E) /\ q % P = m - 1
  <2>1. /\ (n - 1) * P + (m - 1) \in Nat
        /\ (n - 1) * P + m <= P * E
        /\ P * E \in Nat
        /\ 2 * P * E = 2 * (P * E)
        /\ ((n - 1) * P + (m - 1)) % P = m - 1
    BY <1>3, <1>4, RowAndColumn
  <2>2. (n - 1) * P \in Int /\ m \in Int
    BY <1>3, <1>4
  <2>3. q + 1 = (n - 1) * P + m
    BY <1>8, <2>2
  <2> QED
    BY <1>2, <1>8, <2>1, <2>3
<1> DEFINE cells == P * E
<1> HIDE DEF cells
<1>10. q \in Nat /\ cells \in Nat /\ q + 1 <= cells /\ size = 2 * cells
  BY <1>9 DEF cells
<1>11. /\ 2 * q + 1 \in 1 .. size /\ 2 * q + 2 \in 1 .. size
       /\ (2 * q + 1) % 2 = 1 /\ (2 * q + 2) % 2 = 0
       /\ ((2 * q + 1) - 1) \div 2 = q /\ ((2 * q + 2) - 1) \div 2 = q
       /\ size \in Nat /\ 2 * G \in Nat
       /\ 2 * G + (2 * q + 1) = (2 * G + 2 * q) + 1
       /\ 2 * G + (2 * q + 2) = (2 * G + 2 * q) + 2
  BY <1>3, <1>10
<1>12. place(2 * q + 1) = m /\ place(2 * q + 2) = m
  <2>1. place(2 * q + 1) = (q % P) + 1 /\ place(2 * q + 2) = (q % P) + 1
    BY <1>7, <1>11
  <2> QED
    BY <1>3, <1>4, <1>9, <2>1
<1> DEFINE one == 2 * q + 1
           two == 2 * q + 2
           start == 2 * G
<1>13. IsSequence(texts) /\ Len(texts) = start /\ IsSequence(rest) /\ Len(rest) = size
  BY <1>6, <1>11, FunctionIsSequence
<1>14. /\ one \in 1 .. size /\ one % 2 = 1 /\ place(one) = m
       /\ two \in 1 .. size /\ two % 2 = 0 /\ place(two) = m
       /\ start \in Nat /\ size \in Nat
       /\ start + one = (2 * G + 2 * q) + 1
       /\ start + two = (2 * G + 2 * q) + 2
  BY <1>11, <1>12
<1> HIDE DEF one, two, start
<1>15. /\ DOMAIN (texts \o rest) = 1 .. start + size
       /\ \A j \in 1 .. size : (texts \o rest)[start + j] = rest[j]
  <2>1. IsSequence(texts) /\ IsSequence(rest)
    BY <1>13
  <2>2. /\ DOMAIN (texts \o rest) = 1 .. Len(texts) + Len(rest)
        /\ \A j \in 1 .. Len(rest) : (texts \o rest)[Len(texts) + j] = rest[j]
    BY <2>1, ConcatElements
  <2> QED
    BY <1>13, <2>2
<1>16. rest[one] = pulls[m].username /\ rest[two] = pulls[m].password
  BY <1>5, <1>14
<1>17. /\ (texts \o rest)[start + one] = pulls[m].username
       /\ (texts \o rest)[start + two] = pulls[m].password
       /\ start + one \in DOMAIN (texts \o rest)
       /\ start + two \in DOMAIN (texts \o rest)
  <2>1. /\ (texts \o rest)[start + one] = rest[one]
        /\ (texts \o rest)[start + two] = rest[two]
    BY <1>14, <1>15
  <2>2. start + one \in 1 .. start + size /\ start + two \in 1 .. start + size
    BY <1>14
  <2> QED
    BY <1>15, <1>16, <2>1, <2>2
<1> QED
  BY <1>1, <1>2, <1>14, <1>17 DEF pulls

IsLastEntry(spec, m) ==
    \A l \in DOMAIN spec.imagePullSecrets :
       l > m => spec.imagePullSecrets[l].registry # spec.imagePullSecrets[m].registry

\* The last entry for a registry is the one in every environment's pull secret.
LEMMA LastEntryWins ==
    ASSUME NEW t, NEW spec, HoldsLists(spec), NEW texts, NEW n,
           NEW m \in DOMAIN spec.imagePullSecrets, IsLastEntry(spec, m)
    PROVE  BuildPullSecret(t, spec, texts, n).data.auths[spec.imagePullSecrets[m].registry]
              = <<texts[PullAt(spec, n, m) + 1], texts[PullAt(spec, n, m) + 2]>>
<1> DEFINE pulls   == spec.imagePullSecrets
           of(r)   == {l \in 1 .. Len(pulls) : pulls[l].registry = r}
           last(r) == SelectLastInSeq(pulls, LAMBDA pull : pull.registry = r)
           name    == pulls[m].registry
<1>1. BuildPullSecret(t, spec, texts, n).data.auths
         = [r \in {pulls[l].registry : l \in DOMAIN pulls} |->
               <<texts[PullAt(spec, n, last(r)) + 1], texts[PullAt(spec, n, last(r)) + 2]>>]
  BY DEF BuildPullSecret, PullAt
<1>2. name \in {pulls[l].registry : l \in DOMAIN pulls}
  OBVIOUS
<1>3. last(name) = m
  <2>1. last(name) = IF of(name) # {} THEN Max(of(name)) ELSE 0
    BY DEF SelectLastInSeq
  <2>2. DOMAIN pulls = 1 .. Len(pulls) /\ Len(pulls) \in Nat
    BY SpecLists
  <2>3. m \in of(name) /\ \A l \in of(name) : m >= l
    BY <2>2 DEF IsLastEntry
  <2>4. of(name) \subseteq Int
    BY <2>2
  <2> HIDE DEF of, last, name
  <2>5. Max(of(name)) = CHOOSE x \in of(name) : \A y \in of(name) : x >= y
    BY DEF Max
  <2>6. Max(of(name)) \in of(name) /\ \A y \in of(name) : Max(of(name)) >= y
    BY <2>3, <2>5
  <2> QED
    BY <2>1, <2>3, <2>4, <2>6
<1> QED
  BY <1>1, <1>2, <1>3
===============================================================================
