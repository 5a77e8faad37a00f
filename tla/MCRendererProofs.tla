--------------------------- MODULE MCRendererProofs ---------------------------
(***************************************************************************)
(* The properties the run "renderer" checks on specs of up to six entries, *)
(* for specs of any length.                                                *)
(***************************************************************************)
EXTENDS MCRenderer, RendererProofs

\* The specs one repository and one environment grow into.
Specs == [environments     : Seq(Environments),
          git              : Seq({Public, Private}),
          imagePullSecrets : Seq(Pulls),
          extensions       : Seq({"certs", "buckets"}),
          extraWhitelist   : Seq({Quota, Bucket}),
          server           : {""},
          preserve         : BOOLEAN]

SpecsGrow == spec \in Specs

\* A spec holds lists of environments, repositories, pull secrets, extensions
\* and references, however many entries are added to it.
THEOREM TypeCorrect == Spec => []SpecsGrow
<1>1. Init => SpecsGrow
  <2> SUFFICES ASSUME Init PROVE spec \in Specs
    BY DEF SpecsGrow
  <2>1. PICK env \in Environments, repo \in {Public, Private} : spec = Smallest(env, repo)
    BY DEF Init
  <2>2. /\ <<env>> \in Seq(Environments)
        /\ <<repo>> \in Seq({Public, Private})
        /\ <<>> \in Seq(Pulls)
        /\ <<>> \in Seq({"certs", "buckets"})
        /\ <<>> \in Seq({Quota, Bucket})
    OBVIOUS
  <2>3. Smallest(env, repo) \in Specs
    BY <2>2, Zenon DEF Smallest, Specs
  <2> QED
    BY <2>1, <2>3
<1>2. SpecsGrow /\ [Next]_spec => SpecsGrow'
  <2> SUFFICES ASSUME spec \in Specs, [Next]_spec PROVE spec' \in Specs
    BY DEF SpecsGrow
  <2>1. ASSUME NEW env \in Environments, Add("environments", env)
        PROVE  spec' \in Specs
    <3>1. spec.environments \in Seq(Environments)
      BY DEF Specs
    <3>2. Append(spec.environments, env) \in Seq(Environments)
      BY <2>1, <3>1, AppendProperties
    <3>3. spec' = [spec EXCEPT !.environments = Append(spec.environments, env)]
      BY <2>1 DEF Add
    <3> QED
      BY <3>2, <3>3 DEF Specs
  <2>2. ASSUME NEW repo \in {Public, Private}, Add("git", repo)
        PROVE  spec' \in Specs
    <3>1. spec.git \in Seq({Public, Private})
      BY DEF Specs
    <3>2. Append(spec.git, repo) \in Seq({Public, Private})
      BY <2>2, <3>1, AppendProperties
    <3>3. spec' = [spec EXCEPT !.git = Append(spec.git, repo)]
      BY <2>2 DEF Add
    <3> QED
      BY <3>2, <3>3 DEF Specs
  <2>3. ASSUME NEW pull \in Pulls, Add("imagePullSecrets", pull)
        PROVE  spec' \in Specs
    <3>1. spec.imagePullSecrets \in Seq(Pulls)
      BY DEF Specs
    <3>2. Append(spec.imagePullSecrets, pull) \in Seq(Pulls)
      BY <2>3, <3>1, AppendProperties
    <3>3. spec' = [spec EXCEPT !.imagePullSecrets = Append(spec.imagePullSecrets, pull)]
      BY <2>3 DEF Add
    <3> QED
      BY <3>2, <3>3 DEF Specs
  <2>4. ASSUME NEW name \in {"certs", "buckets"}, Add("extensions", name)
        PROVE  spec' \in Specs
    <3>1. spec.extensions \in Seq({"certs", "buckets"})
      BY DEF Specs
    <3>2. Append(spec.extensions, name) \in Seq({"certs", "buckets"})
      BY <2>4, <3>1, AppendProperties
    <3>3. spec' = [spec EXCEPT !.extensions = Append(spec.extensions, name)]
      BY <2>4 DEF Add
    <3> QED
      BY <3>2, <3>3 DEF Specs
  <2>5. ASSUME NEW ref \in {Quota, Bucket}, Add("extraWhitelist", ref)
        PROVE  spec' \in Specs
    <3>1. spec.extraWhitelist \in Seq({Quota, Bucket})
      BY DEF Specs
    <3>2. Append(spec.extraWhitelist, ref) \in Seq({Quota, Bucket})
      BY <2>5, <3>1, AppendProperties
    <3>3. spec' = [spec EXCEPT !.extraWhitelist = Append(spec.extraWhitelist, ref)]
      BY <2>5 DEF Add
    <3> QED
      BY <3>2, <3>3 DEF Specs
  <2>6. CASE UNCHANGED spec
    BY <2>6
  <2> QED
    BY <2>1, <2>2, <2>3, <2>4, <2>5, <2>6 DEF Next
<1> QED
  BY <1>1, <1>2, PTL DEF Spec

\* Such a spec holds lists.
LEMMA SpecsHoldLists == SpecsGrow => HoldsLists(spec)
<1> SUFFICES ASSUME spec \in Specs PROVE HoldsLists(spec)
  BY DEF SpecsGrow
<1>1. /\ spec.environments \in Seq(Environments)
      /\ spec.git \in Seq({Public, Private})
      /\ spec.imagePullSecrets \in Seq(Pulls)
  BY DEF Specs
<1> QED
  BY <1>1, ListOf DEF HoldsLists

\* However long the spec, deleting what finalize names takes every rendered
\* object with it.
THEOREM TeardownCovers == Spec => []TeardownCoversRender
<1>1. SpecsGrow => TeardownCoversRender
  <2> SUFFICES ASSUME SpecsGrow, NEW i \in DOMAIN Rendered
               PROVE  \/ Rendered[i].key \in Range(Teardown(Acme, spec))
                      \/ Key("Namespace", ClusterScope, Rendered[i].key.ns)
                            \in Range(Teardown(Acme, spec))
    BY DEF TeardownCoversRender
  <2>1. Rendered[i] \in Range(Rendered)
    BY DEF Range
  <2> QED
    BY <2>1, SpecsHoldLists, TeardownAgrees DEF Rendered
<1> QED
  BY <1>1, TypeCorrect, PTL

\* However long the spec, finalize names nothing that Render does not apply.
THEOREM TeardownStays == Spec => []TeardownOnlyRendered
<1>1. SpecsGrow => TeardownOnlyRendered
  <2> SUFFICES ASSUME SpecsGrow, NEW k \in Range(Teardown(Acme, spec))
               PROVE  k \in {Rendered[i].key : i \in DOMAIN Rendered}
    BY DEF TeardownOnlyRendered
  <2>1. PICK object \in Range(Rendered) : object.key = k
    BY SpecsHoldLists, TeardownAgrees DEF Rendered
  <2> QED
    BY <2>1 DEF Range
<1> QED
  BY <1>1, TypeCorrect, PTL

\* However long the spec, no object is applied before the namespace it lives in.
THEOREM NamespacesLead == Spec => []NamespaceBeforeContent
<1>1. SpecsGrow => NamespaceBeforeContent
  <2> SUFFICES ASSUME SpecsGrow, NEW i \in DOMAIN Rendered,
                      Rendered[i].key.ns \notin {ClusterScope, ArgoCDNamespace}
               PROVE  \E j \in 1 .. i - 1 :
                         Rendered[j].key = Key("Namespace", ClusterScope, Rendered[i].key.ns)
    BY DEF NamespaceBeforeContent
  <2> QED
    BY SpecsHoldLists, NamespacesFirst DEF Rendered
<1> QED
  BY <1>1, TypeCorrect, PTL

\* However long the spec, every environment's pull secret holds each registry's
\* last entry.
THEOREM LastPullSecret == Spec => []LastPullSecretWins
<1>1. SpecsGrow => LastPullSecretWins
  <2> DEFINE pulls == spec.imagePullSecrets
  <2> SUFFICES ASSUME SpecsGrow, NEW i \in DOMAIN Rendered,
                      Rendered[i].key.kind = "Secret", Rendered[i].key.ns # ArgoCDNamespace,
                      NEW m \in DOMAIN pulls,
                      {n \in DOMAIN pulls : n > m /\ pulls[n].registry = pulls[m].registry} = {}
               PROVE  Rendered[i].data.auths[pulls[m].registry]
                         = <<pulls[m].username.text, pulls[m].password.text>>
    BY DEF LastPullSecretWins
  <2>1. HoldsLists(spec)
    BY SpecsHoldLists
  <2>2. Rendered[i] \in Range(Rendered)
    BY DEF Range
  <2>3. PICK n \in 1 .. EnvironmentsWithPull(spec) :
           Rendered[i] = BuildPullSecret(Acme, spec, Values, n)
    <3> DEFINE R == Rendered[i]
    <3>1. /\ \A env : BuildNamespace(Acme, env).key.kind = "Namespace"
          /\ BuildAppProject(Acme, spec).key.kind = "AppProject"
          /\ \A env : BuildAppSet(Acme, spec, env).key.kind = "ApplicationSet"
          /\ \A env : BuildDefaultSA(Acme, env).key.kind = "ServiceAccount"
      BY KindsOfKeys, KeysOfObjects
    <3>2. \A l : \/ BuildRepoSecret(Acme, spec, Values, l).key.kind = "None"
                 \/ BuildRepoSecret(Acme, spec, Values, l).key.ns = ArgoCDNamespace
      BY KindsOfKeys, KeysOfObjects
    <3>3. R \in {BuildNamespace(Acme, spec.environments[l]) : l \in DOMAIN spec.environments}
                \cup {BuildAppProject(Acme, spec)}
                \cup {BuildAppSet(Acme, spec, spec.environments[l]) : l \in DOMAIN spec.environments}
                \cup {BuildRepoSecret(Acme, spec, Values, l) : l \in DOMAIN spec.git}
                \cup {BuildPullSecret(Acme, spec, Values, l) : l \in 1 .. EnvironmentsWithPull(spec)}
                \cup {BuildDefaultSA(Acme, spec.environments[l]) :
                         l \in 1 .. EnvironmentsWithPull(spec)}
      BY <2>1, <2>2, RenderedObjects DEF Rendered
    <3>4. R.key.kind = "Secret" /\ R.key.ns # ArgoCDNamespace
      OBVIOUS
    <3> HIDE DEF R
    <3>5. \E l \in 1 .. EnvironmentsWithPull(spec) : R = BuildPullSecret(Acme, spec, Values, l)
      BY <3>1, <3>2, <3>3, <3>4
    <3> QED
      BY <3>5 DEF R
  <2>4. IsLastEntry(spec, m)
    BY DEF IsLastEntry
  <2>5. Rendered[i].data.auths[pulls[m].registry]
           = <<Values[PullAt(spec, n, m) + 1], Values[PullAt(spec, n, m) + 2]>>
    <3>1. BuildPullSecret(Acme, spec, Values, n).data.auths[spec.imagePullSecrets[m].registry]
             = <<Values[PullAt(spec, n, m) + 1], Values[PullAt(spec, n, m) + 2]>>
      BY <2>1, <2>4, LastEntryWins
    <3> QED
      BY <2>3, <3>1, Zenon
  <2>6. n \in 1 .. Len(spec.environments) /\ m \in 1 .. Len(pulls)
    BY <2>1, SpecLists
  <2>7. /\ PullAt(spec, n, m) + 1 \in DOMAIN ValuesRead(spec)
        /\ PullAt(spec, n, m) + 2 \in DOMAIN ValuesRead(spec)
        /\ ValuesRead(spec)[PullAt(spec, n, m) + 1] = pulls[m].username
        /\ ValuesRead(spec)[PullAt(spec, n, m) + 2] = pulls[m].password
    BY <2>1, <2>6, PullValuesRead
  <2>8. pulls[m] \in Pulls
    <3>1. pulls \in Seq(Pulls)
      BY DEF SpecsGrow, Specs
    <3> QED
      BY <2>6, <3>1
  <2>9. pulls[m].username.form = "inline" /\ pulls[m].password.form = "inline"
    BY <2>8 DEF Pulls, Inline
  <2>10. \A j \in DOMAIN ValuesRead(spec) :
            ValuesRead(spec)[j].form = "inline" => Values[j] = ValuesRead(spec)[j].text
    BY DEF Values, ResolveValue
  <2> QED
    BY <2>5, <2>7, <2>9, <2>10
<1> QED
  BY <1>1, TypeCorrect, PTL

-------------------------------------------------------------------------------
(***************************************************************************)
(* The whitelist.                                                          *)
(***************************************************************************)

\* Where a reference is mentioned first.
LEMMA FirstMention ==
    ASSUME NEW refs, IsSequence(refs), NEW ref \in Range(refs)
    PROVE  /\ FirstIn(refs, ref) \in DOMAIN refs /\ FirstIn(refs, ref) \in Nat
           /\ refs[FirstIn(refs, ref)] = ref
           /\ \A j \in 1 .. FirstIn(refs, ref) - 1 : refs[j] # ref
<1> DEFINE places == {i \in DOMAIN refs : refs[i] = ref}
<1>1. Len(refs) \in Nat /\ DOMAIN refs = 1 .. Len(refs)
  BY SequenceDomain
<1>2. places \subseteq Nat /\ places # {}
  BY <1>1 DEF Range
<1>3. PICK i \in places : \A j \in places : i <= j
  <2> HIDE DEF places
  <2> QED
    BY <1>2, LeastNumber
<1>4. \A j \in 1 .. i - 1 : j \in DOMAIN refs /\ ~(i <= j)
  BY <1>1, <1>3
<1>5. \E k \in DOMAIN refs : refs[k] = ref /\ \A j \in 1 .. k - 1 : refs[j] # ref
  BY <1>3, <1>4
<1>6. /\ FirstIn(refs, ref) \in DOMAIN refs
      /\ refs[FirstIn(refs, ref)] = ref
      /\ \A j \in 1 .. FirstIn(refs, ref) - 1 : refs[j] # ref
  BY <1>5 DEF FirstIn
<1> QED
  BY <1>1, <1>6

\* A reference mentioned before another is: that is its first mention's place.
LEMMA FirstInOrder ==
    ASSUME NEW refs, IsSequence(refs), NEW a \in Range(refs), NEW b \in Range(refs),
           Precedes(refs, a, b)
    PROVE  a # b /\ FirstIn(refs, a) < FirstIn(refs, b)
<1>1. PICK k \in DOMAIN refs : refs[k] = a /\ \A l \in 1 .. k : refs[l] # b
  BY DEF Precedes
<1>2. Len(refs) \in Nat /\ DOMAIN refs = 1 .. Len(refs)
  BY SequenceDomain
<1>3. k \in 1 .. k
  BY <1>1, <1>2
<1> DEFINE p == FirstIn(refs, a)
           q == FirstIn(refs, b)
<1>4. /\ p \in Nat /\ q \in Nat /\ q \in DOMAIN refs
      /\ refs[q] = b /\ \A j \in 1 .. p - 1 : refs[j] # a
  BY FirstMention
<1> HIDE DEF p, q
<1>5. p <= k
  BY <1>1, <1>2, <1>4
<1>6. k < q
  BY <1>1, <1>2, <1>4
<1> QED
  BY <1>1, <1>2, <1>3, <1>4, <1>5, <1>6 DEF p, q

\* The registry of the run holds lists of references.
LEMMA RegistryHoldsReferences ==
    SpecsGrow => HoldsReferences(MCRegistry, spec.extensions) /\ IsSequence(spec.extraWhitelist)
<1> SUFFICES ASSUME spec \in Specs
             PROVE  HoldsReferences(MCRegistry, spec.extensions) /\ IsSequence(spec.extraWhitelist)
  BY DEF SpecsGrow
<1>1. spec.extensions \in Seq({"certs", "buckets"}) /\ spec.extraWhitelist \in Seq({Quota, Bucket})
  BY DEF Specs
<1>2. IsSequence(spec.extensions) /\ IsSequence(spec.extraWhitelist)
  BY <1>1, ListOf
<1>3. /\ MCRegistry.core = <<Quota>>
      /\ MCRegistry.extensions["certs"] = <<Issuer, Quota>>
      /\ MCRegistry.extensions["buckets"] = <<Bucket, Issuer>>
  BY DEF MCRegistry, Load, RegistryMap, CoreKey
<1>4. /\ <<Quota>> \in Seq({Quota})
      /\ <<Issuer, Quota>> \in Seq({Issuer, Quota})
      /\ <<Bucket, Issuer>> \in Seq({Bucket, Issuer})
  OBVIOUS
<1>5. /\ IsSequence(MCRegistry.core)
      /\ IsSequence(MCRegistry.extensions["certs"])
      /\ IsSequence(MCRegistry.extensions["buckets"])
  BY <1>3, <1>4, ListOf
<1>6. ASSUME NEW i \in DOMAIN spec.extensions
      PROVE  IsSequence(MCRegistry.extensions[spec.extensions[i]])
  <2>1. spec.extensions[i] \in {"certs", "buckets"}
    BY <1>1
  <2> QED
    BY <1>5, <2>1
<1> QED
  BY <1>2, <1>5, <1>6 DEF HoldsReferences

\* However long the spec, the AppProject's whitelist is the named references,
\* each once, in the order of first mention.
THEOREM WhitelistIsExact ==
    ASSUME Registry = MCRegistry
    PROVE  Spec => []AllowlistExact
<1>1. SpecsGrow => AllowlistExact
  <2> SUFFICES ASSUME SpecsGrow PROVE AllowlistExact
    OBVIOUS
  <2> DEFINE flat == FlattenSeq(Granted(MCRegistry, spec.extensions))
             granted == MCRegistry.core \o flat
             list == Allowlist(spec)
  <2>1. /\ IsSequence(granted) /\ IsSequence(spec.extraWhitelist)
        /\ Resolve(MCRegistry, spec.extensions) = Dedupe(granted)
    BY RegistryHoldsReferences, ResolveFlattens
  <2>2. list = Dedupe(Dedupe(granted) \o spec.extraWhitelist)
    BY <2>1 DEF Allowlist
  <2>3. Named = granted \o spec.extraWhitelist
    BY DEF Named, Granted
  <2> HIDE DEF granted, list
  <2>4. Distils(list, Named)
    BY <2>1, <2>2, <2>3, DedupeInTwoLoops
  <2>5. IsSequence(Named)
    BY <2>1, <2>3, ConcatElements
  <2>6. ASSUME NEW i \in DOMAIN list, NEW j \in DOMAIN list, i < j
        PROVE  /\ list[i] # list[j]
               /\ FirstIn(Named, list[i]) < FirstIn(Named, list[j])
    <3>1. Precedes(Named, list[i], list[j])
      BY <2>4, <2>6 DEF Distils
    <3>2. list[i] \in Range(Named) /\ list[j] \in Range(Named)
      <4>1. Range(list) = Range(Named)
        BY <2>4 DEF Distils
      <4>2. list[i] \in Range(list) /\ list[j] \in Range(list)
        BY DEF Range
      <4> QED
        BY <4>1, <4>2
    <3> QED
      BY <2>5, <3>1, <3>2, FirstInOrder
  <2>7. Range(list) = Range(Named)
    BY <2>4 DEF Distils
  <2> QED
    BY <2>6, <2>7 DEF AllowlistExact, list
<1> QED
  BY <1>1, TypeCorrect, PTL
===============================================================================
