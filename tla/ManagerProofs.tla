---------------------------- MODULE ManagerProofs ----------------------------
(***************************************************************************)
(* Proofs about Manager, for every set of replicas, ConfigMaps and flags   *)
(* and every value of the bounds.                                          *)
(***************************************************************************)
EXTENDS Manager, ExtensionsProofs

-------------------------------------------------------------------------------
(***************************************************************************)
(* The inductive invariant.                                                *)
(***************************************************************************)
IsRequest(q) == q = [rv |-> q.rv, whitelist |-> q.whitelist, from |-> q.from]

\* Whitelists are made from a content the ConfigMap has had.
RequestsOK ==
    /\ IsRequest(project) /\ project.from \in 0 .. Stored
    /\ \A q \in flight : IsRequest(q) /\ q.rv \in Nat /\ q.from \in 1 .. Stored

\* What is written, or may be, is from no later content than the process has
\* loaded; and a write that may still be taken is from none earlier than what
\* it would replace.
InOrder ==
    /\ \A r \in Replicas : project.from <= loaded[r]
    /\ \A r \in Replicas : mode[r] = "writing" => seen[r] <= project.rv
    /\ \A q \in flight :
          /\ q.rv <= project.rv
          /\ q.rv = project.rv => project.from <= q.from
          /\ \A r \in Replicas : q.from <= loaded[r]

IInv == TypeOK /\ RequestsOK /\ (OneReplica => InOrder)

-------------------------------------------------------------------------------
\* Contents stay what they were, and loadable, when one is appended.
LEMMA ContentsGrow ==
    ASSUME TypeOK, NEW configMap \in ConfigMaps,
           configMaps' = Append(configMaps, configMap)
    PROVE  /\ configMaps' \in Seq(ConfigMaps) /\ configMaps' # <<>>
           /\ Stored \in Nat /\ Stored' = Stored + 1
           /\ DOMAIN configMaps \subseteq DOMAIN configMaps'
           /\ \A n \in DOMAIN configMaps : configMaps'[n] = configMaps[n]
BY DEF TypeOK, Stored

LEMMA StoredIsContent ==
    ASSUME TypeOK
    PROVE  Stored \in Nat /\ DOMAIN configMaps = 1 .. Stored /\ Stored \in DOMAIN configMaps
BY DEF TypeOK, Stored

LEMMA InitEstablishes == Init => IInv
<1> SUFFICES ASSUME Init
             PROVE  IInv
  OBVIOUS
<1>1. PICK c \in ConfigMaps : configMaps = <<c>>
  BY DEF Init
<1>2. /\ configMaps \in Seq(ConfigMaps) /\ configMaps # <<>>
      /\ Stored = 1 /\ DOMAIN configMaps = {1}
  BY <1>1 DEF Stored
<1>3. TypeOK
  BY <1>2 DEF Init, TypeOK, Modes
<1>4. RequestsOK /\ InOrder
  BY <1>2 DEF Init, RequestsOK, InOrder, IsRequest
<1> QED
  BY <1>3, <1>4 DEF IInv

\* What a write leaves behind, of whoever it is.
LEMMA AcceptEffect ==
    ASSUME NEW q, IsRequest(q), Accept(q), IsRequest(project), project.rv \in Nat
    PROVE  /\ IsRequest(project')
           /\ \/ project' = project
              \/ project'.rv = project.rv + 1 /\ project'.from = q.from
<1>1. CASE UNCHANGED project
  BY <1>1
<1>2. CASE project' = [q EXCEPT !.rv = project.rv + 1]
  BY <1>2 DEF IsRequest
<1> QED
  BY <1>1, <1>2 DEF Accept

\* A write that is taken, and is from no earlier content, keeps the order.
LEMMA WriteKeepsOrder ==
    ASSUME InOrder, RequestsOK, TypeOK, NEW q, IsRequest(q), q.from \in 1 .. Stored,
           q.rv = project.rv => project.from <= q.from,
           \A r \in Replicas : q.from <= loaded[r],
           IF q.rv = project.rv THEN Accept(q) ELSE UNCHANGED project,
           UNCHANGED <<loaded, seen, configMaps>>, flight' \subseteq flight,
           \A r \in Replicas : mode'[r] = "writing" => mode[r] = "writing"
    PROVE  InOrder' /\ project'.from >= project.from
<1>1. CASE project' = project
  <2>1. project.from \in Nat
    BY StoredIsContent DEF RequestsOK
  <2> QED
    BY <1>1, <2>1 DEF InOrder
<1>2. CASE project'.rv = project.rv + 1 /\ project'.from = q.from /\ q.rv = project.rv
  <2>1. /\ project.rv \in Nat /\ q.from \in Nat /\ project.from \in Nat
        /\ \A p \in flight : p.rv \in Nat
        /\ \A r \in Replicas : seen[r] \in Nat
    BY StoredIsContent DEF RequestsOK, TypeOK
  <2>2. project'.from >= project.from
    BY <1>2, <2>1
  <2>3. \A r \in Replicas : mode'[r] = "writing" => seen'[r] <= project'.rv
    BY <1>2, <2>1 DEF InOrder
  <2>4. \A p \in flight' : p.rv <= project'.rv /\ p.rv # project'.rv
    BY <1>2, <2>1 DEF InOrder
  <2>5. \A r \in Replicas : project'.from <= loaded'[r]
    BY <1>2
  <2>6. \A p \in flight', r \in Replicas : p.from <= loaded'[r]
    BY DEF InOrder
  <2> QED
    BY <2>2, <2>3, <2>4, <2>5, <2>6 DEF InOrder
<1>3. IsRequest(project) /\ project.rv \in Nat
  BY DEF RequestsOK, TypeOK
<1> QED
  BY <1>1, <1>2, <1>3, AcceptEffect

-------------------------------------------------------------------------------
(***************************************************************************)
(* Every step keeps the invariant.                                         *)
(***************************************************************************)
NeverBack == OneReplica => project'.from >= project.from

LEMMA StartKeeps ==
    ASSUME IInv, NEW r \in Replicas, Start(r)
    PROVE  IInv'
<1>1. PICK f \in FlagSets : ~SetupFails(f, configMaps[Stored]) /\ flags' = [flags EXCEPT ![r] = f]
  BY DEF Start
<1>2. /\ mode' = [mode EXCEPT ![r] = "standby"]
      /\ loaded' = [loaded EXCEPT ![r] = Stored]
      /\ UNCHANGED <<configMaps, due, seen, lease, project, flight, stops>>
  BY DEF Start
<1>3. /\ Stored \in Nat /\ DOMAIN configMaps = 1 .. Stored /\ Stored \in DOMAIN configMaps
      /\ Stored' = Stored
  BY <1>2, StoredIsContent DEF IInv, Stored
<1>4. Loadable(Stored)
  BY <1>1, <1>3 DEF Loadable, SetupFails
<1>5. TypeOK'
  BY <1>1, <1>2, <1>3, <1>4 DEF IInv, TypeOK, Modes, Loadable
<1>6. RequestsOK'
  BY <1>2, <1>3 DEF IInv, RequestsOK
<1>7. ASSUME OneReplica PROVE InOrder'
  <2>1. \A s \in Replicas : loaded[s] <= loaded'[s] /\ loaded[s] \in Nat /\ loaded'[s] \in Nat
    BY <1>2, <1>3 DEF IInv, TypeOK
  <2>2. project.from \in Nat /\ \A q \in flight : q.from \in Nat
    BY <1>3 DEF IInv, RequestsOK
  <2>3. \A s \in Replicas : mode'[s] = "writing" => mode[s] = "writing"
    BY <1>2 DEF IInv, TypeOK
  <2> QED
    BY <1>2, <1>7, <2>1, <2>2, <2>3 DEF IInv, InOrder
<1> QED
  BY <1>5, <1>6, <1>7 DEF IInv, OneReplica

\* Steps that leave the contents, the AppProject and its writes alone.
LEMMA OthersKeep ==
    ASSUME IInv, UNCHANGED <<configMaps, flags, loaded, project, flight, stops>>,
           mode' \in [Replicas -> Modes], due' \in [Replicas -> BOOLEAN],
           seen' \in [Replicas -> Nat], lease' \in Replicas \cup {NoOne},
           \A r \in Replicas : mode'[r] # "down" => mode[r] # "down",
           \A r \in Replicas : mode'[r] = "writing" =>
              \/ mode[r] = "writing" /\ seen'[r] = seen[r]
              \/ seen'[r] = project.rv
    PROVE  IInv'
<1>1. TypeOK' /\ RequestsOK'
  BY DEF IInv, TypeOK, RequestsOK, Loadable, Stored
<1>2. ASSUME OneReplica PROVE InOrder'
  <2>1. project.rv \in Nat
    BY DEF IInv, TypeOK
  <2>2. \A r \in Replicas : mode'[r] = "writing" => seen'[r] <= project'.rv
    BY <1>2, <2>1 DEF IInv, InOrder
  <2> QED
    BY <1>2, <2>2 DEF IInv, InOrder
<1> QED
  BY <1>1, <1>2 DEF IInv, OneReplica

LEMMA ElectKeeps ==
    ASSUME IInv, NEW r \in Replicas, Elect(r)
    PROVE  IInv'
<1>1. /\ UNCHANGED <<configMaps, flags, loaded, project, flight, stops, seen>>
      /\ mode' = [mode EXCEPT ![r] = "leading"] /\ mode[r] = "standby"
      /\ due' = [due EXCEPT ![r] = TRUE]
      /\ lease' \in {r, lease}
  BY DEF Elect
<1> QED
  BY <1>1, OthersKeep DEF IInv, TypeOK, Modes

LEMMA GetKeeps ==
    ASSUME IInv, NEW r \in Replicas, GetProject(r)
    PROVE  IInv'
<1>1. /\ UNCHANGED <<configMaps, flags, loaded, project, flight, stops, lease>>
      /\ mode' = [mode EXCEPT ![r] = "writing"] /\ mode[r] = "leading"
      /\ due' = [due EXCEPT ![r] = FALSE]
      /\ seen' = [seen EXCEPT ![r] = project.rv]
  BY DEF GetProject
<1> QED
  BY <1>1, OthersKeep DEF IInv, TypeOK, Modes

LEMMA LeaseKeeps ==
    ASSUME IInv, LeaseExpires
    PROVE  IInv'
BY OthersKeep DEF LeaseExpires, processVars, IInv, TypeOK

\* A write, of a process that runs or of one that is no more.
LEMMA WritesKeep ==
    ASSUME IInv, NEW q, IsRequest(q), q.rv \in Nat, q.from \in 1 .. Stored,
           OneReplica => /\ q.rv = project.rv => project.from <= q.from
                         /\ \A r \in Replicas : q.from <= loaded[r],
           IF q.rv = project.rv THEN Accept(q) ELSE UNCHANGED project,
           UNCHANGED <<configMaps, flags, loaded, seen, lease, stops>>,
           flight' \subseteq flight,
           mode' \in [Replicas -> Modes], due' \in [Replicas -> BOOLEAN],
           \A r \in Replicas : mode'[r] # "down" => mode[r] # "down",
           \A r \in Replicas : mode'[r] = "writing" => mode[r] = "writing"
    PROVE  IInv' /\ NeverBack
<1>1. /\ IsRequest(project') /\ project'.rv \in Nat
      /\ project'.from \in {project.from, q.from}
  BY AcceptEffect DEF IInv, TypeOK, RequestsOK
<1>2. TypeOK'
  BY <1>1 DEF IInv, TypeOK, Loadable
<1>3. RequestsOK'
  BY <1>1, StoredIsContent DEF IInv, RequestsOK, Stored
<1>4. OneReplica => InOrder' /\ project'.from >= project.from
  BY WriteKeepsOrder DEF IInv
<1> QED
  BY <1>2, <1>3, <1>4 DEF IInv, NeverBack, OneReplica

\* What the pass of a process sends.
LEMMA RequestFacts ==
    ASSUME IInv, NEW r \in Replicas, mode[r] = "writing"
    PROVE  LET q == Request(r)
           IN  /\ IsRequest(q) /\ q.rv = seen[r] /\ q.rv \in Nat
               /\ q.from = loaded[r] /\ q.from \in 1 .. Stored
               /\ OneReplica => /\ project.from <= q.from /\ q.rv <= project.rv
                                /\ \A s \in Replicas : q.from <= loaded[s]
<1>1. /\ Request(r).rv = seen[r] /\ Request(r).from = loaded[r] /\ IsRequest(Request(r))
  BY DEF Request, IsRequest
<1>2. seen[r] \in Nat /\ loaded[r] \in 1 .. Stored /\ Stored \in Nat
  BY StoredIsContent DEF IInv, TypeOK
<1>3. OneReplica => \A s \in Replicas : s = r
  BY DEF OneReplica
<1> QED
  BY <1>1, <1>2, <1>3 DEF IInv, InOrder

LEMMA PutKeeps ==
    ASSUME IInv, NEW r \in Replicas, PutProject(r)
    PROVE  IInv' /\ NeverBack
<1> DEFINE q == Request(r)
<1>1. /\ mode[r] = "writing"
      /\ IF seen[r] = project.rv THEN Accept(q) ELSE UNCHANGED project
      /\ mode' = [mode EXCEPT ![r] = "leading"]
      /\ due' = [due EXCEPT ![r] = seen[r] # project.rv \/ Requeues(flags[r])]
      /\ UNCHANGED <<configMaps, flags, loaded, seen, lease, flight, stops>>
  BY DEF PutProject
<1>2. /\ IsRequest(q) /\ q.rv = seen[r] /\ q.rv \in Nat
      /\ q.from = loaded[r] /\ q.from \in 1 .. Stored
      /\ OneReplica => /\ project.from <= q.from /\ q.rv <= project.rv
                       /\ \A s \in Replicas : q.from <= loaded[s]
  BY <1>1, RequestFacts
<1> HIDE DEF q
<1>3. due' \in [Replicas -> BOOLEAN]
  BY <1>1 DEF IInv, TypeOK, Requeues
<1>4. /\ mode' \in [Replicas -> Modes]
      /\ \A s \in Replicas : mode'[s] # "down" => mode[s] # "down"
      /\ \A s \in Replicas : mode'[s] = "writing" => mode[s] = "writing"
  BY <1>1 DEF IInv, TypeOK, Modes
<1> QED
  BY <1>1, <1>2, <1>3, <1>4, WritesKeep

LEMMA LateKeeps ==
    ASSUME IInv, NEW q \in flight, LateWrite(q)
    PROVE  IInv' /\ NeverBack
<1>1. /\ IF q.rv = project.rv THEN Accept(q) ELSE UNCHANGED project
      /\ flight' \subseteq flight
      /\ UNCHANGED <<configMaps, processVars, lease, stops>>
  BY DEF LateWrite
<1>2. /\ IsRequest(q) /\ q.rv \in Nat /\ q.from \in 1 .. Stored
      /\ OneReplica => /\ q.rv = project.rv => project.from <= q.from
                       /\ \A r \in Replicas : q.from <= loaded[r]
  BY DEF IInv, RequestsOK, InOrder
<1>3. mode' \in [Replicas -> Modes] /\ due' \in [Replicas -> BOOLEAN] /\ mode' = mode
  BY <1>1 DEF processVars, IInv, TypeOK
<1> QED
  BY <1>1, <1>2, <1>3, WritesKeep DEF processVars

LEMMA StopKeeps ==
    ASSUME IInv, NEW r \in Replicas, Stop(r)
    PROVE  IInv'
<1>1. /\ mode' = [mode EXCEPT ![r] = "down"]
      /\ due' = [due EXCEPT ![r] = FALSE]
      /\ stops' = stops + 1
      /\ UNCHANGED <<configMaps, flags, loaded, seen, lease, project>>
  BY DEF Stop
<1>2. \A q \in flight' : q \in flight \/ (mode[r] = "writing" /\ q = Request(r))
  BY DEF Stop
<1>3. TypeOK'
  BY <1>1 DEF IInv, TypeOK, Modes, Loadable
<1>4. RequestsOK'
  BY <1>1, <1>2, RequestFacts DEF IInv, RequestsOK, Stored
<1>5. ASSUME OneReplica PROVE InOrder'
  <2>1. \A s \in Replicas : mode'[s] = "writing" => mode[s] = "writing"
    BY <1>1 DEF IInv, TypeOK
  <2>2. \A q \in flight' : /\ q.rv <= project.rv
                           /\ q.rv = project.rv => project.from <= q.from
                           /\ \A s \in Replicas : q.from <= loaded[s]
    BY <1>2, <1>5, RequestFacts DEF IInv, InOrder
  <2> QED
    BY <1>1, <1>5, <2>1, <2>2 DEF IInv, InOrder
<1> QED
  BY <1>3, <1>4, <1>5 DEF IInv, OneReplica

LEMMA EditKeeps ==
    ASSUME IInv, NEW configMap \in ConfigMaps, EditConfigMap(configMap)
    PROVE  IInv'
<1>1. /\ configMaps' = Append(configMaps, configMap)
      /\ UNCHANGED <<processVars, lease, project, flight, stops>>
  BY DEF EditConfigMap
<1>2. /\ configMaps' \in Seq(ConfigMaps) /\ configMaps' # <<>>
      /\ Stored \in Nat /\ Stored' = Stored + 1
      /\ DOMAIN configMaps \subseteq DOMAIN configMaps'
      /\ \A n \in DOMAIN configMaps : configMaps'[n] = configMaps[n]
  BY <1>1, ContentsGrow DEF IInv
<1>3. \A n \in DOMAIN configMaps : Loadable(n) => Loadable(n)'
  BY <1>2 DEF Loadable
<1>4. TypeOK'
  BY <1>1, <1>2, <1>3 DEF IInv, TypeOK, processVars, Loadable
<1>5. RequestsOK' /\ (OneReplica => InOrder')
  BY <1>1, <1>2 DEF IInv, RequestsOK, InOrder, processVars
<1> QED
  BY <1>4, <1>5 DEF IInv, OneReplica

LEMMA NextKeeps ==
    ASSUME IInv, [Next]_vars
    PROVE  IInv' /\ NeverBack
<1> USE DEF NeverBack
<1>1. project.from \in Nat
  BY StoredIsContent DEF IInv, RequestsOK
<1>2. ASSUME NEW r \in Replicas, Start(r) \/ Elect(r) \/ GetProject(r) \/ Stop(r)
      PROVE  IInv' /\ NeverBack
  BY <1>1, <1>2, StartKeeps, ElectKeeps, GetKeeps, StopKeeps
     DEF Start, Elect, GetProject, Stop
<1>3. ASSUME NEW r \in Replicas, PutProject(r)
      PROVE  IInv' /\ NeverBack
  BY <1>3, PutKeeps
<1>4. CASE LeaseExpires
  BY <1>1, <1>4, LeaseKeeps DEF LeaseExpires
<1>5. ASSUME NEW q \in flight, LateWrite(q)
      PROVE  IInv' /\ NeverBack
  BY <1>5, LateKeeps
<1>6. ASSUME NEW configMap \in ConfigMaps, EditConfigMap(configMap)
      PROVE  IInv' /\ NeverBack
  BY <1>1, <1>6, EditKeeps DEF EditConfigMap
<1>7. CASE UNCHANGED vars
  BY <1>1, <1>7 DEF vars, processVars, IInv, TypeOK, RequestsOK, InOrder, OneReplica,
                    Loadable, Stored
<1> HIDE DEF NeverBack
<1> QED
  BY <1>2, <1>3, <1>4, <1>5, <1>6, <1>7 DEF Next, Run

-------------------------------------------------------------------------------
\* The inductive invariant holds in every reachable state of the processes.
THEOREM Invariance == Spec => []IInv
<1>1. IInv /\ [Next]_vars => IInv'
  BY NextKeeps
<1> QED
  BY <1>1, InitEstablishes, PTL DEF Spec

\* The types of main's state; a process that got past its start has a registry
\* that loads, whatever the ConfigMap is edited to and however often processes
\* stop.
THEOREM TypeCorrectness == Spec => []TypeOK
<1>1. IInv => TypeOK
  BY DEF IInv
<1> QED
  BY <1>1, Invariance, PTL

\* With one replica the AppProject's whitelist never goes back to an earlier
\* content of the registry, although writes of processes that are no more may
\* be taken at any later time.
THEOREM NeverGoesBack == Spec => WhitelistNeverGoesBack
<1>1. IInv /\ [Next]_vars => [OneReplica => project'.from >= project.from]_vars
  BY NextKeeps DEF NeverBack
<1> QED
  BY <1>1, Invariance, PTL DEF Spec, WhitelistNeverGoesBack

-------------------------------------------------------------------------------
(***************************************************************************)
(* Where a whitelist comes from.                                           *)
(***************************************************************************)

\* A write is what the registry of a content the ConfigMap has had resolves to.
Grounded(q) ==
    /\ Loadable(q.from)
    /\ ~UnknownExtension(Load(configMaps[q.from]), Enabled)
    /\ q.whitelist = Resolve(Load(configMaps[q.from]), Enabled)

GroundInv ==
    /\ project.rv > 0 => Grounded(project)
    /\ \A q \in flight : Grounded(q)
    /\ \A r \in Replicas : mode[r] = "writing" => ~Rejects(r)

\* A registry that loads grants its core references and those of the extensions.
LEMMA ResolvedIsConfigured ==
    ASSUME TypeOK, NEW q, Grounded(q)
    PROVE  LET configMap == configMaps[q.from]
           IN  /\ CoreKey \in DOMAIN configMap.entries
               /\ configMap.entries[CoreKey] # <<>>
               /\ Range(Enabled) \subseteq DOMAIN configMap.entries
               /\ Range(q.whitelist) = Grants(configMap)
<1> DEFINE configMap == configMaps[q.from]
           registry == Load(configMap)
           entries == configMap.entries
<1>1. configMap \in ConfigMaps /\ ~LoadFails(configMap)
  BY DEF TypeOK, Grounded, Loadable
<1>2. /\ CoreKey \in DOMAIN entries /\ entries[CoreKey] # <<>>
      /\ IsSequence(Enabled)
      /\ \A name \in DOMAIN entries : IsSequence(entries[name])
  BY <1>1, RegistriesHoldLists DEF LoadFails
<1>3. /\ \A i \in DOMAIN Enabled : Enabled[i] \in DOMAIN registry.extensions
      /\ q.whitelist = Resolve(registry, Enabled)
  BY DEF Grounded, UnknownExtension, Has
<1> HIDE DEF configMap
<1>4. /\ registry.core = entries[CoreKey]
      /\ registry.extensions = [name \in DOMAIN entries \ {CoreKey} |-> entries[name]]
  BY DEF Load
<1>5. \A i \in DOMAIN Enabled : /\ Enabled[i] \in DOMAIN entries
                                /\ registry.extensions[Enabled[i]] = entries[Enabled[i]]
  BY <1>3, <1>4
<1> HIDE DEF registry, entries
<1>6. HoldsReferences(registry, Enabled)
  BY <1>2, <1>4, <1>5 DEF HoldsReferences
<1>7. Range(q.whitelist) = Range(registry.core)
                           \cup UNION {Range(registry.extensions[Enabled[i]]) : i \in DOMAIN Enabled}
  BY <1>3, <1>6, ResolveGrants
<1>8. Range(Enabled) \subseteq DOMAIN entries
  BY <1>5 DEF Range
<1>9. Range(q.whitelist) = UNION {Range(entries[name]) : name \in {CoreKey} \cup Range(Enabled)}
  <2>1. {Range(entries[name]) : name \in Range(Enabled)}
           = {Range(registry.extensions[Enabled[i]]) : i \in DOMAIN Enabled}
    <3>1. Range(Enabled) = {Enabled[i] : i \in DOMAIN Enabled}
      BY DEF Range
    <3> QED
      BY <1>5, <3>1
  <2>2. UNION {Range(entries[name]) : name \in {CoreKey} \cup Range(Enabled)}
           = Range(entries[CoreKey]) \cup UNION {Range(entries[name]) : name \in Range(Enabled)}
    OBVIOUS
  <2> QED
    BY <1>4, <1>7, <2>1, <2>2
<1>10. DOMAIN entries \cap ({CoreKey} \cup Range(Enabled)) = {CoreKey} \cup Range(Enabled)
  BY <1>2, <1>8
<1>11. Range(q.whitelist) = Grants(configMap)
  BY <1>9, <1>10 DEF Grants, entries
<1> QED
  BY <1>2, <1>8, <1>11 DEF configMap, entries

\* What is grounded stays so: contents are appended, never changed.
LEMMA GroundStays ==
    ASSUME IInv, NEW q, Grounded(q),
           UNCHANGED configMaps
           \/ \E configMap \in ConfigMaps : configMaps' = Append(configMaps, configMap)
    PROVE  Loadable(q.from)' /\ configMaps'[q.from] = configMaps[q.from]
<1>1. q.from \in DOMAIN configMaps /\ ~LoadFails(configMaps[q.from])
  BY DEF Grounded, Loadable
<1>2. configMaps'[q.from] = configMaps[q.from] /\ q.from \in DOMAIN configMaps'
  BY <1>1, ContentsGrow DEF IInv
<1> QED
  BY <1>1, <1>2 DEF Loadable

\* The request of a process that writes is grounded.
LEMMA RequestGrounded ==
    ASSUME IInv, GroundInv, NEW r \in Replicas, mode[r] = "writing"
    PROVE  Grounded(Request(r))
<1>1. Loadable(loaded[r]) /\ ~UnknownExtension(Load(configMaps[loaded[r]]), Enabled)
  BY DEF IInv, TypeOK, GroundInv, Rejects, RegistryOf
<1> QED
  BY <1>1 DEF Request, Grounded, Whitelist, RegistryOf

LEMMA GroundKeeps ==
    ASSUME IInv, GroundInv, [Next]_vars
    PROVE  GroundInv'
<1>1. UNCHANGED configMaps
      \/ \E configMap \in ConfigMaps : configMaps' = Append(configMaps, configMap)
  BY DEF Next, Run, Start, Elect, GetProject, PutProject, Stop, LeaseExpires, LateWrite,
         EditConfigMap, vars
<1>2. ASSUME NEW q, Grounded(q)
      PROVE  Grounded(q)'
  BY <1>1, <1>2, GroundStays DEF Grounded
<1>3. ASSUME NEW q \in flight'
      PROVE  q \in flight \/ \E r \in Replicas : mode[r] = "writing" /\ q = Request(r)
  BY <1>3 DEF Next, Run, Start, Elect, GetProject, PutProject, Stop, LeaseExpires, LateWrite,
         EditConfigMap, vars
<1>4. \A q \in flight' : Grounded(q)
  BY <1>3, RequestGrounded DEF GroundInv
<1>5. \/ project' = project
      \/ \E q : Grounded(q) /\ project' = [q EXCEPT !.rv = project.rv + 1]
                /\ IsRequest(q)
  <2>1. ASSUME NEW r \in Replicas, PutProject(r)
        PROVE  \/ project' = project
               \/ \E q : Grounded(q) /\ IsRequest(q) /\ project' = [q EXCEPT !.rv = project.rv + 1]
    <3>1. IsRequest(Request(r))
      BY DEF Request, IsRequest
    <3> QED
      BY <2>1, <3>1, RequestGrounded DEF PutProject, Accept
  <2>2. ASSUME NEW q \in flight, LateWrite(q)
        PROVE  \/ project' = project
               \/ \E p : Grounded(p) /\ IsRequest(p) /\ project' = [p EXCEPT !.rv = project.rv + 1]
    BY <2>2 DEF LateWrite, Accept, GroundInv, IInv, RequestsOK
  <2> QED
    BY <2>1, <2>2 DEF Next, Run, Start, Elect, GetProject, Stop, LeaseExpires, EditConfigMap, vars
<1>6. project'.rv > 0 => Grounded(project')
  <2>1. CASE project' = project
    BY <2>1 DEF GroundInv
  <2>2. ASSUME NEW q, Grounded(q), IsRequest(q), project' = [q EXCEPT !.rv = project.rv + 1]
        PROVE  Grounded(project')
    <3>1. project'.from = q.from /\ project'.whitelist = q.whitelist
      BY <2>2 DEF IsRequest
    <3> QED
      BY <2>2, <3>1 DEF Grounded
  <2> QED
    BY <1>5, <2>1, <2>2
<1>7. ASSUME NEW r \in Replicas, mode'[r] = "writing"
      PROVE  ~Rejects(r)'
  <2>1. \/ mode[r] = "writing" /\ loaded'[r] = loaded[r]
        \/ mode[r] = "leading" /\ ~Rejects(r) /\ loaded'[r] = loaded[r]
    BY <1>7 DEF Next, Run, Start, Elect, GetProject, PutProject, Stop, LeaseExpires, LateWrite,
           EditConfigMap, vars, processVars, IInv, TypeOK
  <2>2. ~Rejects(r) /\ mode[r] # "down"
    BY <2>1 DEF GroundInv
  <2>3. Loadable(loaded[r]) /\ loaded[r] \in DOMAIN configMaps
    BY <2>2 DEF IInv, TypeOK
  <2>4. configMaps'[loaded[r]] = configMaps[loaded[r]]
    BY <1>1, <2>3, ContentsGrow DEF IInv
  <2> QED
    BY <2>1, <2>2, <2>4 DEF Rejects, RegistryOf
<1>8. (project.rv > 0 => Grounded(project))'
  <2>1. ASSUME project'.rv > 0
        PROVE  Grounded(project)'
    BY <1>2, <1>6, <2>1
  <2> QED
    BY <2>1
<1>9. (\A q \in flight : Grounded(q))'
  BY <1>2, <1>4
<1> QED
  BY <1>7, <1>8, <1>9 DEF GroundInv

\* The whitelist of an AppProject, whoever wrote it and however late, is what
\* one content of the ConfigMap grants: all of it and never a part.
THEOREM WasConfigured == Spec => []WhitelistWasConfigured
<1>1. Init => GroundInv
  BY DEF Init, GroundInv
<1>2. IInv /\ GroundInv /\ [Next]_vars => GroundInv'
  BY GroundKeeps
<1>3. IInv /\ GroundInv => WhitelistWasConfigured
  <2> SUFFICES ASSUME IInv, GroundInv, project.rv > 0
               PROVE  \E n \in DOMAIN configMaps :
                         /\ CoreKey \in DOMAIN configMaps[n].entries
                         /\ configMaps[n].entries[CoreKey] # <<>>
                         /\ Range(Enabled) \subseteq DOMAIN configMaps[n].entries
                         /\ Range(project.whitelist) = Grants(configMaps[n])
    BY DEF WhitelistWasConfigured
  <2>1. Grounded(project) /\ project.from \in DOMAIN configMaps
    BY DEF GroundInv, Grounded, Loadable
  <2> QED
    BY <2>1, ResolvedIsConfigured DEF IInv
<1> QED
  BY <1>1, <1>2, <1>3, Invariance, PTL DEF Spec
===============================================================================
