-------------------------------- MODULE Manager --------------------------------
(***************************************************************************)
(* The process around the reconciler, cmd/main.go: it takes its flags,     *)
(* loads the extension registry once from the ConfigMap, waits to be the   *)
(* leader and then reconciles.  A pass is reduced to the one object the    *)
(* registry has a say in, the AppProject of a tenant: a Get, and a write   *)
(* at the version the Get found.                                           *)
(***************************************************************************)
EXTENDS Extensions

CONSTANTS
    Replicas,     \* the processes of the deployment
    ConfigMaps,   \* what a user may store as the registry's ConfigMap
    Enabled,      \* the extensions the tenant enables
    FlagSets,     \* the flags a process may be started with
    NoOne,        \* no replica
    MaxEdits,     \* bound: edits of the ConfigMap
    MaxStops      \* bound: processes that stop

ASSUME NoOneIsNoReplica == NoOne \notin Replicas
ASSUME BoundsAreNumbers == MaxEdits \in Nat /\ MaxStops \in Nat
\* The YAML parses into a map of lists, or not at all.
ASSUME RegistriesHoldLists ==
    /\ IsSequence(Enabled)
    /\ \A configMap \in ConfigMaps :
          ~LoadFails(configMap) =>
              \A name \in DOMAIN configMap.entries : IsSequence(configMap.entries[name])

VARIABLES
    configMaps,   \* the contents the ConfigMap has had; the last is stored
    mode,         \* per replica: "down", "standby", "leading" or "writing"
    flags,        \* the flags it runs with
    loaded,       \* which content its registry is from
    due,          \* whether the tenant is in its queue, or will be
    seen,         \* the version of the AppProject its pass has got
    lease,        \* who holds the leader lease
    project,      \* the stored AppProject: its version, whitelist, and the
                  \* content of the ConfigMap the whitelist was made from
    flight,       \* writes of processes that are no more
    stops         \* how many processes have stopped

processVars == <<mode, flags, loaded, due, seen>>
vars == <<configMaps, processVars, lease, project, flight, stops>>

-------------------------------------------------------------------------------
(***************************************************************************)
(* Flags.  A duration is a number of seconds, or Unparsed.                 *)
(***************************************************************************)
Unparsed == -1

DefaultFlags == [leaderElect |-> FALSE, requeueInterval |-> 300, finalizeRetryInterval |-> 30]

\* Mutant: an interval of zero is let through.
SetupFailsUnparsed(f, configMap) ==
    LoadFails(configMap) \/ Unparsed \in {f.requeueInterval, f.finalizeRetryInterval}

\* Mutant: a registry that does not load is not fatal.
SetupFailsNever(f, configMap) == f.requeueInterval <= 0 \/ f.finalizeRetryInterval <= 0

\* The registry or an interval makes the process exit.
SetupFails(f, configMap) ==
    LoadFails(configMap) \/ f.requeueInterval <= 0 \/ f.finalizeRetryInterval <= 0

\* RequeueAfter schedules nothing unless it is positive.
Requeues(f) == f.requeueInterval > 0

-------------------------------------------------------------------------------
Stored       == Len(configMaps)
RegistryOf(r) == Load(configMaps[loaded[r]])
Rejects(r)   == UnknownExtension(RegistryOf(r), Enabled)
Whitelist(r) == Resolve(RegistryOf(r), Enabled)
Active(r)    == mode[r] \in {"leading", "writing"}

\* What the pass of r sends.
Request(r) == [rv |-> seen[r], whitelist |-> Whitelist(r), from |-> loaded[r]]

\* PUT at the version that was read.  One that changes nothing makes no version.
Accept(request) ==
    IF request.whitelist = project.whitelist
    THEN UNCHANGED project
    ELSE project' = [request EXCEPT !.rv = project.rv + 1]

\* Mutant: the registry is read from a cache that may be behind.
StartCached(r) ==
    /\ mode[r] = "down"
    /\ \E f \in FlagSets, n \in DOMAIN configMaps :
          /\ ~SetupFails(f, configMaps[n])
          /\ flags' = [flags EXCEPT ![r] = f]
          /\ loaded' = [loaded EXCEPT ![r] = n]
    /\ mode' = [mode EXCEPT ![r] = "standby"]
    /\ UNCHANGED <<configMaps, due, seen, lease, project, flight, stops>>

Start(r) ==
    /\ mode[r] = "down"
    /\ \E f \in FlagSets :
          /\ ~SetupFails(f, configMaps[Stored])
          /\ flags' = [flags EXCEPT ![r] = f]
    /\ mode' = [mode EXCEPT ![r] = "standby"]
    /\ loaded' = [loaded EXCEPT ![r] = Stored]
    /\ UNCHANGED <<configMaps, due, seen, lease, project, flight, stops>>

\* Without leader election every process leads.  The new leader's list of
\* Tenants fills its queue.
Elect(r) ==
    /\ mode[r] = "standby"
    /\ flags[r].leaderElect => lease = NoOne
    /\ mode' = [mode EXCEPT ![r] = "leading"]
    /\ lease' = IF flags[r].leaderElect THEN r ELSE lease
    /\ due' = [due EXCEPT ![r] = TRUE]
    /\ UNCHANGED <<configMaps, flags, loaded, seen, project, flight, stops>>

\* A pass whose extensions do not resolve ends before it gets the AppProject
\* (and is due again): such a pass leaves everything as it is.
GetProject(r) ==
    /\ mode[r] = "leading"
    /\ due[r]
    /\ ~Rejects(r)
    /\ mode' = [mode EXCEPT ![r] = "writing"]
    /\ seen' = [seen EXCEPT ![r] = project.rv]
    /\ due' = [due EXCEPT ![r] = FALSE]
    /\ UNCHANGED <<configMaps, flags, loaded, lease, project, flight, stops>>

\* A conflict is retried with backoff, a success after the requeue interval.
PutProject(r) ==
    /\ mode[r] = "writing"
    /\ IF seen[r] = project.rv THEN Accept(Request(r)) ELSE UNCHANGED project
    /\ mode' = [mode EXCEPT ![r] = "leading"]
    /\ due' = [due EXCEPT ![r] = seen[r] # project.rv \/ Requeues(flags[r])]
    /\ UNCHANGED <<configMaps, flags, loaded, seen, lease, flight, stops>>

-------------------------------------------------------------------------------
(***************************************************************************)
(* A process ends (a crash, a shutdown, a lease it could not renew) and    *)
(* may leave a write under way.  The lease is not released: it expires.    *)
(***************************************************************************)
Stop(r) ==
    /\ mode[r] # "down"
    /\ stops < MaxStops
    /\ stops' = stops + 1
    /\ mode' = [mode EXCEPT ![r] = "down"]
    /\ due' = [due EXCEPT ![r] = FALSE]
    /\ \/ UNCHANGED flight
       \/ mode[r] = "writing" /\ flight' = flight \cup {Request(r)}
    /\ UNCHANGED <<configMaps, flags, loaded, seen, lease, project>>

LeaseExpires ==
    /\ lease # NoOne
    /\ ~Active(lease)
    /\ lease' = NoOne
    /\ UNCHANGED <<configMaps, processVars, project, flight, stops>>

LateWrite(request) ==
    /\ flight' = flight \ {request}
    /\ IF request.rv = project.rv THEN Accept(request) ELSE UNCHANGED project
    /\ UNCHANGED <<configMaps, processVars, lease, stops>>

EditConfigMap(configMap) ==
    /\ configMap # configMaps[Stored]
    /\ Stored <= MaxEdits
    /\ configMaps' = Append(configMaps, configMap)
    /\ UNCHANGED <<processVars, lease, project, flight, stops>>

-------------------------------------------------------------------------------
Init ==
    /\ configMaps \in {<<c>> : c \in ConfigMaps}
    /\ mode = [r \in Replicas |-> "down"]
    /\ flags = [r \in Replicas |-> DefaultFlags]
    /\ loaded = [r \in Replicas |-> 1]
    /\ due = [r \in Replicas |-> FALSE]
    /\ seen = [r \in Replicas |-> 0]
    /\ lease = NoOne
    /\ project = [rv |-> 0, whitelist |-> <<>>, from |-> 0]
    /\ flight = {}
    /\ stops = 0

Run(r) == Start(r) \/ Elect(r) \/ GetProject(r) \/ PutProject(r)

Next ==
    \/ \E r \in Replicas : Run(r) \/ Stop(r)
    \/ LeaseExpires
    \/ \E request \in flight : LateWrite(request)
    \/ \E configMap \in ConfigMaps : EditConfigMap(configMap)

Spec == Init /\ [][Next]_vars

\* Processes are started again and go on, and a lease nobody renews expires.
\* Late writes may never arrive; users do what they like.
FairSpec ==
    /\ Spec
    /\ \A r \in Replicas : WF_vars(Run(r))
    /\ WF_vars(LeaseExpires)

-------------------------------------------------------------------------------
(***************************************************************************)
(* What must hold.                                                         *)
(***************************************************************************)
Modes == {"down", "standby", "leading", "writing"}
Loadable(n) == n \in DOMAIN configMaps /\ ~LoadFails(configMaps[n])

\* The types of the variables; a process that is up has a registry that loads.
TypeOK ==
    /\ configMaps \in Seq(ConfigMaps) /\ configMaps # <<>>
    /\ mode \in [Replicas -> Modes]
    /\ flags \in [Replicas -> FlagSets \cup {DefaultFlags}]
    /\ due \in [Replicas -> BOOLEAN]
    /\ loaded \in [Replicas -> DOMAIN configMaps]
    /\ \A r \in Replicas : mode[r] # "down" => Loadable(loaded[r])
    /\ seen \in [Replicas -> Nat]
    /\ lease \in Replicas \cup {NoOne}
    /\ project.rv \in Nat
    /\ stops \in Nat

Grants(configMap) ==
    UNION {Range(configMap.entries[name]) :
              name \in DOMAIN configMap.entries \cap ({CoreKey} \cup Range(Enabled))}

\* The whitelist of an AppProject, once written, is one a user configured: the
\* core references and those of the enabled extensions of one content the
\* ConfigMap has had, which has them all; never a part of it.
WhitelistWasConfigured ==
    project.rv > 0 =>
        \E n \in DOMAIN configMaps :
            /\ CoreKey \in DOMAIN configMaps[n].entries
            /\ configMaps[n].entries[CoreKey] # <<>>
            /\ Range(Enabled) \subseteq DOMAIN configMaps[n].entries
            /\ Range(project.whitelist) = Grants(configMaps[n])

OneReplica == \E r \in Replicas : Replicas = {r}

\* With one replica, a write never puts the whitelist of an earlier content of
\* the ConfigMap in the place of a later one's, although writes of processes
\* that are no more arrive late.
WhitelistNeverGoesBack ==
    [][OneReplica => project'.from >= project.from]_vars

Decides(r) == Active(r) /\ ~Rejects(r)

\* In the end the whitelist is the one of the registry the leader has loaded,
\* whoever wrote last before it, for every interval a process accepts.
RegistryInForce ==
    \A r \in Replicas :
        <>[]Decides(r) => <>[](Decides(r) /\ project.whitelist = Whitelist(r))
===============================================================================
