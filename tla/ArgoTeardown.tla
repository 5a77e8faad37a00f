----------------------------- MODULE ArgoTeardown -----------------------------
(***************************************************************************)
(* TenantController next to Argo CD, which deploys what an ApplicationSet  *)
(* generates and, when the ApplicationSet is gone, prunes the workloads it *)
(* deployed.  The operator only deletes the ApplicationSet; it neither     *)
(* reads the Applications nor waits for them.                              *)
(***************************************************************************)
EXTENDS TenantController

VARIABLE workloads   \* per ApplicationSet: has Argo CD deployed from it?
argoVars == <<vars, workloads>>

AppSets == {k \in Children : k.kind = "ApplicationSet"}

ArgoInit == Init /\ workloads = [k \in AppSets |-> FALSE]

Deploy(k) ==
    /\ objects[k].phase = "live" /\ ~workloads[k]
    /\ workloads' = [workloads EXCEPT ![k] = TRUE]
    /\ UNCHANGED vars

Prune(k) ==
    /\ objects[k].phase = "absent" /\ workloads[k]
    /\ workloads' = [workloads EXCEPT ![k] = FALSE]
    /\ UNCHANGED vars

ArgoNext ==
    \/ Next /\ UNCHANGED workloads
    \/ \E k \in AppSets : Deploy(k) \/ Prune(k)

ArgoSpec == ArgoInit /\ [][ArgoNext]_argoVars

\* finalize: "Delete ApplicationSets first so Argo CD prunes the workloads
\* before the AppProject and namespaces are torn down": the pass that deletes
\* one of those finds the workloads pruned.
PrunedBeforeTornDown ==
    [][\A k \in Children :
          /\ OperatorStep
          /\ k.kind \in {"AppProject", "Namespace"}
          /\ objects[k].phase = "live" /\ objects'[k].phase # "live"
          => \A n \in DOMAIN snap.spec.environments :
                ~workloads[AppSetKey(cur, snap.spec.environments[n])]]_argoVars
===============================================================================
