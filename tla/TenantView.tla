------------------------------ MODULE TenantView ------------------------------
(***************************************************************************)
(* The tenant page of the web UI, ui/src/lib/k8s.ts: a Tenant of the name  *)
(* asked for is found in the list of all namespaces, then one list per     *)
(* kind of object is asked for, all at once.                               *)
(* Every list shows a moment of its own.  The page is put together next to *)
(* a TenantController at work.                                             *)
(***************************************************************************)
EXTENDS TenantController

VARIABLE page   \* [name, of, raw, shown, left]: what was asked for, the Tenant found,
                \* the objects, the lists to come
viewVars == <<vars, page>>

ChildLists == {"AppProject", "ApplicationSet", "Namespace", "Secret", "ServiceAccount"}

NoPage == [name |-> "", of |-> None, raw |-> NoSnap, shown |-> {}, left |-> {}]

Ask(t) ==
    /\ page = NoPage
    /\ page' = [NoPage EXCEPT !.name = t.name, !.left = ChildLists \cup {"Tenant"}]

Namesake(t) == t.name = page.name /\ tenants[t].phase # "absent"

\* The first Tenant of that name, in whatever order the namespaces are listed;
\* when there is none, an error.
FindTenant ==
    /\ "Tenant" \in page.left
    /\ \/ \E t \in Tenants :
             /\ Namesake(t)
             /\ page' = [page EXCEPT !.of = t, !.raw = tenants[t], !.left = @ \ {"Tenant"}]
       \/ /\ \A t \in Tenants : ~Namesake(t)
          /\ page' = NoPage

\* The objects with the tenant's label.
Labelled(kind) ==
    {k \in Children : k.kind = kind /\ Present(k) /\ objects[k].data.owner = page.name}

\* Mutant: the Tenants are listed together with the objects.
ListChildrenAtOnce(kind) ==
    /\ kind \in page.left
    /\ page' = [page EXCEPT !.shown = @ \cup Labelled(kind), !.left = @ \ {kind}]

ListChildren(kind) ==
    /\ kind \in page.left
    /\ "Tenant" \notin page.left
    /\ page' = [page EXCEPT !.shown = @ \cup Labelled(kind), !.left = @ \ {kind}]

\* The page is rendered, or one of the lists fails and the others with it.
Leave == page # NoPage /\ page' = NoPage

ViewStep ==
    \/ \E t \in Tenants : Ask(t)
    \/ FindTenant
    \/ \E kind \in ChildLists : ListChildren(kind)
    \/ Leave

ViewInit == Init /\ page = NoPage
ViewNext == (Next /\ UNCHANGED page) \/ (ViewStep /\ UNCHANGED vars)
ViewSpec == ViewInit /\ [][ViewNext]_viewVars

\* A page that is complete, whose Tenant is Ready and still the one that is
\* stored, shows everything that Tenant has in the argocd namespace, although
\* its lists come from different moments.
PageIsWhole ==
    /\ page.of # None /\ page.left = {}
    /\ page.raw = tenants[page.of]
    /\ page.raw.phase = "live"
    /\ page.raw.reason = ReasonReconciled
    /\ page.raw.observed = page.raw.gen
    => \A k \in ChildKeys(page.of, page.raw.spec) :
          k.kind \in {"AppProject", "ApplicationSet"} => k \in page.shown
===============================================================================
