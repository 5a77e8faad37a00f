----------------------------- MODULE MCTenantView -----------------------------
(***************************************************************************)
(* Instances of TenantView for TLC, with the tenants of                    *)
(* MCTenantController.                                                     *)
(***************************************************************************)
EXTENDS TenantView, MCTenantController
===============================================================================
